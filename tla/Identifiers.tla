----------------------------- MODULE Identifiers -----------------------------
(***************************************************************************)
(* What PDM recognises a machine by: the addresses of its network adapters *)
(* (GetNetworkAdapterInfo) and its UUID (GetMachineUuid), each reported as *)
(* text and as bytes.  The adapters are asked for twice, first for the     *)
(* size of the list and then for the list, and the network may change in   *)
(* between; the UUID is whatever text the registry holds, read anew for    *)
(* its text and for its bytes.                                             *)
(***************************************************************************)
EXTENDS Integers, Sequences, SequencesExt

CONSTANTS
  Networks,     \* the lists of adapters there can be: see Adapter
  Registries,   \* the texts MachineGuid can be
  MacBytes,     \* bytes of an address (6)
  UuidBytes,    \* bytes of a UUID (16)
  MaxChanges,   \* bound: how often the network changes
  Unasked       \* nothing has been answered yet

VARIABLES
  network,      \* the adapters of the machine, as the system lists them
  changes,      \* how often that has changed
  at,           \* "idle", or "sized" between the two calls
  before,       \* the network at the first call, whose size it told
  adapters,     \* what GetNetworkAdapterInfo answered last
  registry,     \* MachineGuid, in capitals; <<>> if it is missing or no text
  uuid          \* the text and the bytes answered last, and what the latter were read from

idVars == <<network, changes, at, before, adapters, registry, uuid>>

\* Characters: 0 .. 15 is a hexadecimal digit.
Colon == 16
Dash  == 17
Open  == 18
Close == 19
Plus  == 20
Blank == 21
Other == 22
Digit(c) == c \in 0 .. 15
Text == Seq(0 .. 22)

\* AdapterName: a GUID in braces.
Name == {name \in Text : /\ Len(name) >= 2 /\ name[1] = Open /\ Last(name) = Close
                         /\ \A k \in 2 .. Len(name) - 1 : name[k] \notin {Open, Close}}

\* physical: PhysicalAddress; room: the bytes of its entry in the list.
Adapter == [physical : Seq(0 .. 255), loopback : BOOLEAN, name : Name, room : Nat \ {0}]

ASSUME IdentifiersAssumption ==
  /\ MacBytes \in Nat \ {0} /\ UuidBytes \in Nat \ {0} /\ MaxChanges \in Nat
  /\ \A n \in Networks : n \in Seq(Adapter) /\ \A i \in DOMAIN n : Len(n[i].physical) = MacBytes
  /\ Registries \subseteq Text

\* What is left of a list if only these positions of it are kept.
Kept(list, positions) ==
  LET upTo[n \in 0 .. Len(list)] ==
        IF n = 0 THEN <<>>
        ELSE IF n \in positions THEN Append(upTo[n - 1], list[n]) ELSE upTo[n - 1]
  IN  upTo[Len(list)]

-----------------------------------------------------------------------------
(* HexStringToByteArray (utilities.cpp).                                   *)

\* stoi(two characters, nullptr, 16): blanks and a plus are skipped, and what
\* follows the digits is ignored.  (A minus has been removed before.)
Invalid == -1
Stoi(a, b) ==
  CASE Digit(a) /\ Digit(b)             -> 16 * a + b
    [] Digit(a) /\ ~Digit(b)            -> a
    [] a \in {Plus, Blank} /\ Digit(b)  -> b
    [] OTHER                            -> Invalid

Significant(text) == Kept(text, {k \in DOMAIN text : text[k] \notin {Colon, Dash}})

HexStringToByteArray(text, byteCount) ==
  LET str   == Significant(text)
      bytes == [i \in 1 .. byteCount |-> Stoi(str[2 * i - 1], str[2 * i])]
  IN  IF Len(str) # byteCount * 2 \/ Contains(bytes, Invalid) THEN <<>> ELSE bytes

\* std::hex of a byte, with a zero in front if (val <= 0xf).
\* (Mutation: if (val < 0xf).)
PaddedLess(val) == IF val < 15 THEN <<0, val>>
                   ELSE IF val = 15 THEN <<val>> ELSE <<val \div 16, val % 16>>
Hex(val) == IF val <= 15 THEN <<0, val>> ELSE <<val \div 16, val % 16>>

MacText(mac) ==
  FlattenSeq([i \in 1 .. Len(mac) |-> (IF i > 1 THEN <<Colon>> ELSE <<>>) \o Hex(mac[i])])

\* uuid.rfind("{") == 0 and the last character is a brace: both are cut off.
WithoutBraces(name) ==
  IF /\ name # <<>> /\ name[1] = Open /\ Last(name) = Close
     /\ \A i \in 2 .. Len(name) : name[i] # Open
  THEN SubSeq(name, 2, Len(name) - 1)
  ELSE name

-----------------------------------------------------------------------------
(* GetNetworkAdapterInfo; GetAdaptersAddresses fails for no other reason.   *)
Room(list) ==
  LET upTo[n \in 0 .. Len(list)] == IF n = 0 THEN 0 ELSE upTo[n - 1] + list[n].room
  IN  upTo[Len(list)]

\* hasPhysical, and no loopback.  (Mutation: the first byte decides.)
FirstByteDecides(a) == ~a.loopback /\ a.physical[1] # 0
Reported(a) == ~a.loopback /\ \E i \in DOMAIN a.physical : a.physical[i] # 0

\* The loop over the list.
Listed(list) ==
  LET kept == Kept(list, {k \in DOMAIN list : Reported(list[k])})
  IN  [i \in DOMAIN kept |->
         LET id == WithoutBraces(kept[i].name)
         IN  [mac |-> MacText(kept[i].physical), macBytes |-> kept[i].physical,
              uuid |-> id, uuidBytes |-> HexStringToByteArray(id, UuidBytes)]]

IdInit ==
  /\ network \in Networks
  /\ changes = 0
  /\ at = "idle"
  /\ before = network
  /\ adapters = Unasked
  /\ registry \in Registries \cup {<<>>}
  /\ uuid = [text |-> Unasked, read |-> Unasked, bytes |-> Unasked]

Replug ==
  /\ changes < MaxChanges
  /\ changes' = changes + 1
  /\ network' \in Networks \ {network}
  /\ UNCHANGED <<at, before, adapters, registry, uuid>>

\* The first call: an empty list ends it, everything else is an overflow.
AskSize ==
  /\ at = "idle"
  /\ before' = network
  /\ IF network = <<>>
     THEN adapters' = <<>> /\ UNCHANGED at
     ELSE at' = "sized" /\ UNCHANGED adapters
  /\ UNCHANGED <<network, changes, registry, uuid>>

\* The second call: a list that has outgrown the buffer, or is gone, ends it.
Fill ==
  /\ at = "sized"
  /\ at' = "idle"
  /\ adapters' = IF Room(network) > Room(before) \/ network = <<>> THEN <<>> ELSE Listed(network)
  /\ UNCHANGED <<network, changes, before, registry, uuid>>

\* GetMachineUuidString: what a read of the registry gives; "" if the key cannot be
\* opened or the value not be read.
Reads == {registry, <<>>}

AskMachineUuidString ==
  /\ at = "idle"
  /\ \E text \in Reads : uuid' = [uuid EXCEPT !.text = text]
  /\ UNCHANGED <<network, changes, at, before, adapters, registry>>

\* GetMachineUuid: a read of its own, turned into bytes.
AskMachineUuid ==
  /\ at = "idle"
  /\ \E text \in Reads :
       uuid' = [uuid EXCEPT !.read = text, !.bytes = HexStringToByteArray(text, UuidBytes)]
  /\ UNCHANGED <<network, changes, at, before, adapters, registry>>

IdNext == Replug \/ AskSize \/ Fill \/ AskMachineUuidString \/ AskMachineUuid

IdSpec == IdInit /\ [][IdNext]_idVars

-----------------------------------------------------------------------------
\* The adapters reported are those of one moment of the call, whole, in order and
\* without the loopback; and none at all only if there are none to report, or the
\* list outgrew its buffer between the two calls.
Wanted(list) ==
  Kept(list, {k \in DOMAIN list : /\ ~list[k].loopback
                                  /\ list[k].physical # [i \in 1 .. MacBytes |-> 0]})
Told(answer) ==
  \/ [i \in DOMAIN answer |-> answer[i].macBytes]
       = [i \in DOMAIN Wanted(network) |-> Wanted(network)[i].physical]
  \/ answer = <<>> /\ (network = <<>> \/ Room(network) > Room(before))
OneMoment == [][at = "sized" /\ at' = "idle" => Told(adapters')]_idVars

\* Text and bytes of an identifier never name different machines: a MAC address
\* reads back as its bytes, the braces of an adapter's name are no part of its
\* UUID, and a UUID of the right number of digits gives just the bytes it
\* spells.  (Other text gives nothing, or bytes that spell something else: stoi
\* takes "+f" for 15.)  The text and the bytes of the machine's UUID are two reads of
\* the registry; they agree if neither has failed.
Spells(bytes, text) ==
  LET str == Significant(text)
  IN  (\A i \in DOMAIN str : Digit(str[i])) =>
        IF Len(str) = 2 * UuidBytes
        THEN FlattenSeq([i \in DOMAIN bytes |-> <<bytes[i] \div 16, bytes[i] % 16>>]) = str
        ELSE bytes = <<>>
TextMatchesBytes ==
  /\ adapters # Unasked =>
       \A i \in DOMAIN adapters :
         LET a == adapters[i]
         IN  /\ HexStringToByteArray(a.mac, MacBytes) = a.macBytes
             /\ Spells(a.uuidBytes, a.uuid)
             /\ \A k \in DOMAIN a.uuid : a.uuid[k] \notin {Open, Close}
  /\ uuid.bytes # Unasked =>
       /\ Len(uuid.bytes) \in {0, UuidBytes}
       /\ uuid.text \notin {Unasked, <<>>} /\ uuid.read # <<>> =>
            Spells(uuid.bytes, uuid.text)
=============================================================================
