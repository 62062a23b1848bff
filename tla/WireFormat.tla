------------------------------ MODULE WireFormat -----------------------------
(***************************************************************************)
(* The telemetry datagram: serialize and deserialize of the C++ protocol   *)
(* library and decodeTelemetry of the streaming server.                    *)
(*                                                                         *)
(* A byte is symbolic: which scalar of the packet it belongs to and its    *)
(* shift in it.  Both decoders are run over the same bytes, the C++ one    *)
(* with its moving offset, the TypeScript one with its literal offsets,    *)
(* and what each puts in a field is compared with what was serialized.     *)
(* Only what the decoders test or convert has a value: the magic, the      *)
(* version, the phase, whether a number is finite and whether a double     *)
(* holds the timestamp.                                                    *)
(*                                                                         *)
(* CRC-32 is represented by what it guarantees over this length: it        *)
(* detects every change confined to one byte.  Between serialize and a     *)
(* decoder the network damages at most one byte.                           *)
(***************************************************************************)
EXTENDS Integers, Sequences

CONSTANTS
  Magics, Versions, \* the magic numbers and versions senders use
  PhaseBytes,       \* the values senders put in the phase byte
  Sizes             \* sizes of datagrams that do not come from serialize

ASSUME SizesAssumption == Sizes \subseteq Nat

VARIABLES
  telemetry,  \* what the sender serialized, or NoTelemetry
  datagram,   \* its bytes on the way, or <<>>
  cpp, ts     \* what deserialize and decodeTelemetry returned, or NoResult

wireVars == <<telemetry, datagram, cpp, ts>>

kTelemetryMagic == "FDX1"
kTelemetryVersion == 2
kTelemetryPacketSize == 163
kCrcOffset == 159

(* The streaming server's own copies.                                      *)
TELEMETRY_MAGIC == "FDX1"
TELEMETRY_VERSION == 2
TELEMETRY_PACKET_SIZE == 163
CRC_OFFSET == 159

(***************************************************************************)
(* The members of Telemetry and the three numbers the protocol adds: how   *)
(* many numbers each is and the bytes of one.                              *)
(***************************************************************************)
Numeric(components, width) == [components |-> components, width |-> width]

Types == [
  magic |-> Numeric(1, 4), version |-> Numeric(1, 2), crc32 |-> Numeric(1, 4),
  sequence |-> Numeric(1, 4), timestamp_us |-> Numeric(1, 8), mission_phase |-> Numeric(1, 1),
  position_m |-> Numeric(3, 8), velocity_mps |-> Numeric(3, 8),
  orientation_wxyz |-> Numeric(4, 4),
  thrust_percent |-> Numeric(1, 4), chamber_pressure_mpa |-> Numeric(1, 4),
  gimbal_command_deg |-> Numeric(2, 4), grid_fin_command_deg |-> Numeric(2, 4),
  fault_flags |-> Numeric(1, 4),
  truth_position_m |-> Numeric(3, 8), truth_velocity_mps |-> Numeric(3, 8)]

FieldNames == DOMAIN Types \ {"magic", "version", "crc32"}

SizeOf(name) == Types[name].components * Types[name].width

(* The orders in which serialize writes and deserialize reads.             *)
WriteOrder == <<
  "magic", "version", "sequence", "timestamp_us", "mission_phase", "position_m",
  "velocity_mps", "orientation_wxyz", "thrust_percent", "chamber_pressure_mpa",
  "gimbal_command_deg", "grid_fin_command_deg", "fault_flags", "truth_position_m",
  "truth_velocity_mps", "crc32">>

ReadOrder == <<
  "sequence", "timestamp_us", "mission_phase", "position_m", "velocity_mps",
  "orientation_wxyz", "thrust_percent", "chamber_pressure_mpa", "gimbal_command_deg",
  "grid_fin_command_deg", "fault_flags", "truth_position_m", "truth_velocity_mps">>

(* The fields decodeTelemetry requires to be finite.                       *)
Numbers == FieldNames \ {"sequence", "timestamp_us", "mission_phase", "fault_flags"}

(* What is tested or converted of a packet, as the sender sets it; at most *)
(* one number is not finite.  timeFits: whether timestamp_us is at most    *)
(* 2^53 (285 years), so that a double is sure to hold it.                  *)
Telemetries == [magic : Magics, version : Versions, phase : PhaseBytes,
                notFinite : Numbers \cup {"none"}, timeFits : BOOLEAN]

NoTelemetry == [magic |-> "none"]
NoResult == [error |-> "not run"]

WireInit == telemetry = NoTelemetry /\ datagram = <<>> /\ cpp = NoResult /\ ts = NoResult

-----------------------------------------------------------------------------
(***************************************************************************)
(* Writing and reading.                                                    *)
(***************************************************************************)
Byte(name, component, shift) ==
  [name |-> name, component |-> component, shift |-> shift, damage |-> "no"]

(* Big-endian: the most significant byte first.                            *)
write_unsigned(name, component, width) ==
  [i \in 1 .. width |-> Byte(name, component, 8 * (width - i))]

(* The numbers of one member follow each other.                            *)
WriteMember(name) ==
  LET width == Types[name].width
  IN [k \in 1 .. SizeOf(name) |->
        write_unsigned(name, (k - 1) \div width + 1, width)[((k - 1) % width) + 1]]

(* The output after the first n members.                                   *)
Written[n \in 0 .. Len(WriteOrder)] ==
  IF n = 0 THEN <<>> ELSE Written[n - 1] \o WriteMember(WriteOrder[n])

serialize == Written[Len(WriteOrder)]

(* The scalar read from width bytes at offset: its name and component, or  *)
(* "garbage" if the bytes are not those of one scalar in order.            *)
Garbage == <<"garbage", 0>>
read_unsigned(bytes, offset, width) ==
  LET first == bytes[offset + 1]
  IN IF \A i \in 1 .. width :
          bytes[offset + i] = Byte(first.name, first.component, 8 * (width - i))
     THEN <<first.name, first.component>> ELSE Garbage

(* The CRC of the first crcOffset bytes is the number read after them.     *)
ChecksumMatches_OneByteShort(bytes, crcOffset) ==
  /\ \A i \in 1 .. crcOffset - 1 : bytes[i].damage = "no"
  /\ read_unsigned(bytes, crcOffset, 4) = <<"crc32", 1>>
ChecksumMatches(bytes, crcOffset) ==
  /\ \A i \in 1 .. crcOffset : bytes[i].damage = "no"
  /\ read_unsigned(bytes, crcOffset, 4) = <<"crc32", 1>>

(* The offset at which deserialize reads its n-th member: it has advanced  *)
(* over the magic, the version and the members before.                     *)
ReadOffset[n \in 1 .. Len(ReadOrder) + 1] ==
  IF n = 1 THEN SizeOf("magic") + SizeOf("version")
           ELSE ReadOffset[n - 1] + SizeOf(ReadOrder[n - 1])

ReadFields(bytes) ==
  [name \in FieldNames |->
     LET n == CHOOSE m \in DOMAIN ReadOrder : ReadOrder[m] = name
     IN [c \in 1 .. Types[name].components |->
           read_unsigned(bytes, ReadOffset[n] + (c - 1) * Types[name].width,
                         Types[name].width)]]

Rejected(error) == [error |-> error]

(* A damaged magic or version is another number: one nobody uses, or, of   *)
(* an older or newer packet, the current one.                              *)
MagicRead(bytes) ==
  IF read_unsigned(bytes, 0, 4) = <<"magic", 1>> THEN telemetry.magic
  ELSE IF \E i \in 1 .. 4 : bytes[i].damage = "to_current" THEN kTelemetryMagic
  ELSE "garbage"
VersionRead(bytes) ==
  IF read_unsigned(bytes, 4, 2) = <<"version", 1>> THEN telemetry.version
  ELSE IF \E i \in 5 .. 6 : bytes[i].damage = "to_current" THEN kTelemetryVersion
  ELSE 0

deserialize(bytes) ==
  IF Len(bytes) # kTelemetryPacketSize THEN Rejected("wrong_size")
  ELSE IF MagicRead(bytes) # kTelemetryMagic THEN Rejected("wrong_magic")
  ELSE IF VersionRead(bytes) # kTelemetryVersion THEN Rejected("unsupported_version")
  ELSE IF ~ChecksumMatches(bytes, kCrcOffset) THEN Rejected("checksum_mismatch")
  ELSE [error |-> "none", fields |-> ReadFields(bytes)]

(***************************************************************************)
(* decodeTelemetry reads each field at a literal offset (telemetry.ts).    *)
(***************************************************************************)
Read(width, offsets) == [width |-> width, offsets |-> offsets]

TsReads_SwappedCommands == [
  sequence |-> Read(4, <<6>>), timestamp_us |-> Read(8, <<10>>),
  mission_phase |-> Read(1, <<18>>),
  position_m |-> Read(8, <<19, 27, 35>>), velocity_mps |-> Read(8, <<43, 51, 59>>),
  orientation_wxyz |-> Read(4, <<67, 71, 75, 79>>),
  thrust_percent |-> Read(4, <<83>>), chamber_pressure_mpa |-> Read(4, <<87>>),
  gimbal_command_deg |-> Read(4, <<99, 103>>), grid_fin_command_deg |-> Read(4, <<91, 95>>),
  fault_flags |-> Read(4, <<107>>),
  truth_position_m |-> Read(8, <<111, 119, 127>>),
  truth_velocity_mps |-> Read(8, <<135, 143, 151>>)]
TsReads == [
  sequence |-> Read(4, <<6>>), timestamp_us |-> Read(8, <<10>>),
  mission_phase |-> Read(1, <<18>>),
  position_m |-> Read(8, <<19, 27, 35>>), velocity_mps |-> Read(8, <<43, 51, 59>>),
  orientation_wxyz |-> Read(4, <<67, 71, 75, 79>>),
  thrust_percent |-> Read(4, <<83>>), chamber_pressure_mpa |-> Read(4, <<87>>),
  gimbal_command_deg |-> Read(4, <<91, 95>>), grid_fin_command_deg |-> Read(4, <<99, 103>>),
  fault_flags |-> Read(4, <<107>>),
  truth_position_m |-> Read(8, <<111, 119, 127>>),
  truth_velocity_mps |-> Read(8, <<135, 143, 151>>)]

missionPhases == 0 .. 5

(* The phase byte was covered by the checksum when it is tested.           *)
PhaseRead(bytes) ==
  IF read_unsigned(bytes, 18, 1) = <<"mission_phase", 1>> THEN telemetry.phase ELSE 255

SanityError(bytes) ==
  IF PhaseRead(bytes) \notin missionPhases THEN "invalid_phase"
  ELSE IF telemetry.notFinite \in Numbers THEN "invalid_number" ELSE "none"

(* Number(getBigUint64()) rounds what a double does not hold; the other    *)
(* numbers are read as what they are.                                      *)
Rounded == <<"rounded", 1>>
TsNumber(bytes, name, c) ==
  IF name = "timestamp_us" /\ ~telemetry.timeFits THEN Rounded
  ELSE read_unsigned(bytes, TsReads[name].offsets[c], TsReads[name].width)

SampleRead(bytes) ==
  [name \in FieldNames |->
     [c \in DOMAIN TsReads[name].offsets |-> TsNumber(bytes, name, c)]]

decodeTelemetry_ChecksumFirst(bytes) ==
  IF Len(bytes) # TELEMETRY_PACKET_SIZE THEN Rejected("wrong_size")
  ELSE IF ~ChecksumMatches(bytes, CRC_OFFSET) THEN Rejected("checksum_mismatch")
  ELSE IF MagicRead(bytes) # TELEMETRY_MAGIC THEN Rejected("wrong_magic")
  ELSE IF VersionRead(bytes) # TELEMETRY_VERSION THEN Rejected("unsupported_version")
  ELSE IF SanityError(bytes) # "none" THEN Rejected(SanityError(bytes))
  ELSE [error |-> "none", fields |-> SampleRead(bytes)]
decodeTelemetry(bytes) ==
  IF Len(bytes) # TELEMETRY_PACKET_SIZE THEN Rejected("wrong_size")
  ELSE IF MagicRead(bytes) # TELEMETRY_MAGIC THEN Rejected("wrong_magic")
  ELSE IF VersionRead(bytes) # TELEMETRY_VERSION THEN Rejected("unsupported_version")
  ELSE IF ~ChecksumMatches(bytes, CRC_OFFSET) THEN Rejected("checksum_mismatch")
  ELSE IF SanityError(bytes) # "none" THEN Rejected(SanityError(bytes))
  ELSE [error |-> "none", fields |-> SampleRead(bytes)]

-----------------------------------------------------------------------------
(* A program serializes a packet: the simulator, or one of another version *)
(* or with other ideas of a sane field.                                    *)
Sends ==
  /\ datagram = <<>> /\ cpp = NoResult
  /\ telemetry' \in Telemetries
  /\ datagram' = serialize
  /\ UNCHANGED <<cpp, ts>>

(* Something else sends to the port.                                       *)
ForeignSends(size) ==
  /\ datagram = <<>> /\ cpp = NoResult
  /\ datagram' = [i \in 1 .. size |-> Byte("foreign", 1, 0)]
  /\ UNCHANGED <<telemetry, cpp, ts>>

(* One byte arrives changed.                                               *)
Damages(i, damage) ==
  /\ cpp = NoResult /\ i \in DOMAIN datagram
  /\ \A j \in DOMAIN datagram : datagram[j].damage = "no"
  /\ damage = "to_current" =>
       \/ datagram[i].name = "magic" /\ telemetry.magic # kTelemetryMagic
       \/ datagram[i].name = "version" /\ telemetry.version # kTelemetryVersion
  /\ datagram' = [datagram EXCEPT ![i].damage = damage]
  /\ UNCHANGED <<telemetry, cpp, ts>>

(* Both receivers get the datagram.                                        *)
Arrives ==
  /\ cpp = NoResult
  /\ cpp' = deserialize(datagram)
  /\ ts' = decodeTelemetry(datagram)
  /\ UNCHANGED <<telemetry, datagram>>

WireNext ==
  \/ Sends
  \/ \E size \in Sizes : ForeignSends(size)
  \/ \E i \in 1 .. kTelemetryPacketSize, damage \in {"other", "to_current"} : Damages(i, damage)
  \/ Arrives

WireSpec == WireInit /\ [][WireNext]_wireVars

-----------------------------------------------------------------------------
Run == cpp # NoResult

(* What a receiver should hold of the packet serialized.                   *)
Serialized ==
  [name \in FieldNames |-> [c \in 1 .. Types[name].components |-> <<name, c>>]]

Intact == datagram = serialize

Current == telemetry.magic = kTelemetryMagic /\ telemetry.version = kTelemetryVersion

Sane == telemetry.phase \in missionPhases /\ telemetry.notFinite = "none"

(***************************************************************************)
(* A packet of the current version that arrives unchanged is accepted by   *)
(* both receivers unless a field of it is not sane, and every field holds  *)
(* the number that was serialized in it, although one receiver advances an *)
(* offset and the other has the offsets written out.  The streaming        *)
(* server's timestampUs, a double, holds it up to 2^53 microseconds.       *)
(***************************************************************************)
RoundTrip ==
  (Run /\ telemetry # NoTelemetry /\ Intact /\ Current) =>
    /\ cpp.error = "none" /\ cpp.fields = Serialized
    /\ IF Sane
         THEN /\ ts.error = "none" /\ DOMAIN ts.fields = FieldNames
              /\ \A name \in FieldNames : (name = "timestamp_us" => telemetry.timeFits) =>
                   ts.fields[name] = Serialized[name]
         ELSE ts.error \in {"invalid_phase", "invalid_number"}

(***************************************************************************)
(* Nothing else is accepted by either: no changed byte, foreign datagram,  *)
(* wrong size or other version gets through ("Unknown versions are         *)
(* rejected and counted", protocol/telemetry.md).                          *)
(***************************************************************************)
OnlyIntactAccepted ==
  (Run /\ (cpp.error = "none" \/ ts.error = "none")) =>
    telemetry # NoTelemetry /\ Intact /\ Current

(***************************************************************************)
(* The two receivers give the same reason for a rejection; the streaming   *)
(* server rejects more only for the fields it checks after the checksum.   *)
(***************************************************************************)
SameVerdict ==
  Run => \/ cpp.error = ts.error
         \/ cpp.error = "none" /\ ts.error \in {"invalid_phase", "invalid_number"}
=============================================================================
