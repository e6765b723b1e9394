---------------------------- MODULE PacketCodec ----------------------------
(***************************************************************************)
(* The byte-level entry points of crates/telio-proto/src/packet/mod.rs:    *)
(* PacketType::from(u8), the dispatch of Packet::decode on the first byte, *)
(* and the two-byte identifiers PeerId and WGPort.                         *)
(*                                                                         *)
(* The message decoders Packet::decode dispatches to (DataMsg::decode,     *)
(* PingerMsg::decode, ...) live in files outside this repository; each is  *)
(* modelled as a call that may succeed or fail with an error of its own.   *)
(*                                                                         *)
(* The host byte order is a property of the build: std::mem::transmute     *)
(* reads a [u8; 2] in it.  The variable endian is chosen once, and every   *)
(* call runs on that host.                                                 *)
(***************************************************************************)
EXTENDS Integers, Sequences

CONSTANTS
  Bytes,      \* byte values the inputs are made of (a subset of 0..255)
  MAX_LEN     \* longest input slice

VARIABLES
  endian,     \* "little" or "big": the host of this build
  last        \* the last call: [fn, in, out]

vars == <<endian, last>>

\* The discriminants of #[repr(u8)] enum PacketType.
PacketType ==
  [Data |-> 0, GenData |-> 1, Heartbeat |-> 2, CallMeMaybeDeprecated |-> 3,
   PingerDeprecated |-> 4, Encrypted |-> 5, CallMeMaybe |-> 6, Pinger |-> 7,
   Reserved |-> 254, Invalid |-> 255]

\* Mutant: an unknown byte defaults to Data instead of Invalid.
PacketTypeFromDefaultData(val) ==
  IF \E n \in DOMAIN PacketType : PacketType[n] = val
  THEN CHOOSE n \in DOMAIN PacketType : PacketType[n] = val
  ELSE "Data"

\* From<u8>: from_repr(val).unwrap_or(Invalid).
PacketTypeFrom(val) ==
  IF \E n \in DOMAIN PacketType : PacketType[n] = val
  THEN CHOOSE n \in DOMAIN PacketType : PacketType[n] = val
  ELSE "Invalid"

\* Codec for Packet: the types a Packet can carry.
TYPES == {"Data", "GenData", "Heartbeat", "CallMeMaybeDeprecated",
          "PingerDeprecated", "CallMeMaybe", "Pinger"}

\* Mutant: the two CallMeMaybe arms of decode swapped.
VariantSwapped(t) ==
  CASE t = "GenData" -> "Data"
    [] t = "CallMeMaybe" -> "CallMeMaybeDeprecated"
    [] t = "CallMeMaybeDeprecated" -> "CallMeMaybe"
    [] OTHER -> t

\* The Packet variant each accepted type decodes into.
Variant(t) == IF t = "GenData" THEN "Data" ELSE t

Packet(v) == [packet |-> v]
Ok(v) == [id |-> v]
Err(e) == [err |-> e]

\* Packet::decode: the results it can return for bytes.  The message
\* decoder of the variant may accept the bytes or fail with its own error.
Decode(bytes) ==
  IF bytes = <<>> THEN {Err("InvalidLength")}
  ELSE LET t == PacketTypeFrom(bytes[1]) IN
       IF t \in {"Reserved", "Invalid", "Encrypted"} THEN {Err("DecodeFailed")}
       ELSE {Packet(Variant(t)), Err("MessageDecode")}

\* A u16 read from two bytes in the host's order (transmute).
Transmute(b0, b1, e) == IF e = "little" THEN b0 + 256 * b1 ELSE 256 * b0 + b1

\* u16::to_be: swaps the bytes on a little-endian host, nothing on a big one.
SwapBytes(x) == (x % 256) * 256 + x \div 256
ToBe(x, e) == IF e = "little" THEN SwapBytes(x) ELSE x

\* Mutant: transmute without .to_be().
PeerIdTryFromNative(other, e) ==
  IF Len(other) # 2 THEN Err("DecodeFailed")
  ELSE Ok(Transmute(other[1], other[2], e))

\* TryFrom<&[u8]> for PeerId.
PeerIdTryFrom(other, e) ==
  IF Len(other) # 2 THEN Err("DecodeFailed")
  ELSE Ok(ToBe(Transmute(other[1], other[2], e), e))

\* TryFrom<&[u8]> for WGPort: u16::from_be_bytes.
WGPortTryFrom(other) ==
  IF Len(other) # 2 THEN Err("DecodeFailed")
  ELSE Ok(256 * other[1] + other[2])

Inputs == UNION {[1..n -> Bytes] : n \in 0..MAX_LEN}

(***************************************************************************)
(* The encoding side.  A Packet holds one message; the From impls wrap a   *)
(* message in the variant of its type.  Packet::encode and packet_type     *)
(* forward to the message, whose codec is outside this repository: a       *)
(* message reports one of the types its codec owns (DataMsg: Data, or      *)
(* GenData when it carries a generation) and encodes as that type's byte   *)
(* followed by its payload, or fails.                                      *)
(***************************************************************************)
MessageTypes ==
  [Data |-> {"Data", "GenData"}, Heartbeat |-> {"Heartbeat"},
   CallMeMaybeDeprecated |-> {"CallMeMaybeDeprecated"},
   PingerDeprecated |-> {"PingerDeprecated"},
   CallMeMaybe |-> {"CallMeMaybe"}, Pinger |-> {"Pinger"}]

\* A message of the Packet variant v and the type it reports.
Messages == UNION {[variant : {v}, type : MessageTypes[v]] : v \in DOMAIN MessageTypes}

\* From<DataMsg> / From<HeartbeatMessage> / ... for Packet.
PacketFrom(m) == [packet |-> m.variant, msg |-> m]

\* Packet::packet_type: msg.packet_type() of the message it holds.
PacketTypeOf(p) == p.msg.type

\* Packet::encode: msg.encode() of the message it holds.
Encode(p) ==
  {Ok(<<PacketType[PacketTypeOf(p)]>> \o pl) : pl \in UNION {[1..n -> Bytes] : n \in 0..1}}
    \cup {Err("MessageEncode")}

Init ==
  /\ endian \in {"little", "big"}
  /\ last = [fn |-> "none"]

DecodePacket ==
  \E b \in Inputs : \E r \in Decode(b) :
    /\ last' = [fn |-> "Packet::decode", in |-> b, out |-> r]
    /\ UNCHANGED endian

DecodePeerId ==
  \E b \in Inputs :
    /\ last' = [fn |-> "PeerId::try_from", in |-> b, out |-> PeerIdTryFrom(b, endian)]
    /\ UNCHANGED endian

DecodeWGPort ==
  \E b \in Inputs :
    /\ last' = [fn |-> "WGPort::try_from", in |-> b, out |-> WGPortTryFrom(b)]
    /\ UNCHANGED endian

EncodePacket ==
  \E m \in Messages : \E r \in Encode(PacketFrom(m)) :
    /\ last' = [fn |-> "Packet::encode", in |-> PacketFrom(m), out |-> r]
    /\ UNCHANGED endian

Next == DecodePacket \/ DecodePeerId \/ DecodeWGPort \/ EncodePacket

Spec == Init /\ [][Next]_vars

(***************************************************************************)
(* Properties                                                              *)
(***************************************************************************)
\* The reference of the all_packet_types_are_covered test and of the
\* decode tests, on raw bytes: Packet::decode rejects the empty slice with
\* InvalidLength; a first byte that is not the discriminant of one of
\* Packet::TYPES with DecodeFailed; and otherwise returns the variant of
\* that type, or whatever error its message decoder reports.
AcceptedBytes == {PacketType[t] : t \in TYPES}
DecodeMatchesTypes ==
  last.fn = "Packet::decode" =>
    CASE last.in = <<>>                     -> last.out = Err("InvalidLength")
      [] last.in[1] \notin AcceptedBytes   -> last.out = Err("DecodeFailed")
      [] OTHER -> \E t \in TYPES : /\ PacketType[t] = last.in[1]
                                   /\ last.out \in {Packet(Variant(t)), Err("MessageDecode")}

\* spec.md section 9: the two-byte identifiers are read in network byte
\* order.  PeerId::try_from (transmute, then to_be) and
\* WGPort::try_from (from_be_bytes) both give b0 * 256 + b1 for a two-byte
\* slice on either host, and reject any other length.
NetworkOrder(b) == IF Len(b) = 2 THEN Ok(256 * b[1] + b[2]) ELSE Err("DecodeFailed")
IdsAreBigEndian ==
  last.fn \in {"PeerId::try_from", "WGPort::try_from"} => last.out = NetworkOrder(last.in)

\* Encode and decode agree on the type byte: the bytes Packet::encode
\* produces for a packet of any variant, holding a message of any type its
\* codec reports, are dispatched by Packet::decode back to that same
\* variant (or to the message's own decode error).  The two dispatch
\* tables, the From impls with encode, and the match in decode, are
\* written separately.
EncodeDecodeAgree ==
  last.fn = "Packet::encode" /\ "id" \in DOMAIN last.out =>
    Decode(last.out.id) = {Packet(last.in.packet), Err("MessageDecode")}
=============================================================================
