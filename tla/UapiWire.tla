------------------------------ MODULE UapiWire ------------------------------
(***************************************************************************)
(* Vocabulary shared by the UAPI response parser (UapiParser, translated   *)
(* from crates/telio-wg/src/uapi.rs) and its abstract specification        *)
(* (UapiSpec): the lines BufReader::read_line can hand the parser, the     *)
(* FromStr conversions applied to a value, and std::time::Duration.        *)
(*                                                                         *)
(* A value text is a sequence of symbols, so that dropping its last        *)
(* character (String::pop) is Front and every conversion is computed from  *)
(* the text, never looked up:                                              *)
(*   numbers         a sequence of decimal digits, e.g. <<5,1,8,2,0>>      *)
(*   keys            KEY_LEN symbols, the first naming the key: the code's *)
(*                   64 hex characters                                     *)
(*   endpoints       <<host>> \o port digits     ("10.0.0.1:51820")        *)
(*   allowed IPs     <<host>> \o prefix digits   ("10.0.0.1/32")           *)
(***************************************************************************)
EXTENDS Integers, Sequences, SequencesExt, TLC

CONSTANTS
  KeyIds,          \* keys (public and private) as model values
  Hosts,           \* IP addresses as model values
  KEY_LEN,         \* number of symbols of a key text (64 hex digits in the code)
  NANOS_PER_SEC,   \* 1_000_000_000: nanoseconds per second of a Duration
  U64_MAX,         \* u64::MAX, the largest u64 of the model (see ParseUnsigned)
  ClockError,      \* the SystemTimeError of SystemTime::now().duration_since
  None,            \* Option::None
  Invalid          \* the Err of a failed str::parse

ASSUME KEY_LEN \in Nat \ {0, 1}
ASSUME NANOS_PER_SEC \in Nat \ {0}
ASSUME U64_MAX \in Nat \ {0}

\* The keys of the response grammar; "protocol_version" stands for every
\* key the parser does not recognise.
InterfaceKeys == {"private_key", "listen_port", "fwmark", "errno", "public_key"}
PeerKeys == {"endpoint", "persistent_keepalive_interval", "allowed_ip",
             "rx_bytes", "tx_bytes", "last_handshake_time_nsec",
             "last_handshake_time_sec", "public_key", "errno"}
WireKeys == InterfaceKeys \cup PeerKeys \cup {"protocol_version"}

(***************************************************************************)
(* Lines as read_line delivers them: the end of the stream (Ok(0)), an     *)
(* empty line, a read error (invalid UTF-8: Err, the bytes are consumed),  *)
(* a line without '=', and key=value lines that may lack the final '\n'    *)
(* (only the last line of a stream can).                                   *)
(***************************************************************************)
EOF      == [kind |-> "eof"]
BLANK    == [kind |-> "blank"]
READ_ERR == [kind |-> "err"]
NO_EQ    == [kind |-> "noeq"]
KV(k, t, nl) == [kind |-> "kv", key |-> k, text |-> t, nl |-> nl]

\* A text of a well-formed key named id.
KeyText(id) == [i \in 1..KEY_LEN |-> IF i = 1 THEN id ELSE 0]

IsDecimal(t) == t # <<>> /\ \A i \in DOMAIN t : t[i] \in 0..9

Decimal(t) == FoldLeft(LAMBDA acc, d : 10 * acc + d, 0, t)

\* <uN as FromStr>::from_str.  TLC's integers are 32-bit, so u64 is scaled
\* down to 0..U64_MAX (it bounds the u64 fields and Duration's seconds
\* alike); texts of the model stay below 2^31, so a u32 never overflows.
ParseUnsigned(t, bits) ==
  IF /\ IsDecimal(t)
     /\ IF bits = 64 THEN Decimal(t) <= U64_MAX ELSE bits = 32 \/ Decimal(t) < 2^bits
  THEN Decimal(t)
  ELSE Invalid

\* <i32 as FromStr>::from_str on the non-negative texts of the model.
I32_MAX == 2147483647
ParseI32(t) == IF IsDecimal(t) /\ Decimal(t) <= I32_MAX THEN Decimal(t) ELSE Invalid

\* <PublicKey as FromStr> / <SecretKey as FromStr>: exactly 64 hex digits.
ParseKey(t) == IF \E id \in KeyIds : t = KeyText(id) THEN t[1] ELSE Invalid

\* <SocketAddr as FromStr>: an address, ':' and a u16 port.
ParseEndpoint(t) ==
  IF Len(t) >= 2 /\ t[1] \in Hosts /\ ParseUnsigned(Tail(t), 16) # Invalid
  THEN [ip |-> t[1], port |-> ParseUnsigned(Tail(t), 16)]
  ELSE Invalid

\* <IpNetwork as FromStr> for IPv4: an address, '/' and a prefix of at most 32.
ParseAllowedIp(t) ==
  IF Len(t) >= 2 /\ t[1] \in Hosts /\ ParseUnsigned(Tail(t), 8) \in 0..32
  THEN [ip |-> t[1], prefix |-> ParseUnsigned(Tail(t), 8)]
  ELSE Invalid

(***************************************************************************)
(* std::time::Duration: whole seconds and nanoseconds below one second.    *)
(***************************************************************************)
ZERO == [secs |-> 0, nanos |-> 0]
FromSecs(n)  == [secs |-> n, nanos |-> 0]
FromNanos(n) == [secs |-> n \div NANOS_PER_SEC, nanos |-> n % NANOS_PER_SEC]

DurationAdd(a, b) ==
  LET n == a.nanos + b.nanos
  IN  [secs |-> a.secs + b.secs + n \div NANOS_PER_SEC,
       nanos |-> n % NANOS_PER_SEC]

\* Duration += Duration panics ("overflow when adding durations") when the
\* seconds of the sum, with the carry of the nanoseconds, exceed u64::MAX.
AddOverflows(a, b) ==
  a.secs + b.secs + (a.nanos + b.nanos) \div NANOS_PER_SEC > U64_MAX

DurationLess(a, b) ==
  a.secs < b.secs \/ (a.secs = b.secs /\ a.nanos < b.nanos)

\* Duration::checked_sub: None when b is later than a.
CheckedSub(a, b) ==
  IF DurationLess(a, b) THEN None
  ELSE IF a.nanos >= b.nanos
       THEN [secs |-> a.secs - b.secs, nanos |-> a.nanos - b.nanos]
       ELSE [secs |-> a.secs - b.secs - 1,
             nanos |-> a.nanos + NANOS_PER_SEC - b.nanos]

\* Option<Duration> += Duration, as the peer parser accumulates the two
\* handshake fields.
AccumulateOpt(acc, d) == IF acc = None THEN d ELSE DurationAdd(acc, d)

(***************************************************************************)
(* Peer::calculate_time_since_last_handshake                               *)
(***************************************************************************)
CalculateTimeSinceLastHandshake(hs, now) ==
  IF hs = None \/ hs = ZERO THEN None
  ELSE IF now = ClockError THEN None
  ELSE CheckedSub(now, hs)

\* A telio Peer with only its public key set (Peer { public_key, ..default }).
NewPeer(pk) ==
  [public_key |-> pk, endpoint |-> None, persistent_keepalive_interval |-> None,
   allowed_ips |-> <<>>, rx_bytes |-> None, tx_bytes |-> None,
   time_since_last_handshake |-> None]

\* Interface::default(): no keys, no port, fwmark 0, no peers.
EmptyInterface ==
  [private_key |-> None, listen_port |-> None, fwmark |-> 0,
   peers |-> [k \in {} |-> None]]

\* BTreeMap::insert: a peer replaces any earlier one with the same key.
InsertPeer(peers, p) == (p.public_key :> p) @@ peers
=============================================================================
