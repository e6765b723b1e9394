---------------------------- MODULE MCUapiParser ----------------------------
(***************************************************************************)
(* Model-checking instance of UapiParser: the value texts each key may     *)
(* carry, the wall clock, and the refinement mapping onto UapiSpec.        *)
(***************************************************************************)
EXTENDS UapiParser

CONSTANTS kA, kB, h1, h2

\* Decimal digits of n, most significant first (the text "n").
RECURSIVE Digits(_)
Digits(n) == IF n < 10 THEN <<n>> ELSE Digits(n \div 10) \o <<n % 10>>

\* The wall clock in seconds since UNIX_EPOCH.  The tests use 1646405984;
\* only differences of clock values matter to the parser, and a smaller
\* value keeps sums of repeated handshake fields below TLC's 2^31.
MOCK_UNIX_TIME == 1000

MCKeyIds == {kA, kB}
MCHosts  == {h1, h2}
MCOtherLines == {READ_ERR, NO_EQ}

\* Texts that fail to parse: a key one symbol short, an empty number,
\* an endpoint without port, a prefix longer than 32.
BadKey == <<kA>>
BadNumber == <<>>

\* Structure run: interface keys, several peers, every arm of both loops,
\* and a malformed value for every key.
StructureTexts ==
  [k \in WireKeys |->
     CASE k = "private_key"  -> {KeyText(kA), BadKey}
       [] k = "listen_port"  -> {Digits(0), Digits(51820), Digits(70000)}
       [] k = "fwmark"       -> {Digits(42), BadNumber}
       [] k = "errno"        -> {Digits(0), Digits(22), BadNumber}
       [] k = "public_key"   -> {KeyText(kA), KeyText(kB), BadKey}
       [] k = "endpoint"     -> {<<h1>> \o Digits(51820), <<h2>>}
       [] k = "persistent_keepalive_interval" -> {Digits(25), BadNumber}
       [] k = "allowed_ip"   -> {<<h1>> \o Digits(32), <<h2>> \o Digits(8),
                                 <<h1>> \o Digits(33)}
       [] k \in {"rx_bytes", "tx_bytes"} -> {Digits(100), BadNumber}
       [] k = "protocol_version" -> {Digits(1)}
       [] OTHER              -> {}]

\* Handshake run: two peers and the handshake fields around the 180s
\* rejection deadline, a handshake in the future, zero, a nanosecond
\* field of more than one second, and a malformed value.
HandshakeTexts ==
  [k \in WireKeys |->
     CASE k = "public_key" -> {KeyText(kA), KeyText(kB)}
       [] k = "errno"      -> {Digits(0)}
       [] k = "last_handshake_time_sec" ->
            {Digits(0), Digits(MOCK_UNIX_TIME - 181), Digits(MOCK_UNIX_TIME + 1),
             BadNumber}
       [] k = "last_handshake_time_nsec" ->
            {Digits(0), Digits(667000000), Digits(1500000000), BadNumber}
       [] OTHER            -> {}]

\* The vocabulary of a well-formed device response, without malformed
\* values: the runs that show a divergence use it, so that the divergence
\* is not a matter of bad input.
ResponseTexts ==
  [k \in WireKeys |->
     CASE k = "private_key"  -> {KeyText(kA)}
       [] k = "listen_port"  -> {Digits(0), Digits(51820)}
       [] k = "fwmark"       -> {Digits(0)}
       [] k = "errno"        -> {Digits(0)}
       [] k = "public_key"   -> {KeyText(kA), KeyText(kB)}
       [] k = "endpoint"     -> {<<h1>> \o Digits(51820)}
       [] k = "persistent_keepalive_interval" -> {Digits(25)}
       [] k = "allowed_ip"   -> {<<h1>> \o Digits(32)}
       [] k = "protocol_version" -> {Digits(1)}
       [] OTHER              -> {}]

\* Overflow run: u64 scaled to 0..U64_MAX and a second of NANOS_PER_SEC
\* nanoseconds, both from the cfg.  The seconds field is u64::MAX and the
\* nanosecond field one and a half seconds (a valid u64 the device may
\* send), each well-formed; the cfg lets each key occur once, so the
\* overflow comes from the two fields together, not from a repetition.
OverflowTexts ==
  [k \in WireKeys |->
     CASE k = "public_key" -> {KeyText(kA)}
       [] k = "last_handshake_time_sec" -> {Digits(U64_MAX)}
       [] k = "last_handshake_time_nsec" -> {Digits((3 * NANOS_PER_SEC) \div 2)}
       [] OTHER            -> {}]

MCClock == {FromSecs(MOCK_UNIX_TIME),
            [secs |-> MOCK_UNIX_TIME, nanos |-> NANOS_PER_SEC \div 2]}

\* The handshake run's clock: the two readings, and a clock whose
\* duration_since(UNIX_EPOCH) fails (uapi.rs:262-264).
MCHandshakeClock == MCClock \cup {ClockError}

(***************************************************************************)
(* Refinement mapping: the code is in the spec's Done state as soon as it  *)
(* has left a peer block, because every way out of parse_peer ends the    *)
(* response in the spec.                                                   *)
(***************************************************************************)
AbsMode ==
  CASE pc = "panicked" -> "Violation"
    [] pc = "done"     -> "Done"
    [] pc = "peer"     -> "ReadingPeer"
    [] DOMAIN interface.peers # {} -> "Done"
    [] OTHER           -> "ReadingInterface"

Abstract == INSTANCE UapiSpec WITH mode <- AbsMode, hs <- lht

\* The parser implements the specification's two-state machine: every line
\* the code reads changes the Response exactly as spec.md sections 4.1/4.2
\* say, including peer hand-over on public_key and the end of the response.
ImplementsUapiSpec == Abstract!Spec
=============================================================================
