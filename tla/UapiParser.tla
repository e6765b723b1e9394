----------------------------- MODULE UapiParser -----------------------------
(***************************************************************************)
(* The UAPI response parser of crates/telio-wg/src/uapi.rs:               *)
(* response_from_read (the loop over interface-level lines) and parse_peer *)
(* (the loop over one peer block), with Peer::                             *)
(* calculate_time_since_last_handshake applied when a peer block ends.     *)
(*                                                                         *)
(* pc is where the code is: "outer" = the while loop of response_from_read, *)
(* "peer" = the loop of parse_peer, "done" = returned a Response,          *)
(* "panicked" = an unwrap or assert_eq failed.  One step reads one line    *)
(* and runs the whole match arm for it, including the insertion into the   *)
(* peer map and the handshake calculation when parse_peer breaks.          *)
(*                                                                         *)
(* The stream is the environment: it hands the parser any line of Lines,   *)
(* at most MAX_LINES of them, then only EOF.  With TERMINATED every line   *)
(* ends in '\n'; with TRAILING, lines may still follow a line that ends    *)
(* the response (a blank line, or errno inside a peer block).              *)
(***************************************************************************)
EXTENDS UapiWire

CONSTANTS
  Texts,        \* Texts[k]: the value texts the stream may carry for key k
  Clock,        \* values SystemTime::now().duration_since(UNIX_EPOCH) may take
  OtherLines,   \* lines of kind READ_ERR or NO_EQ the stream may carry
  MAX_LINES,    \* bound on the length of the stream
  TERMINATED,   \* every line ends in '\n'
  TRAILING,     \* lines may follow the end of the response
  UNIQUE_KEYS   \* keys the stream carries at most once

ASSUME DOMAIN Texts = WireKeys
ASSUME OtherLines \subseteq {READ_ERR, NO_EQ}
ASSUME MAX_LINES \in Nat
ASSUME TERMINATED \in BOOLEAN /\ TRAILING \in BOOLEAN
ASSUME UNIQUE_KEYS \subseteq WireKeys

VARIABLES
  pc,         \* "outer" | "peer" | "done" | "panicked"
  interface,  \* the Interface being built (response_from_read: interface)
  inited,     \* response_from_read: inited
  errno,      \* response_from_read: errno
  peer,       \* parse_peer: peer (None outside parse_peer)
  lht,        \* parse_peer: last_handshake_time
  nread,      \* lines read so far
  eof,        \* the stream has ended
  ended,      \* the stream has sent a line that ends the response
  line,       \* the line read last
  sent        \* the keys of the lines read so far

parser == <<pc, interface, inited, errno, peer, lht>>
stream == <<nread, eof, ended, line, sent>>
vars   == <<parser, stream>>

Lines ==
  {BLANK, EOF} \cup OtherLines \cup
  UNION {{KV(k, t, nl) : t \in Texts[k],
                         nl \in IF TERMINATED THEN {TRUE} ELSE BOOLEAN} :
         k \in WireKeys}

\* The lines the stream can deliver next.
Readable ==
  IF eof \/ nread = MAX_LINES \/ (ended /\ ~TRAILING) THEN {EOF}
  ELSE {l \in Lines : l.kind = "kv" => l.key \notin sent \cap UNIQUE_KEYS}

\* Does line l end the response, per the wire grammar, when read at pc?
EndsResponse(l) ==
  \/ l \in {BLANK, READ_ERR}
  \/ pc = "peer" /\ l.kind = "kv" /\ l.key = "errno"

Read(l) ==
  /\ nread' = IF l = EOF THEN nread ELSE nread + 1
  /\ eof'   = (eof \/ l = EOF \/ (l.kind = "kv" /\ ~l.nl))
  /\ ended' = (ended \/ EndsResponse(l))
  /\ line'  = l
  /\ sent'  = IF l.kind = "kv" THEN sent \cup {l.key} ELSE sent

(***************************************************************************)
(* What the code holds after read_line(&mut cmd) and cmd.pop(): pop drops  *)
(* the last character, which is the '\n' only when there is one.  A line   *)
(* whose value is empty and which lacks '\n' loses its '=' instead.        *)
(***************************************************************************)
Cmd(l) ==
  CASE l.kind \in {"eof", "blank"}   -> [kind |-> "empty"]
    [] l.kind = "err"                -> [kind |-> "err"]
    [] l.kind = "noeq"               -> [kind |-> "noeq"]
    [] l.nl                          -> [kind |-> "kv", key |-> l.key, val |-> l.text]
    [] l.text # <<>>                 -> [kind |-> "kv", key |-> l.key, val |-> Front(l.text)]
    [] OTHER                         -> [kind |-> "noeq"]

Response ==
  [errno |-> errno, interface |-> IF inited THEN interface ELSE None]

Panic ==
  /\ pc' = "panicked"
  /\ UNCHANGED <<interface, inited, errno, peer, lht>>

(***************************************************************************)
(* response_from_read                                                      *)
(***************************************************************************)
Init ==
  /\ pc = "outer"
  /\ interface = EmptyInterface
  /\ inited = FALSE
  /\ errno = 0
  /\ peer = None
  /\ lht = None
  /\ nread = 0
  /\ eof = FALSE
  /\ ended = FALSE
  /\ line = None
  /\ sent = {}

\* The lines the stream can deliver next whose key, after the pop, is key.
KeyLines(key) == {l \in Readable : Cmd(l).kind = "kv" /\ Cmd(l).key = key}

\* read_line failed (the while ends) or the line is empty: return.
OuterReturn ==
  /\ pc = "outer"
  /\ \E l \in Readable : Cmd(l).kind \in {"empty", "err"} /\ Read(l)
  /\ pc' = "done"
  /\ UNCHANGED <<interface, inited, errno, peer, lht>>

\* assert_eq!(parsed.len(), 2) fails.
OuterNoEq ==
  /\ pc = "outer"
  /\ \E l \in Readable : Cmd(l).kind = "noeq" /\ Read(l)
  /\ Panic

PrivateKeyArm(val) ==
  \/ ParseKey(val) = Invalid /\ Panic
  \/ /\ ParseKey(val) # Invalid
     /\ inited' = TRUE
     /\ interface' = [interface EXCEPT !.private_key = ParseKey(val)]
     /\ UNCHANGED <<pc, errno, peer, lht>>

\* Mutant: the port parsed as a u32.
ListenPortArmU32(val) ==
  LET port == ParseUnsigned(val, 32) IN
  \/ port = Invalid /\ Panic
  \/ /\ port # Invalid
     /\ inited' = TRUE
     /\ interface' = IF port > 0 THEN [interface EXCEPT !.listen_port = port]
                     ELSE interface
     /\ UNCHANGED <<pc, errno, peer, lht>>

ListenPortArm(val) ==
  LET port == ParseUnsigned(val, 16) IN
  \/ port = Invalid /\ Panic
  \/ /\ port # Invalid
     /\ inited' = TRUE
     /\ interface' = IF port > 0 THEN [interface EXCEPT !.listen_port = port]
                     ELSE interface
     /\ UNCHANGED <<pc, errno, peer, lht>>

FwmarkArm(val) ==
  LET mark == ParseUnsigned(val, 32) IN
  \/ mark = Invalid /\ Panic
  \/ /\ mark # Invalid
     /\ inited' = TRUE
     /\ interface' = [interface EXCEPT !.fwmark = mark]
     /\ UNCHANGED <<pc, errno, peer, lht>>

\* "public_key": hand the stream to parse_peer.
PublicKeyArm(val) ==
  \/ ParseKey(val) = Invalid /\ Panic
  \/ /\ ParseKey(val) # Invalid
     /\ inited' = TRUE
     /\ pc' = "peer"
     /\ peer' = NewPeer(ParseKey(val))
     /\ lht' = None
     /\ UNCHANGED <<interface, errno>>

ErrnoArm(val) ==
  \/ ParseI32(val) = Invalid /\ Panic
  \/ /\ ParseI32(val) # Invalid
     /\ errno' = ParseI32(val)
     /\ UNCHANGED <<pc, interface, inited, peer, lht>>

OuterPrivateKey ==
  pc = "outer" /\ \E l \in KeyLines("private_key") : Read(l) /\ PrivateKeyArm(Cmd(l).val)
OuterListenPort ==
  pc = "outer" /\ \E l \in KeyLines("listen_port") : Read(l) /\ ListenPortArm(Cmd(l).val)
OuterFwmark ==
  pc = "outer" /\ \E l \in KeyLines("fwmark") : Read(l) /\ FwmarkArm(Cmd(l).val)
OuterPublicKey ==
  pc = "outer" /\ \E l \in KeyLines("public_key") : Read(l) /\ PublicKeyArm(Cmd(l).val)
OuterErrno ==
  pc = "outer" /\ \E l \in KeyLines("errno") : Read(l) /\ ErrnoArm(Cmd(l).val)

\* `_ => ()`: every other key is ignored.
OuterOther ==
  /\ pc = "outer"
  /\ \E l \in Readable :
       /\ Cmd(l).kind = "kv" /\ Cmd(l).key \notin InterfaceKeys
       /\ Read(l)
  /\ UNCHANGED parser

(***************************************************************************)
(* parse_peer, and the loop of response_from_read around it (lines        *)
(* 349-361): when parse_peer breaks, the handshake duration is computed,   *)
(* the peer is inserted, and the loop either stops (errno, or no next key) *)
(* or calls parse_peer again for the next public key.                      *)
(***************************************************************************)
\* Mutant: the errno check done before the insertion, dropping the peer.
FinishPeerErrnoFirst(next, err) ==
  \E now \in Clock :
    LET done == [peer EXCEPT !.time_since_last_handshake =
                              CalculateTimeSinceLastHandshake(lht, now)]
    IN
    /\ UNCHANGED inited
    /\ \/ /\ err # None
          /\ errno' = err /\ UNCHANGED interface
          /\ pc' = "outer" /\ peer' = None /\ lht' = None
       \/ /\ err = None
          /\ interface' = [interface EXCEPT !.peers = InsertPeer(interface.peers, done)]
          /\ UNCHANGED errno
          /\ \/ next # None /\ pc' = "peer" /\ peer' = NewPeer(next) /\ lht' = None
             \/ next = None /\ pc' = "outer" /\ peer' = None /\ lht' = None

FinishPeer(next, err) ==
  \E now \in Clock :
    LET done == [peer EXCEPT !.time_since_last_handshake =
                              CalculateTimeSinceLastHandshake(lht, now)]
    IN
    /\ interface' = [interface EXCEPT !.peers = InsertPeer(interface.peers, done)]
    /\ UNCHANGED inited
    /\ \/ /\ err # None
          /\ errno' = err
          /\ pc' = "outer" /\ peer' = None /\ lht' = None
       \/ /\ err = None /\ next # None
          /\ pc' = "peer" /\ peer' = NewPeer(next) /\ lht' = None
          /\ UNCHANGED errno
       \/ /\ err = None /\ next = None
          /\ pc' = "outer" /\ peer' = None /\ lht' = None
          /\ UNCHANGED errno

\* read_line failed or the line is empty: break (peer, None, None).
PeerEnd ==
  /\ pc = "peer"
  /\ \E l \in Readable : Cmd(l).kind \in {"empty", "err"} /\ Read(l)
  /\ FinishPeer(None, None)

PeerNoEq ==
  /\ pc = "peer"
  /\ \E l \in Readable : Cmd(l).kind = "noeq" /\ Read(l)
  /\ Panic

\* A peer field set from a parsed value, or a panic when it does not parse.
SetPeerField(v, Update) ==
  \/ v = Invalid /\ Panic
  \/ /\ v # Invalid
     /\ peer' = Update
     /\ UNCHANGED <<pc, interface, inited, errno, lht>>

EndpointArm(val) ==
  SetPeerField(ParseEndpoint(val), [peer EXCEPT !.endpoint = ParseEndpoint(val)])

KeepaliveArm(val) ==
  SetPeerField(ParseUnsigned(val, 32),
    [peer EXCEPT !.persistent_keepalive_interval = ParseUnsigned(val, 32)])

AllowedIpArm(val) ==
  SetPeerField(ParseAllowedIp(val),
    [peer EXCEPT !.allowed_ips = Append(@, ParseAllowedIp(val))])

RxBytesArm(val) ==
  SetPeerField(ParseUnsigned(val, 64), [peer EXCEPT !.rx_bytes = ParseUnsigned(val, 64)])

TxBytesArm(val) ==
  SetPeerField(ParseUnsigned(val, 64), [peer EXCEPT !.tx_bytes = ParseUnsigned(val, 64)])

\* last_handshake_time_nsec / _sec: n is the parsed field, d its Duration,
\* added to last_handshake_time (*timestamp += d, which panics on
\* overflow) or starting it.
HandshakeArm(n, d) ==
  \/ n = Invalid /\ Panic
  \/ n # Invalid /\ lht # None /\ AddOverflows(lht, d) /\ Panic
  \/ /\ n # Invalid
     /\ lht # None => ~AddOverflows(lht, d)
     /\ lht' = AccumulateOpt(lht, d)
     /\ UNCHANGED <<pc, interface, inited, errno, peer>>

\* Mutant: the nsec field overwrites the seconds read before it.
HandshakeNsecOverwrite(val) ==
  LET n == ParseUnsigned(val, 64) IN
  \/ n = Invalid /\ Panic
  \/ /\ n # Invalid
     /\ lht' = FromNanos(n)
     /\ UNCHANGED <<pc, interface, inited, errno, peer>>

HandshakeNsecArm(val) == HandshakeArm(ParseUnsigned(val, 64), FromNanos(ParseUnsigned(val, 64)))
HandshakeSecArm(val)  == HandshakeArm(ParseUnsigned(val, 64), FromSecs(ParseUnsigned(val, 64)))

\* "public_key": break with the next peer's key.
NextPublicKeyArm(val) ==
  \/ ParseKey(val) = Invalid /\ Panic
  \/ ParseKey(val) # Invalid /\ FinishPeer(ParseKey(val), None)

\* "errno": break with the error code.
PeerErrnoArm(val) ==
  \/ ParseI32(val) = Invalid /\ Panic
  \/ ParseI32(val) # Invalid /\ FinishPeer(None, ParseI32(val))

PeerEndpoint ==
  pc = "peer" /\ \E l \in KeyLines("endpoint") : Read(l) /\ EndpointArm(Cmd(l).val)
PeerKeepalive ==
  pc = "peer" /\ \E l \in KeyLines("persistent_keepalive_interval") : Read(l) /\ KeepaliveArm(Cmd(l).val)
PeerAllowedIp ==
  pc = "peer" /\ \E l \in KeyLines("allowed_ip") : Read(l) /\ AllowedIpArm(Cmd(l).val)
PeerRxBytes ==
  pc = "peer" /\ \E l \in KeyLines("rx_bytes") : Read(l) /\ RxBytesArm(Cmd(l).val)
PeerTxBytes ==
  pc = "peer" /\ \E l \in KeyLines("tx_bytes") : Read(l) /\ TxBytesArm(Cmd(l).val)
PeerHandshakeNsec ==
  pc = "peer" /\ \E l \in KeyLines("last_handshake_time_nsec") : Read(l) /\ HandshakeNsecArm(Cmd(l).val)
PeerHandshakeSec ==
  pc = "peer" /\ \E l \in KeyLines("last_handshake_time_sec") : Read(l) /\ HandshakeSecArm(Cmd(l).val)
PeerPublicKey ==
  pc = "peer" /\ \E l \in KeyLines("public_key") : Read(l) /\ NextPublicKeyArm(Cmd(l).val)
PeerErrno ==
  pc = "peer" /\ \E l \in KeyLines("errno") : Read(l) /\ PeerErrnoArm(Cmd(l).val)

PeerOther ==
  /\ pc = "peer"
  /\ \E l \in Readable :
       /\ Cmd(l).kind = "kv" /\ Cmd(l).key \notin PeerKeys
       /\ Read(l)
  /\ UNCHANGED parser

Next ==
  \/ OuterReturn \/ OuterNoEq \/ OuterPrivateKey \/ OuterListenPort
  \/ OuterFwmark \/ OuterPublicKey \/ OuterErrno \/ OuterOther
  \/ PeerEnd \/ PeerNoEq \/ PeerEndpoint \/ PeerKeepalive \/ PeerAllowedIp
  \/ PeerRxBytes \/ PeerTxBytes \/ PeerHandshakeNsec \/ PeerHandshakeSec
  \/ PeerPublicKey \/ PeerErrno \/ PeerOther

Spec == Init /\ [][Next]_vars

(***************************************************************************)
(* Properties                                                              *)
(***************************************************************************)
Durations == [secs : Nat, nanos : 0..(NANOS_PER_SEC - 1)]
Peers ==
  [public_key : KeyIds, endpoint : {None} \cup [ip : Hosts, port : 0..65535],
   persistent_keepalive_interval : {None} \cup Nat,
   allowed_ips : Seq([ip : Hosts, prefix : 0..32]),
   rx_bytes : {None} \cup Nat, tx_bytes : {None} \cup Nat,
   time_since_last_handshake : {None} \cup Durations]

TypeOK ==
  /\ pc \in {"outer", "peer", "done", "panicked"}
  /\ interface.private_key \in {None} \cup KeyIds
  /\ interface.listen_port \in {None} \cup 1..65535
  /\ interface.fwmark \in Nat
  /\ DOMAIN interface.peers \subseteq KeyIds
  /\ \A k \in DOMAIN interface.peers : interface.peers[k] \in Peers
  /\ inited \in BOOLEAN /\ errno \in Nat
  /\ peer \in {None} \cup Peers
  /\ lht \in {None} \cup Durations
  /\ (pc = "peer" => peer # None) /\ (pc \in {"outer", "done"} => peer = None)
=============================================================================
