------------------------------ MODULE UapiSpec ------------------------------
(***************************************************************************)
(* What the UAPI response parser promises, from spec.md sections 4.1, 4.2, *)
(* 4.4, 7 and the two-state machine of section 9: a flat machine           *)
(* {ReadingInterface, ReadingPeer} that reads one line per step.           *)
(*   - a trailing line terminator is stripped; an unterminated last line   *)
(*     is read as it is;                                                   *)
(*   - a blank line, the end of the stream or a failed read ends the       *)
(*     response, inside a peer block as well as outside;                   *)
(*   - errno inside a peer block ends the peer and the response;           *)
(*   - public_key inside a peer block ends the peer and starts the next;   *)
(*   - a line without '=' or a value that does not parse is a              *)
(*     ProtocolViolation that aborts the whole parse;                      *)
(*   - listen_port 0 means None, any other value Some;                     *)
(*   - the handshake is the sum of the sec and nsec fields in either       *)
(*     order; a zero sum means "never", a handshake later than now gives   *)
(*     None.                                                               *)
(* The spec leaves open whether errno alone makes the interface reported;  *)
(* like the code, this machine counts only device keys and public_key.     *)
(***************************************************************************)
EXTENDS UapiWire

CONSTANTS Texts, Clock

VARIABLES mode, interface, inited, errno, peer, hs, line

vars == <<mode, interface, inited, errno, peer, hs, line>>

Lines ==
  {BLANK, EOF, READ_ERR, NO_EQ} \cup
  UNION {{KV(k, t, nl) : t \in Texts[k], nl \in BOOLEAN} : k \in WireKeys}

\* The line with its terminator stripped.
Stripped(l) ==
  CASE l.kind \in {"eof", "blank", "err"} -> [kind |-> "end"]
    [] l.kind = "noeq"                    -> [kind |-> "noeq"]
    [] OTHER                              -> [kind |-> "kv", key |-> l.key, val |-> l.text]

\* reconstruct_duration (section 4.4).  A wall clock that cannot be read
\* (now = ClockError) gives None, as a handshake in the future does: the
\* section allows no panic and no other result.
ReconstructDuration(h, now) ==
  IF h = None \/ h = ZERO \/ now = ClockError \/ DurationLess(now, h) THEN None
  ELSE CheckedSub(now, h)

Violation ==
  /\ mode' = "Violation"
  /\ UNCHANGED <<interface, inited, errno, peer, hs>>

\* Store v through Set, or abort when v did not parse.
Store(v, Set) ==
  \/ v = Invalid /\ Violation
  \/ v # Invalid /\ Set

\* The current peer record ends: it is added to the interface's peers
\* (a repeated public key replaces the earlier block).
EndPeer(now) ==
  interface' = [interface EXCEPT !.peers = InsertPeer(interface.peers,
                 [peer EXCEPT !.time_since_last_handshake = ReconstructDuration(hs, now)])]

InterfaceLine(c) ==
  CASE c.kind = "end"  -> mode' = "Done" /\ UNCHANGED <<interface, inited, errno, peer, hs>>
    [] c.kind = "noeq" -> Violation
    [] c.key = "private_key" ->
         Store(ParseKey(c.val),
               /\ interface' = [interface EXCEPT !.private_key = ParseKey(c.val)]
               /\ inited' = TRUE /\ UNCHANGED <<mode, errno, peer, hs>>)
    [] c.key = "listen_port" ->
         LET p == ParseUnsigned(c.val, 16) IN
         Store(p, /\ interface' = [interface EXCEPT !.listen_port = IF p = 0 THEN None ELSE p]
                  /\ inited' = TRUE /\ UNCHANGED <<mode, errno, peer, hs>>)
    [] c.key = "fwmark" ->
         Store(ParseUnsigned(c.val, 32),
               /\ interface' = [interface EXCEPT !.fwmark = ParseUnsigned(c.val, 32)]
               /\ inited' = TRUE /\ UNCHANGED <<mode, errno, peer, hs>>)
    [] c.key = "errno" ->
         Store(ParseI32(c.val),
               errno' = ParseI32(c.val) /\ UNCHANGED <<mode, interface, inited, peer, hs>>)
    [] c.key = "public_key" ->
         Store(ParseKey(c.val),
               /\ mode' = "ReadingPeer" /\ peer' = NewPeer(ParseKey(c.val)) /\ hs' = None
               /\ inited' = TRUE /\ UNCHANGED <<interface, errno>>)
    [] OTHER -> UNCHANGED <<mode, interface, inited, errno, peer, hs>>

SetPeer(v, p) == Store(v, peer' = p /\ UNCHANGED <<mode, interface, inited, errno, hs>>)

AddHandshake(n, ToDuration(_)) ==
  Store(n, hs' = AccumulateOpt(hs, ToDuration(n)) /\ UNCHANGED <<mode, interface, inited, errno, peer>>)

PeerLine(c, now) ==
  CASE c.kind = "end" ->
         EndPeer(now) /\ mode' = "Done" /\ peer' = None /\ hs' = None
         /\ UNCHANGED <<inited, errno>>
    [] c.kind = "noeq" -> Violation
    [] c.key = "errno" ->
         Store(ParseI32(c.val),
               /\ EndPeer(now) /\ mode' = "Done" /\ peer' = None /\ hs' = None
               /\ errno' = ParseI32(c.val) /\ UNCHANGED inited)
    [] c.key = "public_key" ->
         Store(ParseKey(c.val),
               /\ EndPeer(now) /\ peer' = NewPeer(ParseKey(c.val)) /\ hs' = None
               /\ UNCHANGED <<mode, inited, errno>>)
    [] c.key = "endpoint" ->
         SetPeer(ParseEndpoint(c.val), [peer EXCEPT !.endpoint = ParseEndpoint(c.val)])
    [] c.key = "persistent_keepalive_interval" ->
         SetPeer(ParseUnsigned(c.val, 32),
                 [peer EXCEPT !.persistent_keepalive_interval = ParseUnsigned(c.val, 32)])
    [] c.key = "allowed_ip" ->
         SetPeer(ParseAllowedIp(c.val),
                 [peer EXCEPT !.allowed_ips = Append(@, ParseAllowedIp(c.val))])
    [] c.key = "rx_bytes" ->
         SetPeer(ParseUnsigned(c.val, 64), [peer EXCEPT !.rx_bytes = ParseUnsigned(c.val, 64)])
    [] c.key = "tx_bytes" ->
         SetPeer(ParseUnsigned(c.val, 64), [peer EXCEPT !.tx_bytes = ParseUnsigned(c.val, 64)])
    [] c.key = "last_handshake_time_nsec" -> AddHandshake(ParseUnsigned(c.val, 64), FromNanos)
    [] c.key = "last_handshake_time_sec"  -> AddHandshake(ParseUnsigned(c.val, 64), FromSecs)
    [] OTHER -> UNCHANGED <<mode, interface, inited, errno, peer, hs>>

Init ==
  /\ mode = "ReadingInterface"
  /\ interface = EmptyInterface
  /\ inited = FALSE
  /\ errno = 0
  /\ peer = None
  /\ hs = None
  /\ line = None

\* Once the response is complete, whatever is read after it changes
\* nothing.
AfterEnd ==
  /\ mode = "Done"
  /\ line' \in Lines
  /\ UNCHANGED <<mode, interface, inited, errno, peer, hs>>

Next ==
  \/ \E l \in Lines :
       /\ line' = l
       /\ \/ mode = "ReadingInterface" /\ InterfaceLine(Stripped(l))
          \/ mode = "ReadingPeer" /\ \E now \in Clock : PeerLine(Stripped(l), now)
  \/ AfterEnd

Spec == Init /\ [][Next]_vars
=============================================================================
