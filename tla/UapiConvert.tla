----------------------------- MODULE UapiConvert -----------------------------
(***************************************************************************)
(* The converters of crates/telio-wg/src/uapi.rs between wireguard-uapi's  *)
(* get::Device / set::Device and telio's Interface and Peer, and          *)
(* Peer::connected.                                                        *)
(*                                                                         *)
(* One behaviour follows one configuration through the conversions the     *)
(* code applies to it:                                                     *)
(*   "get"   a get::Device reported by the device       (dev)              *)
(*   "canon" a telio Interface                          (canon)            *)
(*   "set"   the set::Device telio sends                (cmd)              *)
(*   "back"  the Interface read back from that command  (back)             *)
(* A behaviour starts either at "get" (an interface read from the device)  *)
(* or at "canon" (an interface telio built itself, dev = None).            *)
(*                                                                         *)
(* Allowed IPs are addresses of ADDR_BITS bits (32 for IPv4) so that       *)
(* IpNetwork::network, which clears the host bits, is computed.            *)
(***************************************************************************)
EXTENDS UapiWire

CONSTANTS
  ADDR_BITS,     \* bits of an address
  Clock,         \* values of SystemTime::now().duration_since(UNIX_EPOCH)
  GetDevices,    \* get::Device values the device may report
  Interfaces     \* Interfaces telio may build and send

ASSUME ADDR_BITS \in Nat \ {0}

VARIABLES
  stage,   \* "get" | "canon" | "set" | "back" | "wire"
  dev,     \* the get::Device, or None
  clock,   \* clock[i]: what get_unix_time returned for dev.peers[i]
  canon,   \* the telio Interface
  cmd,     \* the set::Device
  back,    \* Interface::from(cmd)
  text     \* cmd.to_string(): the lines of the request, or None

vars == <<stage, dev, clock, canon, cmd, back, text>>

(***************************************************************************)
(* ipnetwork                                                               *)
(***************************************************************************)
\* IpNetwork::new(ip, prefix): an error when the prefix is longer than the
\* address; the address is kept as given.
IpNetworkNew(ip, prefix) ==
  IF prefix <= ADDR_BITS THEN [ip |-> ip, prefix |-> prefix] ELSE Invalid

\* IpNetwork::network(): the address with the bits after the prefix cleared.
Network(n) == LET m == 2^(ADDR_BITS - n.prefix) IN (n.ip \div m) * m

\* Mutant: invalid entries kept in the list (no validation).
CollectAllowedIpsUnchecked(ips) ==
  [i \in DOMAIN ips |-> [ip |-> ips[i].ipaddr, prefix |-> ips[i].cidr_mask]]

\* Mutant: filter_map(Result::ok), dropping only the invalid entries.
CollectAllowedIpsFiltered(ips) ==
  LET ok(e) == IpNetworkNew(e.ipaddr, e.cidr_mask) # Invalid
  IN  [i \in 1..Len(SelectSeq(ips, ok)) |->
         IpNetworkNew(SelectSeq(ips, ok)[i].ipaddr, SelectSeq(ips, ok)[i].cidr_mask)]

\* .map(|ip| IpNetwork::new(ip.ipaddr, ip.cidr_mask))
\* .collect::<Result<Vec<_>, _>>().unwrap_or_default(): one invalid entry
\* empties the whole list.
CollectAllowedIps(ips) ==
  IF \E i \in DOMAIN ips : IpNetworkNew(ips[i].ipaddr, ips[i].cidr_mask) = Invalid
  THEN <<>>
  ELSE [i \in DOMAIN ips |-> IpNetworkNew(ips[i].ipaddr, ips[i].cidr_mask)]

\* .collect() of (key, peer) pairs into a BTreeMap: a later pair replaces an
\* earlier one with the same key.
CollectPeers(ps) == FoldLeft(InsertPeer, [k \in {} |-> None], ps)

(***************************************************************************)
(* The From impls                                                          *)
(***************************************************************************)
\* From<get::Peer> for Peer, with the clock reading now.
PeerFromGet(g, now) ==
  [public_key |-> g.public_key, endpoint |-> g.endpoint,
   persistent_keepalive_interval |-> g.persistent_keepalive_interval,
   allowed_ips |-> CollectAllowedIps(g.allowed_ips),
   rx_bytes |-> g.rx_bytes, tx_bytes |-> g.tx_bytes,
   time_since_last_handshake |->
     CalculateTimeSinceLastHandshake(g.last_handshake_time, now)]

\* From<set::Peer> for Peer: telemetry stays None.
PeerFromSet(s) ==
  [NewPeer(s.public_key) EXCEPT
     !.endpoint = s.endpoint,
     !.persistent_keepalive_interval = s.persistent_keepalive_interval,
     !.allowed_ips = CollectAllowedIps(s.allowed_ips)]

\* Mutant: the keepalive cast `as u8`.
SetPeerFromPeerU8(p) ==
  [public_key |-> p.public_key, endpoint |-> p.endpoint,
   persistent_keepalive_interval |->
     IF p.persistent_keepalive_interval = None THEN None
     ELSE p.persistent_keepalive_interval % 2^8,
   allowed_ips |-> [i \in DOMAIN p.allowed_ips |->
                      [ipaddr |-> Network(p.allowed_ips[i]),
                       cidr_mask |-> p.allowed_ips[i].prefix]]]

\* From<&Peer> for set::Peer: the keepalive is cast `x as u16` and each
\* allowed IP is sent as its network address.
SetPeerFromPeer(p) ==
  [public_key |-> p.public_key, endpoint |-> p.endpoint,
   persistent_keepalive_interval |->
     IF p.persistent_keepalive_interval = None THEN None
     ELSE p.persistent_keepalive_interval % 2^16,
   allowed_ips |-> [i \in DOMAIN p.allowed_ips |->
                      [ipaddr |-> Network(p.allowed_ips[i]),
                       cidr_mask |-> p.allowed_ips[i].prefix]]]

\* From<get::Device> for Interface: listen_port is always Some; each peer
\* reads the clock when its handshake age is computed.
InterfaceFromGet(d, nows) ==
  [private_key |-> d.private_key, listen_port |-> d.listen_port,
   fwmark |-> d.fwmark,
   peers |-> CollectPeers([i \in DOMAIN d.peers |-> PeerFromGet(d.peers[i], nows[i])])]

\* From<set::Device> for Interface: fwmark.map_or(0, |x| x).
InterfaceFromSet(d) ==
  [private_key |-> d.private_key, listen_port |-> d.listen_port,
   fwmark |-> IF d.fwmark = None THEN 0 ELSE d.fwmark,
   peers |-> CollectPeers([i \in DOMAIN d.peers |-> PeerFromSet(d.peers[i])])]

\* From<Interface> for set::Device: fwmark 0 is omitted; the peers in the
\* order of the map's values (keys are distinct, so the order does not
\* matter to the reader).
SetDeviceFromInterface(i) ==
  [private_key |-> i.private_key, listen_port |-> i.listen_port,
   fwmark |-> IF i.fwmark = 0 THEN None ELSE i.fwmark,
   peers |-> SetToSeq({SetPeerFromPeer(i.peers[k]) : k \in DOMAIN i.peers})]

(***************************************************************************)
(* The request text                                                        *)
(***************************************************************************)
\* Display for set::Device and set::Peer (wireguard_uapi, outside this
\* repository): one `key=value` line, ended by '\n', per field that is set;
\* the interface's fields first, then each peer's block.  A line is the
\* pair <<key, value>>; the empty line is <<>>.
OptLine(k, v) == IF v = None THEN <<>> ELSE <<<<k, v>>>>

PeerLines(p) ==
  <<<<"public_key", p.public_key>>>> \o OptLine("endpoint", p.endpoint)
    \o OptLine("persistent_keepalive_interval", p.persistent_keepalive_interval)
    \o [i \in DOMAIN p.allowed_ips |-> <<"allowed_ip", p.allowed_ips[i]>>]

DeviceLines(d) ==
  OptLine("private_key", d.private_key) \o OptLine("listen_port", d.listen_port)
    \o OptLine("fwmark", d.fwmark)
    \o FlattenSeq([i \in DOMAIN d.peers |-> PeerLines(d.peers[i])])

\* Display for Cmd, a Cmd being [kind |-> "Get"] or [kind |-> "Set",
\* device |-> d]: Get is the line get=1; Set is set=1, the device's lines,
\* and the writeln! after them, an empty line.
CmdText(c) ==
  IF c.kind = "Get" THEN <<<<"get", 1>>>>
  ELSE <<<<"set", 1>>>> \o DeviceLines(c.device) \o <<<<>>>>

(***************************************************************************)
(* Peer::connected                                                         *)
(***************************************************************************)
REJECT_AFTER_TIME == FromSecs(180)
REKEY_TIMEOUT_JITTER == FromNanos(334000000)

\* Mutant: `<=` instead of `<`.
ConnectedInclusive(p) ==
  /\ p.time_since_last_handshake # None
  /\ ~DurationLess(DurationAdd(REJECT_AFTER_TIME, REKEY_TIMEOUT_JITTER),
                   p.time_since_last_handshake)

Connected(p) ==
  /\ p.time_since_last_handshake # None
  /\ DurationLess(p.time_since_last_handshake,
                  DurationAdd(REJECT_AFTER_TIME, REKEY_TIMEOUT_JITTER))

(***************************************************************************)
(* The pipeline                                                            *)
(***************************************************************************)
Init ==
  /\ cmd = None /\ back = None /\ text = None
  /\ \/ stage = "get" /\ dev \in GetDevices /\ clock = <<>> /\ canon = None
     \/ stage = "canon" /\ dev = None /\ clock = <<>> /\ canon \in Interfaces

\* Interface::from(get::Device)
FromGetDevice ==
  /\ stage = "get"
  /\ \E nows \in [DOMAIN dev.peers -> Clock] :
       /\ clock' = nows
       /\ canon' = InterfaceFromGet(dev, nows)
  /\ stage' = "canon"
  /\ UNCHANGED <<dev, cmd, back, text>>

\* set::Device::from(Interface)
ToSetDevice ==
  /\ stage = "canon"
  /\ cmd' = SetDeviceFromInterface(canon)
  /\ stage' = "set"
  /\ UNCHANGED <<dev, clock, canon, back, text>>

\* Interface::from(set::Device)
FromSetDevice ==
  /\ stage = "set"
  /\ back' = InterfaceFromSet(cmd)
  /\ stage' = "back"
  /\ UNCHANGED <<dev, clock, canon, cmd, text>>

\* Cmd::Set(cmd).to_string(): the text handed to the transport.
RenderSet ==
  /\ stage = "set"
  /\ text' = CmdText([kind |-> "Set", device |-> cmd])
  /\ stage' = "wire"
  /\ UNCHANGED <<dev, clock, canon, cmd, back>>

Next == FromGetDevice \/ ToSetDevice \/ FromSetDevice \/ RenderSet

Spec == Init /\ [][Next]_vars

(***************************************************************************)
(* Properties                                                              *)
(***************************************************************************)
Networks == [ip : 0..(2^ADDR_BITS - 1), prefix : 0..ADDR_BITS]
Peers ==
  [public_key : KeyIds, endpoint : {None} \cup [ip : Hosts, port : 0..65535],
   persistent_keepalive_interval : {None} \cup Nat,
   allowed_ips : Seq(Networks),
   rx_bytes : {None} \cup Nat, tx_bytes : {None} \cup Nat,
   time_since_last_handshake : {None} \cup [secs : Nat, nanos : 0..(NANOS_PER_SEC - 1)]]
IsInterface(i) ==
  /\ i.private_key \in {None} \cup KeyIds
  /\ i.listen_port \in {None} \cup 0..65535
  /\ i.fwmark \in Nat
  /\ DOMAIN i.peers \subseteq KeyIds
  /\ \A k \in DOMAIN i.peers : i.peers[k] \in Peers /\ i.peers[k].public_key = k

TypeOK ==
  /\ stage \in {"get", "canon", "set", "back", "wire"}
  /\ stage # "get" => IsInterface(canon)
  /\ stage = "back" => IsInterface(back)
  /\ clock \in Seq({ClockError} \cup [secs : Nat, nanos : 0..(NANOS_PER_SEC - 1)])

\* The index of the last peer with key k in a device's report.
LastIndex(ps, k) ==
  CHOOSE j \in DOMAIN ps : ps[j].public_key = k /\
                           \A i \in DOMAIN ps : ps[i].public_key = k => i <= j

\* Section 4.3 / 7 of the spec on allowed IPs read from the device: an
\* unparsable entry empties the peer's list, it never drops only itself.
SpecAllowedIps(ips) ==
  IF \A i \in DOMAIN ips : ips[i].cidr_mask <= ADDR_BITS
  THEN [i \in DOMAIN ips |-> [ip |-> ips[i].ipaddr, prefix |-> ips[i].cidr_mask]]
  ELSE <<>>

\* Interface::from(get::Device) keeps every reported peer exactly once,
\* keyed by its public key, with the endpoint, keepalive and allowed IPs of
\* the last block the device reported for that key; the allowed IPs follow
\* the spec's all-or-nothing leniency.
QueryKeepsLastOccurrence ==
  stage # "get" /\ dev # None =>
    /\ DOMAIN canon.peers = {dev.peers[i].public_key : i \in DOMAIN dev.peers}
    /\ \A k \in DOMAIN canon.peers :
         LET g == dev.peers[LastIndex(dev.peers, k)] IN
         /\ canon.peers[k].endpoint = g.endpoint
         /\ canon.peers[k].persistent_keepalive_interval = g.persistent_keepalive_interval
         /\ canon.peers[k].allowed_ips = SpecAllowedIps(g.allowed_ips)

\* Section 4.4: a peer is connected iff it has handshaked, the handshake is
\* not in the future of the clock read for it, and the session deadline
\* (handshake + 180 s + 334 ms) is still ahead of that clock.
DEADLINE == [secs |-> 180, nanos |-> 334000000]
ConnectedRef(hs, now) ==
  /\ hs # ZERO /\ now # ClockError
  /\ ~DurationLess(now, hs)
  /\ DurationLess(now, DurationAdd(hs, DEADLINE))

\* Peer::connected on a peer read from the device agrees with the deadline
\* computed from the raw handshake time and the clock reading.
ConnectedMatchesSpec ==
  stage # "get" /\ dev # None =>
    \A k \in DOMAIN canon.peers :
      LET j == LastIndex(dev.peers, k) IN
      Connected(canon.peers[k]) <=> ConnectedRef(dev.peers[j].last_handshake_time, clock[j])

\* Section 4.3 round trip: an Interface sent through set::Device::from and
\* read back through Interface::from(set::Device) keeps its key, port and
\* mark, and every peer's public key, endpoint, allowed IPs (in order) and
\* keepalive; the telemetry of the read-back peers is None.
RoundTripPreserved ==
  stage = "back" =>
    /\ back.private_key = canon.private_key
    /\ back.listen_port = canon.listen_port
    /\ back.fwmark = canon.fwmark
    /\ DOMAIN back.peers = DOMAIN canon.peers
    /\ \A k \in DOMAIN canon.peers :
         /\ \A f \in {"endpoint", "allowed_ips", "persistent_keepalive_interval"} :
              back.peers[k][f] = canon.peers[k][f]
         /\ back.peers[k].rx_bytes = None /\ back.peers[k].tx_bytes = None
         /\ back.peers[k].time_since_last_handshake = None

=============================================================================
