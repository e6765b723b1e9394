---------------------------- MODULE MCUapiConvert ----------------------------
(***************************************************************************)
(* Instances of UapiConvert for TLC: two keys, one endpoint host,          *)
(* 4-bit addresses, a clock at 1000 s (TLC integers are 32-bit, so real    *)
(* Unix times would overflow the sums of Durations) or failing.            *)
(***************************************************************************)
EXTENDS UapiConvert

CONSTANTS kA, kB, h1

MCKeyIds == {kA, kB}
MCHosts == {h1}

NOW == FromSecs(1000)
MCClock == {NOW, ClockError}

\* Handshake times around the session deadline of 180 s + 334 ms: never,
\* 180.333 s, 180.334 s and 180.335 s ago, and one second in the future.
Ago(ms) == CheckedSub(NOW, [secs |-> ms \div 1000, nanos |-> (ms % 1000) * 1000000])
Handshakes == {ZERO, Ago(180333), Ago(180334), Ago(180335), FromSecs(1001)}

AIp(ip, mask) == [ipaddr |-> ip, cidr_mask |-> mask]
\* Allowed IP lists as a device reports them (networks with the host bits
\* clear), in both orders, and one with an unparsable mask of 5 bits.
DeviceAllowed ==
  {<<>>, <<AIp(8, 1)>>, <<AIp(12, 2), AIp(8, 1)>>, <<AIp(8, 1), AIp(3, 5)>>}

GetPeer(k, ep, ka, ips, hs) ==
  [public_key |-> k, endpoint |-> ep, persistent_keepalive_interval |-> ka,
   allowed_ips |-> ips, rx_bytes |-> 7, tx_bytes |-> 0, last_handshake_time |-> hs]

Endpoints == {None, [ip |-> h1, port |-> 51820]}

\* Every single peer, and pairs of a smaller set so that a key can repeat.
GetPeers == {GetPeer(k, e, ka, ips, hs) : k \in MCKeyIds, e \in Endpoints,
                 ka \in {0, 300}, ips \in DeviceAllowed, hs \in Handshakes}
PairPeers == {GetPeer(k, e, 25, <<AIp(8, 1)>>, hs) :
                 k \in MCKeyIds, e \in Endpoints, hs \in {ZERO, Ago(180334)}}

DeviceWith(ports, ps) ==
  {[private_key |-> pk, listen_port |-> lp, fwmark |-> fm, peers |-> s] :
     pk \in {None, kA}, lp \in ports, fm \in {0, 7}, s \in ps}

PeerLists == {<<>>} \cup {<<p>> : p \in GetPeers} \cup {<<p, q>> : p, q \in PairPeers}

\* The device has a listen port.
MCGetDevices == DeviceWith({51820}, PeerLists)
\* The device reports listen_port 0.
MCZeroPortDevices == DeviceWith({0}, {<<>>})

\* Interfaces telio builds: listen_port None or a port, fwmark 0 or a mark,
\* peers with keepalive ka and allowed IPs ips.
CanonPeer(k, ka, ips) == [NewPeer(k) EXCEPT !.persistent_keepalive_interval = ka,
                                           !.allowed_ips = ips,
                                           !.endpoint = [ip |-> h1, port |-> 51820]]
InterfacesWith(kas, ipss) ==
  {[private_key |-> pk, listen_port |-> lp, fwmark |-> fm, peers |-> ps] :
     pk \in {None, kA}, lp \in {None, 51820}, fm \in {0, 7},
     ps \in {[k \in {} |-> None]} \cup
            {(k :> CanonPeer(k, ka, ips)) : k \in MCKeyIds, ka \in kas, ips \in ipss}}

EmptySet == {}

Net(ip, p) == [ip |-> ip, prefix |-> p]
\* Aligned networks and keepalives a u16 holds.
MCInterfaces == InterfacesWith({None, 25, 65535}, {<<>>, <<Net(8, 1), Net(0, 0)>>})
\* A keepalive of 65536 s (a u32 the configuration may carry).
MCLongKeepaliveInterfaces == InterfacesWith({65536}, {<<Net(8, 1)>>})
\* An allowed IP with host bits set: 9/1.
MCHostBitsInterfaces == InterfacesWith({25}, {<<Net(9, 1)>>})
=============================================================================
