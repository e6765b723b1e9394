----------------------------- MODULE SocketPool -----------------------------
(***************************************************************************)
(* The protected sockets of crates/telio-sockets/src/socket_pool.rs:       *)
(* SocketPool creates a socket, asks the Protector to make it external     *)
(* (make_external), and wraps it in External<T>, whose Drop asks the       *)
(* Protector to clean it.  External<TcpSocket>::connect and               *)
(* connect_timeout move the registration to the connected TcpStream.      *)
(*                                                                         *)
(* The Protector (make_external / clean, outside this repository) is       *)
(* modelled as the set reg of native sockets it holds: make_external adds  *)
(* one, clean removes it.  The OS hands out any free descriptor of Fds, so *)
(* a closed descriptor number is reused.                                   *)
(*                                                                         *)
(* Tasks run on a multi-threaded runtime: each task is one operation at a  *)
(* time, and steps of different tasks interleave.  A step is what the code *)
(* does between two points where another thread can observe the shared     *)
(* state (an await, or a call that closes a descriptor).                   *)
(***************************************************************************)
EXTENDS FiniteSets, TLC

CONSTANTS
  Tasks,        \* tasks using the pool
  Fds,          \* descriptor numbers the OS may hand out
  CONNECT_ERR,  \* TcpSocket::connect may fail
  CANCEL,       \* a connect future may be dropped at its await
  NB_FAIL,      \* set_nonblocking / from_std may fail after connect_timeout
  BORINGTUN     \* boringtun registers sockets of its own (MakeExternalBoringtun)

VARIABLES
  open,      \* descriptors open in the OS
  reg,       \* descriptors the Protector holds as external
  ext,       \* ext[fd]: the kind of the live External holding fd
  internal,  \* descriptors of sockets from new_internal_udp
  op,        \* op[t]: what task t is in the middle of
  bare       \* descriptors of boringtun's sockets

vars == <<open, reg, ext, internal, op, bare>>

Idle == [name |-> "idle"]
InOp(name, fd, kind) == [name |-> name, fd |-> fd, kind |-> kind]

\* The descriptors held by a step in flight.
Held == {op[t].fd : t \in {u \in Tasks : op[u].name # "idle"}}

Init ==
  /\ open = {} /\ reg = {} /\ ext = [f \in {} |-> "none"]
  /\ internal = {} /\ op = [t \in Tasks |-> Idle] /\ bare = {}

Remove(f, fd) == [x \in DOMAIN f \ {fd} |-> f[x]]

(***************************************************************************)
(* new_external_tcp_v4 / new_external_udp, then new_external               *)
(***************************************************************************)
\* Socket::new (or UdpSocket::bind): the OS hands out a free descriptor.
NewSocket(t) ==
  /\ op[t] = Idle
  /\ \E fd \in Fds \ open, kind \in {"tcp_socket", "udp"} :
       /\ open' = open \cup {fd}
       /\ op' = [op EXCEPT ![t] = InOp("make_external", fd, kind)]
  /\ UNCHANGED <<reg, ext, internal, bare>>

\* self.protect.make_external(..)?: on success the External is built; on
\* failure the socket is dropped (closed) and the error returned.
MakeExternal(t) ==
  /\ op[t].name = "make_external"
  /\ op' = [op EXCEPT ![t] = Idle]
  /\ UNCHANGED <<internal, bare>>
  /\ \/ /\ reg' = reg \cup {op[t].fd}
        /\ ext' = (op[t].fd :> op[t].kind) @@ ext
        /\ UNCHANGED open
     \/ /\ open' = open \ {op[t].fd}
        /\ UNCHANGED <<reg, ext>>

(***************************************************************************)
(* new_internal_udp: a socket the Protector never sees                     *)
(***************************************************************************)
NewInternalUdp(t) ==
  /\ op[t] = Idle
  /\ \E fd \in Fds \ open :
       /\ open' = open \cup {fd}
       /\ internal' = internal \cup {fd}
  /\ UNCHANGED <<reg, ext, op, bare>>

DropInternal(t) ==
  /\ op[t] = Idle
  /\ \E fd \in internal :
       /\ open' = open \ {fd}
       /\ internal' = internal \ {fd}
  /\ UNCHANGED <<reg, ext, op, bare>>

(***************************************************************************)
(* Drop for External<T>                                                    *)
(***************************************************************************)
\* Mutant: the socket closed before p.clean(native).
DropExternalCloseFirst(t) ==
  /\ op[t] = Idle
  /\ \E fd \in DOMAIN ext :
       /\ open' = open \ {fd}
       /\ ext' = Remove(ext, fd)
       /\ op' = [op EXCEPT ![t] = InOp("cleaning", fd, "none")]
  /\ UNCHANGED <<reg, internal, bare>>

\* Mutant: Drop forgets p.clean(native).
DropExternalNoClean(t) ==
  /\ op[t] = Idle
  /\ \E fd \in DOMAIN ext :
       /\ open' = open \ {fd}
       /\ ext' = Remove(ext, fd)
  /\ UNCHANGED <<reg, internal, op, bare>>

\* inner.take(); p.clean(native) while the socket is still open; then the
\* socket is dropped.
DropExternal(t) ==
  /\ op[t] = Idle
  /\ \E fd \in DOMAIN ext :
       /\ reg' = reg \ {fd}
       /\ open' = open \ {fd}
       /\ ext' = Remove(ext, fd)
  /\ UNCHANGED <<internal, op, bare>>

(***************************************************************************)
(* External<TcpSocket>::connect                                            *)
(***************************************************************************)
\* Mutant: the socket borrowed (inner.as_ref()) instead of taken.
ConnectStartNoTake(t) ==
  /\ op[t] = Idle
  /\ \E fd \in DOMAIN ext :
       /\ ext[fd] = "tcp_socket"
       /\ op' = [op EXCEPT ![t] = InOp("connecting", fd, "tcp_socket")]
  /\ UNCHANGED <<open, reg, ext, internal, bare>>

\* self.inner.take(); sock.connect(addr).await
ConnectStart(t) ==
  /\ op[t] = Idle
  /\ \E fd \in DOMAIN ext :
       /\ ext[fd] = "tcp_socket"
       /\ ext' = Remove(ext, fd)
       /\ op' = [op EXCEPT ![t] = InOp("connecting", fd, "tcp_socket")]
  /\ UNCHANGED <<open, reg, internal, bare>>

\* Ok(sock): a new External<TcpStream> on the same descriptor.
ConnectOk(t) ==
  /\ op[t].name = "connecting"
  /\ ext' = (op[t].fd :> "tcp_stream") @@ ext
  /\ op' = [op EXCEPT ![t] = Idle]
  /\ UNCHANGED <<open, reg, internal, bare>>

\* Err(e): TcpSocket::connect has consumed and closed the socket; the
\* error arm then calls p.clean(native) (CleanNative).
ConnectErr(t) ==
  /\ CONNECT_ERR
  /\ op[t].name = "connecting"
  /\ open' = open \ {op[t].fd}
  /\ op' = [op EXCEPT ![t] = InOp("cleaning", op[t].fd, "none")]
  /\ UNCHANGED <<reg, ext, internal, bare>>

CleanNative(t) ==
  /\ op[t].name = "cleaning"
  /\ reg' = reg \ {op[t].fd}
  /\ op' = [op EXCEPT ![t] = Idle]
  /\ UNCHANGED <<open, ext, internal, bare>>

\* The connect future is dropped at its await: the socket it owns is
\* closed, and nothing calls p.clean.
ConnectCancel(t) ==
  /\ CANCEL
  /\ op[t].name = "connecting"
  /\ open' = open \ {op[t].fd}
  /\ op' = [op EXCEPT ![t] = Idle]
  /\ UNCHANGED <<reg, ext, internal, bare>>

(***************************************************************************)
(* External<TcpSocket>::connect_timeout: blocking, no await                *)
(***************************************************************************)
\* Ok: set_nonblocking(true)? and TcpStream::from_std(..)? succeed and the
\* stream keeps the registration, or one fails and the socket is dropped
\* without p.clean.  Err: p.clean(native), then the socket is dropped.
ConnectTimeout(t) ==
  /\ op[t] = Idle
  /\ \E fd \in DOMAIN ext :
       /\ ext[fd] = "tcp_socket"
       /\ \/ /\ ext' = [ext EXCEPT ![fd] = "tcp_stream"]
             /\ UNCHANGED <<open, reg>>
          \/ /\ NB_FAIL
             /\ ext' = Remove(ext, fd) /\ open' = open \ {fd}
             /\ UNCHANGED reg
          \/ /\ ext' = Remove(ext, fd) /\ open' = open \ {fd}
             /\ reg' = reg \ {fd}
  /\ UNCHANGED <<internal, op, bare>>

(***************************************************************************)
(* MakeExternalBoringtun for SocketPool: boringtun opens its own sockets   *)
(* and hands each to make_external, ignoring the result (`let _ =`).       *)
(* Nothing ever calls clean for them: boringtun closes them itself.        *)
(***************************************************************************)
BoringtunSocket(t) ==
  /\ BORINGTUN /\ op[t] = Idle
  /\ \E fd \in Fds \ open :
       /\ open' = open \cup {fd}
       /\ bare' = bare \cup {fd}
       /\ \/ reg' = reg \cup {fd}
          \/ UNCHANGED reg
  /\ UNCHANGED <<ext, internal, op>>

BoringtunClose(t) ==
  /\ op[t] = Idle
  /\ \E fd \in bare :
       /\ open' = open \ {fd}
       /\ bare' = bare \ {fd}
  /\ UNCHANGED <<reg, ext, internal, op>>

Next ==
  \E t \in Tasks :
    \/ NewSocket(t) \/ MakeExternal(t) \/ NewInternalUdp(t) \/ DropInternal(t)
    \/ DropExternal(t) \/ ConnectStart(t) \/ ConnectOk(t) \/ ConnectErr(t)
    \/ CleanNative(t) \/ ConnectCancel(t) \/ ConnectTimeout(t)
    \/ BoringtunSocket(t) \/ BoringtunClose(t)

Spec == Init /\ [][Next]_vars

(***************************************************************************)
(* Properties                                                              *)
(***************************************************************************)
\* The descriptors a step in flight owns (a "cleaning" step holds a number
\* whose socket is already closed).
Owning == {t \in Tasks : op[t].name \in {"make_external", "connecting"}}

\* Every open descriptor has exactly one owner: one live External, one
\* internal socket, or one step in flight; nothing owns a closed one.  A
\* socket moved into connect is no longer reachable through the External.
OwnershipExclusive ==
  /\ DOMAIN ext \cup internal \cup bare \cup {op[t].fd : t \in Owning} = open
  /\ DOMAIN ext \cap internal = {} /\ (DOMAIN ext \cup internal) \cap bare = {}
  /\ \A t \in Owning : op[t].fd \notin DOMAIN ext \cup internal \cup bare
  /\ \A t, u \in Owning : t # u => op[t].fd # op[u].fd

\* Every live External, including a TcpStream made by connect or
\* connect_timeout, is registered with the Protector: traffic on it leaves
\* outside the tunnel.
ExternalsProtected == DOMAIN ext \subseteq reg

\* The Protector holds nothing stale: every registered descriptor is that
\* of a live External, of a connect in flight, or one whose p.clean is the
\* very next step of its task.  (The create_and_clean_sockets test: every
\* socket made external is cleaned.)
NoStaleRegistration == reg \subseteq DOMAIN ext \cup Held

\* A socket made by new_internal_udp is never treated as external.
InternalSocketsUnprotected == internal \cap reg = {}
=============================================================================
