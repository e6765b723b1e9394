# TLA+ models of libtelio

This directory holds TLA+ models of the libtelio sources under `src/`, the TLC
configurations that check them, and `PROJECT.json`. `PROJECT.json` lists:
- the components;
- the runs;
- the mutants;
- the map from every modelled definition to its source lines;
- the findings;
- the hazards.

## The system and its parts

| Part | Source | What it is | Module | Status |
|---|---|---|---|---|
| UAPI response parser | `crates/telio-wg/src/uapi.rs` `response_from_read`, `parse_peer`, `Peer::calculate_time_since_last_handshake` | Reads WireGuard's `key=value` text line by line into an `Interface`. It has sequential loops over one reader and no concurrency. | UapiWire, UapiParser, UapiSpec, MCUapiParser | modelled |
| Converters | `uapi.rs` `From` impls | Pure conversions between the wireguard-uapi `get`/`set` types and telio's `Peer`/`Interface`. | UapiConvert, MCUapiConvert | modelled |
| Connectivity classifier | `uapi.rs` `Peer::connected` | A pure function of the handshake age. | UapiConvert | modelled |
| Display of `Cmd`/`Response` | `uapi.rs` 275-297 | The request text handed to the transport. | UapiConvert (`Cmd`) | partly |
| Socket pool | `crates/telio-sockets/src/socket_pool.rs` | `External<T>` wraps a socket registered with a `Protector`, and its Drop calls `clean`. `connect` and `connect_timeout` move the registration to the connected stream. The pool is used from tokio tasks on several threads. | SocketPool | modelled |
| Native helpers | `crates/telio-sockets/src/native.rs` | FFI aliases, with no state. | — | not modelled |
| Packet codec | `crates/telio-proto/src/packet/mod.rs` | `PacketType::from(u8)`, the `Packet::decode` dispatch, `Packet::encode`/`packet_type` with the `From` impls, and `PeerId`/`WGPort::try_from`. | PacketCodec | modelled |
| Event log | `crates/telio-lana/src/event_log_file.rs` `event_log` | The libmoose mock. Every mocked function calls `event_log` and maps its result, which checks `exists()`, creates (truncating) or appends, and issues one `write`. | EventLog | modelled |
| Crate roots | `telio-utils/src/lib.rs`, `telio-proto/src/lib.rs` | Module declarations only. | — | not modelled |

How the parts interact:
- The parser produces the `Interface`/`Peer` values.
- The converters turn device reports into those values, and turn those values
  into `set` commands.
- The classifier reads a peer's handshake age.
- The socket pool, the codec and the event log are independent of these parts
  and of each other. Each is checked on its own.

## Modules

- **UapiWire**: the vocabulary shared by the code model and the spec:
  - the lines `read_line` can deliver;
  - the `FromStr` conversions, computed from texts made of symbols;
  - `std::time::Duration`, with `AddOverflows`, the panic condition of
    `+=`, where u64 is `0..U64_MAX`;
  - `Peer::default`, `Interface::default` and `BTreeMap::insert`;
  - `calculate_time_since_last_handshake`.
- **UapiParser**: the code of the parser. `pc` is one of `outer`, `peer`,
  `done` or `panicked`. There is one action per match arm, plus the
  end-of-line and missing-`=` cases.

  When `parse_peer` ends, its single step runs the rest of the handler:
  1. it computes the handshake age;
  2. it inserts the peer;
  3. it applies the errno or continues.

  The stream is the environment. It delivers at most `MAX_LINES` lines, shaped
  by `TERMINATED`, `TRAILING` and `UNIQUE_KEYS`.
- **UapiSpec**: the abstract machine of spec.md sections 4.1, 4.2, 4.4, 7
  and 9. Its modes are `ReadingInterface`, `ReadingPeer`, `Done` and
  `Violation`.
- **MCUapiParser**: the model values, the texts and the clock. It defines the
  refinement mapping `AbsMode`, and `ImplementsUapiSpec == Abstract!Spec`.
  The spec shares `line` with the code, so each code step must be explained
  by the same line.
- **UapiConvert**: the converters, in stages over one value:
  1. `FromGetDevice`: a `get::Device` becomes an `Interface`. Every peer's
     clock reading is chosen from `Clock`, which includes a failing clock.
  2. `ToSetDevice`: the `Interface` becomes a `set::Device`.
  3. `FromSetDevice`: the `set::Device` is read back, or
  4. `RenderSet`: `Cmd::Set` of it is displayed (`CmdText`), giving the
     request text `text`, a sequence of `<<key, value>>` lines ended by the
     empty line `<<>>`. The `Display` of `set::Device` belongs to
     `wireguard_uapi`; `DeviceLines` assumes it writes one line per field
     that is `Some`, interface fields first, then each peer's block.

  An `Interface` telio builds itself can also start at stage 2.

  `IpNetwork::new` and `network()` are computed over `ADDR_BITS`-bit
  addresses. `Connected` is `Peer::connected`.
- **MCUapiConvert**: keys, hosts, a clock at 1000 s, and the device and
  interface sets. Handshakes are at 180.333, 180.334 and 180.335 s ago, never,
  and in the future.
- **SocketPool**: the state is:
  - `open`: the descriptors open in the OS;
  - `reg`: the Protector's registry;
  - `ext`: the live Externals and their kind;
  - `internal`: the internal UDP sockets;
  - `op[t]`: the step task `t` is in the middle of.

  The OS hands out any free descriptor, so numbers are reused.

  The actions are `NewSocket`, `MakeExternal`, `NewInternalUdp`,
  `DropInternal`, `DropExternal`, `ConnectStart`, `ConnectOk`, `ConnectErr` →
  `CleanNative`, `ConnectCancel` and `ConnectTimeout`. A step ends where
  another thread can observe the change:
  - at the `await` in `connect`;
  - between `TcpSocket::connect` closing the socket and `p.clean` in its
    error arm.

  Four switches enable the failure paths and the boringtun hook:
  - `CONNECT_ERR`: a connect fails;
  - `CANCEL`: a connect future is dropped at its await;
  - `NB_FAIL`: `set_nonblocking`/`from_std` fails after `connect_timeout`;
  - `BORINGTUN`: `MakeExternalBoringtun` (socket_pool.rs:289) registers
    sockets boringtun opens, ignoring the result (`BoringtunSocket`). The
    variable `bare` holds them. Boringtun closes them itself, outside this
    repository (`BoringtunClose`), and nothing calls `clean` for them.
- **PacketCodec**: the state is:
  - `endian`: the build's byte order, chosen once;
  - `last`: the last call, with its input and its result.

  The actions are `DecodePacket`, `DecodePeerId`, `DecodeWGPort` and
  `EncodePacket`. The message codecs that `decode` and `encode` forward to
  are in files outside the repository:
  - a message decoder may succeed or fail;
  - a message reports one of its codec's types (`MessageTypes`: a `DataMsg`
    is `Data`, or `GenData` when it carries a generation);
  - it encodes as that type's byte and a payload, or fails.

  `PacketFrom` is the `From` impls and `PacketTypeOf` is `packet_type`.
  `downcast` for `Packet` is the identity and is not modelled.
- **EventLog**: writers are threads calling moose functions. Each call is
  three steps, because another thread can change the file between them:
  1. `CheckExists`;
  2. `OpenAppend` or `Create`, either of which may fail (`Fail`);
  3. `Write`.

  `Write` writes a prefix of the line: the whole line, a short write, or
  nothing when the write fails (`Err` is `Ok(0)`). An append-mode descriptor
  writes at the end of the file. The one `File::create` returned writes at
  offset 0.

  `Return` is the mocked moose function around the call. Every one of them
  maps `event_log`'s `Ok(_)` to success and anything else to
  `Err(EventLogError)`.

  Two history variables record the calls:
  - `written`: what each call reported;
  - `failed`: the calls whose moose function returned an error.

  A writer makes its calls whatever each returned, as `init_device_info`
  does.

## Runs

| Run | Config | Checks | Result |
|---|---|---|---|
| uapi_structure | MCUapiStructure.cfg | `TypeOK`, `ImplementsUapiSpec` | pass |
| uapi_handshake | MCUapiHandshake.cfg | `ImplementsUapiSpec` | pass |
| uapi_after_terminator | MCUapiTrailing.cfg | `ImplementsUapiSpec` | violation |
| uapi_handshake_overflow | MCUapiOverflow.cfg | `ImplementsUapiSpec` | violation |
| convert | MCConvert.cfg | `TypeOK`, `QueryKeepsLastOccurrence`, `ConnectedMatchesSpec`, `RoundTripPreserved` | pass |
| convert_keepalive_truncation | MCConvertLongKeepalive.cfg | `RoundTripPreserved` | violation |
| pool_connect_errors | MCPoolConnectErrors.cfg | `OwnershipExclusive`, `NoStaleRegistration` | pass |
| pool_concurrent | MCPoolConcurrent.cfg | `ExternalsProtected` | pass |
| pool_connect_cancelled | MCPoolCancel.cfg | `InternalSocketsUnprotected` | violation |
| pool_connect_err_fd_reuse | MCPoolErrReuse.cfg | `ExternalsProtected` | violation |
| packet_codec | MCPacketCodec.cfg | `DecodeMatchesTypes`, `IdsAreBigEndian`, `EncodeDecodeAgree` | pass |
| event_log_single_writer | MCEventLogSingle.cfg | `LogIsCallOrder`, `ErrorLeavesNoTrace` | pass |

What the runs show:
- **uapi_structure and uapi_handshake**: within streams of up to 5 and 6
  lines, the parser implements the spec line for line:
  - for every key;
  - for malformed values;
  - for read errors;
  - for lines without `=`;
  - for the handshake fields in any order, repeated, overflowing or in the
    future; uapi_handshake also reads the clock as failing
    (`MCHandshakeClock`), which both code and spec turn into no handshake
    age. `UapiSpec` takes a failed clock read as `None`: section 4.4 allows
    no panic and no other result.

  These runs keep the stream to the cases where code and spec agree:
  - every line terminated;
  - nothing after a line that ends the response;
  - `listen_port` at most once.

  Each excluded case is a divergence, recorded in the hazards:
  - uapi.rs:318: `pop` eats a character of an unterminated last line;
  - uapi.rs:338: a repeated `listen_port` with 0 keeps the earlier port.

  **uapi_after_terminator**: a line after a blank line is still applied.

  **uapi_handshake_overflow**: `last_handshake_time_nsec` of 1.5 s and
  `last_handshake_time_sec` of `u64::MAX`, each sent once, make
  `Duration +=` (uapi.rs:414 or 422, by their order) panic on two
  well-formed lines. spec.md section 8 says
  the parser never panics on well-formed input.
- **convert**:
  - device reports with repeated keys keep the last block of each key;
  - an unparsable allowed IP drops the whole list;
  - `connected` is exactly "handshake less than 180.334 s ago";
  - interfaces with keepalives up to 65535 round-trip exactly through
    `set::Device`.

  The run also renders each `set::Device` as its Set request
  (`RenderSet`). No property is stated on that text: the ones that could
  be either restate the `fwmark == 0` test, or need a device that reports
  port 0, which breaks them (below).

  **convert_keepalive_truncation**: `x as u16` sends a keepalive of 65536 s as
  0. Two other divergences stay in the hazards:
  - a device reporting port 0 sends `Some(0)` (uapi.rs:115);
  - host bits in an allowed IP are cleared by `network()` (uapi.rs:88).
- **pool_connect_errors**: with three tasks and connect errors:
  - every open descriptor has exactly one owner (`OwnershipExclusive`);
  - the registry is exactly the live Externals plus the steps in flight
    (`NoStaleRegistration`). Dropping `p.clean` from `Drop` breaks it.

  With `BORINGTUN = TRUE` `NoStaleRegistration` fails as soon as boringtun
  registers a socket, since such a socket is never an External; the
  property cannot tell that registration from one boringtun leaves behind
  when it closes the socket. This is listed as a hazard (socket_pool.rs:292).
  Whether it is a leak depends on the Protector implementations, which are
  outside this repository.

  **pool_concurrent**: three tasks with cancellation, `connect_timeout`
  failures and boringtun sockets never leave a live External unregistered.

  The violations are:
  - **pool_connect_cancelled**: a dropped connect future leaves a stale
    registration, which an internal socket that reuses the descriptor
    inherits.
  - **pool_connect_err_fd_reuse**: `p.clean` after a connect error unregisters
    another task's new External on the reused number.
- **packet_codec**: on both hosts, for every input of up to 3 bytes:
  - `decode` rejects exactly the empty slice and the first bytes outside
    `Packet::TYPES`;
  - `PeerId` (transmute + `to_be`) and `WGPort` (`from_be_bytes`) both decode
    in network order, as spec.md section 9 requires;
  - the bytes `encode` produces for a packet of any variant, holding a
    message of any type its codec reports, are dispatched by `decode` back to
    that variant (`EncodeDecodeAgree`). The mutant that swaps decode's two
    CallMeMaybe arms breaks it.
- **event_log_single_writer**: with one caller whose writes may be short or
  fail, the file is the concatenation of the reported bytes, in call order.
  A moose function that reports an error has left nothing of its line in the
  file, so a caller may retry it without logging the event twice
  (`ErrorLeavesNoTrace`). The property holds because `event_log` fails only
  before it writes, and a failed write becomes `Ok(0)`. Written with
  `write_all(..).map_err(..)`, a write cut short would fail the call after
  its first bytes landed. That mutant breaks the property.

  The race between two callers that both see no file and both
  `File::create` is a hazard (event_log_file.rs:40). The second create
  erases a line already reported written: with two writers TLC finds
  `LogIsCallOrder` violated in five steps. It is not a run, to keep the run
  count small.

### Bounds

- **Parser**: 5–6 lines let every pair of arms happen in either order, two
  blocks share a key, and a malformed line follow a complete peer.
  `KEY_LEN = 2`. The clock is 1000 s, because TLC's integers are 32-bit and
  sums of real timestamps overflow. u64 is `0..2^31-1` in the passing runs.
  The overflow run scales it to `U64_MAX = 2047` with `NANOS_PER_SEC = 1000`:
  the panic condition `secs + secs + carry > U64_MAX` has the same shape at
  any width.
- **Converters**:
  - two keys, so repetition happens;
  - 4-bit addresses, so prefixes 0–4 and an invalid 5 exist;
  - handshakes 1 ms either side of the deadline;
  - keepalives 25, 65535 and 65536 around the u16 limit.
- **Pool**:
  - the passing runs have three tasks, so all three can be mid-connect at
    once. pool_concurrent has four descriptors, pool_connect_errors three;
  - the violation runs have one or two tasks and three descriptors, the
    fewest that show their counterexamples.
- **Codec**: encoded payloads of zero or one byte. The bytes 0, 1, 5 (Encrypted), 7, 8 (the first unassigned value),
  128, 254 (Reserved) and 255 (Invalid). This covers:
  - both sides of every boundary of the enum;
  - a high bit that would show a byte swap.
- **Event log**:
  - lines of 2 bytes, so a short write is possible;
  - three calls for one writer: create, then two appends;
  - one call each for two writers, enough for the create race.

### Fairness

No run assumes fairness, and none checks liveness. The uapi, converter,
codec and event-log parts are sequences of calls made by their caller, and
the code promises nothing about when the caller makes them. In the pool a
connect may never complete and a caller may never drop its sockets. The
one step that runs without a caller, `p.clean(native)` right after a failed
connect, is what the pool's safety properties are about: it runs on a
closed number, which `pool_connect_err_fd_reuse` shows.

Deadlock handling differs by part:
- `CHECK_DEADLOCK FALSE` is set where the run really stops: a returned or
  panicked parse, a converted value, an event-log writer that made its calls.
- The pool runs check deadlock. A task can always create or drop a socket.

### Mutants

Every property of a passing run is broken by a plausible bug in a mapped
definition. `PROJECT.json` lists them all. Examples:
- a port parsed as u32;
- errno checked before the peer insert;
- an inclusive deadline;
- `as u8`;
- a borrowed instead of taken socket;
- close before clean;
- `from_repr` defaulting to `Data`;
- a missing `to_be`;
- an append open without `.append(true)`.

## Not modelled, and why

- **The spec's sentinel for "never"**: spec.md sections 3 and 4.4 disagree.
  The model follows 4.4, as the code does.
- **Packet message codecs**: they are not in this repository. The model
  states only what `Packet` relies on them for.
- **The macOS `force_protect` path of the socket pool** (socket_pool.rs:272):
  on macOS with `force_protect` false, `make_external` is skipped, yet `Drop`
  still calls `clean`. The model is the non-macOS build. A skipped
  registration leaves nothing for `Drop` to withdraw, so the branch adds no
  interleaving. Only `ExternalsProtected` would change, by design, for those
  sockets. The macOS `make_internal` call in `new_internal_udp` goes to the
  Protector, which is outside this repository.
- **`Display` for `Response`** (uapi.rs:288-297), and rendering of
  `Cmd::Get`: `CmdText` defines both arms of `Display` for `Cmd`, but only
  `RenderSet` is a step, as the `get=1` text carries no state and nothing
  telio does depends on the `Response` text. Two differences from spec.md
  are noted here; each would need a violation run of its own:
  - `Cmd::Get` renders as `get=1\n` alone, while sections 4.5 and 6 say
    "`get=1` then a blank line". `Cmd::Set` does end with one (`writeln!`
    after the device's lines), so the two requests disagree on who writes
    the terminator;
  - `Response` renders `error=N`, while the response grammar's key is
    `errno`. The parser ignores it as an unknown key, and reads errno 0.
- **native.rs and the crate roots**: FFI calls and module declarations, with
  no state. The undefined behaviour in `interface_index_from_name` is
  recorded as a hazard: it passes a `&str` without a terminating NUL to
  `if_nametoindex`, and what the C side reads past the string is outside
  anything a model of this code can decide.

## Plan

Next steps:
1. Check the `Cmd::Get` text and the `Response` text against spec.md's
   terminator and key, as violation runs, if the run budget allows.
2. Turn the parser divergences kept only in hazard notes into runs, if the
   run budget allows.
