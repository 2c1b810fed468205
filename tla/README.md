# Formal models of the Arrow Connect C SDK connectivity core

This directory holds TLA+ models of the code under `src/`: what it does,
how TLC checks them, and what TLAPS proves about them for every value of
the constants. Each module is translated from the C source. The `map` of
`PROJECT.json` lists, for every definition, the lines of code it stands for.

## 1. The system

`src/src/arrow/routine.c` is the orchestrator. It is single-threaded and
cooperative: the application calls one public routine at a time, and that
routine blocks on its collaborators until it returns. Its state is a set
of process-wide statics (lines 26-35):

* `_gateway`, `_device`, `_gateway_config`: the identities and the config.
  The `hid` field of an identity is empty until it is registered or
  restored.
* `_init_done`: the session is ready. Telemetry and state routines check it.
* `_init_mqtt`: two bits, one per MQTT channel (telemetry, command). The
  connect routines set them; `arrow_mqtt_disconnect_routine` and
  `arrow_mqtt_terminate_routine` clear them.

The parts and how they interact:

| Part (spec section) | Code | What it does |
|---|---|---|
| Retry policy (4.1) | `RETRY_UP`/`RETRY_CR` + `msleep` in every loop of routine.c | bounded, flat-delay retry per workflow step |
| Registration (4.2) | `arrow_connect_gateway`, `arrow_connect_device` (75-141) | restore or register the identity; checkin/update or find; start the state sub-session |
| Config resolver (4.3) | `_gateway_config_proc`, gateway.c 32-100 | accept or reject the config response; store the keys |
| Transport sessions (4.4) | routine.c 242-359 | connect, subscribe, disconnect and terminate the two channels |
| Telemetry loops (4.4) | routine.c 366-494 | produce, publish, receive events; feed the watchdog |
| Lifecycle (4.5) | `arrow_initialize_routine`, `arrow_gateway_initialize_routine`, `arrow_close` | the workflow, its error labels, the shutdown order |
| Watchdog (5) | `wdt_feed` (watchdog.h) | must be fed at every blocking boundary |
| HTTP objects | `src/src/http/request.c` | request/response objects, URL split, payload accumulation |
| Dynamic properties | `src/src/data/property_dynamic.c` | owned and weak heap strings |
| MQTT network | `src/src/mqtt/client/src/network.c` | socket read loop, connect |
| Byte order | `src/src/bsd/inet.c` | htons/htonl (not modelled) |

The collaborators are outside `src/`: the REST transport, the MQTT client,
the persistence store, the state sub-session and the watchdog hardware.
They are nondeterministic in the model. Any call may succeed or fail.
Persistence keeps what was saved across a reset. The MQTT client has a
connection up only after a successful connect.

## 2. Modules

### `Routine.tla`: the orchestrator

**State.** The variables are:

* `pc`: the position inside the running routine (`"idle"` when none runs).
* `retry`: the running loop's local counter.
* The statics, as Booleans and sets: `init_done`, `init_mqtt` (the set of
  set bits), `gateway_hid`, `device_hid` (the `hid` is non-empty),
  `config_keys`.
* The collaborators: `storage` (the persisted gateway and device records),
  `mqtt` (which connections are up), `state_running` (the state
  sub-session), `event_pending` (`arrow_mqtt_has_events()`).
* `unfed`: the number of blocking calls since the last `wdt_feed`, capped at
  `WdtGapCap`.

**Actions.** Every public routine that changes state is an action taken
from `"idle"`. These are `arrow_initialize_routine`,
`arrow_gateway_initialize_routine`, `arrow_send_telemetry_routine`, every
connect, subscribe, disconnect and terminate routine,
`arrow_mqtt_connect_routine`, the two telemetry loops, the once variant,
`arrow_mqtt_event_receive_routine` and `arrow_close`. Its guard is the
routine's early returns. A routine with a loop sets `pc` to the loop. Each
attempt of the loop is then an SDK step (`GatewayConnectStep`,
`GatewayConfigStep`, `DeviceConnectStep`, `HttpTelemetryStep`,
`TelemetryConnectStep`, `EventConnectStep`, `SubscribeStep`, and one cycle of
each telemetry loop).

* **Attempt outcomes.** The outcome of one attempt is computed by operators
  translated from the called function. `connect_gateway` follows every
  branch of `arrow_connect_gateway`. `connect_device` follows the three
  compile-time variants of the restore-hit branch of `arrow_connect_device`
  (the constant `DevicePath`). `config_proc_ok` is the decision of
  `_gateway_config_proc`.
* **Failed attempts.** A failed attempt runs `Failed`. Either `RETRY_UP`
  aborts, or the loop counts the failure and sleeps.
* **Error labels.** The abort also runs the error labels of
  `arrow_initialize_routine` (`gateway_reg_error` and the rest), which free
  the identities.
* **Composite routines.** `arrow_mqtt_connect_routine` chains its callees in
  its own `pc` values (`mc_*`). This includes the yield of
  `arrow_mqtt_event_receive_routine` and the subscribe it may skip.
* **Environment.** The environment has two actions. `EventServed` is the
  application's event handler. `Reboot` is a reset at any moment: RAM is
  lost and `storage` is kept.

**Constants.**

| Constant | Meaning |
|---|---|
| `MaxRetry` | the bound of `RETRY_UP` |
| `Events` | `NO_EVENTS` is undefined |
| `DevicePath` | `"update"`: software-update sync; `"check"`: `CHECK_DEVICE_REG`; `"close"`: neither |
| `ReinitWhileReady` | whether the client may call an initialize routine again on a ready session |
| `WdtGapCap` | the cap of `unfed` |

**Fairness.** The specification is
`Init /\ [][Next]_vars /\ WF_vars(SdkStep)`. The running routine is the only
thread and keeps executing, so weak fairness of its steps is what the code
guarantees. The application's calls, the event handler and resets get no
fairness: nothing in the code forces them.

### `SessionLifecycle.tla`: what the routines promise

This is the abstract specification of the session as the application sees it.
It drops the retry loops, the watchdog, the config keys and the event queue.
Its state is four variables:

* `ready`, which is `_init_done`;
* `gw` and `dev`, whether the `_gateway` and `_device` identities are held;
* `links`, the set of open MQTT connections.

Its actions:

* `AcquireGateway`: a gateway is acquired while the session is not ready.
* `Abandon`: a failed attempt drops identities, only while no link is open.
* `BecomeReady`: the session becomes ready under a gateway, possibly
  acquiring the device in the same step.
* `Open(c)`: a link opens in a ready session holding both identities.
* `CloseLinks`: some links close.
* `Shutdown`: everything is dropped at once, by `arrow_close` or a reset.

`Routine` maps onto it with
`Lifecycle == INSTANCE SessionLifecycle WITH ready <- init_done, gw <- gateway_hid, dev <- device_hid, links <- OpenLinks`.
`OpenLinks` is the set of channels whose `mqtt` flag is up. It is not
`_init_mqtt`, because that flag is stale after a disconnect (finding 1).

### `RoutineProofs.tla`, `SessionProofs.tla`, `LifecycleProofs.tla`, `DynPropertyProofs.tla`: proofs

These four modules, with `NetworkProofs.tla` and `HttpResponseProofs.tla`, hold the TLAPS proofs (section 4).

### `DynProperty.tla` (with `MCDynProperty.tla`): dynamic properties

This module models `property_dynamic.c`, the heap-string type behind every
`property_t` the SDK builds at run time.

* **State.** The caller's `property_t` variables are `Slots`, and `prop[s]`
  is their value pointer, size, `is_owner` and `is_raw`. The heap is
  `NBlocks` blocks. `cap[b]` is the number of bytes block `b` holds (0 when
  it is free), and `slen[b]` is what `strlen` returns on it.
* **Pointers.** A pointer is a block, `NULL`, or `DANGLING`, which means it
  points into a block that has been freed. Contents are reduced to their
  two lengths, because the code reads nothing else.
* **Actions.** There is one action per operation: `StringTo` and `RawTo`
  (the constructors, 129-143), `Copy` (53-66), `Weak` (68-72), `Move`
  (74-82), `Destroy` (84-88), `Concat` (90-113) and `DynamicDestroy`
  (123-127).
* **Allocator.** Each allocation draws from `AllocResults`. It includes
  `NULL` when `OOM` is set, and `StaticBuf` selects the `static_strndup`
  allocator (20-39). The two builds duplicate differently
  (`StrndupBytes`). `static_strndup` takes size + 1 bytes and copies all
  of them. libc `strndup` (47) stops at the first NUL and takes
  strnlen + 1. The two differ only for a raw value with an embedded NUL.
* **Faults.** A free of an already freed block sets `fault` to
  `"double_free"`, and a `strlen` of `NULL` sets it to `"null_read"`. Once
  `fault` is set, `Next` stops.
* **The caller.** The modelled caller keeps the property contract. It writes
  only into unused slots, never reads through a dangling pointer, destroys a
  slot once, and does not concat a buffer onto itself through an alias.
* **MC module.** `MCDynProperty` takes three slots as model values, with
  symmetry over them.

### `UrlParse.tla`: the URL split of `http_request_init`

`Parse(url)` is `request.c` 53-87 written as an operator:

1. find the scheme with `strstr(url, "://")`;
2. match the scheme with `cmp_n_Scheme`;
3. find the host's end at the next `':'`;
4. read the port with `sscanf "%8hu"`, keeping the sign, the width of 8 and
   the value modulo 2^16;
5. take the uri from the next `'/'`.

Every early return gives its own result. The state is one input URL, built
from parts (scheme, separator, host, port, path) in all 540 combinations.
The parts of a well-formed URL are its reference decomposition.

### `HttpResponse.tla` (with `MCHttpResponse.tla`): the response body

This module models how the HTTP client fills a response:
`http_response_add_header` (186-195), `http_response_set_payload` (202-209),
`http_response_add_payload` (211-234) and `http_response_free` (123-139).

* **The payload buffer.** It is a sequence of bytes. Each byte names the
  chunk it was copied from, so overwrites and gaps are visible.
* **Other state.** `sent` is the chunks delivered so far. `body` is a
  history variable: the bytes of those chunks, in order, appended by every
  delivery. It has no counterpart in the code. It is what the payload
  should be, and it lets the proof speak of it without a recursive
  definition. `overflow` records a write past the buffer.
* **Left out.** Whether `add_payload` frees the caller's chunk (232) or
  keeps it (215, 230) is not recorded. The checked client reaches only the
  freeing path, so no property could tell the paths apart (see the
  hazards).
* **Constants.** `FirstBySet` chooses whether the first chunk goes through
  `set_payload`. `Kinds` chooses whether chunks may be const properties.

### `Network.tla`: the MQTT transport

This module models `network.c`.

* **Actions.** `NetworkInit` (77-81) and `NetworkConnect` (90-141) each have
  an action. `NetworkConnect` takes the lowest free descriptor and may fail
  in each of its failure returns (`ConnectFailed`, 126-139). The other
  actions are `NetworkDisconnect` (83-88) and `Write` (51-74). The `_read`
  loop (12-47) is split into `ReadStart`, one `ReadStep` per `recv`, and the
  return.
* **Environment.** The descriptor table `fds` is shared with the SDK's other
  sockets (`OtherOpen`, `OtherClose`). The peer adds bytes between the
  loop's `recv` calls (`Arrive`) and may close its end (`PeerClose`).
* **Fairness.** The specification has none: its properties are all safety.
* **Return values.** `last.rc` ranges over `Rcs`: the error codes, the
  byte counts up to `MaxRead`, and the descriptors, which a successful
  `NetworkConnect` returns.

### `NetworkProofs.tla`

This module holds the TLAPS proofs about `Network` (section 4).

### `HttpResponseProofs.tla`

This module holds the TLAPS proofs about `HttpResponse` (section 4).

### `UrlParseProofs.tla`

This module holds the TLAPS proofs about `UrlParse` (section 4).

## 3. Runs

All runs use `MaxRetry = 2` and `WdtGapCap = 3`. With `MaxRetry = 2` every
loop can fail, retry, succeed after a retry, and be exhausted, and an
exhausted loop reaches its error label. Three unfed blocking calls are one
more than a cycle of a telemetry loop may make between feeds. Every initial
`storage` (restore hit or miss, gateway and device) is an initial state.

| Run | cfg | Result | What it shows |
|---|---|---|---|
| `routine_update_events` | `Routine.cfg` | pass | The session invariants hold in an update build with events. Every routine returns, and a pending event ends the send loop. |
| `routine_no_events` | `RoutineNoEvents.cfg` | pass | The same holds in a `NO_EVENTS` build whose restore hit only closes the HTTP client. |
| `routine_flags` | `RoutineFlags.cfg` | violation | Disconnecting a channel leaves its `_init_mqtt` bit set. |
| `routine_keys` | `RoutineKeys.cfg` | violation | A config response with only one of the two keys is accepted. |
| `routine_watchdog` | `RoutineWatchdog.cfg` | violation | A producer that keeps skipping keeps the loop unfed. |

The properties are:

* **`ReadySessionHeld`**: `_init_done` implies a gateway identity.
* **`DeviceSessionConsistent`**: the state sub-session runs exactly when the
  session is ready with a device.
* **`IdentityOutlivesChannels`**: no MQTT connection is up without both
  identities. This is the shutdown order of spec P5.
* **`RoutinesReturn`**: every retry loop returns. This is the bounded retry
  of spec P3, checked under weak fairness of the SDK's steps only.
* **`EventEndsLoop`**: a pending event ends `arrow_mqtt_send_telemetry_routine`.
  This is spec P6.
* **`ImplementsLifecycle`**: `Lifecycle!Spec`, the refinement of
  `SessionLifecycle`, checked as a temporal property. It fails if a routine
  changes an identity in a ready session or drops one under an open link.
  It also fails if a link opens without both identities, or if a ready
  session is left other than by a full shutdown.
* **`ChannelFlagsTrack`**: a set `_init_mqtt` bit means the connection is up.
  This is spec 4.4.
* **`ReadyImpliesCredentials`**: a ready session has both keys. This is
  spec 3 and 4.3.
* **`TelemetryLoopFeedsEachCycle`**: inside a loop, at most two blocking
  calls between feeds. This is spec 5.

Each property of a passing run has a mutant in `PROJECT.json`: a plausible
bug in the mapped code under which TLC finds the property violated. The
mutants are:

* a retry loop that tests its bound before counting the failure
  (`FailedCheckBeforeCount`);
* `arrow_close` keeping `_init_done` (`arrow_close_keeps_ready`);
* the state hand-off reached only after a registration
  (`connect_device_run_on_register`);
* `arrow_close` freeing before tearing down (`arrow_close_no_teardown`),
  for `IdentityOutlivesChannels` and for `ImplementsLifecycle`;
* a retry counter never advanced (`FailedUncounted`);
* the send loop without its event check (`SendTelemetryCycleNoEventCheck`).

### Runs of the other modules

| Run | cfg | Result | What it shows |
|---|---|---|---|
| `dyn_raw` | `DynRaw.cfg` | pass | With string and raw properties in the libc build, no buffer is freed twice and none leaks, through any sequence of the operations. |
| `dyn_raw_copy` | `DynRawCopy.cfg` | violation | In the static-buffer build, a copy of a raw property loses `is_raw`, and a concat onto it then overruns its size. |
| `url_well_formed` | `UrlParse.cfg` | pass | Every well-formed URL is split into its own parts, even with a `':'` in the path. |
| `http_response` | `HttpResponse.cfg` | pass | With `set_payload` first, the payload is the concatenation of the chunks. |
| `resp_overflow` | `RespOverflow.cfg` | violation | The terminator is written one byte past the reallocated payload. |
| `network` | `Network.cfg` | pass | A failed connect releases its socket, and `_read` returns the bytes it took. |
| `net_stale_socket` | `NetStaleSocket.cfg` | violation | `NetworkDisconnect` after a failed connect closes another component's socket. |

**Bounds.**

* **`DynProperty`.** Three slots, four blocks and `MaxLen = 2`. This is
  enough for a chain of copy, weak alias and move between three variables,
  and a concat whose result grows. Sizes 0, 1 and 2 cover the empty string,
  an embedded NUL and a string that fills `MaxLen`.
* **`HttpResponse`.** Four chunks of at most two bytes and three headers.
  This gives two appends after a first chunk, with unequal lengths.
* **`Network`.** Two descriptors, so that another socket can take the one a
  failed connect released. Reads of at most three bytes arrive in pieces
  over several `recv` calls.
* **`UrlParse`.** Its inputs are every combination of the parts listed.

**Mutants.**

* `Grown` adding the terminator: TypeOK.
* `Move` keeping the source owner: NoDoubleFree.
* `Destroy` keeping the block: NoLeak.
* `HostEnd` at the last `':'`: ParsesWellFormed.
* `GrowSize` doubling: TypeOK.
* `Appended` at the new size: PayloadIsConcatenation.
* `RecvResults` uncapped: TypeOK.
* `ConnectFailed` keeping the socket: FailedConnectReleases.
* `OnRecv` overwriting instead of accumulating: ReadAccounting.

### Findings

The violation runs are the disagreements between the code and the spec
met while modelling them (`findings` in `PROJECT.json`):

1. `arrow_mqtt_disconnect_*` and `arrow_mqtt_terminate_*` (routine.c 257-316)
   never clear their bit. After that, a reconnect of the channel is refused
   at 243 or 277. The telemetry loops' guards also accept a closed
   connection.
2. `_gateway_config_proc` (gateway.c 55-71, 96) returns success when the
   key object lacks a key.
3. The skip branch of the telemetry loops (391, 437) bypasses `wdt_feed`.
4. `dynmc_copy` (property_dynamic.c 65) drops `is_raw`. A later concat
   measures the copy with `strlen` but adds to its raw size. The run is
   the static-buffer build, where `static_strndup` keeps every byte of a
   raw value, so the copy and the concat are what break the size. The
   run does not check deadlock, because the model's faults stop the
   program.
5. `add_payload` (request.c 226) writes the terminator at `buf[size]` after
   reallocating `size` bytes.
6. The failure returns of `NetworkConnect` (network.c 127, 132, 137) close
   the socket but keep `my_socket`. A later `NetworkDisconnect` closes a
   descriptor that may by then belong to the HTTP client.

### Disagreements kept as hazards

TLC also showed these while the modules were written. Each one needs other
constants or another property than the runs above use, so each is a hazard
in `PROJECT.json` whose note gives the trace:

* **`arrow_initialize_routine` re-run (routine.c 203-209).** Re-running it
  on a ready session frees the gateway behind `_init_done`.
* **`CHECK_DEVICE_REG` builds (122-123, 104-105).** A failed find skips
  `arrow_state_mqtt_run`.
* **`dynmc_concat` (104).** A failed realloc loses the buffer
  (`OOM = TRUE`).
* **`static_strndup` (21).** It returns `NULL` for size 0, and an empty
  string then reaches `strlen(NULL)`.
* **libc `strndup` in `raw_to_dynamic_property` (139).** It stops at an
  embedded NUL, so the buffer is shorter than the raw size. In the libc
  build `SizeWithinBlock` already fails right after `RawTo`.
* **`cmp_n_Scheme` (request.c 58).** `htt://` and `://` are accepted as
  http, and `ftp://` is accepted with cipher -1.
* **`%8hu` (68).** A port is accepted with a sign, and it wraps:
  `:65616` gives 80.
* **`add_payload` on an empty payload (214).** It does not set `size`
  (`FirstBySet = FALSE`), so the second chunk overwrites the first.
* **`add_payload` with a const payload (230).** It returns without freeing
  a dynamic chunk. No run checks this, because the client that
  `PayloadIsConcatenation` needs never reaches that branch.
* **`_read` (39).** It returns -1 after a partial read, so the bytes already
  taken are lost.


## 4. Proofs

The proofs are checked by `tlapm RoutineProofs.tla`,
`tlapm SessionProofs.tla`, `tlapm LifecycleProofs.tla`,
`tlapm DynPropertyProofs.tla`, `tlapm NetworkProofs.tla`,
`tlapm HttpResponseProofs.tla` and `tlapm UrlParseProofs.tla`.

**`TypeCorrect`** (`Spec => []TypeOK`) holds for every value of the
constants that satisfies the named assumptions of `Routine`. `TypeOK` is
inductive by itself.

* **Main proof.** The proof has one case per action, grouped in
  `AppCallType` and `SdkStepType`.
* **Helper lemmas.** These state the types of the helpers: `GapType`,
  `FailedType`, `ProduceType`, `ConnectGatewayType`, `ConnectDeviceType`,
  `InboundType`.
* **Proof shape.** A step with an existential over collaborator answers is
  proved by naming the answers (PICK) and splitting on success. Its goal is
  split into control, flag and data parts (`TypeSplit`), because the
  Boolean flags and the arithmetic are handled by different backends.

**`SessionSafe`** holds under `Restrictions`: `~ReinitWhileReady` and
`DevicePath # "check"`. These are exactly the cases the violation runs
show to be needed. The theorem proves `Spec => []Session`.

`Session` is the inductive strengthening of the three session invariants.
Besides them it contains:

* **`InitNotReady`**: an initialize routine only runs while `_init_done` is
  clear. This is the client restriction.
* **`ConfigHoldsGateway`**: the config and device loops run with the
  gateway registered.
* **`DeviceOnlyWhenReady`**: outside the device loop, a device handle
  exists only in a ready session.
* **`DeviceLoopFresh`**: the device loop starts without a handle and, when
  a failed attempt always clears it, stays so.
* **`ChannelsNeedReady`**: an open connection belongs to a ready session
  with a device.

Why each session invariant needs the extra facts:

* **`ReadySessionHeld`.** The error labels free the gateway. They are
  harmless only because they run while `_init_done` is clear
  (`InitNotReady`).
* **`IdentityOutlivesChannels`.** It is not inductive alone. A failed
  device loop frees both identities, and that is harmless only because no
  channel can be up then. A channel needs `CanConnect` at connect time, so
  a device handle, so (`DeviceOnlyWhenReady`) a ready session, and the
  loops only run when not ready.
* **`DeviceSessionConsistent`.** It needs `DeviceLoopFresh`. Without it, a
  device loop that finds a handle already there would become ready without
  the hand-off, which is exactly finding 3.

The corollaries `ReadySessionHeldProved`, `DeviceSessionConsistentProved`
and `IdentityOutlivesChannelsProved` state the run's properties for every
value of the constants satisfying `Restrictions`.

### Refinement (`LifecycleProofs.tla`)

**`RoutineImplementsLifecycle`** proves
`Restrictions => (Spec => Lifecycle!Spec)`. It is the standard refinement
argument:

1. `LifecycleInit`: the initial states map to `Lifecycle!Init`.
2. `LifecycleStep`: under `TypeOK /\ Session`, every step of `Next` maps to
   a step of `Lifecycle!Next` or a stutter of the mapped variables.
3. `TypeCorrect` and `SessionSafe` give `[](TypeOK /\ Session)`, and PTL
   combines the three.

`Session` is what makes the step lemma go through:

* `InitNotReady` and `DeviceLoopFresh` (through `InitLoopState`) say that a
  gateway or device loop runs in an unready session with no identity and
  no link. So its identity changes are `AcquireGateway` or `Abandon`.
* `ConfigHoldsGateway` gives the gateway behind `BecomeReady`.
* `DeviceOnlyWhenReady` makes every successful MQTT connect an `Open` of a
  ready session (`ConnectReady`).

The disconnect and terminate routines only lower `mqtt` flags, so they are
`CloseLinks` (`LinksShrink`). `arrow_close` is `Shutdown` of a ready
session, or `CloseLinks` of an unready one.

### Dynamic properties (`DynPropertyProofs.tla`)

* **`DynTypeCorrect`** (`Spec => []TypeOK`) holds for every set of slots,
  every number of blocks, every `MaxLen` and every build switch. `TypeOK`
  is inductive by itself. There is one lemma per operation, with
  `TypeConcatInto` for the reallocating branch of `dynmc_concat`.
  `StrndupBytesRange` bounds what either build's `STRNDUP` takes, between
  1 and `MaxLen + 1` bytes.
* **`OwnershipExact`** (`~StaticBuf => (Spec => []OwnInv)`) holds with and
  without allocation failure. `OwnInv` is the inductive strengthening of
  `NoDoubleFree`:
  * `OwnersAllocated`: a live owner's value is NULL or a block with
    `cap > 0`, never `DANGLING`;
  * `OwnersDistinct`: no two live owners hold the same block;
  * `SlotsIdle`: a slot the caller does not hold is `Empty`.
  
  `NoDoubleFree` alone is not inductive. A double free happens when
  `dynmc_destroy` meets an owner whose block some earlier destroy or
  realloc left dangling. That can only be ruled out by knowing that the
  freed block had no other owner (`OwnersDistinct`), so that `Dangle`
  only marks non-owners. `SlotsIdle` is needed because `copy`, `move`,
  `string_to` and `raw_to` write a fresh slot: the proof must know that
  the slot held nothing before.
* **`NoDoubleFreeProved`** follows from `OwnershipExact`.
* **`NoLeakProved`** (`(~StaticBuf /\ ~OOM) => (Spec => []NoLeak)`) uses
  `LeakInv`, which is `OwnInv` plus `OwnersHoldBlocks` (every live owner
  holds a block, not NULL). Without `OwnersHoldBlocks`, `dynmc_concat` on
  an owner holding NULL would reallocate NULL into a fresh block the
  invariant cannot account for. Without allocation failure `strndup`,
  `malloc` and `realloc` return a free block (lemma `FreshBlock`).
  `LeakNewOwner` and `LeakNewAlias` carry the invariant over a step that
  fills a fresh slot; they are shared by the copy, string, raw and weak
  lemmas. The hazard at `dynmc_concat` (104), where a failed realloc loses
  the buffer, shows why `~OOM` is needed: with `OOM = TRUE` NoLeak fails.

The assumptions are the build the passing run `dyn_raw` checks: the libc
allocator (`~StaticBuf`), which the proofs need because the static
allocator's empty-string NULL and its whole-buffer reset break
`OwnersHoldBlocks` and `OwnersAllocated`.

### The MQTT transport (`NetworkProofs.tla`)

The theorems hold for every `MaxFd`, `MaxRead` and `MaxAvail` and for both
builds. They rest on `NetInvariant` (`Spec => []NetInv`).

* **`NetTypeCorrect`** (`Spec => []TypeOK`). The proof found that the run's
  `TypeOK` had bounded `last.rc` by `MaxRead`. That bound is only right
  while every descriptor is at most `MaxRead`, because a successful
  `NetworkConnect` returns the descriptor. `TypeOK` now uses `Rcs`.
* **`FailedConnectReleasesProved`** and **`ReadAccountingProved`** hold for
  every value of the constants.

`NetInv` is `TypeOK`, the two run invariants, and three more facts:

* **`NetOwned`**: a descriptor is the Network's exactly when the client
  holds a connected Network on it.
* **`FailedDown`**: after a failed connect the client is disconnected.
* **`Reading`**: inside the `_read` loop, the bytes taken equal the bytes
  counted, and fewer than asked.

Why the run invariants need them:

* **`FailedConnectReleases`.** It is not inductive alone. `OtherOpen`
  could overwrite a descriptor, and a later failure could then expose a
  stale one. `NetOwned` ties every `"net"` entry to `conn`, and
  `FailedDown` rules out `conn` after a failure.
* **`ReadAccounting`.** It is only about the idle state. Its step into
  idle is a `recv` that ends the loop, so it needs `Reading`.

That `socket()` and `OtherOpen` take a free descriptor is lemma
`LowestFree`. It rests on `LeastNat`, the least-element property of `Nat`,
proved from `WFMin` and `NatLessThanWellFounded` of `WellFoundedInduction`.

### The response body (`HttpResponseProofs.tla`)

* **`HttpTypeCorrect`** (`Spec => []TypeOK`). It holds for every
  `MaxChunks`, `MaxLen` and `MaxHeaders`, both values of `FirstBySet` and
  both sets of `Kinds`. `TypeOK` alone is not inductive: the bound on the
  buffer needs `size <= Len(body)` and `Len(body) <= Len(sent) * MaxLen`.
  `TInv` adds those two facts.
* **`ConcatenationProved`**. It holds under `DynamicClient`: the first
  chunk goes to `set_payload` and every chunk is dynamic. This is the
  setting of the `http_response` run. Outside it the property fails (the
  hazard at request.c 214).

It rests on `PInv`, which says:

* before the first chunk the buffer is empty;
* after it, the buffer is dynamic, `size = Len(body)`, the buffer has at
  least `size` bytes, and its first `Len(body)` bytes are `body`
  (`Prefix`).

The empty-buffer clause is what rules out the two faulty paths of
`add_payload`. With `FirstBySet` its guard requires a chunk already sent,
so the buffer is dynamic and the call takes its appending path. That path
keeps the first `size` bytes (`Realloc`), writes the chunk right after
them (`Appended` at `size`). The property's `SubSeq` follows
from `Prefix` by lemma `PrefixSubSeq`.

### The URL split (`UrlParseProofs.tla`)

* **`ParseGood`** is the general result. Take any alphabet `Char` that holds
  `':'`, `'/'`, the letters of the schemes and the digits. Take a URL of the
  form scheme `://` host `:` digits path, where:
  * the scheme is `http` or `https`;
  * the host is non-empty, of any length, with no `':'`;
  * the digits are one to five, with a value below 65536;
  * the path has any length and content, and is empty or starts with `'/'`.

  For every such URL, `Parse` returns stage `done` with the scheme's index,
  the host, the value of the digits and the path as uri (`NoUri` when the
  path is empty).
* **`ParsesWellFormedProved`** (`Spec => []ParsesWellFormed`). It follows
  from `ParseGood`, not from enumerating the 540 inputs. Its argument:
  * the inputs never change (`InputsInv`);
  * on a well-formed input, the port part is `':'` followed by digits
    (`PortSplit`, which uses `DigitRunFull` on `WellFormed`'s digit-run
    clause);
  * the parts meet `ParseGood`'s hypotheses (`InputsWellFormed`).

The argument of `ParseGood` follows the parser step by step:

* **Scheme separator.** The first `"://"` is right after the scheme, since
  no scheme letter is `':'` (`StrStrAt`). So `cmp_n_Scheme` compares the
  whole scheme (`SchemeIndex`).
* **Host end.** The first `':'` after `"://"` ends the host, because the host
  has none (`StrStrChar`).
* **Port.** The eight-character window of `sscanf` starts with the digits.
  The digits are followed by the end of the string or by the path's `'/'`
  (`DigitRunAll`, `DigitRunStop`). So the value read is the digits' value,
  which the 16-bit cut leaves alone (`ScanDigits`).
* **Uri.** No digit is `'/'`. So the uri starts at the path's `'/'`, or is
  absent when the path is empty (`UriPath`).

How the lemmas rest on the definitions:

* `StrStr`, `DigitRun` and `CmpNScheme` are minima of sets. The lemmas about
  them rest on `LeastIs`, which is proved from the well-foundedness of `<`
  on `Nat`.
* The positions in the URL come from `ConcatProperties`, `SubSeqProperties`
  and `SeqEqual` of the library.
* `Dec` itself, the value of a digit string, is never computed in the proof.
  `ParseGood` only shows that the parser computes `Dec` of the right digits.

**Left to TLC:**

* Liveness (`RoutinesReturn`, `EventEndsLoop`). It needs fairness and
  ENABLED, which TLAPS does not reach here.
* The violation runs.

## 5. What is not modelled, and why

* **Inside one attempt.** A reset between `arrow_register_gateway` and
  `save_gateway_info` (routine.c 84, 110) is not modelled, because one
  attempt is one step. This is listed as a hazard.
* **Routine result codes.** They are not state. The ignored subscribe
  result of `arrow_mqtt_connect_routine` (340) is a hazard without a
  property.
* **`arrow_init`/`arrow_deinit`, the state sync routines, pause and
  check_init.** They change no modelled variable.
* **Profile fields of the config response** (IBM/Azure): data without
  control.
* **The request object of `request.c`.** `http_request_close`, the
  header and query lists, `set_content_type` and `set_payload` (89-121,
  141-184) only move properties into lists and free them. The early returns
  of `http_request_init`, which leave those lists unset for
  `http_request_close`, are a hazard without a property.
* **`htonl`/`ntohl`.** 2^32 is outside TLC's 32-bit integers.
* **Allocation failure in `add_payload` (220).** It is the realloc pattern
  of `dynmc_concat`, modelled there with `OOM` (its leak is the hazard at
  property_dynamic.c 104).
* **Dangling weak aliases after a moving realloc.** The modelled caller
  never reads through them. They are tracked, but no property is stated on
  that contract.
* **The `uint16_t` cast in `_read` (30).** It only matters for reads of
  64 KiB or more.

## 6. Plan

1. In `Routine`:
   * routine result codes, for the ignored subscribe result;
   * a finer step split of registration and save, for the reset hazard.
2. The request side of `request.c`.
