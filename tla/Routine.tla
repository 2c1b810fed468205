------------------------------- MODULE Routine -------------------------------
(***************************************************************************)
(* The cloud-connectivity routines of src/src/arrow/routine.c: the        *)
(* process-wide session flags (_init_done, _init_mqtt), the bounded retry *)
(* loops of the initialize routines, gateway and device registration      *)
(* (arrow_connect_gateway, arrow_connect_device), the gateway config      *)
(* fetch of src/src/konexios/api/gateway/gateway.c, the two MQTT channel  *)
(* routines, the telemetry loops, arrow_close, and the watchdog feeds.    *)
(*                                                                         *)
(* The SDK is single-threaded: one public routine runs at a time.  The    *)
(* variable pc is the position inside the routine the application called *)
(* ("idle" when none runs); every collaborator round trip of a retry loop *)
(* (an HTTP request, an MQTT connect or subscribe) is one step, so a      *)
(* reboot can fall between any two attempts.  Collaborator answers are    *)
(* chosen nondeterministically.                                           *)
(***************************************************************************)
EXTENDS Naturals

CONSTANTS
    MaxRetry,          \* the bound RETRY_UP checks its counter against
    Events,            \* the build has MQTT events (NO_EVENTS undefined)
    DevicePath,        \* restore-hit branch of arrow_connect_device built in
    ReinitWhileReady,  \* the application may re-run an initialize routine
                       \* while _init_done is set
    WdtGapCap          \* cap on the count of unfed blocking calls

ASSUME MaxRetryAssumption == MaxRetry \in Nat
ASSUME EventsAssumption == Events \in BOOLEAN
\* "update": !NO_SOFTWARE_UPDATE && !NO_RELEASE_UPDATE; "check":
\* CHECK_DEVICE_REG; "close": neither (only closes the HTTP client).
ASSUME DevicePathAssumption == DevicePath \in {"update", "check", "close"}
ASSUME ReinitAssumption == ReinitWhileReady \in BOOLEAN
ASSUME WdtGapCapAssumption == WdtGapCap \in Nat \ {0}

\* The bits of enum MQTT_INIT_FLAGS.
TEL == "telemetry"
CMD == "command"
Channels == {TEL, CMD}

\* Keys of the "key" object of a gateway config response.
KeyNames == {"apiKey", "secretKey"}

\* Positions inside the routines.  full_*: arrow_initialize_routine,
\* gwi_*: arrow_gateway_initialize_routine, mc_*: arrow_mqtt_connect_routine
\* and the channel routines it calls.
RetryPcs == {"full_gw", "full_cfg", "full_dev", "gwi_gw", "gwi_cfg",
             "http_tel", "tel_conn", "mc_tel", "ev_conn", "mc_ev",
             "sub", "mc_sub"}
LoopPcs == {"loop", "loop_plain"}
Pcs == {"idle"} \cup RetryPcs \cup LoopPcs

VARIABLES
    pc,             \* position in the running routine
    retry,          \* the local retry counter of the running loop
    init_done,      \* _init_done
    init_mqtt,      \* _init_mqtt, as the set of its bits
    gateway_hid,    \* _gateway.hid is non-empty
    device_hid,     \* _device.hid is non-empty
    config_keys,    \* keys the last accepted config response carried
    storage,        \* persisted gateway and device records
    state_running,  \* the state sub-session of arrow_state_mqtt_run
    mqtt,           \* MQTT collaborator: which connections are up
    event_pending,  \* arrow_mqtt_has_events()
    unfed           \* blocking calls since the last wdt_feed()

vars == <<pc, retry, init_done, init_mqtt, gateway_hid, device_hid,
          config_keys, storage, state_running, mqtt, event_pending, unfed>>

TypeOK ==
    /\ pc \in Pcs
    /\ retry \in 0..MaxRetry
    /\ init_done \in BOOLEAN
    /\ init_mqtt \subseteq Channels
    /\ gateway_hid \in BOOLEAN
    /\ device_hid \in BOOLEAN
    /\ config_keys \subseteq KeyNames
    /\ storage \in [gw : BOOLEAN, dev : BOOLEAN]
    /\ state_running \in BOOLEAN
    /\ mqtt \in [tel : BOOLEAN, cmd : BOOLEAN]
    /\ event_pending \in BOOLEAN
    /\ unfed \in 0..WdtGapCap

\* Everything but storage is RAM: a boot starts from here.
RamInit ==
    /\ pc = "idle"
    /\ retry = 0
    /\ init_done = FALSE
    /\ init_mqtt = {}
    /\ gateway_hid = FALSE
    /\ device_hid = FALSE
    /\ config_keys = {}
    /\ state_running = FALSE
    /\ mqtt = [tel |-> FALSE, cmd |-> FALSE]
    /\ event_pending = FALSE
    /\ unfed = 0

Init ==
    /\ RamInit
    /\ storage \in [gw : BOOLEAN, dev : BOOLEAN]

-----------------------------------------------------------------------------
(* Helpers                                                                 *)

\* n more blocking calls without a feed (the count saturates at the cap).
Gap(n) == IF unfed + n > WdtGapCap THEN WdtGapCap ELSE unfed + n

\* RETRY_UP(retry, {abort}) fires its abort block.
Exhausted == retry + 1 > MaxRetry

\* Fault model: the retry loop never counts a failure.
FailedUncounted(io) ==
    /\ pc' = IF Exhausted THEN "idle" ELSE pc
    /\ retry' = IF Exhausted THEN 0 ELSE retry
    /\ unfed' = Gap(IF Exhausted THEN io ELSE io + 1)

\* Fault model: the loop tests the bound before counting the failure.
FailedCheckBeforeCount(io) ==
    /\ pc' = IF retry > MaxRetry THEN "idle" ELSE pc
    /\ retry' = IF retry > MaxRetry THEN 0 ELSE retry + 1
    /\ unfed' = Gap(IF retry > MaxRetry THEN io ELSE io + 1)

\* The failure branch of a retry loop after a failed attempt that made io
\* blocking calls: RETRY_UP aborts the routine, or counts the failure and
\* the loop sleeps (msleep) and tries again.
Failed(io) ==
    /\ pc' = IF Exhausted THEN "idle" ELSE pc
    /\ retry' = IF Exhausted THEN 0 ELSE retry + 1
    /\ unfed' = Gap(IF Exhausted THEN io ELSE io + 1)

\* mqtt_*_connect can only build its client identity from registered ones.
CanConnect == gateway_hid /\ device_hid

\* arrow_connect_gateway with the answers of register, checkin and update.
\* hid: the gateway has a handle after the call; save: save_gateway_info.
connect_gateway(regOk, checkinOk, updateOk) ==
    IF ~gateway_hid /\ ~storage.gw
    THEN [ok |-> regOk, hid |-> regOk, save |-> regOk, io |-> 1]
    ELSE [ok |-> checkinOk /\ updateOk, hid |-> TRUE, save |-> FALSE,
          io |-> IF checkinOk THEN 2 ELSE 1]

\* A gateway config response, as _gateway_config_proc looks at it.
ConfigResponses ==
    [http200 : BOOLEAN, json : BOOLEAN, cloud : BOOLEAN, key : BOOLEAN,
     keys : SUBSET KeyNames]

\* _gateway_config_proc returns 0: it only needs the "key" object.
config_proc_ok(r) == r.http200 /\ r.json /\ r.cloud /\ r.key

\* Fault model: arrow_state_mqtt_run is reached only after a registration.
connect_device_run_on_register(regOk, updateOk, findOk) ==
    CASE device_hid ->
            [ok |-> TRUE, hid |-> TRUE, save |-> FALSE, run |-> FALSE, io |-> 0]
      [] ~storage.dev ->
            [ok |-> regOk, hid |-> regOk, save |-> regOk, run |-> regOk,
             io |-> 1]
      [] DevicePath = "update" ->
            [ok |-> updateOk, hid |-> updateOk, save |-> FALSE,
             run |-> FALSE, io |-> 1]
      [] DevicePath = "check" ->
            [ok |-> findOk, hid |-> TRUE, save |-> FALSE, run |-> FALSE,
             io |-> 1]
      [] OTHER ->
            [ok |-> TRUE, hid |-> TRUE, save |-> FALSE, run |-> FALSE, io |-> 0]

\* arrow_connect_device with the answers of register, update and find.
\* run: arrow_state_mqtt_run is reached.
connect_device(regOk, updateOk, findOk) ==
    CASE device_hid ->
            [ok |-> TRUE, hid |-> TRUE, save |-> FALSE, run |-> FALSE, io |-> 0]
      [] ~storage.dev ->
            [ok |-> regOk, hid |-> regOk, save |-> regOk, run |-> regOk,
             io |-> 1]
      [] DevicePath = "update" ->
            [ok |-> updateOk, hid |-> updateOk, save |-> FALSE,
             run |-> updateOk, io |-> 1]
      [] DevicePath = "check" ->
            [ok |-> findOk, hid |-> TRUE, save |-> FALSE, run |-> findOk,
             io |-> 1]
      [] OTHER ->
            [ok |-> TRUE, hid |-> TRUE, save |-> FALSE, run |-> TRUE, io |-> 0]

-----------------------------------------------------------------------------
(* The initialize routines                                                 *)

\* arrow_initialize_routine: feed, then the gateway retry loop.
arrow_initialize_routine ==
    /\ pc = "idle"
    /\ ReinitWhileReady \/ ~init_done
    /\ pc' = "full_gw"
    /\ retry' = 0
    /\ unfed' = 0
    /\ UNCHANGED <<init_done, init_mqtt, gateway_hid, device_hid, config_keys,
                   storage, state_running, mqtt, event_pending>>

\* arrow_gateway_initialize_routine: the same without device registration.
arrow_gateway_initialize_routine ==
    /\ pc = "idle"
    /\ ReinitWhileReady \/ ~init_done
    /\ pc' = "gwi_gw"
    /\ retry' = 0
    /\ unfed' = 0
    /\ UNCHANGED <<init_done, init_mqtt, gateway_hid, device_hid, config_keys,
                   storage, state_running, mqtt, event_pending>>

\* One attempt of the gateway loop.  On success the loop feeds the
\* watchdog, clears the counter (RETRY_CR) and goes on to the config loop.
\* When RETRY_UP aborts arrow_initialize_routine it jumps to
\* gateway_reg_error and frees the gateway; the gateway-only routine just
\* returns.
GatewayAttempt(r) ==
    /\ storage' = [storage EXCEPT !.gw = @ \/ r.save]
    /\ IF r.ok
       THEN /\ pc' = IF pc = "full_gw" THEN "full_cfg" ELSE "gwi_cfg"
            /\ retry' = 0
            /\ unfed' = 0
            /\ gateway_hid' = r.hid
       ELSE /\ Failed(r.io)
            /\ gateway_hid' = (r.hid /\ ~(Exhausted /\ pc = "full_gw"))

\* The gateway loop's step, with any answers of the collaborators.
GatewayConnectStep ==
    /\ pc \in {"full_gw", "gwi_gw"}
    /\ \E regOk, checkinOk, updateOk \in BOOLEAN :
        GatewayAttempt(connect_gateway(regOk, checkinOk, updateOk))
    /\ UNCHANGED <<init_done, init_mqtt, device_hid, config_keys,
                   state_running, mqtt, event_pending>>

\* One attempt of the config loop (arrow_gateway_config).  Success of the
\* gateway-only routine sets _init_done; arrow_initialize_routine feeds and
\* goes on to the device loop.  RETRY_UP of arrow_initialize_routine jumps
\* to gateway_config_error, which frees the config and the gateway.
GatewayConfigStep ==
    /\ pc \in {"full_cfg", "gwi_cfg"}
    /\ \E r \in ConfigResponses :
        IF config_proc_ok(r)
        THEN /\ config_keys' = r.keys
             /\ retry' = 0
             /\ pc' = IF pc = "full_cfg" THEN "full_dev" ELSE "idle"
             /\ init_done' = (init_done \/ pc = "gwi_cfg")
             /\ unfed' = IF pc = "full_cfg" THEN 0 ELSE Gap(1)
             /\ UNCHANGED gateway_hid
        ELSE /\ Failed(1)
             /\ gateway_hid' = (gateway_hid /\ ~(Exhausted /\ pc = "full_cfg"))
             /\ UNCHANGED <<config_keys, init_done>>
    /\ UNCHANGED <<init_mqtt, device_hid, storage, state_running, mqtt,
                   event_pending>>

\* One attempt of the device loop (arrow_connect_device).  Success sets
\* _init_done.  RETRY_UP jumps to device_reg_error, which frees device,
\* config and gateway.
DeviceAttempt(r) ==
    /\ storage' = [storage EXCEPT !.dev = @ \/ r.save]
    /\ state_running' = (state_running \/ r.run)
    /\ IF r.ok
       THEN /\ pc' = "idle"
            /\ retry' = 0
            /\ init_done' = TRUE
            /\ unfed' = Gap(r.io)
            /\ device_hid' = r.hid
            /\ UNCHANGED gateway_hid
       ELSE /\ Failed(r.io)
            /\ device_hid' = (r.hid /\ ~Exhausted)
            /\ gateway_hid' = (gateway_hid /\ ~Exhausted)
            /\ UNCHANGED init_done

\* The device loop's step, with any answers of the collaborators.
DeviceConnectStep ==
    /\ pc = "full_dev"
    /\ \E regOk, updateOk, findOk \in BOOLEAN :
        DeviceAttempt(connect_device(regOk, updateOk, findOk))
    /\ UNCHANGED <<init_mqtt, config_keys, mqtt, event_pending>>

\* arrow_send_telemetry_routine: HTTP telemetry with a retry loop.
arrow_send_telemetry_routine ==
    /\ pc = "idle"
    /\ init_done
    /\ pc' = "http_tel"
    /\ retry' = 0
    /\ unfed' = 0
    /\ UNCHANGED <<init_done, init_mqtt, gateway_hid, device_hid, config_keys,
                   storage, state_running, mqtt, event_pending>>

HttpTelemetryStep ==
    /\ pc = "http_tel"
    /\ \/ /\ pc' = "idle"
          /\ retry' = 0
          /\ unfed' = Gap(1)
       \/ Failed(1)
    /\ UNCHANGED <<init_done, init_mqtt, gateway_hid, device_hid, config_keys,
                   storage, state_running, mqtt, event_pending>>

-----------------------------------------------------------------------------
(* The MQTT channel routines                                               *)

\* arrow_mqtt_connect_telemetry_routine: rejected while the telemetry bit
\* is set, else the connect loop (which never feeds the watchdog).
arrow_mqtt_connect_telemetry_routine ==
    /\ pc = "idle"
    /\ TEL \notin init_mqtt
    /\ pc' = "tel_conn"
    /\ retry' = 0
    /\ UNCHANGED <<init_done, init_mqtt, gateway_hid, device_hid, config_keys,
                   storage, state_running, mqtt, event_pending, unfed>>

\* arrow_mqtt_connect_routine: rejected before _init_done, then the
\* telemetry connect routine (itself rejected while its bit is set).
arrow_mqtt_connect_routine ==
    /\ pc = "idle"
    /\ init_done
    /\ TEL \notin init_mqtt
    /\ pc' = "mc_tel"
    /\ retry' = 0
    /\ UNCHANGED <<init_done, init_mqtt, gateway_hid, device_hid, config_keys,
                   storage, state_running, mqtt, event_pending, unfed>>

\* One mqtt_telemetry_connect attempt.  After success inside
\* arrow_mqtt_connect_routine the event connect routine follows (events
\* builds), and is rejected at once if the command bit is already set.
TelemetryConnectStep ==
    /\ pc \in {"tel_conn", "mc_tel"}
    /\ \E ok \in IF CanConnect THEN BOOLEAN ELSE {FALSE} :
        IF ok
        THEN /\ mqtt' = [mqtt EXCEPT !.tel = TRUE]
             /\ init_mqtt' = init_mqtt \cup {TEL}
             /\ retry' = 0
             /\ pc' = IF pc = "mc_tel" /\ Events /\ CMD \notin init_mqtt
                      THEN "mc_ev" ELSE "idle"
             /\ unfed' = Gap(1)
        ELSE /\ Failed(1)
             /\ UNCHANGED <<mqtt, init_mqtt>>
    /\ UNCHANGED <<init_done, gateway_hid, device_hid, config_keys, storage,
                   state_running, event_pending>>

\* arrow_mqtt_connect_event_routine: rejected while the command bit is set.
arrow_mqtt_connect_event_routine ==
    /\ Events
    /\ pc = "idle"
    /\ CMD \notin init_mqtt
    /\ pc' = "ev_conn"
    /\ retry' = 0
    /\ UNCHANGED <<init_done, init_mqtt, gateway_hid, device_hid, config_keys,
                   storage, state_running, mqtt, event_pending, unfed>>

\* Messages mqtt_yield / mqtt_receive may deliver on the command channel.
Inbound == IF Events /\ mqtt.cmd THEN {event_pending, TRUE} ELSE {event_pending}

\* One mqtt_subscribe_connect attempt.  Inside arrow_mqtt_connect_routine
\* success is followed by arrow_mqtt_event_receive_routine (a yield, then a
\* feed); unless that reports an event the subscribe routine follows.
EventConnectStep ==
    /\ pc \in {"ev_conn", "mc_ev"}
    /\ \E ok \in IF CanConnect THEN BOOLEAN ELSE {FALSE} :
        IF ok
        THEN /\ mqtt' = [mqtt EXCEPT !.cmd = TRUE]
             /\ init_mqtt' = init_mqtt \cup {CMD}
             /\ retry' = 0
             /\ IF pc = "mc_ev"
                THEN \E yieldEvent \in BOOLEAN :
                        /\ event_pending' = (event_pending \/ yieldEvent)
                        /\ pc' = IF yieldEvent THEN "idle" ELSE "mc_sub"
                        /\ unfed' = 0
                ELSE /\ pc' = "idle"
                     /\ unfed' = Gap(1)
                     /\ UNCHANGED event_pending
        ELSE /\ Failed(1)
             /\ UNCHANGED <<mqtt, init_mqtt, event_pending>>
    /\ UNCHANGED <<init_done, gateway_hid, device_hid, config_keys, storage,
                   state_running>>

\* arrow_mqtt_subscribe_event_routine: no guard at all.
arrow_mqtt_subscribe_event_routine ==
    /\ Events
    /\ pc = "idle"
    /\ pc' = "sub"
    /\ retry' = 0
    /\ UNCHANGED <<init_done, init_mqtt, gateway_hid, device_hid, config_keys,
                   storage, state_running, mqtt, event_pending, unfed>>

\* One mqtt_subscribe attempt.  A failure that does not abort clears the
\* command bit after the sleep; the aborting one returns before that.
SubscribeStep ==
    /\ pc \in {"sub", "mc_sub"}
    /\ \E ok \in IF mqtt.cmd THEN BOOLEAN ELSE {FALSE} :
        IF ok
        THEN /\ init_mqtt' = init_mqtt \cup {CMD}
             /\ pc' = "idle"
             /\ retry' = 0
             /\ unfed' = Gap(1)
        ELSE /\ Failed(1)
             /\ init_mqtt' = IF Exhausted THEN init_mqtt ELSE init_mqtt \ {CMD}
    /\ UNCHANGED <<init_done, gateway_hid, device_hid, config_keys, storage,
                   state_running, mqtt, event_pending>>

\* arrow_mqtt_disconnect_telemetry_routine: needs the telemetry bit, then
\* mqtt_telemetry_terminate; the bit stays set.
arrow_mqtt_disconnect_telemetry_routine ==
    /\ pc = "idle"
    /\ TEL \in init_mqtt
    /\ mqtt' = [mqtt EXCEPT !.tel = FALSE]
    /\ UNCHANGED <<pc, retry, init_done, init_mqtt, gateway_hid, device_hid,
                   config_keys, storage, state_running, event_pending, unfed>>

\* arrow_mqtt_terminate_telemetry_routine: mqtt_telemetry_terminate only.
arrow_mqtt_terminate_telemetry_routine ==
    /\ pc = "idle"
    /\ mqtt' = [mqtt EXCEPT !.tel = FALSE]
    /\ UNCHANGED <<pc, retry, init_done, init_mqtt, gateway_hid, device_hid,
                   config_keys, storage, state_running, event_pending, unfed>>

\* arrow_mqtt_disconnect_event_routine: needs the command bit, then
\* mqtt_subscribe_disconnect; the bit stays set.
arrow_mqtt_disconnect_event_routine ==
    /\ Events
    /\ pc = "idle"
    /\ CMD \in init_mqtt
    /\ mqtt' = [mqtt EXCEPT !.cmd = FALSE]
    /\ UNCHANGED <<pc, retry, init_done, init_mqtt, gateway_hid, device_hid,
                   config_keys, storage, state_running, event_pending, unfed>>

\* arrow_mqtt_terminate_event_routine: mqtt_subscribe_terminate only.
arrow_mqtt_terminate_event_routine ==
    /\ Events
    /\ pc = "idle"
    /\ mqtt' = [mqtt EXCEPT !.cmd = FALSE]
    /\ UNCHANGED <<pc, retry, init_done, init_mqtt, gateway_hid, device_hid,
                   config_keys, storage, state_running, event_pending, unfed>>

\* arrow_mqtt_disconnect_routine: only when some bit is set; clears both.
arrow_mqtt_disconnect_routine ==
    /\ pc = "idle"
    /\ init_mqtt # {}
    /\ mqtt' = [tel |-> FALSE, cmd |-> FALSE]
    /\ init_mqtt' = {}
    /\ UNCHANGED <<pc, retry, init_done, gateway_hid, device_hid, config_keys,
                   storage, state_running, event_pending, unfed>>

\* arrow_mqtt_terminate_routine: unconditionally.
arrow_mqtt_terminate_routine ==
    /\ pc = "idle"
    /\ mqtt' = [tel |-> FALSE, cmd |-> FALSE]
    /\ init_mqtt' = {}
    /\ UNCHANGED <<pc, retry, init_done, gateway_hid, device_hid, config_keys,
                   storage, state_running, event_pending, unfed>>

-----------------------------------------------------------------------------
(* Telemetry and events                                                    *)

\* What the application's get_data_cb returns: 0, > 0 (skip), < 0.
Produced == {"ready", "skip", "fatal"}

\* The producer and the publish at the end of a loop cycle: get_data_cb < 0
\* returns, > 0 continues without a feed, 0 feeds (unfed = 0), then the
\* publish blocks once; a failed publish returns.
Produce(d, pubOk, here) ==
    CASE d = "fatal" -> pc' = "idle" /\ unfed' = Gap(1)
      [] d = "skip"  -> pc' = here /\ unfed' = Gap(1)
      [] d = "ready" -> /\ pc' = IF pubOk THEN here ELSE "idle"
                        /\ unfed' = 1

\* arrow_mqtt_send_telemetry_routine: needs _init_done and the telemetry
\* bit (and the command bit in events builds); feeds, then loops.
arrow_mqtt_send_telemetry_routine ==
    /\ pc = "idle"
    /\ init_done
    /\ TEL \in init_mqtt
    /\ Events => CMD \in init_mqtt
    /\ pc' = "loop"
    /\ unfed' = 0
    /\ UNCHANGED <<retry, init_done, init_mqtt, gateway_hid, device_hid,
                   config_keys, storage, state_running, mqtt, event_pending>>

\* Fault model: the loop does not look at arrow_mqtt_has_events().
SendTelemetryCycleNoEventCheck ==
    /\ pc = "loop"
    /\ \E ev \in Inbound, d \in Produced, pubOk \in BOOLEAN :
        /\ event_pending' = ev
        /\ pubOk => mqtt.tel
        /\ Produce(d, pubOk, "loop")
    /\ UNCHANGED <<retry, init_done, init_mqtt, gateway_hid, device_hid,
                   config_keys, storage, state_running, mqtt>>

\* One cycle of its while (1): mqtt_receive, return on a pending event
\* (events builds), then the producer: < 0 returns, > 0 continues without
\* a feed, 0 feeds and publishes; a failed publish returns.
SendTelemetryCycle ==
    /\ pc = "loop"
    /\ \E ev \in Inbound, d \in Produced, pubOk \in BOOLEAN :
        /\ event_pending' = ev
        /\ pubOk => mqtt.tel
        /\ IF Events /\ ev
           THEN /\ pc' = "idle"
                /\ unfed' = Gap(1)
           ELSE Produce(d, pubOk, "loop")
    /\ UNCHANGED <<retry, init_done, init_mqtt, gateway_hid, device_hid,
                   config_keys, storage, state_running, mqtt>>

\* arrow_mqtt_telemetry_routine: the same loop with msleep for the receive
\* and no event check; it needs only the telemetry bit.
arrow_mqtt_telemetry_routine ==
    /\ pc = "idle"
    /\ init_done
    /\ TEL \in init_mqtt
    /\ pc' = "loop_plain"
    /\ unfed' = 0
    /\ UNCHANGED <<retry, init_done, init_mqtt, gateway_hid, device_hid,
                   config_keys, storage, state_running, mqtt, event_pending>>

TelemetryCycle ==
    /\ pc = "loop_plain"
    /\ \E d \in Produced, pubOk \in BOOLEAN :
        /\ pubOk => mqtt.tel
        /\ Produce(d, pubOk, "loop_plain")
    /\ UNCHANGED <<retry, init_done, init_mqtt, gateway_hid, device_hid,
                   config_keys, storage, state_running, mqtt, event_pending>>

\* arrow_mqtt_telemetry_once_routine: feed, one produce, one publish.
arrow_mqtt_telemetry_once_routine ==
    /\ pc = "idle"
    /\ init_done
    /\ TEL \in init_mqtt
    /\ \E d \in Produced : unfed' = IF d = "ready" THEN 1 ELSE 0
    /\ UNCHANGED <<pc, retry, init_done, init_mqtt, gateway_hid, device_hid,
                   config_keys, storage, state_running, mqtt, event_pending>>

\* arrow_mqtt_event_receive_routine: needs _init_done and the command bit;
\* a yield (an msleep without events), then a feed.
arrow_mqtt_event_receive_routine ==
    /\ pc = "idle"
    /\ init_done
    /\ CMD \in init_mqtt
    /\ \E ev \in Inbound : event_pending' = ev
    /\ unfed' = 0
    /\ UNCHANGED <<pc, retry, init_done, init_mqtt, gateway_hid, device_hid,
                   config_keys, storage, state_running, mqtt>>

\* The application's event handler drains the event queue (the event
\* dispatcher is outside src/).
EventServed ==
    /\ pc = "idle"
    /\ event_pending
    /\ event_pending' = FALSE
    /\ UNCHANGED <<pc, retry, init_done, init_mqtt, gateway_hid, device_hid,
                   config_keys, storage, state_running, mqtt, unfed>>

-----------------------------------------------------------------------------
(* Shutdown and reboot                                                     *)

\* Fault model: arrow_close frees the identities but leaves _init_done set.
arrow_close_keeps_ready ==
    /\ pc = "idle"
    /\ mqtt' = [tel |-> FALSE, cmd |-> FALSE]
    /\ init_mqtt' = {}
    /\ state_running' = FALSE
    /\ device_hid' = (device_hid /\ ~init_done)
    /\ gateway_hid' = (gateway_hid /\ ~init_done)
    /\ UNCHANGED <<pc, retry, init_done, config_keys, storage, event_pending,
                   unfed>>

\* Fault model: arrow_close frees the identities without tearing MQTT down.
arrow_close_no_teardown ==
    /\ pc = "idle"
    /\ state_running' = FALSE
    /\ device_hid' = (device_hid /\ ~init_done)
    /\ gateway_hid' = (gateway_hid /\ ~init_done)
    /\ init_done' = FALSE
    /\ UNCHANGED <<pc, retry, mqtt, init_mqtt, config_keys, storage,
                   event_pending, unfed>>

\* arrow_close: terminate MQTT and clear the bits, stop the state
\* sub-session, then, only if _init_done, free device, gateway and config
\* and clear _init_done.
arrow_close ==
    /\ pc = "idle"
    /\ mqtt' = [tel |-> FALSE, cmd |-> FALSE]
    /\ init_mqtt' = {}
    /\ state_running' = FALSE
    /\ device_hid' = (device_hid /\ ~init_done)
    /\ gateway_hid' = (gateway_hid /\ ~init_done)
    /\ init_done' = FALSE
    /\ UNCHANGED <<pc, retry, config_keys, storage, event_pending, unfed>>

\* A reset (the watchdog's or a power cycle) at any point: RAM is lost,
\* the persisted records stay.
Reboot ==
    /\ pc' = "idle"
    /\ retry' = 0
    /\ init_done' = FALSE
    /\ init_mqtt' = {}
    /\ gateway_hid' = FALSE
    /\ device_hid' = FALSE
    /\ config_keys' = {}
    /\ state_running' = FALSE
    /\ mqtt' = [tel |-> FALSE, cmd |-> FALSE]
    /\ event_pending' = FALSE
    /\ unfed' = 0
    /\ UNCHANGED storage

-----------------------------------------------------------------------------
(* The specification                                                       *)

\* Calls the application may make while no routine runs.
AppCall ==
    \/ arrow_initialize_routine
    \/ arrow_gateway_initialize_routine
    \/ arrow_send_telemetry_routine
    \/ arrow_mqtt_connect_telemetry_routine
    \/ arrow_mqtt_connect_routine
    \/ arrow_mqtt_connect_event_routine
    \/ arrow_mqtt_subscribe_event_routine
    \/ arrow_mqtt_disconnect_telemetry_routine
    \/ arrow_mqtt_terminate_telemetry_routine
    \/ arrow_mqtt_disconnect_event_routine
    \/ arrow_mqtt_terminate_event_routine
    \/ arrow_mqtt_disconnect_routine
    \/ arrow_mqtt_terminate_routine
    \/ arrow_mqtt_send_telemetry_routine
    \/ arrow_mqtt_telemetry_routine
    \/ arrow_mqtt_telemetry_once_routine
    \/ arrow_mqtt_event_receive_routine
    \/ arrow_close

\* Steps of the routine that is running.
SdkStep ==
    \/ GatewayConnectStep
    \/ GatewayConfigStep
    \/ DeviceConnectStep
    \/ HttpTelemetryStep
    \/ TelemetryConnectStep
    \/ EventConnectStep
    \/ SubscribeStep
    \/ SendTelemetryCycle
    \/ TelemetryCycle

Next == AppCall \/ SdkStep \/ EventServed \/ Reboot

\* The running routine is the only thread: it keeps taking steps.  The
\* application and resets get no fairness.
Spec == Init /\ [][Next]_vars /\ WF_vars(SdkStep)

-----------------------------------------------------------------------------
(* Properties                                                              *)

\* While _init_done is set the gateway identity is held: telemetry and
\* state operations are gated on _init_done alone and use _gateway.  Holds
\* if the initialize routines' error paths and arrow_close free the
\* gateway only together with clearing _init_done.
ReadySessionHeld == init_done => gateway_hid

\* The state sub-session started by arrow_connect_device runs exactly when
\* the session is ready with a registered device: arrow_connect_device
\* starts it on every path that registers or restores the device, and
\* arrow_close stops it when it frees the device.
DeviceSessionConsistent == state_running <=> (init_done /\ device_hid)

\* No MQTT connection is up without the gateway and device identities it
\* was opened with: arrow_close tears the channels down before it frees
\* them, and no error path frees them while a channel is up (the load-
\* bearing shutdown order of the spec, P5).
IdentityOutlivesChannels == (mqtt.tel \/ mqtt.cmd) => (gateway_hid /\ device_hid)

\* A set bit of _init_mqtt means its connection is up: the spec says
\* closing or terminating a channel clears its flag, and the telemetry
\* loop trusts the bit to publish.
ChannelFlagsTrack ==
    /\ TEL \in init_mqtt => mqtt.tel
    /\ CMD \in init_mqtt => mqtt.cmd

\* A ready session has both API credentials: the spec has a config fetch
\* without the API key or the secret fail, in _gateway_config_proc.
ReadyImpliesCredentials == init_done => config_keys = KeyNames

\* Inside a telemetry loop the watchdog is fed every cycle: between feeds
\* the loop blocks at most in one receive (or sleep) and one publish.
TelemetryLoopFeedsEachCycle == pc \in LoopPcs => unfed <= 2

\* Every retry loop ends: a routine that is running returns (bounded
\* retry, spec 4.1), whatever the collaborators answer.
RoutinesReturn == (pc \in RetryPcs) ~> (pc = "idle")

\* A pending inbound event ends arrow_mqtt_send_telemetry_routine with
\* ROUTINE_RECEIVE_EVENT instead of another produce/publish cycle.
EventEndsLoop == (Events /\ pc = "loop" /\ event_pending) ~> (pc # "loop")


-----------------------------------------------------------------------------
(* Refinement                                                              *)

\* The MQTT links that are up.
OpenLinks == {c \in Channels : IF c = TEL THEN mqtt.tel ELSE mqtt.cmd}

\* The session as the application sees it: _init_done, the two identity
\* handles and the open links.
Lifecycle == INSTANCE SessionLifecycle
    WITH ready <- init_done, gw <- gateway_hid, dev <- device_hid,
         links <- OpenLinks

\* The routines implement the session lifecycle: every step of every
\* routine, of arrow_close and of a reset is a step of SessionLifecycle or
\* leaves the session as it is, so no error path drops an identity of a
\* ready session or under an open link, and no link opens before the
\* session is ready with both identities.
ImplementsLifecycle == Lifecycle!Spec

=============================================================================
