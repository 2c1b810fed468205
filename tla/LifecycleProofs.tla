--------------------------- MODULE LifecycleProofs ---------------------------
(***************************************************************************)
(* Routine implements SessionLifecycle: under the restrictions of         *)
(* SessionProofs, every step of the routines maps, through the refinement *)
(* mapping of Routine (_init_done, the identity handles, the open links), *)
(* to a step of the abstract session or to a stutter.  The proof rests on *)
(* the session invariant: it says which identities and links a routine    *)
(* position can see.                                                       *)
(***************************************************************************)
EXTENDS SessionProofs

\* The abstract variables, as the mapping computes them.
AbsVars == <<init_done, gateway_hid, device_hid, OpenLinks>>

\* A step that leaves the flags, the identities and the links alone is an
\* abstract stutter.
LEMMA LifecycleStutter ==
    ASSUME UNCHANGED <<init_done, gateway_hid, device_hid, mqtt>>
    PROVE  [Lifecycle!Next]_AbsVars
BY DEF AbsVars, OpenLinks

\* Clearing connection fields only closes links.
LEMMA LinksShrink ==
    ASSUME TypeOK, mqtt' \in [tel : BOOLEAN, cmd : BOOLEAN],
           mqtt'.tel => mqtt.tel, mqtt'.cmd => mqtt.cmd
    PROVE  OpenLinks' \subseteq OpenLinks
BY DEF TypeOK, OpenLinks, Channels

\* A step that only closes connections is a CloseLinks step.
LEMMA LifecycleClose ==
    ASSUME TypeOK, mqtt' \in [tel : BOOLEAN, cmd : BOOLEAN],
           mqtt'.tel => mqtt.tel, mqtt'.cmd => mqtt.cmd,
           UNCHANGED <<init_done, gateway_hid, device_hid>>
    PROVE  [Lifecycle!Next]_AbsVars
<1>1. OpenLinks' \subseteq OpenLinks
  BY LinksShrink
<1>2. Lifecycle!CloseLinks
  BY <1>1 DEF Lifecycle!CloseLinks
<1> QED
  BY <1>2 DEF Lifecycle!Next

\* Opening the telemetry or the command connection opens that link.
LEMMA LinksOpenTel ==
    ASSUME TypeOK, mqtt' = [mqtt EXCEPT !.tel = TRUE]
    PROVE  OpenLinks' = OpenLinks \cup {TEL}
BY DEF TypeOK, OpenLinks, Channels, TEL, CMD

LEMMA LinksOpenCmd ==
    ASSUME TypeOK, mqtt' = [mqtt EXCEPT !.cmd = TRUE]
    PROVE  OpenLinks' = OpenLinks \cup {CMD}
BY DEF TypeOK, OpenLinks, Channels, TEL, CMD

\* No link is open while no connection is up.
LEMMA LinksNone ==
    ASSUME ~mqtt.tel, ~mqtt.cmd PROVE OpenLinks = {}
BY DEF OpenLinks, Channels

\* Inside the initialize routines the session is not ready, holds no
\* device outside the device loop, and has no link.
LEMMA InitLoopState ==
    ASSUME Restrictions, Session, pc \in InitPcs
    PROVE  /\ ~init_done /\ ~device_hid
           /\ ~mqtt.tel /\ ~mqtt.cmd
<1>1. ~init_done
  BY DEF Session, InitNotReady
<1>2. ~device_hid
  BY <1>1 DEF Session, DeviceOnlyWhenReady, DeviceLoopFresh, Restrictions
<1> QED
  BY <1>1, <1>2 DEF Session, ChannelsNeedReady

\* A step of the initialize routines that leaves the session unready and
\* the links closed, and keeps or drops the gateway, is AcquireGateway or
\* Abandon.
LEMMA LifecycleUnready ==
    ASSUME init_done = FALSE, device_hid = FALSE, ~mqtt.tel, ~mqtt.cmd,
           init_done' = FALSE, device_hid' = FALSE, UNCHANGED mqtt,
           gateway_hid' \in BOOLEAN
    PROVE  [Lifecycle!Next]_AbsVars
<1>1. OpenLinks = {} /\ OpenLinks' = {}
  <2>1. OpenLinks = {}
    BY LinksNone
  <2>2. OpenLinks' = OpenLinks
    BY DEF OpenLinks
  <2> QED
    BY <2>1, <2>2
<1>2. CASE gateway_hid'
  BY <1>1, <1>2 DEF Lifecycle!AcquireGateway, Lifecycle!Next, AbsVars
<1>3. CASE ~gateway_hid'
  BY <1>1, <1>3 DEF Lifecycle!Abandon, Lifecycle!Next, AbsVars
<1> QED
  BY <1>2, <1>3

\* The session becomes ready under its gateway.
LEMMA LifecycleReady ==
    ASSUME init_done = FALSE, gateway_hid, ~mqtt.tel, ~mqtt.cmd,
           init_done' = TRUE, UNCHANGED <<gateway_hid, mqtt>>,
           device_hid' \in {device_hid, TRUE}
    PROVE  [Lifecycle!Next]_AbsVars
<1>1. OpenLinks = {} /\ OpenLinks' = {}
  <2>1. OpenLinks = {}
    BY LinksNone
  <2>2. OpenLinks' = OpenLinks
    BY DEF OpenLinks
  <2> QED
    BY <2>1, <2>2
<1> QED
  BY <1>1 DEF Lifecycle!BecomeReady, Lifecycle!Next, AbsVars

\* The application's calls refine the lifecycle: the disconnect and
\* terminate routines close links, arrow_close shuts a ready session down
\* (and only closes links of one that is not ready), the rest stutter.
LEMMA LifecycleAppCall ==
    ASSUME TypeOK, Session, AppCall PROVE [Lifecycle!Next]_AbsVars
<1>1. CASE \/ arrow_initialize_routine \/ arrow_gateway_initialize_routine
           \/ arrow_send_telemetry_routine \/ arrow_mqtt_connect_telemetry_routine
           \/ arrow_mqtt_connect_routine \/ arrow_mqtt_connect_event_routine
           \/ arrow_mqtt_subscribe_event_routine \/ arrow_mqtt_send_telemetry_routine
           \/ arrow_mqtt_telemetry_routine \/ arrow_mqtt_telemetry_once_routine
           \/ arrow_mqtt_event_receive_routine
  <2>1. UNCHANGED <<init_done, gateway_hid, device_hid, mqtt>>
    BY <1>1 DEF arrow_initialize_routine, arrow_gateway_initialize_routine,
       arrow_send_telemetry_routine, arrow_mqtt_connect_telemetry_routine,
       arrow_mqtt_connect_routine, arrow_mqtt_connect_event_routine,
       arrow_mqtt_subscribe_event_routine, arrow_mqtt_send_telemetry_routine,
       arrow_mqtt_telemetry_routine, arrow_mqtt_telemetry_once_routine,
       arrow_mqtt_event_receive_routine
  <2> QED
    BY <2>1, LifecycleStutter
<1>2. CASE \/ arrow_mqtt_disconnect_telemetry_routine
           \/ arrow_mqtt_terminate_telemetry_routine
           \/ arrow_mqtt_disconnect_event_routine
           \/ arrow_mqtt_terminate_event_routine
           \/ arrow_mqtt_disconnect_routine
           \/ arrow_mqtt_terminate_routine
  <2> DEFINE Shrinks ==
          (mqtt' \in [tel : BOOLEAN, cmd : BOOLEAN]) /\ (mqtt'.tel => mqtt.tel)
          /\ (mqtt'.cmd => mqtt.cmd) /\ UNCHANGED <<init_done, gateway_hid, device_hid>>
  <2>1. arrow_mqtt_disconnect_telemetry_routine => Shrinks
    BY DEF TypeOK, arrow_mqtt_disconnect_telemetry_routine
  <2>2. arrow_mqtt_terminate_telemetry_routine => Shrinks
    BY DEF TypeOK, arrow_mqtt_terminate_telemetry_routine
  <2>3. arrow_mqtt_disconnect_event_routine => Shrinks
    BY DEF TypeOK, arrow_mqtt_disconnect_event_routine
  <2>4. arrow_mqtt_terminate_event_routine => Shrinks
    BY DEF TypeOK, arrow_mqtt_terminate_event_routine
  <2>5. arrow_mqtt_disconnect_routine => Shrinks
    BY DEF TypeOK, arrow_mqtt_disconnect_routine
  <2>6. arrow_mqtt_terminate_routine => Shrinks
    BY DEF TypeOK, arrow_mqtt_terminate_routine
  <2>7. Shrinks
    BY <1>2, <2>1, <2>2, <2>3, <2>4, <2>5, <2>6, Zenon
  <2> QED
    BY <2>7, LifecycleClose DEF Shrinks
<1>3. CASE arrow_close
  <2>1. OpenLinks' = {}
    BY <1>3 DEF arrow_close, OpenLinks
  <2>2. CASE init_done
    <3>1. init_done' = FALSE /\ gateway_hid' = FALSE /\ device_hid' = FALSE
      BY <1>3, <2>2 DEF arrow_close
    <3> QED
      BY <2>1, <3>1 DEF Lifecycle!Shutdown, Lifecycle!Next
  <2>3. CASE ~init_done
    <3>1. UNCHANGED <<init_done, gateway_hid, device_hid>>
      BY <1>3, <2>3 DEF arrow_close, TypeOK
    <3> QED
      BY <2>1, <3>1 DEF Lifecycle!CloseLinks, Lifecycle!Next
  <2> QED
    BY <2>2, <2>3
<1> QED
  BY <1>1, <1>2, <1>3 DEF AppCall


\* A connection opened by a connect step belongs to a ready session with
\* both identities: its pc is not the device loop's.
LEMMA ConnectReady ==
    ASSUME Session, CanConnect, pc # "full_dev"
    PROVE  init_done /\ gateway_hid /\ device_hid
BY DEF Session, DeviceOnlyWhenReady, CanConnect

\* The SDK's steps refine the lifecycle.
LEMMA LifecycleSdkStep ==
    ASSUME Restrictions, TypeOK, TypeOK', Session, SdkStep
    PROVE  [Lifecycle!Next]_AbsVars
<1>1. CASE GatewayConnectStep
  <2>1. ~init_done /\ ~device_hid /\ ~mqtt.tel /\ ~mqtt.cmd
    BY <1>1, InitLoopState DEF GatewayConnectStep, InitPcs
  <2>2. UNCHANGED <<init_done, device_hid, mqtt>>
    BY <1>1 DEF GatewayConnectStep
  <2> QED
    BY <2>1, <2>2, LifecycleUnready DEF TypeOK
<1>2. CASE GatewayConfigStep
  <2>1. ~init_done /\ ~device_hid /\ ~mqtt.tel /\ ~mqtt.cmd /\ gateway_hid
    BY <1>2, InitLoopState DEF GatewayConfigStep, InitPcs, Session, ConfigHoldsGateway
  <2>2. UNCHANGED <<device_hid, mqtt>>
    BY <1>2 DEF GatewayConfigStep
  <2>3. PICK r \in ConfigResponses :
          IF config_proc_ok(r)
          THEN /\ config_keys' = r.keys
               /\ retry' = 0
               /\ pc' = IF pc = "full_cfg" THEN "full_dev" ELSE "idle"
               /\ init_done' = (init_done \/ pc = "gwi_cfg")
               /\ unfed' = IF pc = "full_cfg" THEN 0 ELSE Gap(1)
               /\ UNCHANGED gateway_hid
          ELSE /\ Failed(1)
               /\ gateway_hid' = (gateway_hid /\ ~(Exhausted /\ pc = "full_cfg"))
               /\ UNCHANGED <<config_keys, init_done>>
    BY <1>2 DEF GatewayConfigStep
  <2>4. CASE config_proc_ok(r) /\ pc = "gwi_cfg"
    <3>1. init_done' = TRUE /\ UNCHANGED gateway_hid
      BY <2>3, <2>4
    <3> QED
      BY <2>1, <2>2, <3>1, LifecycleReady DEF TypeOK
  <2>5. CASE config_proc_ok(r) /\ pc # "gwi_cfg"
    <3>1. UNCHANGED <<init_done, gateway_hid>>
      BY <2>1, <2>3, <2>5 DEF TypeOK
    <3> QED
      BY <2>2, <3>1, LifecycleStutter
  <2>6. CASE ~config_proc_ok(r)
    <3>1. UNCHANGED init_done
      BY <2>3, <2>6
    <3> QED
      BY <2>1, <2>2, <3>1, LifecycleUnready DEF TypeOK
  <2> QED
    BY <2>4, <2>5, <2>6
<1>3. CASE DeviceConnectStep
  <2>1. PICK a, b, c \in BOOLEAN : DeviceAttempt(connect_device(a, b, c))
    BY <1>3 DEF DeviceConnectStep
  <2> DEFINE r == connect_device(a, b, c)
  <2>2. ~init_done /\ ~device_hid /\ ~mqtt.tel /\ ~mqtt.cmd /\ gateway_hid
    BY <1>3, InitLoopState DEF DeviceConnectStep, InitPcs, Session, ConfigHoldsGateway
  <2>3. r.hid = r.ok /\ r.ok \in BOOLEAN
    BY <2>2, ConnectDeviceFresh, ConnectDeviceType DEF Restrictions
  <2>4. UNCHANGED mqtt
    BY <1>3 DEF DeviceConnectStep
  <2>5. CASE r.ok
    <3>1. init_done' = TRUE /\ device_hid' = TRUE /\ UNCHANGED gateway_hid
      BY <2>1, <2>3, <2>5 DEF DeviceAttempt
    <3> QED
      BY <2>2, <2>4, <3>1, LifecycleReady DEF TypeOK
  <2>6. CASE ~r.ok
    <3>1. UNCHANGED init_done /\ device_hid' = FALSE
      BY <2>1, <2>3, <2>6 DEF DeviceAttempt
    <3> QED
      BY <2>2, <2>4, <3>1, LifecycleUnready DEF TypeOK
  <2> QED
    BY <2>3, <2>5, <2>6
<1>4. CASE HttpTelemetryStep \/ SubscribeStep \/ SendTelemetryCycle \/ TelemetryCycle
  <2>1. UNCHANGED <<init_done, gateway_hid, device_hid, mqtt>>
    BY <1>4 DEF HttpTelemetryStep, SubscribeStep, SendTelemetryCycle, TelemetryCycle
  <2> QED
    BY <2>1, LifecycleStutter
<1>5. CASE TelemetryConnectStep
  <2>1. PICK ok \in IF CanConnect THEN BOOLEAN ELSE {FALSE} :
          IF ok
          THEN /\ mqtt' = [mqtt EXCEPT !.tel = TRUE]
               /\ init_mqtt' = init_mqtt \cup {TEL}
               /\ retry' = 0
               /\ pc' = IF pc = "mc_tel" /\ Events /\ CMD \notin init_mqtt
                        THEN "mc_ev" ELSE "idle"
               /\ unfed' = Gap(1)
          ELSE /\ Failed(1)
               /\ UNCHANGED <<mqtt, init_mqtt>>
    BY <1>5 DEF TelemetryConnectStep
  <2>2. UNCHANGED <<init_done, gateway_hid, device_hid>>
    BY <1>5 DEF TelemetryConnectStep
  <2>3. CASE ok
    <3>1. init_done /\ gateway_hid /\ device_hid
      BY <1>5, <2>1, <2>3, ConnectReady DEF TelemetryConnectStep
    <3>2. OpenLinks' = OpenLinks \cup {TEL}
      BY <2>1, <2>3, LinksOpenTel
    <3>3. Lifecycle!Open(TEL)
      BY <2>2, <3>1, <3>2 DEF Lifecycle!Open
    <3> QED
      BY <3>3 DEF Lifecycle!Next, Channels
  <2>4. CASE ~ok
    BY <2>1, <2>2, <2>4, LifecycleStutter
  <2> QED
    BY <2>3, <2>4
<1>6. CASE EventConnectStep
  <2>1. PICK ok \in IF CanConnect THEN BOOLEAN ELSE {FALSE} :
          IF ok
          THEN /\ mqtt' = [mqtt EXCEPT !.cmd = TRUE]
               /\ init_mqtt' = init_mqtt \cup {CMD}
               /\ retry' = 0
               /\ IF pc = "mc_ev"
                  THEN \E yieldEvent \in BOOLEAN :
                          /\ event_pending' = (event_pending \/ yieldEvent)
                          /\ pc' = IF yieldEvent THEN "idle" ELSE "mc_sub"
                          /\ unfed' = 0
                  ELSE /\ pc' = "idle"
                       /\ unfed' = Gap(1)
                       /\ UNCHANGED event_pending
          ELSE /\ Failed(1)
               /\ UNCHANGED <<mqtt, init_mqtt, event_pending>>
    BY <1>6 DEF EventConnectStep
  <2>2. UNCHANGED <<init_done, gateway_hid, device_hid>>
    BY <1>6 DEF EventConnectStep
  <2>3. CASE ok
    <3>1. init_done /\ gateway_hid /\ device_hid
      BY <1>6, <2>1, <2>3, ConnectReady DEF EventConnectStep
    <3>2. OpenLinks' = OpenLinks \cup {CMD}
      BY <2>1, <2>3, LinksOpenCmd
    <3>3. Lifecycle!Open(CMD)
      BY <2>2, <3>1, <3>2 DEF Lifecycle!Open
    <3> QED
      BY <3>3 DEF Lifecycle!Next, Channels
  <2>4. CASE ~ok
    BY <2>1, <2>2, <2>4, LifecycleStutter
  <2> QED
    BY <2>3, <2>4
<1> QED
  BY <1>1, <1>2, <1>3, <1>4, <1>5, <1>6 DEF SdkStep


\* Every step of the routines, a served event and a reset included, is a
\* step of the abstract session or a stutter.
LEMMA LifecycleStep ==
    ASSUME Restrictions, TypeOK, Session, [Next]_vars
    PROVE  [Lifecycle!Next]_AbsVars
<1>1. TypeOK'
  BY TypeStep
<1>2. CASE AppCall
  BY <1>2, LifecycleAppCall
<1>3. CASE SdkStep
  BY <1>1, <1>3, LifecycleSdkStep
<1>4. CASE EventServed
  BY <1>4, LifecycleStutter DEF EventServed
<1>5. CASE Reboot
  <2>1. OpenLinks' = {}
    BY <1>5 DEF Reboot, OpenLinks
  <2>2. Lifecycle!Shutdown
    BY <1>5, <2>1 DEF Reboot, Lifecycle!Shutdown
  <2> QED
    BY <2>2 DEF Lifecycle!Next
<1>6. CASE UNCHANGED vars
  BY <1>6, LifecycleStutter DEF vars
<1> QED
  BY <1>2, <1>3, <1>4, <1>5, <1>6 DEF Next

\* A fresh boot is a fresh session: not ready, no identities, no links.
LEMMA LifecycleInit == Init => Lifecycle!Init
BY DEF Init, RamInit, Lifecycle!Init, OpenLinks

\* The routines of routine.c implement the session lifecycle: under the
\* restrictions of SessionSafe, every behaviour of Routine, seen through
\* _init_done, the _gateway and _device handles and the open MQTT links,
\* is a behaviour of SessionLifecycle.  Identities change only while the
\* session is not ready, links open only in a ready session with both
\* identities, and a ready session ends only by arrow_close or a reset.
THEOREM RoutineImplementsLifecycle ==
    Restrictions => (Spec => ImplementsLifecycle)
<1> SUFFICES ASSUME Restrictions PROVE Spec => Lifecycle!Spec
  BY DEF ImplementsLifecycle
<1>1. Spec => [](TypeOK /\ Session)
  BY TypeCorrect, SessionSafe, PTL
<1>2. TypeOK /\ Session /\ [Next]_vars => [Lifecycle!Next]_AbsVars
  BY LifecycleStep
<1>3. Init => Lifecycle!Init
  BY LifecycleInit
<1> QED
  BY <1>1, <1>2, <1>3, PTL DEF Spec, Lifecycle!Spec, Lifecycle!avars, AbsVars

=============================================================================
