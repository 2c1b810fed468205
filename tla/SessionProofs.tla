---------------------------- MODULE SessionProofs ----------------------------
(***************************************************************************)
(* The session invariants of Routine, proved for every value of the       *)
(* constants under the two restrictions the passing runs make: the client *)
(* does not re-initialize a ready session, and the build does not use     *)
(* CHECK_DEVICE_REG.                                                       *)
(***************************************************************************)
EXTENDS RoutineProofs

\* The positions of the initialize routines' retry loops.
InitPcs == {"full_gw", "full_cfg", "full_dev", "gwi_gw", "gwi_cfg"}

\* An initialize routine only runs while the session is not ready (the
\* client restriction: arrow_initialize_routine is not called again).
InitNotReady == pc \in InitPcs => ~init_done

\* The config and device loops run with the gateway registered.
ConfigHoldsGateway == pc \in {"full_cfg", "gwi_cfg", "full_dev"} => gateway_hid

\* Outside the device loop a device handle exists only in a ready session.
DeviceOnlyWhenReady == device_hid /\ pc # "full_dev" => init_done

\* The device loop starts, and in update builds stays, without a handle.
DeviceLoopFresh == pc = "full_dev" => ~device_hid

\* An open MQTT channel belongs to a ready session with a device.
ChannelsNeedReady == (mqtt.tel \/ mqtt.cmd) => device_hid /\ init_done

\* The inductive strengthening of the three session invariants.
Session ==
    /\ InitNotReady
    /\ ConfigHoldsGateway
    /\ DeviceOnlyWhenReady
    /\ DeviceLoopFresh
    /\ DeviceSessionConsistent
    /\ ReadySessionHeld
    /\ ChannelsNeedReady

\* The restrictions under which the session invariants hold.
Restrictions == ~ReinitWhileReady /\ DevicePath # "check"

\* A successful arrow_connect_gateway leaves the gateway with a handle.
LEMMA ConnectGatewayOk ==
    ASSUME NEW a \in BOOLEAN, NEW b \in BOOLEAN, NEW c \in BOOLEAN
    PROVE  connect_gateway(a, b, c).ok => connect_gateway(a, b, c).hid
BY DEF connect_gateway

\* Outside CHECK_DEVICE_REG builds, arrow_connect_device called without a
\* device handle keeps the handle, and starts the state sub-session,
\* exactly when it succeeds.
LEMMA ConnectDeviceFresh ==
    ASSUME NEW a \in BOOLEAN, NEW b \in BOOLEAN, NEW c \in BOOLEAN,
           ~device_hid, DevicePath # "check"
    PROVE  LET r == connect_device(a, b, c) IN
           /\ r.hid = r.ok /\ r.run = r.ok
BY DevicePathAssumption DEF connect_device

\* A boot starts in a session state.
LEMMA SessionInit == Init => Session
BY DEF Init, RamInit, Session, InitNotReady, ConfigHoldsGateway, DeviceOnlyWhenReady, DeviceLoopFresh, DeviceSessionConsistent, ReadySessionHeld, ChannelsNeedReady

\* The application's calls keep the session invariants.
LEMMA SessionAppCall ==
    ASSUME Restrictions, TypeOK, Session, AppCall PROVE Session'
<1> USE DEF Restrictions
<1>1. CASE arrow_initialize_routine
  BY <1>1 DEF arrow_initialize_routine, Session, InitNotReady, ConfigHoldsGateway, DeviceOnlyWhenReady, DeviceLoopFresh, DeviceSessionConsistent, ReadySessionHeld, ChannelsNeedReady, InitPcs
<1>2. CASE arrow_gateway_initialize_routine
  BY <1>2 DEF arrow_gateway_initialize_routine, Session, InitNotReady, ConfigHoldsGateway, DeviceOnlyWhenReady, DeviceLoopFresh, DeviceSessionConsistent, ReadySessionHeld, ChannelsNeedReady, InitPcs
<1>3. CASE arrow_send_telemetry_routine
  BY <1>3 DEF arrow_send_telemetry_routine, Session, InitNotReady, ConfigHoldsGateway, DeviceOnlyWhenReady, DeviceLoopFresh, DeviceSessionConsistent, ReadySessionHeld, ChannelsNeedReady, InitPcs
<1>4. CASE arrow_mqtt_connect_telemetry_routine
  BY <1>4 DEF arrow_mqtt_connect_telemetry_routine, Session, InitNotReady, ConfigHoldsGateway, DeviceOnlyWhenReady, DeviceLoopFresh, DeviceSessionConsistent, ReadySessionHeld, ChannelsNeedReady, InitPcs
<1>5. CASE arrow_mqtt_connect_routine
  BY <1>5 DEF arrow_mqtt_connect_routine, Session, InitNotReady, ConfigHoldsGateway, DeviceOnlyWhenReady, DeviceLoopFresh, DeviceSessionConsistent, ReadySessionHeld, ChannelsNeedReady, InitPcs
<1>6. CASE arrow_mqtt_connect_event_routine
  BY <1>6 DEF arrow_mqtt_connect_event_routine, Session, InitNotReady, ConfigHoldsGateway, DeviceOnlyWhenReady, DeviceLoopFresh, DeviceSessionConsistent, ReadySessionHeld, ChannelsNeedReady, InitPcs
<1>7. CASE arrow_mqtt_subscribe_event_routine
  BY <1>7 DEF arrow_mqtt_subscribe_event_routine, Session, InitNotReady, ConfigHoldsGateway, DeviceOnlyWhenReady, DeviceLoopFresh, DeviceSessionConsistent, ReadySessionHeld, ChannelsNeedReady, InitPcs
<1>8. CASE arrow_mqtt_disconnect_telemetry_routine
  BY <1>8 DEF arrow_mqtt_disconnect_telemetry_routine, Session, InitNotReady, ConfigHoldsGateway, DeviceOnlyWhenReady, DeviceLoopFresh, DeviceSessionConsistent, ReadySessionHeld, ChannelsNeedReady, InitPcs
<1>9. CASE arrow_mqtt_terminate_telemetry_routine
  BY <1>9 DEF arrow_mqtt_terminate_telemetry_routine, Session, InitNotReady, ConfigHoldsGateway, DeviceOnlyWhenReady, DeviceLoopFresh, DeviceSessionConsistent, ReadySessionHeld, ChannelsNeedReady, InitPcs
<1>10. CASE arrow_mqtt_disconnect_event_routine
  BY <1>10 DEF arrow_mqtt_disconnect_event_routine, Session, InitNotReady, ConfigHoldsGateway, DeviceOnlyWhenReady, DeviceLoopFresh, DeviceSessionConsistent, ReadySessionHeld, ChannelsNeedReady, InitPcs
<1>11. CASE arrow_mqtt_terminate_event_routine
  BY <1>11 DEF arrow_mqtt_terminate_event_routine, Session, InitNotReady, ConfigHoldsGateway, DeviceOnlyWhenReady, DeviceLoopFresh, DeviceSessionConsistent, ReadySessionHeld, ChannelsNeedReady, InitPcs
<1>12. CASE arrow_mqtt_disconnect_routine
  BY <1>12 DEF arrow_mqtt_disconnect_routine, Session, InitNotReady, ConfigHoldsGateway, DeviceOnlyWhenReady, DeviceLoopFresh, DeviceSessionConsistent, ReadySessionHeld, ChannelsNeedReady, InitPcs
<1>13. CASE arrow_mqtt_terminate_routine
  BY <1>13 DEF arrow_mqtt_terminate_routine, Session, InitNotReady, ConfigHoldsGateway, DeviceOnlyWhenReady, DeviceLoopFresh, DeviceSessionConsistent, ReadySessionHeld, ChannelsNeedReady, InitPcs
<1>14. CASE arrow_mqtt_send_telemetry_routine
  BY <1>14 DEF arrow_mqtt_send_telemetry_routine, Session, InitNotReady, ConfigHoldsGateway, DeviceOnlyWhenReady, DeviceLoopFresh, DeviceSessionConsistent, ReadySessionHeld, ChannelsNeedReady, InitPcs
<1>15. CASE arrow_mqtt_telemetry_routine
  BY <1>15 DEF arrow_mqtt_telemetry_routine, Session, InitNotReady, ConfigHoldsGateway, DeviceOnlyWhenReady, DeviceLoopFresh, DeviceSessionConsistent, ReadySessionHeld, ChannelsNeedReady, InitPcs
<1>16. CASE arrow_mqtt_telemetry_once_routine
  BY <1>16 DEF arrow_mqtt_telemetry_once_routine, Session, InitNotReady, ConfigHoldsGateway, DeviceOnlyWhenReady, DeviceLoopFresh, DeviceSessionConsistent, ReadySessionHeld, ChannelsNeedReady, InitPcs
<1>17. CASE arrow_mqtt_event_receive_routine
  BY <1>17 DEF arrow_mqtt_event_receive_routine, Session, InitNotReady, ConfigHoldsGateway, DeviceOnlyWhenReady, DeviceLoopFresh, DeviceSessionConsistent, ReadySessionHeld, ChannelsNeedReady, InitPcs
<1>18. CASE arrow_close
  BY <1>18 DEF arrow_close, Session, InitNotReady, ConfigHoldsGateway, DeviceOnlyWhenReady, DeviceLoopFresh, DeviceSessionConsistent, ReadySessionHeld, ChannelsNeedReady, InitPcs
<1>19. QED BY <1>1, <1>2, <1>3, <1>4, <1>5, <1>6, <1>7, <1>8, <1>9, <1>10, <1>11, <1>12, <1>13, <1>14, <1>15, <1>16, <1>17, <1>18 DEF AppCall

\* The SDK's steps keep the session invariants.
LEMMA SessionSdkStep ==
    ASSUME Restrictions, TypeOK, Session, SdkStep PROVE Session'
<1> USE DEF Restrictions
<1>1. CASE GatewayConnectStep
  <2>1. PICK a, b, c \in BOOLEAN : GatewayAttempt(connect_gateway(a, b, c))
    BY <1>1 DEF GatewayConnectStep
  <2> DEFINE r == connect_gateway(a, b, c)
  <2>2. r.ok \in BOOLEAN /\ r.hid \in BOOLEAN /\ r.save \in BOOLEAN /\ r.io \in Nat
    BY ConnectGatewayType
  <2>3. ~init_done /\ ~device_hid /\ ~mqtt.tel /\ ~mqtt.cmd /\ ~state_running
    BY <1>1 DEF GatewayConnectStep, Session, InitNotReady, DeviceOnlyWhenReady,
              ChannelsNeedReady, DeviceSessionConsistent, InitPcs
  <2>4. UNCHANGED <<init_done, device_hid, mqtt, state_running>>
    BY <1>1 DEF GatewayConnectStep
  <2>5. CASE r.ok
    <3>1. pc' \in {"full_cfg", "gwi_cfg"} /\ gateway_hid'
      BY <1>1, <2>1, <2>5, ConnectGatewayOk DEF GatewayConnectStep, GatewayAttempt
    <3>2. QED BY <2>3, <2>4, <3>1 DEF Session, InitNotReady, ConfigHoldsGateway, DeviceOnlyWhenReady, DeviceLoopFresh, DeviceSessionConsistent, ReadySessionHeld, ChannelsNeedReady, InitPcs
  <2>6. CASE ~r.ok
    <3>1. pc' \in {pc, "idle"}
      BY <2>1, <2>6 DEF GatewayAttempt, Failed
    <3>2. QED BY <1>1, <2>3, <2>4, <3>1 DEF GatewayConnectStep, Session, InitNotReady, ConfigHoldsGateway, DeviceOnlyWhenReady, DeviceLoopFresh, DeviceSessionConsistent, ReadySessionHeld, ChannelsNeedReady, InitPcs
  <2>7. QED BY <2>2, <2>5, <2>6
<1>2. CASE GatewayConfigStep
  BY <1>2 DEF GatewayConfigStep, Session, InitNotReady, ConfigHoldsGateway, DeviceOnlyWhenReady, DeviceLoopFresh, DeviceSessionConsistent, ReadySessionHeld, ChannelsNeedReady, InitPcs, Failed, Exhausted, GatewayAttempt, DeviceAttempt, connect_gateway, connect_device, Produce, CanConnect
<1>3. CASE DeviceConnectStep
  <2>1. PICK a, b, c \in BOOLEAN : DeviceAttempt(connect_device(a, b, c))
    BY <1>3 DEF DeviceConnectStep
  <2> DEFINE r == connect_device(a, b, c)
  <2>2. ~init_done /\ ~device_hid /\ ~mqtt.tel /\ ~mqtt.cmd /\ ~state_running
        /\ gateway_hid
    BY <1>3 DEF DeviceConnectStep, Session, InitNotReady, DeviceLoopFresh,
              ChannelsNeedReady, DeviceSessionConsistent, ConfigHoldsGateway, InitPcs
  <2>3. r.hid = r.ok /\ r.run = r.ok /\ r.ok \in BOOLEAN
    BY <2>2, ConnectDeviceFresh, ConnectDeviceType
  <2>4. UNCHANGED mqtt
    BY <1>3 DEF DeviceConnectStep
  <2>5. state_running' = r.ok
    BY <2>1, <2>2, <2>3 DEF DeviceAttempt
  <2>6. CASE r.ok
    <3>1. pc' = "idle" /\ init_done' /\ device_hid' /\ gateway_hid'
      BY <2>1, <2>2, <2>3, <2>6 DEF DeviceAttempt
    <3>2. QED BY <2>4, <2>5, <2>6, <3>1 DEF Session, InitNotReady, ConfigHoldsGateway, DeviceOnlyWhenReady, DeviceLoopFresh, DeviceSessionConsistent, ReadySessionHeld, ChannelsNeedReady, InitPcs
  <2>7. CASE ~r.ok
    <3>1. ~init_done' /\ ~device_hid'
      BY <2>1, <2>2, <2>3, <2>7 DEF DeviceAttempt
    <3>2. pc' = "full_dev" => gateway_hid'
      BY <2>1, <2>2, <2>7 DEF DeviceAttempt, Failed
    <3>3. pc' \in {"full_dev", "idle"}
      BY <1>3, <2>1, <2>7 DEF DeviceConnectStep, DeviceAttempt, Failed
    <3>4. ~state_running'
      BY <2>3, <2>5, <2>7, Zenon
    <3>5. QED BY <2>2, <2>4, <3>1, <3>2, <3>3, <3>4 DEF Session, InitNotReady, ConfigHoldsGateway, DeviceOnlyWhenReady, DeviceLoopFresh, DeviceSessionConsistent, ReadySessionHeld, ChannelsNeedReady, InitPcs
  <2>8. QED BY <2>3, <2>6, <2>7
<1>4. CASE HttpTelemetryStep
  BY <1>4 DEF HttpTelemetryStep, Session, InitNotReady, ConfigHoldsGateway, DeviceOnlyWhenReady, DeviceLoopFresh, DeviceSessionConsistent, ReadySessionHeld, ChannelsNeedReady, InitPcs, Failed, Exhausted, GatewayAttempt, DeviceAttempt, connect_gateway, connect_device, Produce, CanConnect
<1>5. CASE TelemetryConnectStep
  BY <1>5 DEF TelemetryConnectStep, Session, InitNotReady, ConfigHoldsGateway, DeviceOnlyWhenReady, DeviceLoopFresh, DeviceSessionConsistent, ReadySessionHeld, ChannelsNeedReady, InitPcs, Failed, Exhausted, GatewayAttempt, DeviceAttempt, connect_gateway, connect_device, Produce, CanConnect
<1>6. CASE EventConnectStep
  BY <1>6 DEF EventConnectStep, Session, InitNotReady, ConfigHoldsGateway, DeviceOnlyWhenReady, DeviceLoopFresh, DeviceSessionConsistent, ReadySessionHeld, ChannelsNeedReady, InitPcs, Failed, Exhausted, GatewayAttempt, DeviceAttempt, connect_gateway, connect_device, Produce, CanConnect
<1>7. CASE SubscribeStep
  BY <1>7 DEF SubscribeStep, Session, InitNotReady, ConfigHoldsGateway, DeviceOnlyWhenReady, DeviceLoopFresh, DeviceSessionConsistent, ReadySessionHeld, ChannelsNeedReady, InitPcs, Failed, Exhausted, GatewayAttempt, DeviceAttempt, connect_gateway, connect_device, Produce, CanConnect
<1>8. CASE SendTelemetryCycle
  <2>1. pc' \in {"idle", "loop"}
    BY <1>8, ProduceType DEF SendTelemetryCycle, LoopPcs
  <2>2. QED BY <1>8, <2>1 DEF SendTelemetryCycle, Session, InitNotReady, ConfigHoldsGateway, DeviceOnlyWhenReady, DeviceLoopFresh, DeviceSessionConsistent, ReadySessionHeld, ChannelsNeedReady, InitPcs
<1>9. CASE TelemetryCycle
  <2>1. pc' \in {"idle", "loop_plain"}
    BY <1>9, ProduceType DEF TelemetryCycle, LoopPcs
  <2>2. QED BY <1>9, <2>1 DEF TelemetryCycle, Session, InitNotReady, ConfigHoldsGateway, DeviceOnlyWhenReady, DeviceLoopFresh, DeviceSessionConsistent, ReadySessionHeld, ChannelsNeedReady, InitPcs
<1>10. QED BY <1>1, <1>2, <1>3, <1>4, <1>5, <1>6, <1>7, <1>8, <1>9 DEF SdkStep

\* Every step, and every stutter, keeps the session invariants.
LEMMA SessionStep ==
    ASSUME Restrictions, TypeOK, Session, [Next]_vars PROVE Session'
<1>1. CASE AppCall
  BY <1>1, SessionAppCall
<1>2. CASE SdkStep
  BY <1>2, SessionSdkStep
<1>3. CASE EventServed
  BY <1>3 DEF EventServed, Session, InitNotReady, ConfigHoldsGateway, DeviceOnlyWhenReady, DeviceLoopFresh, DeviceSessionConsistent, ReadySessionHeld, ChannelsNeedReady
<1>4. CASE Reboot
  BY <1>4 DEF Reboot, Session, InitNotReady, ConfigHoldsGateway, DeviceOnlyWhenReady, DeviceLoopFresh, DeviceSessionConsistent, ReadySessionHeld, ChannelsNeedReady
<1>5. CASE UNCHANGED vars
  BY <1>5 DEF vars, Session, InitNotReady, ConfigHoldsGateway, DeviceOnlyWhenReady, DeviceLoopFresh, DeviceSessionConsistent, ReadySessionHeld, ChannelsNeedReady
<1>6. QED BY <1>1, <1>2, <1>3, <1>4, <1>5 DEF Next

\* Under the restrictions the session invariants hold in every reachable
\* state: arrow_initialize_routine's error labels and arrow_close free the
\* gateway and device only while _init_done is clear, and every MQTT
\* channel is opened from a ready session.
THEOREM SessionSafe == Restrictions => (Spec => []Session)
<1> SUFFICES ASSUME Restrictions PROVE Spec => []Session
  OBVIOUS
<1>1. TypeOK /\ Session /\ [Next]_vars => Session'
  BY SessionStep
<1>2. QED BY <1>1, SessionInit, TypeCorrect, PTL DEF Spec

\* While _init_done is set the gateway identity is held (the run Routine
\* checks it on a small instance).
THEOREM ReadySessionHeldProved == Restrictions => (Spec => []ReadySessionHeld)
<1>1. Session => ReadySessionHeld
  BY DEF Session
<1>2. QED BY <1>1, SessionSafe, PTL

\* The state sub-session runs exactly when the session is ready and holds
\* a device.
THEOREM DeviceSessionConsistentProved ==
    Restrictions => (Spec => []DeviceSessionConsistent)
<1>1. Session => DeviceSessionConsistent
  BY DEF Session
<1>2. QED BY <1>1, SessionSafe, PTL

\* An open MQTT channel always has both identities behind it.
THEOREM IdentityOutlivesChannelsProved ==
    Restrictions => (Spec => []IdentityOutlivesChannels)
<1>1. Session => IdentityOutlivesChannels
  BY DEF Session, ChannelsNeedReady, ReadySessionHeld, IdentityOutlivesChannels
<1>2. QED BY <1>1, SessionSafe, PTL

=============================================================================
