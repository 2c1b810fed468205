---------------------------- MODULE RoutineProofs ----------------------------
(***************************************************************************)
(* Proofs about Routine for every value of the constants.                 *)
(***************************************************************************)
EXTENDS Routine, TLAPS

USE MaxRetryAssumption, EventsAssumption, DevicePathAssumption,
    ReinitAssumption, WdtGapCapAssumption

\* TypeOK in three parts: control, the Boolean flags, the data.  A step is
\* proved to keep each part on its own.
CtrlOK == /\ pc \in Pcs /\ retry \in 0..MaxRetry /\ unfed \in 0..WdtGapCap
FlagOK == /\ init_done \in BOOLEAN /\ gateway_hid \in BOOLEAN
          /\ device_hid \in BOOLEAN /\ state_running \in BOOLEAN
          /\ event_pending \in BOOLEAN
DataOK == /\ init_mqtt \subseteq Channels /\ config_keys \subseteq KeyNames
          /\ storage \in [gw : BOOLEAN, dev : BOOLEAN]
          /\ mqtt \in [tel : BOOLEAN, cmd : BOOLEAN]

\* TypeOK of the next state is the conjunction of the three parts.
LEMMA TypeSplit == TypeOK' <=> CtrlOK' /\ FlagOK' /\ DataOK'
BY DEF TypeOK, CtrlOK, FlagOK, DataOK

\* The messages the command channel may deliver are Booleans.
LEMMA InboundType == TypeOK => Inbound \subseteq BOOLEAN
BY DEF Inbound, TypeOK

\* The unfed counter stays within its cap.
LEMMA GapType == ASSUME TypeOK, NEW n \in Nat PROVE Gap(n) \in 0..WdtGapCap
BY DEF TypeOK, Gap

\* The failure branch of a retry loop keeps the counter and pc typed.
LEMMA FailedType ==
    ASSUME TypeOK, pc \in RetryPcs, NEW io \in Nat, Failed(io)
    PROVE  /\ pc' \in Pcs
           /\ retry' \in 0..MaxRetry
           /\ unfed' \in 0..WdtGapCap
<1>1. pc' \in Pcs
  BY DEF Failed, Pcs
<1>2. retry' \in 0..MaxRetry
  BY DEF Failed, Exhausted, TypeOK
<1>3. unfed' \in 0..WdtGapCap
  <2>1. (IF Exhausted THEN io ELSE io + 1) \in Nat
    OBVIOUS
  <2>2. QED BY <2>1, GapType DEF Failed
<1>4. QED BY <1>1, <1>2, <1>3

\* The end of a loop cycle stays in the loop or returns, and keeps the
\* unfed count typed.
LEMMA ProduceType ==
    ASSUME TypeOK, NEW d \in Produced, NEW pubOk \in BOOLEAN,
           NEW here \in LoopPcs, Produce(d, pubOk, here)
    PROVE  pc' \in {"idle", here} /\ unfed' \in 0..WdtGapCap
<1>1. Gap(1) \in 0..WdtGapCap
  BY GapType
<1>2. CASE d = "fatal"
  BY <1>1, <1>2 DEF Produce
<1>3. CASE d = "skip"
  BY <1>1, <1>3 DEF Produce
<1>4. CASE d = "ready"
  BY <1>4 DEF Produce
<1>5. QED BY <1>2, <1>3, <1>4 DEF Produced

\* The result records of connect_gateway and connect_device.
LEMMA ConnectGatewayType ==
    ASSUME NEW a \in BOOLEAN, NEW b \in BOOLEAN, NEW c \in BOOLEAN
    PROVE  LET r == connect_gateway(a, b, c) IN
           /\ r.ok \in BOOLEAN /\ r.hid \in BOOLEAN /\ r.save \in BOOLEAN
           /\ r.io \in Nat
BY DEF connect_gateway

LEMMA ConnectDeviceType ==
    ASSUME NEW a \in BOOLEAN, NEW b \in BOOLEAN, NEW c \in BOOLEAN
    PROVE  LET r == connect_device(a, b, c) IN
           /\ r.ok \in BOOLEAN /\ r.hid \in BOOLEAN /\ r.save \in BOOLEAN
           /\ r.run \in BOOLEAN /\ r.io \in Nat
BY DEF connect_device

\* The SDK's steps, and the application's calls, keep the model typed.
LEMMA AppCallType == TypeOK /\ AppCall => TypeOK'
<1> SUFFICES ASSUME TypeOK, AppCall PROVE TypeOK'
  OBVIOUS
<1>1. CASE arrow_initialize_routine
  BY <1>1 DEF arrow_initialize_routine, TypeOK, Pcs, RetryPcs, LoopPcs, Channels
<1>2. CASE arrow_gateway_initialize_routine
  BY <1>2 DEF arrow_gateway_initialize_routine, TypeOK, Pcs, RetryPcs, LoopPcs, Channels
<1>3. CASE arrow_send_telemetry_routine
  BY <1>3 DEF arrow_send_telemetry_routine, TypeOK, Pcs, RetryPcs, LoopPcs, Channels
<1>4. CASE arrow_mqtt_connect_telemetry_routine
  BY <1>4 DEF arrow_mqtt_connect_telemetry_routine, TypeOK, Pcs, RetryPcs, LoopPcs, Channels
<1>5. CASE arrow_mqtt_connect_routine
  BY <1>5 DEF arrow_mqtt_connect_routine, TypeOK, Pcs, RetryPcs, LoopPcs, Channels
<1>6. CASE arrow_mqtt_connect_event_routine
  BY <1>6 DEF arrow_mqtt_connect_event_routine, TypeOK, Pcs, RetryPcs, LoopPcs, Channels
<1>7. CASE arrow_mqtt_subscribe_event_routine
  BY <1>7 DEF arrow_mqtt_subscribe_event_routine, TypeOK, Pcs, RetryPcs, LoopPcs, Channels
<1>8. CASE arrow_mqtt_disconnect_telemetry_routine
  BY <1>8 DEF arrow_mqtt_disconnect_telemetry_routine, TypeOK, Pcs, RetryPcs, LoopPcs, Channels
<1>9. CASE arrow_mqtt_terminate_telemetry_routine
  BY <1>9 DEF arrow_mqtt_terminate_telemetry_routine, TypeOK, Pcs, RetryPcs, LoopPcs, Channels
<1>10. CASE arrow_mqtt_disconnect_event_routine
  BY <1>10 DEF arrow_mqtt_disconnect_event_routine, TypeOK, Pcs, RetryPcs, LoopPcs, Channels
<1>11. CASE arrow_mqtt_terminate_event_routine
  BY <1>11 DEF arrow_mqtt_terminate_event_routine, TypeOK, Pcs, RetryPcs, LoopPcs, Channels
<1>12. CASE arrow_mqtt_disconnect_routine
  BY <1>12 DEF arrow_mqtt_disconnect_routine, TypeOK, Pcs, RetryPcs, LoopPcs, Channels
<1>13. CASE arrow_mqtt_terminate_routine
  BY <1>13 DEF arrow_mqtt_terminate_routine, TypeOK, Pcs, RetryPcs, LoopPcs, Channels
<1>14. CASE arrow_mqtt_send_telemetry_routine
  BY <1>14 DEF arrow_mqtt_send_telemetry_routine, TypeOK, Pcs, RetryPcs, LoopPcs, Channels
<1>15. CASE arrow_mqtt_telemetry_routine
  BY <1>15 DEF arrow_mqtt_telemetry_routine, TypeOK, Pcs, RetryPcs, LoopPcs, Channels
<1>16. CASE arrow_mqtt_telemetry_once_routine
  BY <1>16, GapType DEF arrow_mqtt_telemetry_once_routine, TypeOK, Pcs, RetryPcs, LoopPcs, Channels, Produced
<1>17. CASE arrow_mqtt_event_receive_routine
  <2>1. CtrlOK'
    BY <1>17 DEF arrow_mqtt_event_receive_routine, CtrlOK, TypeOK, Pcs, RetryPcs, LoopPcs
  <2>2. FlagOK'
    BY <1>17, InboundType DEF arrow_mqtt_event_receive_routine, FlagOK, TypeOK
  <2>3. DataOK'
    BY <1>17 DEF arrow_mqtt_event_receive_routine, DataOK, TypeOK, Channels
  <2>4. QED BY <2>1, <2>2, <2>3, TypeSplit
<1>18. CASE arrow_close
  BY <1>18 DEF arrow_close, TypeOK, Pcs, RetryPcs, LoopPcs, Channels
<1>19. QED BY <1>1, <1>2, <1>3, <1>4, <1>5, <1>6, <1>7, <1>8, <1>9, <1>10, <1>11, <1>12, <1>13, <1>14, <1>15, <1>16, <1>17, <1>18 DEF AppCall

LEMMA SdkStepType == TypeOK /\ SdkStep => TypeOK'
<1> SUFFICES ASSUME TypeOK, SdkStep PROVE TypeOK'
  OBVIOUS
<1>1. CASE GatewayConnectStep
  <2>1. PICK a, b, c \in BOOLEAN : GatewayAttempt(connect_gateway(a, b, c))
    BY <1>1 DEF GatewayConnectStep
  <2> DEFINE r == connect_gateway(a, b, c)
  <2>2. r.ok \in BOOLEAN /\ r.hid \in BOOLEAN /\ r.save \in BOOLEAN /\ r.io \in Nat
    BY ConnectGatewayType
  <2>3. pc \in RetryPcs
    BY <1>1 DEF GatewayConnectStep, RetryPcs
  <2>4. CASE r.ok
    <3>1. CtrlOK'
      BY <1>1, <2>1, <2>2, <2>4, GapType DEF GatewayConnectStep, GatewayAttempt, CtrlOK, TypeOK, Pcs, RetryPcs
    <3>2. FlagOK'
      BY <1>1, <2>1, <2>2, <2>4 DEF GatewayConnectStep, GatewayAttempt, FlagOK, TypeOK
    <3>3. DataOK'
      BY <1>1, <2>1, <2>2, <2>4 DEF GatewayConnectStep, GatewayAttempt, DataOK, TypeOK
    <3>4. QED BY <3>1, <3>2, <3>3, TypeSplit
  <2>5. CASE ~r.ok
    <3>1. CtrlOK'
      BY <2>1, <2>2, <2>3, <2>5, FailedType DEF GatewayAttempt, CtrlOK
    <3>2. FlagOK'
      BY <1>1, <2>1, <2>2, <2>5 DEF GatewayConnectStep, GatewayAttempt, FlagOK, TypeOK
    <3>3. DataOK'
      BY <1>1, <2>1, <2>2, <2>5 DEF GatewayConnectStep, GatewayAttempt, DataOK, TypeOK
    <3>4. QED BY <3>1, <3>2, <3>3, TypeSplit
  <2>6. QED BY <2>2, <2>4, <2>5
<1>2. CASE GatewayConfigStep
  <2>1. CtrlOK'
    BY <1>2, FailedType, GapType DEF GatewayConfigStep, CtrlOK, TypeOK, Pcs, RetryPcs, LoopPcs
  <2>2. FlagOK'
    BY <1>2 DEF GatewayConfigStep, FlagOK, TypeOK
  <2>3. DataOK'
    BY <1>2 DEF GatewayConfigStep, DataOK, TypeOK, Channels, ConfigResponses
  <2>4. QED BY <2>1, <2>2, <2>3, TypeSplit
<1>3. CASE DeviceConnectStep
  <2>1. PICK a, b, c \in BOOLEAN : DeviceAttempt(connect_device(a, b, c))
    BY <1>3 DEF DeviceConnectStep
  <2> DEFINE r == connect_device(a, b, c)
  <2>2. r.ok \in BOOLEAN /\ r.hid \in BOOLEAN /\ r.save \in BOOLEAN /\ r.run \in BOOLEAN /\ r.io \in Nat
    BY ConnectDeviceType
  <2>3. pc \in RetryPcs
    BY <1>3 DEF DeviceConnectStep, RetryPcs
  <2>4. CASE r.ok
    <3>1. CtrlOK'
      BY <1>3, <2>1, <2>2, <2>4, GapType DEF DeviceConnectStep, DeviceAttempt, CtrlOK, TypeOK, Pcs, RetryPcs
    <3>2. FlagOK'
      BY <1>3, <2>1, <2>2, <2>4 DEF DeviceConnectStep, DeviceAttempt, FlagOK, TypeOK
    <3>3. DataOK'
      BY <1>3, <2>1, <2>2, <2>4 DEF DeviceConnectStep, DeviceAttempt, DataOK, TypeOK
    <3>4. QED BY <3>1, <3>2, <3>3, TypeSplit
  <2>5. CASE ~r.ok
    <3>1. CtrlOK'
      BY <2>1, <2>2, <2>3, <2>5, FailedType DEF DeviceAttempt, CtrlOK
    <3>2. FlagOK'
      BY <1>3, <2>1, <2>2, <2>5 DEF DeviceConnectStep, DeviceAttempt, FlagOK, TypeOK
    <3>3. DataOK'
      BY <1>3, <2>1, <2>2, <2>5 DEF DeviceConnectStep, DeviceAttempt, DataOK, TypeOK
    <3>4. QED BY <3>1, <3>2, <3>3, TypeSplit
  <2>6. QED BY <2>2, <2>4, <2>5
<1>4. CASE HttpTelemetryStep
  BY <1>4, FailedType, GapType DEF HttpTelemetryStep, TypeOK, Pcs, RetryPcs, LoopPcs, Channels
<1>5. CASE TelemetryConnectStep
  <2>1. CtrlOK'
    BY <1>5, FailedType, GapType DEF TelemetryConnectStep, CtrlOK, TypeOK, Pcs, RetryPcs, LoopPcs
  <2>2. FlagOK'
    BY <1>5 DEF TelemetryConnectStep, FlagOK, TypeOK
  <2>3. DataOK'
    BY <1>5 DEF TelemetryConnectStep, DataOK, TypeOK, Channels
  <2>4. QED BY <2>1, <2>2, <2>3, TypeSplit
<1>6. CASE EventConnectStep
  <2>1. CtrlOK'
    BY <1>6, FailedType, GapType DEF EventConnectStep, CtrlOK, TypeOK, Pcs, RetryPcs, LoopPcs
  <2>2. FlagOK'
    BY <1>6 DEF EventConnectStep, FlagOK, TypeOK
  <2>3. DataOK'
    BY <1>6 DEF EventConnectStep, DataOK, TypeOK, Channels
  <2>4. QED BY <2>1, <2>2, <2>3, TypeSplit
<1>7. CASE SubscribeStep
  BY <1>7, FailedType, GapType DEF SubscribeStep, TypeOK, Pcs, RetryPcs, LoopPcs, Channels
<1>8. CASE SendTelemetryCycle
  <2>1. CtrlOK'
    <3>1. pc' \in Pcs /\ unfed' \in 0..WdtGapCap
      BY <1>8, ProduceType, GapType DEF SendTelemetryCycle, Pcs, LoopPcs
    <3>2. retry' \in 0..MaxRetry
      BY <1>8 DEF SendTelemetryCycle, TypeOK
    <3>3. QED BY <3>1, <3>2 DEF CtrlOK
  <2>2. FlagOK'
    BY <1>8, InboundType DEF SendTelemetryCycle, FlagOK, TypeOK
  <2>3. DataOK'
    BY <1>8 DEF SendTelemetryCycle, DataOK, TypeOK, Channels
  <2>4. QED BY <2>1, <2>2, <2>3, TypeSplit
<1>9. CASE TelemetryCycle
  <2>1. CtrlOK'
    <3>1. pc' \in Pcs /\ unfed' \in 0..WdtGapCap
      BY <1>9, ProduceType, GapType DEF TelemetryCycle, Pcs, LoopPcs
    <3>2. retry' \in 0..MaxRetry
      BY <1>9 DEF TelemetryCycle, TypeOK
    <3>3. QED BY <3>1, <3>2 DEF CtrlOK
  <2>2. FlagOK'
    BY <1>9 DEF TelemetryCycle, FlagOK, TypeOK
  <2>3. DataOK'
    BY <1>9 DEF TelemetryCycle, DataOK, TypeOK, Channels
  <2>4. QED BY <2>1, <2>2, <2>3, TypeSplit
<1>10. QED BY <1>1, <1>2, <1>3, <1>4, <1>5, <1>6, <1>7, <1>8, <1>9 DEF SdkStep

\* The initial states are typed.
LEMMA TypeInit == Init => TypeOK
<1> SUFFICES ASSUME Init PROVE TypeOK
  OBVIOUS
<1>1. CtrlOK
  BY DEF Init, RamInit, CtrlOK, Pcs
<1>2. FlagOK
  BY DEF Init, RamInit, FlagOK
<1>3. DataOK
  BY DEF Init, RamInit, DataOK
<1>4. QED BY <1>1, <1>2, <1>3 DEF TypeOK, CtrlOK, FlagOK, DataOK

\* Every step, and every stutter, keeps the model typed.
LEMMA TypeStep == TypeOK /\ [Next]_vars => TypeOK'
<1> SUFFICES ASSUME TypeOK, [Next]_vars PROVE TypeOK'
  OBVIOUS
<1>1. CASE AppCall
  BY <1>1, AppCallType
<1>2. CASE SdkStep
  BY <1>2, SdkStepType
<1>3. CASE EventServed
  BY <1>3 DEF EventServed, TypeOK
<1>4. CASE Reboot
  <2>1. CtrlOK'
    BY <1>4 DEF Reboot, CtrlOK, Pcs
  <2>2. FlagOK'
    BY <1>4 DEF Reboot, FlagOK
  <2>3. DataOK'
    BY <1>4 DEF Reboot, DataOK, TypeOK
  <2>4. QED BY <2>1, <2>2, <2>3, TypeSplit
<1>5. CASE UNCHANGED vars
  BY <1>5 DEF vars, TypeOK
<1>6. QED
  BY <1>1, <1>2, <1>3, <1>4, <1>5 DEF Next

\* Type correctness of the whole model: every variable keeps the type of
\* the C object it stands for in every reachable state.
THEOREM TypeCorrect == Spec => []TypeOK
BY TypeInit, TypeStep, PTL DEF Spec

=============================================================================
