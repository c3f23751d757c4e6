------------------------------ MODULE Protocol ------------------------------
(***************************************************************************)
(* telemetry-core/src/protocol.rs: the constants of the wire protocol and  *)
(* the bytes its two enumerations accept.                                  *)
(***************************************************************************)
EXTENDS Integers

PROTOCOL_VERSION == 1

\* PacketType::try_from: Heartbeat, SensorData, Event, Diagnostic, Control.
PacketTypes == 1 .. 5

\* Severity::try_from: Debug, Info, Warning, Error, Fatal, in this order.
Severities == 0 .. 4
=============================================================================
