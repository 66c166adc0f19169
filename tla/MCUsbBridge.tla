---------------------------- MODULE MCUsbBridge ----------------------------
(* Instances of UsbBridge for TLC. *)
EXTENDS UsbBridge

CONSTANTS n1, j1

OneNative == {n1}
NativeAndJava == {n1, j1}
OnlyJ1 == {j1}
NoJava == {}

\* One method without arrays, one with, and RecvData.
ThreeCalls == {"OpenDevice", "SendData", "RecvData"}
=============================================================================
