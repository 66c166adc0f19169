----------------------------- MODULE MCUsbStack -----------------------------
(* Instances of UsbStack for TLC. *)
EXTENDS UsbStack, TLC

CONSTANTS ui, n1

OneNative == {n1}
MainAndOne == {ui, n1}

\* The native thread opens, closes, sends and receives; the main thread only receives.
OneCalls == (ui :> {}) @@ (n1 :> {"OpenDevice", "CloseDevice", "SendData", "RecvData"})
=============================================================================
