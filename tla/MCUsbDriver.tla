---------------------------- MODULE MCUsbDriver ----------------------------
(* Instances of UsbDriver for TLC. *)
EXTENDS UsbDriver, TLC

CONSTANTS ui, worker

OnlyMain == {ui}
MainAndWorker == {ui, worker}

\* Everything on the main thread.
AllOnMain == (ui :> Methods)

\* The main thread opens and closes, the worker opens and receives.
Rivals ==
  (ui :> {"OpenDevice", "CloseDevice"})
    @@ (worker :> {"OpenDevice", "RecvData"})
=============================================================================
