---------------------------- MODULE MCUsbSuspend ----------------------------
(* One event at boot and one later, one suspend, and one of every retry.     *)
EXTENDS UsbSuspend
=============================================================================
