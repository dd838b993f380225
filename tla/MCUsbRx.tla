------------------------------ MODULE MCUsbRx -------------------------------
(* Small instances of the data port's receiver. *)
EXTENDS UsbRx
=============================================================================
