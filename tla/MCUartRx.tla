------------------------------ MODULE MCUartRx ------------------------------
(* The runs of UartRx; its constants are numbers.                          *)
EXTENDS UartRx
=============================================================================
