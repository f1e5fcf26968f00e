--------------------------- MODULE MCGpioTestApp ---------------------------
(* A small instance of GpioTestApp for TLC. *)
EXTENDS GpioTestApp
=============================================================================
