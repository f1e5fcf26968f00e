----------------------------- MODULE MCIpcCodec -----------------------------
(***************************************************************************)
(* An instance of IpcCodec for TLC with the sizes of the program: names of *)
(* a LoRaWAN group's length and around the width of uint8_t, values and    *)
(* data around the widths, the load response and the limits of the link.   *)
(***************************************************************************)
EXTENDS IpcCodec, TLC

MCNameLength == ("group" :> 21) @@ ("last" :> 254) @@ ("over" :> 255) @@ ("wrap" :> 256)
=============================================================================
