---------------------------- MODULE MCIpcCrypto ----------------------------
(* A small instance of IpcCrypto for TLC. *)
EXTENDS IpcCrypto
=============================================================================
