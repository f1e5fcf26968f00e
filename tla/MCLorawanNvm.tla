---------------------------- MODULE MCLorawanNvm ----------------------------
(* Small instances of LorawanNvm for TLC. *)
EXTENDS LorawanNvm

CONSTANTS Crypto, MacGroup1, SecureElement

MCDescriptor == <<Crypto, MacGroup1, SecureElement>>
=============================================================================
