--------------------------- MODULE MCIpcEndpoint ---------------------------
(* Small instances of IpcEndpoint for TLC: the heartbeat of the main loop, a  *)
(* settings call and the receive thread, whose acknowledgement has no data.   *)
EXTENDS IpcEndpoint

CONSTANTS settings, receive, save, boot_load

\* The settings call of the race fits in the struct alone, or is refused.
MCSends ==
    [t \in Thread |->
        IF t = MainThread THEN {[opcode |-> save, size |-> 1]}
        ELSE IF t = settings THEN {[opcode |-> save, size |-> n] : n \in {MaxSize, MaxSize + 1}}
        ELSE {[opcode |-> boot_load, size |-> 0]}]

\* Messages that fit in the data, so that nothing but a race can mix them.
MCShortSends ==
    [t \in Thread |->
        IF t = MainThread THEN {[opcode |-> save, size |-> 1]}
        ELSE IF t = settings THEN {[opcode |-> save, size |-> DataSize]}
        ELSE {[opcode |-> boot_load, size |-> 0]}]
=============================================================================
