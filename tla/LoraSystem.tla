----------------------------- MODULE LoraSystem -----------------------------
(***************************************************************************)
(* The settings service on the link it shares with main.c.  The main       *)
(* thread of each core sends three counter bytes every two seconds,        *)
(* forever, under opcode 0: the client's once the link is bound, while the *)
(* server may still be in its start-up walk, the server's after that walk. *)
(* Opcode 0 is IPC_OPCODE_SETTINGS_SAVE: the far end hands the bytes to    *)
(* its save callback.                                                      *)
(***************************************************************************)
EXTENDS IpcSettings

CONSTANTS
    ServerRoom,  \* bounds: the messages on their way to the server, and to the
    ClientRoom   \* client, before sending one more fails

ASSUME RoomAssumption == ServerRoom \in Nat /\ ClientRoom \in Nat

\* A link that fills up refuses every kind of message.
ASSUME EverySendMayFail == SendFaults = {"request", "reply", "entry", "ack"}

\* On the server the bytes are a save request: its sizes are counter values,
\* its name is the third byte and what an earlier message left behind it in
\* the receive buffer.  Sweeping all byte values, that byte completes an
\* earlier request's name in time, so any name may be written, with any
\* value; a name outside Name leaves the store as a failed save does.
ClientBeat ==
    /\ \E garbage \in Saves :
          toServer' = Append(toServer,
                             [op |-> "call", request |-> garbage, from |-> MainLoop])
    /\ UNCHANGED <<client, staged, toClient, store, boot, answer>>

\* On the client they are a save's return code, and never zero: two of the
\* three bytes at least are not.
ServerBeat ==
    /\ bootPhase = "finished"
    /\ toClient' = Append(toClient, [op |-> "save", rc |-> "junk",
                                     value |-> NoValue, to |-> MainLoop])
    /\ UNCHANGED <<client, staged, toServer, store, boot, answer>>

\* Only its capacity keeps a link from growing: answered by a heartbeat, a
\* caller may send its next request before the server has taken the last.  On a
\* full link ipc_send_message fails and the message is dropped, so that of the
\* outcomes of an action only those that do not send are left: SendFails, a
\* reply or an acknowledgement lost, the walk ended at its entry.  A heartbeat
\* that fails changes nothing.
Room == Len(toServer') <= ServerRoom /\ Len(toClient') <= ClientRoom

SystemNext == (Next \/ ClientBeat \/ ServerBeat) /\ Room

SystemSpec == Init /\ [][SystemNext]_vars

\* As in IpcSettings; and the server's main loop never ends.
SystemFairness ==
    /\ \A t \in Caller : WF_vars(Call(t) /\ Room) /\ SF_vars(TakeBusy(t) /\ Room)
    /\ WF_vars(ClientReceive /\ Room)
    /\ WF_vars(ServerReceive /\ Room)
    /\ WF_vars(Boot /\ Room)
    /\ WF_vars(ServerBeat /\ Room)

FairSystem == SystemSpec /\ SystemFairness

-----------------------------------------------------------------------------
\* No heartbeat passes for an acknowledgement: the walk leaves an entry behind
\* on that entry's own one, and when it ends with nothing left to send the
\* client holds what is stored (ipc_setting_boot_load_loop, main.c).
BeatsForgeNoAck ==
    /\ BootComplete
    /\ [][ bootPhase = "takeDone" /\ bootPhase' = "next" =>
             AcksInFlight = {} /\ EntriesInFlight = {} ]_vars

\* The two ways the walk stops short of the acknowledgement it waits for.  A
\* save ahead of it, a client's heartbeat or a caller's, holds the receive
\* thread at the settings lock of the walk; or it could not be sent.
HeldBySave ==
    /\ bootPhase = "takeDone" /\ serverDone = 0
    /\ toServer # <<>>
    /\ Head(toServer).op = "call"
    /\ Head(toServer).request.op = "save"

AckLost ==
    /\ bootPhase = "takeDone" /\ serverDone = 0
    /\ AcksInFlight = {} /\ EntriesInFlight = {}

Stuck == HeldBySave \/ AckLost

\* There is no way back: a walk that stops so never goes on, whatever the
\* callers and the heartbeats send after it (K_FOREVER in
\* ipc_setting_boot_load_loop, the settings lock in ipc_setting_callback_save).
StuckForGood == [][Stuck => Stuck']_vars

\* Nothing else stops it: the walk ends, complete or at an entry that could not
\* be sent, unless a save got ahead of an acknowledgement or one was lost.
WalkEndsOrSticks == <>(bootPhase = "finished" \/ Stuck)

\* A call whose reply is lost would wait for ever on done (K_FOREVER); with
\* the heartbeats of main.c, once the server has reached its loop, it returns.
BeatsWakeCallers == <>(bootPhase = "finished") => CallReturns
=============================================================================
