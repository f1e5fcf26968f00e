---------------------------- MODULE IpcSettings ----------------------------
(***************************************************************************)
(* The settings service of the two-core LoRaWAN application                *)
(* (app/src/ipc_settings.c).  Threads of the client core, which runs the   *)
(* LoRaWAN stack, save, load and commit settings that the server core      *)
(* keeps in flash.  Each call sends one request over the link, waits for   *)
(* its reply, and lets the next caller in.  Once, after start-up, the      *)
(* server walks the subtree it stores and hands every entry to the client, *)
(* which stages it for the stack to restore.                               *)
(*                                                                         *)
(* This module is the service alone on its link: a request is handled, a   *)
(* message sent and a message received atomically, links are FIFO.  The    *)
(* shared transmit buffer is the subject of IpcEndpoint, the heartbeats of *)
(* main.c that share the link are added by LoraSystem.                     *)
(***************************************************************************)
EXTENDS Naturals, Sequences, FiniteSets

CONSTANTS
    Caller,      \* threads of the client core that use settings
    MainLoop,    \* the main thread: it sends on the same link (LoraSystem)
    Name,        \* settings under the subtree the server walks
    Value,
    NoValue,     \* a setting never stored, a buffer never written
    NULL,        \* no destination for a loaded value
    Handled,     \* the settings the client's set handler accepts
    SendFaults,  \* the messages whose sending may fail
    StartGate    \* TRUE: no call is made before the start-up walk has ended

ASSUME CallerAssumption == MainLoop \notin Caller /\ NULL \notin Caller
ASSUME ValueAssumption == NoValue \notin Value
ASSUME HandledAssumption == Handled \subseteq Name
ASSUME FaultAssumption == SendFaults \subseteq {"request", "reply", "entry", "ack"}

Saves   == [op : {"save"}, name : Name, value : Value]
Loads   == [op : {"load"}, name : Name]
Commits == [op : {"commit"}]
Request == Saves \cup Loads \cup Commits

\* What a call brings back: its return code and the content of the buffer
\* its caller passed.  "junk" is a code no settings operation returns.
ReturnCode == {"ok", "error", "junk"}
Answer     == [rc : ReturnCode \cup {"none", "unsent"}, value : Value \cup {NoValue}]
NoAnswer   == [rc |-> "none", value |-> NoValue]
Unsent     == [rc |-> "unsent", value |-> NoValue]
Failed     == [rc |-> "error", value |-> NoValue]
Succeeded  == [rc |-> "ok", value |-> NoValue]

\* The fields "from" and "to" are on no wire: they name the sender a request
\* came from, for the properties alone; no action of the client reads them.
Sender        == Caller \cup {MainLoop}
BootAck       == [op |-> "boot"]
ServerMessage == [op : {"call"}, request : Request, from : Sender] \cup {BootAck}
Reply         == [op : {"save", "load", "commit"}, rc : ReturnCode,
                  value : Value \cup {NoValue}, to : Sender]
BootEntry     == [op : {"boot"}, name : Name, value : Value]
ClientMessage == Reply \cup BootEntry

Store == [Name -> Value \cup {NoValue}]

VARIABLES
    phase,        \* where each caller stands in ipc_setting_save/load/commit
    req,          \* what its call asks
    ret,          \* its local rc
    buffer,       \* the memory a load fills in
    busy, done,   \* the client's semaphores, both binary
    rc,           \* ipc_settings_data.rc
    loadPointer,  \* ipc_settings_data.load_pointer: whose buffer, or NULL
    staged,       \* the settings staged on the client by the start-up walk
    toServer, toClient,      \* the two directions of the link
    store,        \* the settings in the server's flash
    serverBusy, serverDone,  \* the server's semaphores
    bootPhase,    \* where the server's main thread stands in the walk
    bootTodo,     \* the entries the walk has still to send
    answer        \* ghost: what the server made of each caller's own request

client == <<phase, req, ret, buffer, busy, done, rc, loadPointer>>
boot == <<serverBusy, serverDone, bootPhase, bootTodo>>
vars == <<client, staged, toServer, toClient, store, boot, answer>>

Inside(t) == phase[t] \in {"send", "takeDone", "finish"}

TypeOK ==
    /\ phase \in [Caller -> {"idle", "takeBusy", "send", "takeDone", "finish"}]
    /\ req \in [Caller -> Request]
    /\ ret \in [Caller -> ReturnCode \cup {"none", "unsent"}]
    /\ buffer \in [Caller -> Value \cup {NoValue}]
    /\ busy \in 0..1 /\ done \in 0..1
    /\ rc \in ReturnCode \cup {"none"}
    /\ loadPointer \in Caller \cup {NULL}
    /\ staged \in Store
    /\ toServer \in Seq(ServerMessage)
    /\ toClient \in Seq(ClientMessage)
    /\ store \in Store
    /\ serverBusy \in 0..1 /\ serverDone \in 0..1
    /\ bootPhase \in {"start", "next", "takeDone", "finished"}
    /\ bootTodo \subseteq Name
    /\ answer \in [Caller -> Answer]

Init ==
    /\ phase = [t \in Caller |-> "idle"]
    /\ req = [t \in Caller |-> [op |-> "commit"]]
    /\ ret = [t \in Caller |-> "none"]
    /\ buffer = [t \in Caller |-> NoValue]
    /\ busy = 1 /\ done = 0
    /\ rc = "none"
    /\ loadPointer = NULL
    /\ staged = [n \in Name |-> NoValue]
    /\ toServer = <<>> /\ toClient = <<>>
    /\ store \in Store
    /\ serverBusy = 1 /\ serverDone = 0
    /\ bootPhase = "start"
    /\ bootTodo = {}
    /\ answer = [t \in Caller |-> NoAnswer]

-----------------------------------------------------------------------------
(* A thread of the client core in ipc_setting_save, _load or _commit. *)

\* Mutant of Invoke: a load publishes its buffer before it owns busy.
InvokePublishing(t, r) ==
    /\ phase[t] = "idle"
    /\ StartGate => bootPhase = "finished"
    /\ phase' = [phase EXCEPT ![t] = "takeBusy"]
    /\ req' = [req EXCEPT ![t] = r]
    /\ ret' = [ret EXCEPT ![t] = "none"]
    /\ buffer' = [buffer EXCEPT ![t] = NoValue]
    /\ loadPointer' = IF r.op = "load" THEN t ELSE loadPointer
    /\ answer' = [answer EXCEPT ![t] = NoAnswer]
    /\ UNCHANGED <<busy, done, rc, staged, toServer, toClient, store, boot>>

Invoke(t, r) ==
    /\ phase[t] = "idle"
    /\ StartGate => bootPhase = "finished"
    /\ phase' = [phase EXCEPT ![t] = "takeBusy"]
    /\ req' = [req EXCEPT ![t] = r]
    /\ ret' = [ret EXCEPT ![t] = "none"]
    /\ buffer' = [buffer EXCEPT ![t] = NoValue]
    /\ answer' = [answer EXCEPT ![t] = NoAnswer]
    /\ UNCHANGED <<busy, done, rc, loadPointer, staged, toServer, toClient, store, boot>>

\* Mutant of TakeBusy: a caller goes in without waiting for busy.
BargeIn(t) ==
    /\ phase[t] = "takeBusy"
    /\ busy' = 0
    /\ phase' = [phase EXCEPT ![t] = "send"]
    /\ loadPointer' = IF req[t].op = "load" THEN t ELSE loadPointer
    /\ UNCHANGED <<req, ret, buffer, done, rc, staged, toServer, toClient, store, boot, answer>>

\* A load also publishes where its value is to go.
TakeBusy(t) ==
    /\ phase[t] = "takeBusy"
    /\ busy = 1
    /\ busy' = 0
    /\ phase' = [phase EXCEPT ![t] = "send"]
    /\ loadPointer' = IF req[t].op = "load" THEN t ELSE loadPointer
    /\ UNCHANGED <<req, ret, buffer, done, rc, staged, toServer, toClient, store, boot, answer>>

Send(t) ==
    /\ phase[t] = "send"
    /\ phase' = [phase EXCEPT ![t] = "takeDone"]
    /\ toServer' = Append(toServer, [op |-> "call", request |-> req[t], from |-> t])
    /\ UNCHANGED <<req, ret, buffer, busy, done, rc, loadPointer, staged, toClient,
                   store, boot, answer>>

\* Mutants of SendFails: the call waits all the same; it leaves without giving
\* busy back; it gives up although the request is on its way.
WaitUnsent(t) ==
    /\ phase[t] = "send"
    /\ "request" \in SendFaults
    /\ phase' = [phase EXCEPT ![t] = "takeDone"]
    /\ UNCHANGED <<req, ret, buffer, busy, done, rc, loadPointer, staged, toServer, toClient,
                   store, boot, answer>>

GiveUpInside(t) ==
    /\ phase[t] = "send"
    /\ "request" \in SendFaults
    /\ phase' = [phase EXCEPT ![t] = "idle"]
    /\ ret' = [ret EXCEPT ![t] = "unsent"]
    /\ answer' = [answer EXCEPT ![t] = Unsent]
    /\ UNCHANGED <<req, buffer, busy, done, rc, loadPointer, staged, toServer, toClient,
                   store, boot>>

GiveUpSent(t) ==
    /\ phase[t] = "send"
    /\ "request" \in SendFaults
    /\ phase' = [phase EXCEPT ![t] = "finish"]
    /\ ret' = [ret EXCEPT ![t] = "unsent"]
    /\ answer' = [answer EXCEPT ![t] = Unsent]
    /\ toServer' = Append(toServer, [op |-> "call", request |-> req[t], from |-> t])
    /\ UNCHANGED <<req, buffer, busy, done, rc, loadPointer, staged, toClient, store, boot>>

\* ipc_send_message returned a negative code: the call gives up.
SendFails(t) ==
    /\ phase[t] = "send"
    /\ "request" \in SendFaults
    /\ phase' = [phase EXCEPT ![t] = "finish"]
    /\ ret' = [ret EXCEPT ![t] = "unsent"]
    /\ answer' = [answer EXCEPT ![t] = Unsent]
    /\ UNCHANGED <<req, buffer, busy, done, rc, loadPointer, staged, toServer, toClient,
                   store, boot>>

\* Mutant of TakeDone: the semaphore is looked at and not taken.
PeekDone(t) ==
    /\ phase[t] = "takeDone"
    /\ done = 1
    /\ phase' = [phase EXCEPT ![t] = "finish"]
    /\ UNCHANGED <<req, ret, buffer, busy, done, rc, loadPointer, staged, toServer, toClient,
                   store, boot, answer>>

TakeDone(t) ==
    /\ phase[t] = "takeDone"
    /\ done = 1
    /\ done' = 0
    /\ phase' = [phase EXCEPT ![t] = "finish"]
    /\ UNCHANGED <<req, ret, buffer, busy, rc, loadPointer, staged, toServer, toClient,
                   store, boot, answer>>

\* The code the receive callback left is read before busy is given.
Finish(t) ==
    /\ phase[t] = "finish"
    /\ ret' = [ret EXCEPT ![t] = IF ret[t] = "unsent" THEN "unsent" ELSE rc]
    /\ busy' = 1
    /\ phase' = [phase EXCEPT ![t] = "idle"]
    /\ UNCHANGED <<req, buffer, done, rc, loadPointer, staged, toServer, toClient,
                   store, boot, answer>>

-----------------------------------------------------------------------------
(* The client core's receive thread: the callback of the message's opcode. *)

\* Mutant of ReceiveStatus: done is given for a success only.
WakeOnSuccess ==
    /\ toClient # <<>>
    /\ Head(toClient).op \in {"save", "commit"}
    /\ rc' = Head(toClient).rc
    /\ done' = IF Head(toClient).rc = "ok" THEN 1 ELSE done
    /\ toClient' = Tail(toClient)
    /\ UNCHANGED <<phase, req, ret, buffer, busy, loadPointer, staged, toServer, store,
                   boot, answer>>

ReceiveStatus ==
    /\ toClient # <<>>
    /\ Head(toClient).op \in {"save", "commit"}
    /\ rc' = Head(toClient).rc
    /\ done' = 1
    /\ toClient' = Tail(toClient)
    /\ UNCHANGED <<phase, req, ret, buffer, busy, loadPointer, staged, toServer, store,
                   boot, answer>>

\* With no load pending the copy goes to address zero, outside this state.
ReceiveLoad ==
    /\ toClient # <<>>
    /\ Head(toClient).op = "load"
    /\ rc' = Head(toClient).rc
    /\ buffer' = [t \in Caller |->
                     IF t = loadPointer /\ Head(toClient).rc = "ok"
                     THEN Head(toClient).value ELSE buffer[t]]
    /\ loadPointer' = NULL
    /\ done' = 1
    /\ toClient' = Tail(toClient)
    /\ UNCHANGED <<phase, req, ret, busy, staged, toServer, store, boot, answer>>

\* Mutant of ReceiveBootEntry: a rejected entry is not acknowledged.
AckIfHandled ==
    /\ toClient # <<>>
    /\ Head(toClient).op = "boot"
    /\ toClient' = Tail(toClient)
    /\ IF Head(toClient).name \in Handled
       THEN /\ staged' = [staged EXCEPT ![Head(toClient).name] = Head(toClient).value]
            /\ toServer' = Append(toServer, BootAck)
       ELSE UNCHANGED <<staged, toServer>>
    /\ UNCHANGED <<client, store, boot, answer>>

\* The set handler's verdict is dropped: the entry is acknowledged either way.
ReceiveBootEntry ==
    /\ toClient # <<>>
    /\ Head(toClient).op = "boot"
    /\ staged' = IF Head(toClient).name \in Handled
                 THEN [staged EXCEPT ![Head(toClient).name] = Head(toClient).value]
                 ELSE staged
    /\ toClient' = Tail(toClient)
    /\ \/ toServer' = Append(toServer, BootAck)
       \/ "ack" \in SendFaults /\ UNCHANGED toServer
    /\ UNCHANGED <<client, store, boot, answer>>

-----------------------------------------------------------------------------
(* The server core: its receive thread and the settings it stores. *)

\* Mutant of SettingsLocked: the walk does not hold the lock.
WalkUnlocked == FALSE

\* The walk of the stored settings holds the settings lock from end to end.
SettingsLocked == bootPhase \in {"next", "takeDone"}

\* What the settings subsystem may make of a request: pairs of an answer and
\* the store it leaves.  A load is answered by the server's own run-time
\* handlers, which need not agree with the store.
Served(s, r) ==
    {<<Failed, s>>} \cup
    IF r.op = "save" THEN {<<Succeeded, [s EXCEPT ![r.name] = r.value]>>}
    ELSE IF r.op = "load" THEN {<<[rc |-> "ok", value |-> v], s>> : v \in Value}
    ELSE {<<Succeeded, s>>}

\* Saving waits for the settings lock, and the receive thread with it.
ServeRequest ==
    /\ toServer # <<>>
    /\ Head(toServer).op = "call"
    /\ Head(toServer).request.op = "save" => ~SettingsLocked
    /\ \E e \in Served(store, Head(toServer).request) :
          /\ store' = e[2]
          /\ answer' = [t \in Caller |-> IF t = Head(toServer).from THEN e[1] ELSE answer[t]]
          /\ \/ toClient' = Append(toClient,
                               [op |-> Head(toServer).request.op, rc |-> e[1].rc,
                                value |-> e[1].value, to |-> Head(toServer).from])
             \/ "reply" \in SendFaults /\ UNCHANGED toClient
    /\ toServer' = Tail(toServer)
    /\ UNCHANGED <<client, staged, boot>>

\* Mutant of ReceiveBootAck: an acknowledgement, too, waits for the settings lock.
AckLocked ==
    /\ toServer # <<>>
    /\ Head(toServer).op = "boot"
    /\ ~SettingsLocked
    /\ serverDone' = 1
    /\ toServer' = Tail(toServer)
    /\ UNCHANGED <<client, staged, toClient, store, serverBusy, bootPhase, bootTodo, answer>>

ReceiveBootAck ==
    /\ toServer # <<>>
    /\ Head(toServer).op = "boot"
    /\ serverDone' = 1
    /\ toServer' = Tail(toServer)
    /\ UNCHANGED <<client, staged, toClient, store, serverBusy, bootPhase, bootTodo, answer>>

-----------------------------------------------------------------------------
(* The server's main thread in ipc_setting_boot_load. *)

\* Mutant of BootStart: the walk visits names that were never stored.
WalkAllNames ==
    /\ bootPhase = "start"
    /\ serverBusy = 1
    /\ serverBusy' = 0
    /\ bootPhase' = "next"
    /\ bootTodo' = Name
    /\ UNCHANGED <<client, staged, toServer, toClient, store, serverDone, answer>>

BootStart ==
    /\ bootPhase = "start"
    /\ serverBusy = 1
    /\ serverBusy' = 0
    /\ bootPhase' = "next"
    /\ bootTodo' = {n \in Name : store[n] # NoValue}
    /\ UNCHANGED <<client, staged, toServer, toClient, store, serverDone, answer>>

\* Mutants of BootSend: the walk does not wait for the acknowledgement; it
\* waits for one although the entry could not be sent.
SendAhead(n) ==
    /\ bootPhase = "next"
    /\ n \in bootTodo
    /\ bootTodo' = bootTodo \ {n}
    /\ toClient' = Append(toClient, [op |-> "boot", name |-> n, value |-> store[n]])
    /\ UNCHANGED <<client, staged, toServer, store, serverBusy, serverDone, bootPhase, answer>>

AwaitUnsent(n) ==
    /\ bootPhase = "next"
    /\ n \in bootTodo
    /\ bootTodo' = bootTodo \ {n}
    /\ \/ toClient' = Append(toClient, [op |-> "boot", name |-> n, value |-> store[n]])
       \/ "entry" \in SendFaults /\ UNCHANGED toClient
    /\ bootPhase' = "takeDone"
    /\ UNCHANGED <<client, staged, toServer, store, serverBusy, serverDone, answer>>

BootSend(n) ==
    /\ bootPhase = "next"
    /\ n \in bootTodo
    /\ bootTodo' = bootTodo \ {n}
    /\ toClient' = Append(toClient, [op |-> "boot", name |-> n, value |-> store[n]])
    /\ bootPhase' = "takeDone"
    /\ UNCHANGED <<client, staged, toServer, store, serverBusy, serverDone, answer>>

BootTakeDone ==
    /\ bootPhase = "takeDone"
    /\ serverDone = 1
    /\ serverDone' = 0
    /\ bootPhase' = "next"
    /\ UNCHANGED <<client, staged, toServer, toClient, store, serverBusy, bootTodo, answer>>

\* The walk ends after its last entry, or at an entry that could not be sent.
BootFinish ==
    /\ bootPhase = "next"
    /\ bootTodo = {} \/ "entry" \in SendFaults
    /\ bootPhase' = "finished"
    /\ serverBusy' = 1
    /\ UNCHANGED <<client, staged, toServer, toClient, store, serverDone, bootTodo, answer>>

-----------------------------------------------------------------------------
Call(t) == Send(t) \/ SendFails(t) \/ TakeDone(t) \/ Finish(t)

ClientReceive == ReceiveStatus \/ ReceiveLoad \/ ReceiveBootEntry

ServerReceive == ServeRequest \/ ReceiveBootAck

Boot == BootStart \/ (\E n \in Name : BootSend(n)) \/ BootTakeDone \/ BootFinish

Next ==
    \/ \E t \in Caller :
          \/ \E r \in Request : Invoke(t, r)
          \/ TakeBusy(t)
          \/ Call(t)
    \/ ClientReceive
    \/ ServerReceive
    \/ Boot

Spec == Init /\ [][Next]_vars

\* Every thread that can run eventually runs; of the callers that wait for
\* busy, the kernel wakes the one that has waited longest.
Fairness ==
    /\ \A t \in Caller : WF_vars(Call(t)) /\ SF_vars(TakeBusy(t))
    /\ WF_vars(ClientReceive)
    /\ WF_vars(ServerReceive)
    /\ WF_vars(Boot)

FairSpec == Spec /\ Fairness

-----------------------------------------------------------------------------
(* Properties of the client's calls. *)

\* One call at a time is between taking busy and giving it back, and busy is
\* zero exactly then (ipc_setting_save, _load and _commit).
CallExclusion ==
    /\ \A t, u \in Caller : Inside(t) /\ Inside(u) => t = u
    /\ busy = 0 <=> \E t \in Caller : Inside(t)

CallsInFlight   == {i \in DOMAIN toServer : toServer[i].op = "call"}
RepliesInFlight == {i \in DOMAIN toClient : toClient[i].op # "boot"}

\* The wake-up a caller waits for is never doubled, and only a reply that could
\* not be sent loses it: it is a request on the link, a reply on the link or
\* the semaphore done, one of them; there is none when no caller waits; and a
\* caller whose request was not served yet has that request on the link.
ReplyToken ==
    LET tokens  == Cardinality(CallsInFlight) + Cardinality(RepliesInFlight) + done
        waiting == {t \in Caller : phase[t] = "takeDone"}
    IN  /\ tokens <= Cardinality(waiting)
        /\ "reply" \notin SendFaults => tokens = Cardinality(waiting)
        /\ \A t \in waiting :
              answer[t] = NoAnswer => \E i \in CallsInFlight : toServer[i].from = t

\* A call that has returned gave its caller the code and the value the server
\* answered to that very request, and no later message rewrites the caller's
\* buffer.
ReturnsOwnAnswer ==
    \A t \in Caller :
        phase[t] = "idle" => answer[t] = [rc |-> ret[t], value |-> buffer[t]]

\* When the reply to a load arrives the published buffer is the one of the
\* caller that waits for this reply: never NULL, never that of a call that is
\* over (the check ipc_setting_callback_load leaves as a comment).
LoadTarget ==
    \A i \in RepliesInFlight :
        toClient[i].op = "load" =>
            /\ loadPointer = toClient[i].to
            /\ phase[loadPointer] = "takeDone"

-----------------------------------------------------------------------------
(* Properties of the start-up walk. *)

AcksInFlight    == {i \in DOMAIN toServer : toServer[i].op = "boot"}
EntriesInFlight == {i \in DOMAIN toClient : toClient[i].op = "boot"}

\* The acknowledgement the walk waits for is an entry on the link, an
\* acknowledgement on the link or the server's done: one of them while it
\* waits, none otherwise, so that no acknowledgement is taken for another's.
BootToken ==
    LET tokens  == Cardinality(AcksInFlight) + Cardinality(EntriesInFlight) + serverDone
        waiting == IF bootPhase = "takeDone" THEN 1 ELSE 0
    IN  /\ tokens <= waiting
        /\ "ack" \notin SendFaults => tokens = waiting

\* Calls and the walk together never have more than two messages on a link.
LinkBound == Len(toServer) <= 2 /\ Len(toClient) <= 2

\* When the walk ends with nothing left to send, the client has staged every
\* stored setting its handler accepts, with the value stored at that moment:
\* no save slips between reading an entry and the end of the walk.
BootComplete ==
    [][ bootPhase' = "finished" /\ bootPhase # "finished" /\ bootTodo = {} =>
          \A n \in Handled : store[n] # NoValue => staged[n] = store[n] ]_vars

-----------------------------------------------------------------------------
(* The abstraction: a call is a linearizable operation on the store. *)

Abstract == INSTANCE RemoteCall WITH
    Outcome   <- Answer,
    NoOutcome <- NoAnswer,
    Refused   <- Unsent,
    Server    <- Store,
    Effect    <- Served,
    server    <- store,
    stage     <- [t \in Caller |-> IF phase[t] = "idle" THEN "idle"
                                   ELSE IF answer[t] = NoAnswer THEN "pending"
                                   ELSE "executed"],
    request   <- req,
    outcome   <- answer,
    returned  <- [t \in Caller |-> IF phase[t] = "idle"
                                   THEN [rc |-> ret[t], value |-> buffer[t]]
                                   ELSE NoAnswer]

\* Whatever the interleaving of callers, receive threads and start-up walk, a
\* call takes effect on the store at most once, between its invocation and
\* its return, and returns the outcome of that effect.
ImplementsRemoteCall == Abstract!Spec

-----------------------------------------------------------------------------
(* Liveness. *)

\* Every call to the settings service returns.
CallReturns == \A t \in Caller : phase[t] # "idle" ~> phase[t] = "idle"

\* The start-up walk ends, and the server's main thread goes on.
BootEnds == <>(bootPhase = "finished")
=============================================================================
