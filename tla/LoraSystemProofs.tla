-------------------------- MODULE LoraSystemProofs --------------------------
(***************************************************************************)
(* Theorems about LoraSystem, for every set of callers, names and values   *)
(* and any capacity of the links: what the heartbeats of main.c, which     *)
(* forge requests and replies, leave intact, and what they stop for good.  *)
(***************************************************************************)
EXTENDS LoraSystem, IpcSettingsTokenProofs

\* The heartbeats are a request and a reply that no caller asked for.
LEMMA BeatMessages ==
    /\ \A r \in Saves : [op |-> "call", request |-> r, from |-> MainLoop] \in ServerMessage
    /\ [op |-> "save", rc |-> "junk", value |-> NoValue, to |-> MainLoop] \in ClientMessage
  BY DEF ServerMessage, ClientMessage, Reply, ReturnCode, Sender, Request

\* The client's heartbeat is no acknowledgement.
LEMMA ClientBeatStep ==
    ASSUME WalkInv, ClientBeat
    PROVE  WalkInv'
  <1>1. PICK r \in Saves :
          toServer' = Append(toServer, [op |-> "call", request |-> r, from |-> MainLoop])
    BY DEF ClientBeat
  <1>. PICK m : m = [op |-> "call", request |-> r, from |-> MainLoop]
    OBVIOUS
  <1>2. /\ m \in ServerMessage /\ m.op = "call"
        /\ toServer \in Seq(ServerMessage)
        /\ UNCHANGED <<client, staged, toClient, store, boot, answer>>
    BY BeatMessages DEF ClientBeat, WalkInv, TypeOK
  <1>3. toServer' \in Seq(ServerMessage)
    BY <1>1, <1>2, AppendIndex
  <1>4. TypeOK'
    BY <1>2, <1>3 DEF WalkInv, TypeOK, client, boot
  <1>5. AcksInFlight' = AcksInFlight
    BY <1>1, <1>2, ServerLinkAppend
  <1>6. /\ EntriesInFlight' = EntriesInFlight
        /\ \A i \in EntriesInFlight : toClient'[i] = toClient[i]
    BY <1>2 DEF EntriesInFlight
  <1>. QED BY <1>2, <1>4, <1>5, <1>6, WalkKept DEF boot

\* The server's heartbeat is no entry.
LEMMA ServerBeatStep ==
    ASSUME WalkInv, ServerBeat
    PROVE  WalkInv'
  <1>. PICK m : m = [op |-> "save", rc |-> "junk", value |-> NoValue, to |-> MainLoop]
    OBVIOUS
  <1>1. /\ m \in ClientMessage /\ m.op = "save"
        /\ toClient \in Seq(ClientMessage) /\ toClient' = Append(toClient, m)
        /\ UNCHANGED <<client, staged, toServer, store, boot, answer>>
    BY BeatMessages DEF ServerBeat, WalkInv, TypeOK
  <1>2. toClient' \in Seq(ClientMessage)
    BY <1>1, AppendIndex
  <1>3. TypeOK'
    BY <1>1, <1>2 DEF WalkInv, TypeOK, client, boot
  <1>4. AcksInFlight' = AcksInFlight
    BY <1>1 DEF AcksInFlight
  <1>5. /\ EntriesInFlight' = EntriesInFlight
        /\ \A i \in EntriesInFlight : toClient'[i] = toClient[i]
    BY <1>1, ClientLinkAppend, WalkPlaces DEF WalkInv
  <1>. QED BY <1>1, <1>3, <1>4, <1>5, WalkKept DEF boot

\* The invariant of the walk does not speak of the calls, and holds although
\* the heartbeats break theirs.
THEOREM SystemWalkInvariance == SystemSpec => []WalkInv
  <1>1. WalkInv /\ [SystemNext]_vars => WalkInv'
    BY NextWalkInv, ClientBeatStep, ServerBeatStep DEF SystemNext
  <1>. QED BY <1>1, InitWalkInv, PTL DEF SystemSpec

\* Every variable keeps its type, whatever the heartbeats are taken for.
THEOREM SystemTypeCorrect == SystemSpec => []TypeOK
  <1>1. WalkInv => TypeOK
    BY DEF WalkInv
  <1>. QED BY <1>1, SystemWalkInvariance, PTL

\* However many callers and heartbeats share the link, one call at a time is
\* between taking and giving busy: a forged reply wakes a caller too early, and
\* lets no second one in (ipc_setting_save, _load and _commit).
THEOREM SystemExclusion == SystemSpec => []CallExclusion
  <1>1. Init => CallExclusion
    BY DEF Init, CallExclusion, Inside
  <1>2. WalkInv /\ CallExclusion /\ [SystemNext]_vars => CallExclusion'
    <2>. SUFFICES ASSUME TypeOK, CallExclusion, [SystemNext]_vars PROVE CallExclusion'
      BY DEF WalkInv
    <2>. USE DEF TypeOK, CallExclusion, Inside
    <2>1. ASSUME NEW t \in Caller, NEW r \in Request, Invoke(t, r) PROVE CallExclusion'
      BY <2>1 DEF Invoke
    <2>2. ASSUME NEW t \in Caller, TakeBusy(t) PROVE CallExclusion'
      BY <2>2 DEF TakeBusy
    <2>3. ASSUME NEW t \in Caller, Send(t) PROVE CallExclusion'
      BY <2>3 DEF Send
    <2>4. ASSUME NEW t \in Caller, SendFails(t) PROVE CallExclusion'
      BY <2>4 DEF SendFails
    <2>5. ASSUME NEW t \in Caller, TakeDone(t) PROVE CallExclusion'
      BY <2>5 DEF TakeDone
    <2>6. ASSUME NEW t \in Caller, Finish(t) PROVE CallExclusion'
      BY <2>6 DEF Finish
    <2>7. CASE \/ ClientReceive \/ ServerReceive \/ Boot \/ ClientBeat \/ ServerBeat
               \/ UNCHANGED vars
      <3>1. UNCHANGED <<phase, busy>>
        BY <2>7 DEF ClientReceive, ReceiveStatus, ReceiveLoad, ReceiveBootEntry, ServerReceive,
           ServeRequest, ReceiveBootAck, Boot, BootStart, BootSend, BootTakeDone, BootFinish,
           ClientBeat, ServerBeat, vars, client
      <3>. QED BY <3>1
    <2>. QED BY <2>1, <2>2, <2>3, <2>4, <2>5, <2>6, <2>7 DEF SystemNext, Next, Call
  <1>. QED BY <1>1, <1>2, SystemWalkInvariance, PTL DEF SystemSpec

\* No heartbeat is taken for an acknowledgement: each entry is left behind on its
\* own, and a walk that comes to the end of its entries has delivered what is
\* stored.  Whether it comes there is another matter: see StuckStays.
THEOREM BeatsAreNoAcks == SystemSpec => BeatsForgeNoAck
  <1>1. ASSUME [SystemNext]_vars, bootPhase' # bootPhase
        PROVE  BootStart \/ (\E n \in Name : BootSend(n)) \/ BootTakeDone \/ BootFinish
    BY <1>1 DEF SystemNext, Next, Call, ClientReceive, ServerReceive, Boot, vars, boot, Invoke,
       TakeBusy, Send, SendFails, TakeDone, Finish, ReceiveStatus, ReceiveLoad,
       ReceiveBootEntry, ServeRequest, ReceiveBootAck, ClientBeat, ServerBeat
  <1>2. ASSUME WalkInv, [SystemNext]_vars, bootPhase' = "finished", bootPhase # "finished",
               bootTodo = {}
        PROVE  \A n \in Handled : store[n] # NoValue => staged[n] = store[n]
    <2>1. bootPhase = "next"
      BY <1>1, <1>2 DEF BootStart, BootSend, BootTakeDone, BootFinish
    <2>. QED BY <1>2, <2>1, WalkEnd
  <1>3. ASSUME WalkInv, [SystemNext]_vars, bootPhase = "takeDone", bootPhase' = "next"
        PROVE  AcksInFlight = {} /\ EntriesInFlight = {}
    <2>1. serverDone = 1
      BY <1>1, <1>3 DEF BootStart, BootSend, BootTakeDone, BootFinish
    <2>. QED BY <1>3, <2>1 DEF WalkInv, OneToken
  <1>. QED BY <1>2, <1>3, SystemWalkInvariance, PTL DEF SystemSpec, BeatsForgeNoAck, BootComplete

\* What may happen to the links while the walk waits: nothing but an entry makes
\* an acknowledgement, no entry is sent, and no save is served.
LEMMA WaitingSteps ==
    ASSUME WalkInv, [SystemNext]_vars, bootPhase = "takeDone", serverDone = 0
    PROVE  /\ bootPhase' = "takeDone"
           /\ \/ UNCHANGED <<toServer, serverDone>>
              \/ /\ serverDone' = 0
                 /\ \E m \in ServerMessage : /\ toServer' = Append(toServer, m)
                                             /\ m.op = "boot" => EntriesInFlight # {}
              \/ /\ toServer # <<>> /\ toServer' = Tail(toServer)
                 /\ \/ Head(toServer).op = "boot"
                    \/ /\ Head(toServer).op = "call"
                       /\ Head(toServer).request.op # "save"
                       /\ serverDone' = 0
           /\ \/ UNCHANGED toClient
              \/ toClient # <<>> /\ toClient' = Tail(toClient)
              \/ \E m \in ClientMessage : m.op # "boot" /\ toClient' = Append(toClient, m)
  <1>. DEFINE Goal == /\ bootPhase' = "takeDone"
                      /\ \/ UNCHANGED <<toServer, serverDone>>
                         \/ /\ serverDone' = 0
                            /\ \E m \in ServerMessage :
                                  /\ toServer' = Append(toServer, m)
                                  /\ m.op = "boot" => EntriesInFlight # {}
                         \/ /\ toServer # <<>> /\ toServer' = Tail(toServer)
                            /\ \/ Head(toServer).op = "boot"
                               \/ /\ Head(toServer).op = "call"
                                  /\ Head(toServer).request.op # "save"
                                  /\ serverDone' = 0
                      /\ \/ UNCHANGED toClient
                         \/ toClient # <<>> /\ toClient' = Tail(toClient)
                         \/ \E m \in ClientMessage :
                               m.op # "boot" /\ toClient' = Append(toClient, m)
  <1>1. /\ toServer \in Seq(ServerMessage) /\ toClient \in Seq(ClientMessage)
        /\ req \in [Caller -> Request] /\ store \in Store
    BY DEF WalkInv, TypeOK
  <1>2. ASSUME NEW t \in Caller,
               (\E r \in Request : Invoke(t, r)) \/ TakeBusy(t) \/ SendFails(t) \/ TakeDone(t)
                  \/ Finish(t)
        PROVE  Goal
    BY <1>2 DEF Invoke, TakeBusy, SendFails, TakeDone, Finish, boot
  <1>3. ASSUME NEW t \in Caller, Send(t) PROVE Goal
    <2>1. PICK m : m = [op |-> "call", request |-> req[t], from |-> t]
      OBVIOUS
    <2>2. m \in ServerMessage /\ m.op # "boot"
      BY <1>1, <2>1 DEF ServerMessage, Sender
    <2>. QED BY <1>3, <2>1, <2>2 DEF Send, boot
  <1>4. CASE ReceiveStatus \/ ReceiveLoad
    BY <1>4 DEF ReceiveStatus, ReceiveLoad, boot
  <1>5. CASE ReceiveBootEntry
    <2>1. EntriesInFlight # {}
      BY <1>1, <1>5, ClientLinkTail DEF ReceiveBootEntry
    <2>2. BootAck \in ServerMessage
      BY DEF ServerMessage
    <2>. QED BY <1>5, <2>1, <2>2 DEF ReceiveBootEntry, boot
  <1>6. CASE ServeRequest
    <2>1. /\ toServer # <<>> /\ toServer' = Tail(toServer) /\ Head(toServer).op = "call"
          /\ Head(toServer).request.op # "save"
          /\ UNCHANGED boot
      BY <1>6 DEF ServeRequest, SettingsLocked
    <2>2. Head(toServer).request \in Request /\ Head(toServer).from \in Sender
      BY <1>1, <2>1, TailIndex, MessageKinds
    <2>3. \/ UNCHANGED toClient
          \/ \E m \in ClientMessage : m.op # "boot" /\ toClient' = Append(toClient, m)
      <3>1. PICK e \in Served(store, Head(toServer).request) :
               \/ toClient' = Append(toClient, [op |-> Head(toServer).request.op, rc |-> e[1].rc,
                                 value |-> e[1].value, to |-> Head(toServer).from])
               \/ UNCHANGED toClient
        BY <1>6 DEF ServeRequest
      <3>2. PICK m : m = [op |-> Head(toServer).request.op, rc |-> e[1].rc,
                          value |-> e[1].value, to |-> Head(toServer).from]
        OBVIOUS
      <3>3. /\ e[1].rc \in ReturnCode /\ e[1].value \in Value \cup {NoValue}
            /\ Head(toServer).request.op \in {"save", "load", "commit"}
        <4>1. /\ e[1].rc \in {"ok", "error"} /\ e[1].value \in Value \cup {NoValue}
              /\ Head(toServer).request.op \in {"save", "load", "commit"}
          BY <1>1, <2>2, ServedAnswers
        <4>. QED BY <4>1 DEF ReturnCode
      <3>4. m \in ClientMessage /\ m.op # "boot"
        BY <2>2, <3>2, <3>3 DEF ClientMessage, Reply
      <3>. QED BY <3>1, <3>2, <3>4
    <2>. QED BY <2>1, <2>3 DEF boot
  <1>7. CASE ReceiveBootAck
    BY <1>7 DEF ReceiveBootAck
  <1>8. CASE Boot
    BY <1>8 DEF Boot, BootStart, BootSend, BootTakeDone, BootFinish
  <1>9. CASE ClientBeat
    <2>1. PICK r \in Saves :
             toServer' = Append(toServer, [op |-> "call", request |-> r, from |-> MainLoop])
      BY <1>9 DEF ClientBeat
    <2>2. PICK m : m = [op |-> "call", request |-> r, from |-> MainLoop]
      OBVIOUS
    <2>. QED BY <1>9, <2>1, <2>2, BeatMessages DEF ClientBeat, boot
  <1>10. CASE ServerBeat
    BY <1>10 DEF ServerBeat
  <1>11. CASE UNCHANGED vars
    BY <1>11 DEF vars, boot
  <1>. QED BY <1>2, <1>3, <1>4, <1>5, <1>6, <1>7, <1>8, <1>9, <1>10, <1>11
           DEF SystemNext, Next, Call, ClientReceive, ServerReceive

\* A walk stopped behind a save, a client's heartbeat among them, or by an
\* acknowledgement that could not be sent, is stopped for good: for any callers,
\* names and capacity of the links, nothing sent later sets it going.
THEOREM StuckStays == SystemSpec => StuckForGood
  <1>1. ASSUME WalkInv, [SystemNext]_vars, HeldBySave PROVE HeldBySave'
    <2>1. /\ bootPhase = "takeDone" /\ serverDone = 0
          /\ toServer # <<>> /\ toServer \in Seq(ServerMessage)
          /\ Head(toServer).op = "call" /\ Head(toServer).request.op = "save"
      BY <1>1 DEF HeldBySave, WalkInv, TypeOK
    <2>2. /\ bootPhase' = "takeDone" /\ serverDone' = 0
          /\ toServer' = toServer \/ \E m \in ServerMessage : toServer' = Append(toServer, m)
      BY <1>1, <2>1, WaitingSteps
    <2>3. toServer' # <<>> /\ Head(toServer') = Head(toServer)
      BY <2>1, <2>2
    <2>. QED BY <2>1, <2>2, <2>3 DEF HeldBySave
  <1>2. ASSUME WalkInv, [SystemNext]_vars, AckLost PROVE AckLost'
    <2>1. /\ bootPhase = "takeDone" /\ serverDone = 0
          /\ AcksInFlight = {} /\ EntriesInFlight = {}
          /\ toServer \in Seq(ServerMessage) /\ toClient \in Seq(ClientMessage)
      BY <1>2 DEF AckLost, WalkInv, TypeOK
    <2>2. toServer # <<>> => Head(toServer).op # "boot"
      BY <2>1, ServerLinkTail, TailIndex DEF AcksInFlight
    <2>3. /\ bootPhase' = "takeDone" /\ serverDone' = 0
          /\ \/ UNCHANGED toServer
             \/ \E m \in ServerMessage : toServer' = Append(toServer, m) /\ m.op # "boot"
             \/ toServer # <<>> /\ toServer' = Tail(toServer)
      BY <1>2, <2>1, <2>2, WaitingSteps
    <2>4. AcksInFlight' = {}
      <3>1. CASE UNCHANGED toServer
        BY <2>1, <3>1 DEF AcksInFlight
      <3>2. ASSUME NEW m \in ServerMessage, toServer' = Append(toServer, m), m.op # "boot"
            PROVE  AcksInFlight' = {}
        BY <2>1, <3>2, ServerLinkAppend
      <3>3. CASE toServer # <<>> /\ toServer' = Tail(toServer)
        BY <2>1, <3>3, ServerLinkTail DEF MovedUp
      <3>. QED BY <2>3, <3>1, <3>2, <3>3
    <2>5. EntriesInFlight' = {}
      <3>1. CASE UNCHANGED toClient
        BY <2>1, <3>1 DEF EntriesInFlight
      <3>2. ASSUME NEW m \in ClientMessage, toClient' = Append(toClient, m), m.op # "boot"
            PROVE  EntriesInFlight' = {}
        BY <2>1, <3>2, ClientLinkAppend
      <3>3. CASE toClient # <<>> /\ toClient' = Tail(toClient)
        BY <2>1, <3>3, ClientLinkTail DEF MovedUp
      <3>4. \/ UNCHANGED toClient
            \/ toClient # <<>> /\ toClient' = Tail(toClient)
            \/ \E m \in ClientMessage : m.op # "boot" /\ toClient' = Append(toClient, m)
        BY <1>2, <2>1, WaitingSteps
      <3>. QED BY <3>1, <3>2, <3>3, <3>4
    <2>. QED BY <2>3, <2>4, <2>5 DEF AckLost
  <1>3. WalkInv /\ [SystemNext]_vars => (Stuck => Stuck')
    BY <1>1, <1>2 DEF Stuck
  <1>. QED BY <1>3, SystemWalkInvariance, PTL DEF SystemSpec, StuckForGood
=============================================================================
