----------------------- MODULE IpcSettingsTokenProofs -----------------------
(***************************************************************************)
(* Theorems about the two handshakes of IpcSettings, for every set of      *)
(* callers, names and values and whichever sends fail: a caller that waits *)
(* for its reply, and the start-up walk that waits for an acknowledgement. *)
(* What either waits for is on a link or is its semaphore, once.           *)
(***************************************************************************)
EXTENDS IpcSettingsProofs, FiniteSetTheorems

-----------------------------------------------------------------------------
(* Lemmas: the messages of each kind on a link as it grows and shrinks. *)

\* Where the other messages are once the first has left.
MovedUp(S) == {i - 1 : i \in S \ {1}}

\* A message sent to the server joins the messages of its kind.
LEMMA ServerLinkAppend ==
    ASSUME toServer \in Seq(ServerMessage), NEW m \in ServerMessage,
           toServer' = Append(toServer, m)
    PROVE  LET last == Len(toServer) + 1 IN
           /\ AcksInFlight' = IF m.op = "boot" THEN AcksInFlight \cup {last} ELSE AcksInFlight
           /\ CallsInFlight' = IF m.op = "call" THEN CallsInFlight \cup {last} ELSE CallsInFlight
  BY AppendIndex DEF AcksInFlight, CallsInFlight

\* The server takes the first message, of one kind or the other.
LEMMA ServerLinkTail ==
    ASSUME toServer \in Seq(ServerMessage), toServer # <<>>, toServer' = Tail(toServer)
    PROVE  /\ AcksInFlight' = MovedUp(AcksInFlight)
           /\ CallsInFlight' = MovedUp(CallsInFlight)
           /\ 1 \in AcksInFlight <=> Head(toServer).op = "boot"
           /\ 1 \in CallsInFlight <=> Head(toServer).op = "call"
  <1>1. \A i : i \in AcksInFlight' <=> i \in Nat /\ i # 0 /\ i + 1 \in AcksInFlight
    BY TailIndex DEF AcksInFlight
  <1>2. \A i : i \in CallsInFlight' <=> i \in Nat /\ i # 0 /\ i + 1 \in CallsInFlight
    BY TailIndex DEF CallsInFlight
  <1>3. AcksInFlight \subseteq Nat \ {0} /\ CallsInFlight \subseteq Nat \ {0}
    BY TailIndex DEF AcksInFlight, CallsInFlight
  <1>4. AcksInFlight' = MovedUp(AcksInFlight) /\ CallsInFlight' = MovedUp(CallsInFlight)
    BY <1>1, <1>2, <1>3 DEF MovedUp
  <1>. QED BY <1>4, TailIndex DEF AcksInFlight, CallsInFlight

\* The same two facts of the link to the client.
LEMMA ClientLinkAppend ==
    ASSUME toClient \in Seq(ClientMessage), NEW m \in ClientMessage,
           toClient' = Append(toClient, m)
    PROVE  LET last == Len(toClient) + 1 IN
           /\ EntriesInFlight' = IF m.op = "boot" THEN EntriesInFlight \cup {last}
                                 ELSE EntriesInFlight
           /\ RepliesInFlight' = IF m.op # "boot" THEN RepliesInFlight \cup {last}
                                 ELSE RepliesInFlight
           /\ \A i \in DOMAIN toClient : toClient'[i] = toClient[i]
           /\ toClient'[last] = m
  BY AppendIndex DEF EntriesInFlight, RepliesInFlight

LEMMA ClientLinkTail ==
    ASSUME toClient \in Seq(ClientMessage), toClient # <<>>, toClient' = Tail(toClient)
    PROVE  /\ EntriesInFlight' = MovedUp(EntriesInFlight)
           /\ RepliesInFlight' = MovedUp(RepliesInFlight)
           /\ 1 \in EntriesInFlight <=> Head(toClient).op = "boot"
           /\ 1 \in RepliesInFlight <=> Head(toClient).op # "boot"
           /\ \A i \in DOMAIN toClient \ {1} : toClient'[i - 1] = toClient[i]
  <1>1. \A i : i \in EntriesInFlight' <=> i \in Nat /\ i # 0 /\ i + 1 \in EntriesInFlight
    BY TailIndex DEF EntriesInFlight
  <1>2. \A i : i \in RepliesInFlight' <=> i \in Nat /\ i # 0 /\ i + 1 \in RepliesInFlight
    BY TailIndex DEF RepliesInFlight
  <1>3. EntriesInFlight \subseteq Nat \ {0} /\ RepliesInFlight \subseteq Nat \ {0}
    BY TailIndex DEF EntriesInFlight, RepliesInFlight
  <1>4. /\ EntriesInFlight' = MovedUp(EntriesInFlight)
        /\ RepliesInFlight' = MovedUp(RepliesInFlight)
    BY <1>1, <1>2, <1>3 DEF MovedUp
  <1>5. \A i \in DOMAIN toClient \ {1} : toClient'[i - 1] = toClient[i]
    BY TailIndex
  <1>. QED BY <1>4, <1>5, TailIndex DEF EntriesInFlight, RepliesInFlight

AtMostOne(S) == \A i, j \in S : i = j

\* Of at most one message, none is left when it is the first, and it is still
\* there when it is not.
LEMMA MovedUpOne ==
    ASSUME NEW S, S \subseteq Nat, AtMostOne(S)
    PROVE  /\ AtMostOne(MovedUp(S))
           /\ 1 \in S => MovedUp(S) = {}
           /\ 1 \notin S => (MovedUp(S) = {} <=> S = {})
  BY DEF AtMostOne, MovedUp

-----------------------------------------------------------------------------
(* The start-up walk. *)

\* What the walk waits for is one thing: an entry, its acknowledgement, or the
\* server's done; and it is there only while the walk waits.
OneAck    == AtMostOne(AcksInFlight)
OneEntry  == AtMostOne(EntriesInFlight)
OneToken  ==
    /\ AcksInFlight = {} \/ EntriesInFlight = {}
    /\ serverDone = 1 => AcksInFlight = {} /\ EntriesInFlight = {}
WalkWaits ==
    bootPhase # "takeDone" => AcksInFlight = {} /\ EntriesInFlight = {} /\ serverDone = 0
AckComes  ==
    "ack" \notin SendFaults /\ bootPhase = "takeDone" =>
        AcksInFlight # {} \/ EntriesInFlight # {} \/ serverDone = 1

\* An entry on the link has the stored value.
EntriesStored ==
    \A i \in EntriesInFlight : toClient[i].value = store[toClient[i].name]

\* What the walk has sent and the client handles is staged, or on its way.
WalkStaged ==
    SettingsLocked =>
        \A n \in Handled \ bootTodo :
            \/ store[n] = NoValue
            \/ staged[n] = store[n]
            \/ \E i \in EntriesInFlight : toClient[i].name = n

\* Nothing here is about the calls, but for the types: the walk's handshake
\* does not depend on what else is on the links.
WalkInv ==
    /\ TypeOK
    /\ TodoStored
    /\ OneAck
    /\ OneEntry
    /\ OneToken
    /\ WalkWaits
    /\ AckComes
    /\ EntriesStored
    /\ WalkStaged

\* The invariant holds before the walk starts: nothing is on the links.
LEMMA InitWalkInv == Init => WalkInv
  <1>. SUFFICES ASSUME Init PROVE WalkInv
    OBVIOUS
  <1>1. AcksInFlight = {} /\ EntriesInFlight = {}
    BY DEF Init, AcksInFlight, EntriesInFlight
  <1>. QED
    BY <1>1, InitType DEF Init, WalkInv, TodoStored, SettingsLocked, OneAck, OneEntry,
       AtMostOne, OneToken, WalkWaits, AckComes, EntriesStored, WalkStaged

\* The messages of the walk are at places of the links.
LEMMA WalkPlaces ==
    ASSUME TypeOK
    PROVE  /\ AcksInFlight \subseteq DOMAIN toServer /\ AcksInFlight \subseteq Nat
           /\ EntriesInFlight \subseteq DOMAIN toClient /\ EntriesInFlight \subseteq Nat
  BY DEF TypeOK, AcksInFlight, EntriesInFlight

\* A step that leaves the walk's variables and, as long as the settings are
\* locked, the store alone keeps the invariant if it keeps the walk's messages,
\* at their places or one place up.
LEMMA WalkKept ==
    ASSUME WalkInv, TypeOK', UNCHANGED <<staged, serverDone, bootPhase, bootTodo>>,
           SettingsLocked => store' = store,
           \/ AcksInFlight' = AcksInFlight
           \/ AcksInFlight' = MovedUp(AcksInFlight) /\ 1 \notin AcksInFlight,
           \/ /\ EntriesInFlight' = EntriesInFlight
              /\ \A i \in EntriesInFlight : toClient'[i] = toClient[i]
           \/ /\ EntriesInFlight' = MovedUp(EntriesInFlight)
              /\ 1 \notin EntriesInFlight
              /\ \A i \in EntriesInFlight : toClient'[i - 1] = toClient[i]
    PROVE  WalkInv'
  <1>. USE DEF WalkInv
  <1>1. SettingsLocked' = SettingsLocked /\ TodoStored'
    BY DEF TodoStored, SettingsLocked
  <1>2. OneAck' /\ (AcksInFlight' = {} <=> AcksInFlight = {})
    BY WalkPlaces, MovedUpOne DEF OneAck
  <1>3. OneEntry' /\ (EntriesInFlight' = {} <=> EntriesInFlight = {})
    BY WalkPlaces, MovedUpOne DEF OneEntry
  <1>4. OneToken' /\ WalkWaits' /\ AckComes'
    BY <1>2, <1>3 DEF OneToken, WalkWaits, AckComes
  <1>5. /\ \A i \in EntriesInFlight' : \E j \in EntriesInFlight : toClient'[i] = toClient[j]
        /\ \A j \in EntriesInFlight : \E i \in EntriesInFlight' : toClient'[i] = toClient[j]
    BY WalkPlaces DEF MovedUp
  <1>6. EntriesInFlight # {} => SettingsLocked
    BY DEF WalkWaits, SettingsLocked
  <1>7. EntriesStored'
    BY <1>5, <1>6 DEF EntriesStored
  <1>8. WalkStaged'
    BY <1>1, <1>5 DEF WalkStaged
  <1>. QED BY <1>1, <1>2, <1>3, <1>4, <1>7, <1>8

\* The steps of the calls, and a stutter.
CallStep ==
    \/ \E t \in Caller : (\E r \in Request : Invoke(t, r)) \/ TakeBusy(t) \/ Call(t)
    \/ ReceiveStatus \/ ReceiveLoad \/ ServeRequest
    \/ UNCHANGED vars

\* Requests and replies join and leave the links and pass the walk by.
LEMMA CallsKeepWalk ==
    ASSUME WalkInv, TypeOK', CallStep
    PROVE  WalkInv'
  <1>. /\ toServer \in Seq(ServerMessage) /\ toClient \in Seq(ClientMessage)
       /\ req \in [Caller -> Request] /\ store \in Store /\ TypeOK
    BY DEF WalkInv, TypeOK
  <1>1. ASSUME UNCHANGED <<staged, boot, store, toServer, toClient>> PROVE WalkInv'
    <2>1. /\ AcksInFlight' = AcksInFlight /\ EntriesInFlight' = EntriesInFlight
          /\ \A i \in EntriesInFlight : toClient'[i] = toClient[i]
      BY <1>1 DEF AcksInFlight, EntriesInFlight
    <2>. QED BY <1>1, <2>1, WalkKept DEF boot
  <1>2. ASSUME NEW t \in Caller, Send(t) PROVE WalkInv'
    <2>1. PICK m : m = [op |-> "call", request |-> req[t], from |-> t]
      OBVIOUS
    <2>2. m \in ServerMessage /\ m.op = "call"
      BY <2>1 DEF ServerMessage, Sender
    <2>3. AcksInFlight' = AcksInFlight
      BY <1>2, <2>1, <2>2, ServerLinkAppend DEF Send
    <2>4. /\ EntriesInFlight' = EntriesInFlight
          /\ \A i \in EntriesInFlight : toClient'[i] = toClient[i]
      BY <1>2 DEF Send, EntriesInFlight
    <2>. QED BY <1>2, <2>3, <2>4, WalkKept DEF Send, boot
  <1>3. CASE ReceiveStatus \/ ReceiveLoad
    <2>1. /\ toClient # <<>> /\ toClient' = Tail(toClient) /\ Head(toClient).op # "boot"
          /\ UNCHANGED <<staged, boot, store, toServer>>
      BY <1>3 DEF ReceiveStatus, ReceiveLoad
    <2>2. /\ EntriesInFlight' = MovedUp(EntriesInFlight) /\ 1 \notin EntriesInFlight
          /\ \A i \in EntriesInFlight : toClient'[i - 1] = toClient[i]
      BY <2>1, ClientLinkTail, WalkPlaces
    <2>3. AcksInFlight' = AcksInFlight
      BY <2>1 DEF AcksInFlight
    <2>. QED BY <2>1, <2>2, <2>3, WalkKept DEF boot
  <1>4. CASE ServeRequest
    <2>. DEFINE m == Head(toServer)
    <2>1. /\ toServer # <<>> /\ toServer' = Tail(toServer) /\ m.op = "call"
          /\ UNCHANGED client /\ UNCHANGED staged /\ UNCHANGED boot
          /\ m.request.op = "save" => ~SettingsLocked
      BY <1>4 DEF ServeRequest
    <2>2. m.request \in Request /\ m.from \in Sender
      BY <2>1, TailIndex, MessageKinds
    <2>3. PICK e \in Served(store, m.request) :
            /\ store' = e[2]
            /\ \/ toClient' = Append(toClient, [op |-> m.request.op, rc |-> e[1].rc,
                                                value |-> e[1].value, to |-> m.from])
               \/ UNCHANGED toClient
      BY <1>4 DEF ServeRequest
    <2>4. /\ e[1].rc \in {"ok", "error"} /\ e[1].value \in Value \cup {NoValue}
          /\ m.request.op # "save" => e[2] = store
          /\ m.request.op \in {"save", "load", "commit"}
      BY <2>2, ServedAnswers
    <2>5. AcksInFlight' = MovedUp(AcksInFlight) /\ 1 \notin AcksInFlight
      BY <2>1, ServerLinkTail
    <2>6. /\ EntriesInFlight' = EntriesInFlight
          /\ \A i \in EntriesInFlight : toClient'[i] = toClient[i]
      <3>1. CASE UNCHANGED toClient
        BY <3>1 DEF EntriesInFlight
      <3>2. PICK reply : reply = [op |-> m.request.op, rc |-> e[1].rc,
                                  value |-> e[1].value, to |-> m.from]
        OBVIOUS
      <3>3. reply \in ClientMessage /\ reply.op # "boot"
        BY <2>2, <2>4, <3>2 DEF ClientMessage, Reply, ReturnCode
      <3>4. CASE toClient' = Append(toClient, reply)
        BY <3>3, <3>4, ClientLinkAppend, WalkPlaces
      <3>. QED BY <2>3, <3>1, <3>2, <3>4
    <2>7. SettingsLocked => store' = store
      BY <2>1, <2>3, <2>4
    <2>. QED BY <2>1, <2>5, <2>6, <2>7, WalkKept DEF boot
  <1>5. ASSUME NEW t \in Caller,
               \/ \E r \in Request : Invoke(t, r)
               \/ TakeBusy(t) \/ SendFails(t) \/ TakeDone(t) \/ Finish(t)
        PROVE  UNCHANGED <<staged, boot, store, toServer, toClient>>
    BY <1>5 DEF Invoke, TakeBusy, SendFails, TakeDone, Finish
  <1>6. CASE UNCHANGED vars
    BY <1>1, <1>6 DEF vars
  <1>. QED BY <1>1, <1>2, <1>3, <1>4, <1>5, <1>6 DEF CallStep, Call

\* The client takes the entry, the only one, stages it and acknowledges it.
LEMMA EntryStep ==
    ASSUME WalkInv, TypeOK', ReceiveBootEntry
    PROVE  WalkInv'
  <1>. DEFINE m == Head(toClient)
  <1>1. /\ toServer \in Seq(ServerMessage) /\ toClient \in Seq(ClientMessage)
        /\ staged \in Store /\ store \in Store /\ TypeOK
    BY DEF WalkInv, TypeOK
  <1>2. /\ toClient # <<>> /\ toClient' = Tail(toClient) /\ m.op = "boot"
        /\ UNCHANGED client /\ UNCHANGED <<store, boot>>
        /\ staged' = IF m.name \in Handled THEN [staged EXCEPT ![m.name] = m.value] ELSE staged
    BY DEF ReceiveBootEntry
  <1>3. 1 \in EntriesInFlight /\ m = toClient[1] /\ m.name \in Name
    BY <1>1, <1>2, TailIndex, MessageKinds, ClientLinkTail
  <1>4. EntriesInFlight' = {}
    BY <1>1, <1>2, <1>3, ClientLinkTail, WalkPlaces, MovedUpOne DEF WalkInv, OneEntry
  <1>5. bootPhase = "takeDone" /\ AcksInFlight = {} /\ serverDone # 1
    BY <1>3 DEF WalkInv, WalkWaits, OneToken
  <1>6. /\ OneAck'
        /\ AcksInFlight' = {} => "ack" \in SendFaults
    <2>1. CASE UNCHANGED toServer /\ "ack" \in SendFaults
      BY <1>5, <2>1 DEF AcksInFlight, OneAck, AtMostOne
    <2>2. CASE toServer' = Append(toServer, BootAck)
      <3>1. BootAck \in ServerMessage /\ BootAck.op = "boot"
        BY DEF ServerMessage, BootAck
      <3>. QED BY <1>1, <1>5, <2>2, <3>1, ServerLinkAppend DEF OneAck, AtMostOne
    <2>. QED BY <2>1, <2>2 DEF ReceiveBootEntry
  <1>7. OneEntry' /\ OneToken' /\ WalkWaits' /\ AckComes' /\ EntriesStored'
    BY <1>2, <1>4, <1>5, <1>6 DEF boot, OneEntry, AtMostOne, OneToken, WalkWaits, AckComes,
       EntriesStored
  <1>8. TodoStored'
    BY <1>2 DEF WalkInv, boot, TodoStored, SettingsLocked
  <1>9. WalkStaged'
    <2>. SUFFICES ASSUME NEW n \in Handled \ bootTodo, store[n] # NoValue, SettingsLocked
                  PROVE  staged'[n] = store[n]
      BY <1>2 DEF boot, WalkStaged, SettingsLocked
    <2>1. CASE n = m.name
      <3>1. m.value = store[n]
        BY <1>3, <2>1 DEF WalkInv, EntriesStored
      <3>. QED BY <1>1, <1>2, <1>3, <2>1, <3>1 DEF Store
    <2>2. CASE n # m.name
      <3>1. \A i \in EntriesInFlight : toClient[i].name # n
        BY <1>3, <2>2 DEF WalkInv, OneEntry, AtMostOne
      <3>2. staged[n] = store[n]
        BY <3>1 DEF WalkInv, WalkStaged
      <3>. QED BY <1>1, <1>2, <1>3, <2>2, <3>2 DEF Store
    <2>. QED BY <2>1, <2>2
  <1>. QED BY <1>6, <1>7, <1>8, <1>9 DEF WalkInv

\* The server takes the acknowledgement, the only one, and gives done.
LEMMA AckStep ==
    ASSUME WalkInv, TypeOK', ReceiveBootAck
    PROVE  WalkInv'
  <1>1. /\ toServer \in Seq(ServerMessage) /\ toServer # <<>> /\ toServer' = Tail(toServer)
        /\ Head(toServer).op = "boot" /\ serverDone' = 1 /\ TypeOK
        /\ UNCHANGED <<staged, toClient, store, bootPhase, bootTodo>>
    BY DEF ReceiveBootAck, WalkInv, TypeOK
  <1>2. 1 \in AcksInFlight /\ AcksInFlight' = {}
    BY <1>1, ServerLinkTail, WalkPlaces, MovedUpOne DEF WalkInv, OneAck
  <1>3. bootPhase = "takeDone" /\ EntriesInFlight = {}
    BY <1>2 DEF WalkInv, WalkWaits, OneToken
  <1>4. EntriesInFlight' = {}
    BY <1>1, <1>3 DEF EntriesInFlight
  <1>5. OneAck' /\ OneEntry' /\ OneToken' /\ WalkWaits' /\ AckComes' /\ EntriesStored'
    BY <1>1, <1>2, <1>3, <1>4 DEF OneAck, OneEntry, AtMostOne, OneToken, WalkWaits, AckComes,
       EntriesStored
  <1>6. TodoStored' /\ WalkStaged'
    BY <1>1, <1>3, <1>4 DEF WalkInv, TodoStored, WalkStaged, SettingsLocked
  <1>. QED BY <1>5, <1>6 DEF WalkInv

\* The walk sends an entry: nothing of an earlier one is left.
LEMMA EntrySent ==
    ASSUME WalkInv, TypeOK', NEW n \in Name, BootSend(n)
    PROVE  WalkInv'
  <1>. PICK m : m = [op |-> "boot", name |-> n, value |-> store[n]]
    OBVIOUS
  <1>1. /\ bootPhase = "next" /\ bootPhase' = "takeDone" /\ n \in bootTodo
        /\ bootTodo' = bootTodo \ {n} /\ toClient' = Append(toClient, m)
        /\ UNCHANGED <<staged, toServer, store, serverDone>>
        /\ toClient \in Seq(ClientMessage)
    BY DEF BootSend, WalkInv, TypeOK
  <1>2. AcksInFlight = {} /\ EntriesInFlight = {} /\ serverDone = 0
    BY <1>1 DEF WalkInv, WalkWaits
  <1>3. m \in ClientMessage /\ m.op = "boot" /\ m.name = n /\ m.value = store[n]
    BY <1>1 DEF WalkInv, TodoStored, SettingsLocked, ClientMessage, BootEntry
  <1>4. /\ EntriesInFlight' = {Len(toClient) + 1}
        /\ toClient'[Len(toClient) + 1] = m
    BY <1>1, <1>2, <1>3, ClientLinkAppend
  <1>5. AcksInFlight' = {}
    BY <1>1, <1>2 DEF AcksInFlight
  <1>6. OneAck' /\ OneEntry' /\ OneToken' /\ WalkWaits' /\ AckComes' /\ EntriesStored'
    BY <1>1, <1>2, <1>3, <1>4, <1>5 DEF OneAck, OneEntry, AtMostOne, OneToken, WalkWaits,
       AckComes, EntriesStored
  <1>7. TodoStored'
    BY <1>1 DEF WalkInv, TodoStored, SettingsLocked
  <1>8. WalkStaged'
    BY <1>1, <1>2, <1>3, <1>4 DEF WalkInv, WalkStaged, SettingsLocked
  <1>. QED BY <1>6, <1>7, <1>8 DEF WalkInv

\* The walk starts, goes on to its next entry, or ends.
LEMMA WalkMoves ==
    ASSUME WalkInv, TypeOK', BootStart \/ BootTakeDone \/ BootFinish
    PROVE  WalkInv'
  <1>1. /\ UNCHANGED <<staged, toServer, toClient, store>>
        /\ AcksInFlight' = AcksInFlight /\ EntriesInFlight' = EntriesInFlight
        /\ serverDone \in 0..1 /\ store \in Store /\ Handled \subseteq Name
    BY HandledAssumption DEF BootStart, BootTakeDone, BootFinish, AcksInFlight,
       EntriesInFlight, WalkInv, TypeOK
  <1>2. AcksInFlight = {} /\ EntriesInFlight = {} /\ serverDone' = 0
    BY <1>1 DEF BootStart, BootTakeDone, BootFinish, WalkInv, WalkWaits, OneToken
  <1>3. OneAck' /\ OneEntry' /\ OneToken' /\ WalkWaits' /\ EntriesStored'
    BY <1>1, <1>2 DEF OneAck, OneEntry, AtMostOne, OneToken, WalkWaits, EntriesStored
  <1>4. AckComes'
    BY DEF BootStart, BootTakeDone, BootFinish, AckComes
  <1>5. TodoStored'
    BY <1>1 DEF BootStart, BootTakeDone, BootFinish, WalkInv, TodoStored, SettingsLocked, Store
  <1>6. WalkStaged'
    BY <1>1, <1>2 DEF BootStart, BootTakeDone, BootFinish, WalkInv, WalkStaged, SettingsLocked
  <1>. QED BY <1>3, <1>4, <1>5, <1>6 DEF WalkInv

\* Every step keeps the invariant of the walk.
LEMMA NextWalkInv == WalkInv /\ [Next]_vars => WalkInv'
  <1>. SUFFICES ASSUME WalkInv, [Next]_vars PROVE WalkInv'
    OBVIOUS
  <1>1. TypeOK'
    BY NextType DEF WalkInv
  <1>2. CASE CallStep
    BY <1>1, <1>2, CallsKeepWalk
  <1>3. CASE ReceiveBootEntry \/ ReceiveBootAck
    BY <1>1, <1>3, EntryStep, AckStep
  <1>4. CASE Boot
    BY <1>1, <1>4, EntrySent, WalkMoves DEF Boot
  <1>. QED BY <1>2, <1>3, <1>4 DEF CallStep, Next, ClientReceive, ServerReceive

\* The walk's invariant holds in every reachable state, for any callers,
\* settings and faults.
THEOREM WalkInvariance == Spec => []WalkInv
  BY InitWalkInv, NextWalkInv, PTL DEF Spec

\* At most one thing has a size of zero or one.
LEMMA SizeOfOne ==
    ASSUME NEW S, AtMostOne(S)
    PROVE  /\ S = {} => Cardinality(S) = 0
           /\ S # {} => Cardinality(S) = 1
  <1>1. ASSUME NEW x \in S PROVE S = {x}
    BY <1>1 DEF AtMostOne
  <1>. QED BY <1>1, FS_EmptySet, FS_Singleton

\* The walk waits for one acknowledgement at a time, and what it waits for is
\* on its way unless an acknowledgement could not be sent: none is ever taken
\* for another's (ipc_setting_boot_load_loop).
THEOREM WalkToken == Spec => []BootToken
  <1>1. ASSUME WalkInv PROVE BootToken
    <2>1. /\ Cardinality(AcksInFlight) = IF AcksInFlight = {} THEN 0 ELSE 1
          /\ Cardinality(EntriesInFlight) = IF EntriesInFlight = {} THEN 0 ELSE 1
      BY <1>1, SizeOfOne DEF WalkInv, OneAck, OneEntry
    <2>2. serverDone \in 0..1
      BY <1>1 DEF WalkInv, TypeOK
    <2>. QED BY <1>1, <2>1, <2>2 DEF WalkInv, OneToken, WalkWaits, AckComes, BootToken
  <1>. QED BY <1>1, WalkInvariance, PTL

\* Between two entries nothing is on its way; with none left all is staged.
LEMMA WalkEnd ==
    ASSUME WalkInv, bootPhase = "next", bootTodo = {}
    PROVE  \A n \in Handled : store[n] # NoValue => staged[n] = store[n]
  BY DEF WalkInv, WalkWaits, WalkStaged, SettingsLocked

\* A walk that ends with nothing left to send leaves every setting the client
\* handles staged with the value in flash: the lock keeps saves out between an
\* entry and the end of the walk (ipc_setting_boot_load).
THEOREM WalkComplete == Spec => BootComplete
  <1>1. ASSUME WalkInv, [Next]_vars, bootPhase' = "finished", bootPhase # "finished",
               bootTodo = {}
        PROVE  \A n \in Handled : store[n] # NoValue => staged[n] = store[n]
    <2>1. bootPhase = "next"
      BY <1>1 DEF Next, Call, ClientReceive, ServerReceive, Boot, vars, boot, Invoke, TakeBusy,
         Send, SendFails, TakeDone, Finish, ReceiveStatus, ReceiveLoad, ReceiveBootEntry,
         ServeRequest, ReceiveBootAck, BootStart, BootSend, BootTakeDone, BootFinish
    <2>. QED BY <1>1, <2>1, WalkEnd
  <1>. QED BY <1>1, WalkInvariance, PTL DEF Spec, BootComplete

-----------------------------------------------------------------------------
(* Calls and the walk together. *)

\* The service alone needs no bound on its links: neither ever carries more
\* than a message of a call and one of the walk.
THEOREM LinksBounded == Spec => []LinkBound
  <1>1. ASSUME IInv, WalkInv PROVE LinkBound
    <2>1. /\ toServer \in Seq(ServerMessage) /\ toClient \in Seq(ClientMessage)
          /\ \A m \in ServerMessage : m.op \in {"call", "boot"}
      BY <1>1 DEF IInv, TypeOK, ServerMessage, BootAck
    <2>2. \A i \in DOMAIN toServer : i \in CallsInFlight \/ i \in AcksInFlight
      BY <2>1 DEF CallsInFlight, AcksInFlight
    <2>3. \A i \in DOMAIN toClient : i \in RepliesInFlight \/ i \in EntriesInFlight
      BY DEF RepliesInFlight, EntriesInFlight
    <2>4. ~(1 \in DOMAIN toServer /\ 2 \in DOMAIN toServer /\ 3 \in DOMAIN toServer)
      BY <1>1, <2>2 DEF IInv, OneCall, WalkInv, OneAck, AtMostOne
    <2>5. ~(1 \in DOMAIN toClient /\ 2 \in DOMAIN toClient /\ 3 \in DOMAIN toClient)
      BY <1>1, <2>3 DEF IInv, OneReply, WalkInv, OneEntry, AtMostOne
    <2>. QED BY <2>1, <2>4, <2>5 DEF LinkBound
  <1>. QED BY <1>1, Invariance, WalkInvariance, PTL

-----------------------------------------------------------------------------
(* A caller that waits for its reply. *)

\* A request not served yet is on the link.
RequestOnLink ==
    \A t \in Caller : phase[t] = "takeDone" /\ answer[t] = NoAnswer => CallsInFlight # {}

\* When no reply is lost, something comes to whoever waits.
ReplyComes ==
    "reply" \notin SendFaults =>
        \A t \in Caller :
            phase[t] = "takeDone" => CallsInFlight # {} \/ RepliesInFlight # {} \/ done = 1

ReplyInv ==
    /\ IInv
    /\ RequestOnLink
    /\ ReplyComes

\* A step that makes nobody wait and leaves requests, replies and done as they
\* are, but for their places, keeps both.
LEMMA WaitsKept ==
    ASSUME ReplyInv, UNCHANGED done,
           \A t \in Caller : phase'[t] = "takeDone" =>
                                phase[t] = "takeDone" /\ answer'[t] = answer[t],
           CallsInFlight # {} => CallsInFlight' # {},
           RepliesInFlight # {} => RepliesInFlight' # {}
    PROVE  RequestOnLink' /\ ReplyComes'
  BY DEF ReplyInv, RequestOnLink, ReplyComes

\* The walk's messages pass requests and replies by.
LEMMA WalkKeepsWaits ==
    ASSUME ReplyInv, IInv',
           \/ ReceiveBootEntry \/ ReceiveBootAck
           \/ BootStart \/ (\E n \in Name : BootSend(n)) \/ BootTakeDone \/ BootFinish
    PROVE  RequestOnLink' /\ ReplyComes'
  <1>1. /\ UNCHANGED client /\ UNCHANGED answer
    BY DEF ReceiveBootEntry, ReceiveBootAck, BootStart, BootSend, BootTakeDone, BootFinish
  <1>2. /\ toServer \in Seq(ServerMessage) /\ toClient \in Seq(ClientMessage)
        /\ toClient' \in Seq(ClientMessage)
        /\ CallsInFlight \subseteq Nat /\ AtMostOne(CallsInFlight)
        /\ RepliesInFlight \subseteq Nat /\ AtMostOne(RepliesInFlight)
    BY DEF ReplyInv, IInv, TypeOK, CallsInFlight, RepliesInFlight, OneCall, OneReply, AtMostOne
  <1>3. CASE ReceiveBootEntry
    <2>1. RepliesInFlight # {} => RepliesInFlight' # {}
      BY <1>2, <1>3, ClientLinkTail, MovedUpOne DEF ReceiveBootEntry
    <2>2. CallsInFlight' = CallsInFlight
      <3>1. BootAck \in ServerMessage /\ BootAck.op # "call"
        BY DEF ServerMessage, BootAck
      <3>2. CASE toServer' = Append(toServer, BootAck)
        BY <1>2, <3>1, <3>2, ServerLinkAppend
      <3>3. CASE UNCHANGED toServer
        BY <3>3 DEF CallsInFlight
      <3>. QED BY <1>3, <3>2, <3>3 DEF ReceiveBootEntry
    <2>. QED BY <1>1, <2>1, <2>2, WaitsKept DEF client
  <1>4. CASE ReceiveBootAck
    <2>1. CallsInFlight # {} => CallsInFlight' # {}
      BY <1>2, <1>4, ServerLinkTail, MovedUpOne, MessageKinds DEF ReceiveBootAck
    <2>2. RepliesInFlight' = RepliesInFlight
      BY <1>4 DEF ReceiveBootAck, RepliesInFlight
    <2>. QED BY <1>1, <2>1, <2>2, WaitsKept DEF client
  <1>5. ASSUME NEW n \in Name, BootSend(n) PROVE RequestOnLink' /\ ReplyComes'
    <2>. PICK m : m = [op |-> "boot", name |-> n, value |-> store[n]]
      OBVIOUS
    <2>1. m \in ClientMessage /\ m.op = "boot"
      BY <1>5 DEF BootSend, ReplyInv, IInv, TodoStored, SettingsLocked, ClientMessage, BootEntry
    <2>2. RepliesInFlight' = RepliesInFlight
      BY <1>2, <1>5, <2>1, ClientLinkAppend DEF BootSend
    <2>3. CallsInFlight' = CallsInFlight
      BY <1>5 DEF BootSend, CallsInFlight
    <2>. QED BY <1>1, <2>2, <2>3, WaitsKept DEF client
  <1>6. CASE BootStart \/ BootTakeDone \/ BootFinish
    <2>1. CallsInFlight' = CallsInFlight /\ RepliesInFlight' = RepliesInFlight
      BY <1>6 DEF BootStart, BootTakeDone, BootFinish, CallsInFlight, RepliesInFlight
    <2>. QED BY <1>1, <2>1, WaitsKept DEF client
  <1>. QED BY <1>3, <1>4, <1>5, <1>6

\* The steps of the calls: a request is sent, served, answered and taken.
LEMMA CallsKeepWaits ==
    ASSUME ReplyInv, IInv', CallStep
    PROVE  RequestOnLink' /\ ReplyComes'
  <1>1. /\ phase \in [Caller -> {"idle", "takeBusy", "send", "takeDone", "finish"}]
        /\ toServer \in Seq(ServerMessage) /\ toClient \in Seq(ClientMessage)
        /\ req \in [Caller -> Request] /\ store \in Store /\ answer \in [Caller -> Answer]
    BY DEF ReplyInv, IInv, TypeOK
  <1>2. ASSUME NEW t \in Caller,
               \/ \E r \in Request : Invoke(t, r)
               \/ TakeBusy(t) \/ SendFails(t) \/ Finish(t)
        PROVE  RequestOnLink' /\ ReplyComes'
    <2>1. /\ UNCHANGED <<toServer, toClient, done>>
          /\ \A u \in Caller : phase'[u] = "takeDone" =>
                                  phase[u] = "takeDone" /\ answer'[u] = answer[u]
      BY <1>1, <1>2 DEF Invoke, TakeBusy, SendFails, Finish
    <2>2. CallsInFlight' = CallsInFlight /\ RepliesInFlight' = RepliesInFlight
      BY <2>1 DEF CallsInFlight, RepliesInFlight
    <2>. QED BY <2>1, <2>2, WaitsKept
  <1>3. ASSUME NEW t \in Caller, Send(t) PROVE RequestOnLink' /\ ReplyComes'
    <2>. PICK m : m = [op |-> "call", request |-> req[t], from |-> t]
      OBVIOUS
    <2>1. m \in ServerMessage /\ m.op = "call"
      BY <1>1 DEF ServerMessage, Sender
    <2>2. CallsInFlight' # {}
      BY <1>1, <1>3, <2>1, ServerLinkAppend DEF Send
    <2>. QED BY <2>2 DEF RequestOnLink, ReplyComes
  <1>4. ASSUME NEW t \in Caller, TakeDone(t) PROVE RequestOnLink' /\ ReplyComes'
    <2>1. \A u \in Caller : phase'[u] # "takeDone"
      BY <1>1, <1>4 DEF TakeDone, ReplyInv, IInv, CallExclusion, Inside
    <2>. QED BY <2>1 DEF RequestOnLink, ReplyComes
  <1>5. CASE ReceiveStatus \/ ReceiveLoad
    <2>1. UNCHANGED <<phase, answer, toServer>> /\ done' = 1
      BY <1>5 DEF ReceiveStatus, ReceiveLoad
    <2>2. CallsInFlight' = CallsInFlight
      BY <2>1 DEF CallsInFlight
    <2>. QED BY <2>1, <2>2 DEF ReplyInv, RequestOnLink, ReplyComes
  <1>6. CASE ServeRequest
    <2>. DEFINE m == Head(toServer)
    <2>1. /\ toServer # <<>> /\ m.op = "call" /\ UNCHANGED client
          /\ m.request \in Request /\ m.from \in Sender /\ m = toServer[1]
      BY <1>1, <1>6, TailIndex, MessageKinds DEF ServeRequest
    <2>2. CallOwned(m)
      BY <1>1, <2>1, TailIndex DEF ReplyInv, IInv, CallsOwned, CallsInFlight
    <2>3. PICK e \in Served(store, m.request) :
            /\ answer' = [t \in Caller |-> IF t = m.from THEN e[1] ELSE answer[t]]
            /\ \/ toClient' = Append(toClient, [op |-> m.request.op, rc |-> e[1].rc,
                                                value |-> e[1].value, to |-> m.from])
               \/ "reply" \in SendFaults
      BY <1>6 DEF ServeRequest
    <2>4. /\ e[1].rc \in {"ok", "error"} /\ e[1].value \in Value \cup {NoValue}
          /\ m.request.op \in {"save", "load", "commit"}
      BY <1>1, <2>1, ServedAnswers
    <2>5. \A t \in Caller : phase'[t] = "takeDone" => t = m.from /\ answer'[t] # NoAnswer
      BY <2>1, <2>2, <2>3, <2>4 DEF CallOwned, Outstanding, ReplyInv, IInv, CallExclusion,
         Inside, client, NoAnswer
    <2>6. "reply" \notin SendFaults => RepliesInFlight' # {}
      <3>. PICK reply : reply = [op |-> m.request.op, rc |-> e[1].rc,
                                 value |-> e[1].value, to |-> m.from]
        OBVIOUS
      <3>1. reply \in ClientMessage /\ reply.op # "boot"
        BY <2>1, <2>4 DEF ClientMessage, Reply, ReturnCode
      <3>. QED BY <1>1, <2>3, <3>1, ClientLinkAppend
    <2>. QED BY <2>5, <2>6 DEF RequestOnLink, ReplyComes
  <1>7. CASE UNCHANGED vars
    BY <1>7, WaitsKept DEF vars, client, CallsInFlight, RepliesInFlight
  <1>. QED BY <1>2, <1>3, <1>4, <1>5, <1>6, <1>7 DEF CallStep, Call

\* Every step keeps what a waiting caller waits for.
LEMMA NextReplyInv == ReplyInv /\ [Next]_vars => ReplyInv'
  <1>. SUFFICES ASSUME ReplyInv, [Next]_vars PROVE ReplyInv'
    OBVIOUS
  <1>1. IInv'
    BY NextIInv DEF ReplyInv
  <1>2. CASE CallStep
    BY <1>1, <1>2, CallsKeepWaits DEF ReplyInv
  <1>3. CASE ReceiveBootEntry \/ ReceiveBootAck
    BY <1>1, <1>3, WalkKeepsWaits DEF ReplyInv
  <1>4. CASE Boot
    BY <1>1, <1>4, WalkKeepsWaits DEF ReplyInv, Boot
  <1>. QED BY <1>2, <1>3, <1>4 DEF CallStep, Next, ClientReceive, ServerReceive

\* The calls' invariant holds in every reachable state, for any callers,
\* settings and faults.
THEOREM ReplyInvariance == Spec => []ReplyInv
  <1>1. Init => RequestOnLink /\ ReplyComes
    BY DEF Init, RequestOnLink, ReplyComes
  <1>2. Init => ReplyInv
    BY <1>1, InitIInv DEF ReplyInv
  <1>. QED BY <1>2, NextReplyInv, PTL DEF Spec

\* For any number of callers one wake-up belongs to each wait on done: it is
\* never doubled, so that no caller takes another's, and only a reply that
\* could not be sent loses it (ipc_setting_save, _load, _commit and callbacks).
THEOREM WakeUpToken == Spec => []ReplyToken
  <1>1. ASSUME ReplyInv PROVE ReplyToken
    <2>. DEFINE waiting == {t \in Caller : phase[t] = "takeDone"}
    <2>1. /\ AtMostOne(CallsInFlight) /\ AtMostOne(RepliesInFlight)
          /\ CallsInFlight = {} \/ RepliesInFlight = {}
          /\ done \in 0..1
      BY <1>1 DEF ReplyInv, IInv, OneCall, OneReply, NotBoth, AtMostOne, TypeOK
    <2>2. AtMostOne(waiting)
      BY <1>1 DEF ReplyInv, IInv, CallExclusion, Inside, AtMostOne
    <2>3. \A i \in CallsInFlight : toServer[i].from \in waiting /\ done = 0
      BY <1>1 DEF ReplyInv, IInv, CallsOwned, CallOwned, Outstanding
    <2>4. \A i \in RepliesInFlight : toClient[i].to \in waiting /\ done = 0
      BY <1>1 DEF ReplyInv, IInv, RepliesOwned, ReplyOwned, Outstanding
    <2>5. done = 1 => waiting # {}
      BY <1>1 DEF ReplyInv, IInv, DoneOwned
    <2>6. /\ Cardinality(CallsInFlight) = IF CallsInFlight = {} THEN 0 ELSE 1
          /\ Cardinality(RepliesInFlight) = IF RepliesInFlight = {} THEN 0 ELSE 1
          /\ Cardinality(waiting) = IF waiting = {} THEN 0 ELSE 1
      BY <2>1, <2>2, SizeOfOne
    <2>7. "reply" \notin SendFaults /\ waiting # {} =>
             CallsInFlight # {} \/ RepliesInFlight # {} \/ done = 1
      BY <1>1 DEF ReplyInv, ReplyComes
    <2>8. \A t \in waiting : answer[t] = NoAnswer => \E i \in CallsInFlight : toServer[i].from = t
      BY <1>1, <2>2, <2>3 DEF ReplyInv, RequestOnLink, AtMostOne
    <2>. HIDE DEF waiting
    <2>9. /\ Cardinality(CallsInFlight) + Cardinality(RepliesInFlight) + done
               <= Cardinality(waiting)
          /\ "reply" \notin SendFaults =>
               Cardinality(CallsInFlight) + Cardinality(RepliesInFlight) + done
               = Cardinality(waiting)
      BY <2>1, <2>3, <2>4, <2>5, <2>6, <2>7
    <2>. QED BY <2>8, <2>9 DEF ReplyToken, waiting
  <1>. QED BY <1>1, ReplyInvariance, PTL
=============================================================================
