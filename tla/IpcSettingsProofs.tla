------------------------- MODULE IpcSettingsProofs -------------------------
(***************************************************************************)
(* Theorems about IpcSettings, for every set of callers, names and values  *)
(* and whichever sends fail.                                               *)
(***************************************************************************)
EXTENDS IpcSettings, TLAPS

\* t waits for the server: what it asked is still on one of the links.
Outstanding(t) ==
    /\ t \in Caller
    /\ phase[t] = "takeDone"
    /\ buffer[t] = NoValue
    /\ done = 0

CallOwned(m) ==
    /\ Outstanding(m.from)
    /\ req[m.from] = m.request
    /\ answer[m.from] = NoAnswer
    /\ m.request.op = "load" => loadPointer = m.from

ReplyOwned(m) ==
    /\ Outstanding(m.to)
    /\ answer[m.to] = [rc |-> m.rc, value |-> m.value]
    /\ m.op = "load" => loadPointer = m.to
    /\ (m.op = "load" /\ m.rc = "ok") \/ m.value = NoValue

\* The link carries at most one request or reply, of a caller that waits.
CallsOwned   == \A i \in CallsInFlight : CallOwned(toServer[i])
RepliesOwned == \A i \in RepliesInFlight : ReplyOwned(toClient[i])
OneCall      == \A i, j \in CallsInFlight : i = j
OneReply     == \A i, j \in RepliesInFlight : i = j
NotBoth      == CallsInFlight = {} \/ RepliesInFlight = {}

\* done is given to a caller that waits, when rc and its buffer hold its answer.
DoneOwned ==
    done = 1 => \E t \in Caller :
                    /\ phase[t] = "takeDone"
                    /\ answer[t] = [rc |-> rc, value |-> buffer[t]]

\* What each caller knows at each place of its call.
CallProgress ==
    \A t \in Caller :
        /\ phase[t] \in {"takeBusy", "send"} => answer[t] = NoAnswer /\ buffer[t] = NoValue
        /\ phase[t] \in {"takeBusy", "send", "takeDone"} => ret[t] = "none"
        /\ phase[t] = "send" /\ req[t].op = "load" => loadPointer = t
        /\ phase[t] = "finish" =>
              answer[t] = [rc |-> IF ret[t] = "unsent" THEN "unsent" ELSE rc,
                           value |-> buffer[t]]

\* The entries the walk has still to send are stored: no save takes effect
\* while it holds the settings lock.
TodoStored == SettingsLocked => \A n \in bootTodo : store[n] \in Value

IInv ==
    /\ TypeOK
    /\ CallExclusion
    /\ CallsOwned
    /\ RepliesOwned
    /\ OneCall
    /\ OneReply
    /\ NotBoth
    /\ DoneOwned
    /\ CallProgress
    /\ ReturnsOwnAnswer
    /\ TodoStored

-----------------------------------------------------------------------------
(* Lemmas: queues, messages, and what the server makes of a request. *)

\* A message joins a link at its end and leaves the others in place.
LEMMA AppendIndex ==
    ASSUME NEW S, NEW s \in Seq(S), NEW x \in S
    PROVE  /\ Append(s, x) \in Seq(S)
           /\ DOMAIN s = 1..Len(s)
           /\ DOMAIN Append(s, x) = 1..(Len(s) + 1)
           /\ \A i \in 1..Len(s) : Append(s, x)[i] = s[i]
           /\ Append(s, x)[Len(s) + 1] = x
           /\ Len(s) \in Nat
  OBVIOUS

\* A message leaves a link at its head and the others move up by one.
LEMMA TailIndex ==
    ASSUME NEW S, NEW s \in Seq(S), s # <<>>
    PROVE  /\ Tail(s) \in Seq(S)
           /\ Head(s) \in S /\ Head(s) = s[1]
           /\ Len(s) \in Nat \ {0}
           /\ DOMAIN s = 1..Len(s)
           /\ DOMAIN Tail(s) = 1..(Len(s) - 1)
           /\ \A i \in 1..(Len(s) - 1) : Tail(s)[i] = s[i + 1]
  OBVIOUS

\* The messages are told apart by their opcode.
LEMMA MessageKinds ==
    /\ \A m \in ServerMessage : m.op = "call" =>
          /\ m.request \in Request
          /\ m.from \in Sender
    /\ \A m \in ClientMessage : m.op = "boot" => m.name \in Name /\ m.value \in Value
    /\ \A m \in ClientMessage : m.op # "boot" =>
          /\ m.op \in {"save", "load", "commit"}
          /\ m.rc \in ReturnCode
          /\ m.value \in Value \cup {NoValue}
          /\ m.to \in Sender
  BY DEF ServerMessage, ClientMessage, Reply, BootEntry, BootAck

\* The server answers "ok" or "error", with a value for a successful load only,
\* and the store changes only where a save asks it to.
LEMMA ServedAnswers ==
    ASSUME NEW s \in Store, NEW r \in Request, NEW e \in Served(s, r)
    PROVE  /\ e[1] = [rc |-> e[1].rc, value |-> e[1].value]
           /\ e[1].rc \in {"ok", "error"}
           /\ e[1].value \in Value \cup {NoValue}
           /\ (r.op = "load" /\ e[1].rc = "ok") \/ e[1].value = NoValue
           /\ e[2] \in Store
           /\ r.op # "save" => e[2] = s
           /\ r.op \in {"save", "load", "commit"}
  <1>1. CASE r \in Saves
    BY <1>1 DEF Served, Failed, Succeeded, Store, Saves
  <1>2. CASE r \in Loads
    BY <1>2 DEF Served, Failed, Store, Loads
  <1>3. CASE r \in Commits
    BY <1>3 DEF Served, Failed, Succeeded, Store, Commits
  <1>. QED BY <1>1, <1>2, <1>3 DEF Request

-----------------------------------------------------------------------------
(* Type correctness. *)

\* The initial values have their types.
LEMMA InitType == Init => TypeOK
  <1>. SUFFICES ASSUME Init PROVE TypeOK
    OBVIOUS
  <1>1. [op |-> "commit"] \in Request
    BY DEF Request, Commits
  <1>2. NoAnswer \in Answer
    BY DEF NoAnswer, Answer
  <1>. QED BY <1>1, <1>2 DEF Init, TypeOK, Store

\* Every step keeps the types; the walk's entries have values because they
\* are stored.
LEMMA NextType == TypeOK /\ TodoStored /\ [Next]_vars => TypeOK'
  <1>. SUFFICES ASSUME TypeOK, TodoStored, [Next]_vars PROVE TypeOK'
    OBVIOUS
  <1>. USE DEF TypeOK, client, boot
  <1>1. ASSUME NEW t \in Caller, NEW r \in Request, Invoke(t, r) PROVE TypeOK'
    <2>1. NoAnswer \in Answer
      BY DEF NoAnswer, Answer
    <2>. QED BY <1>1, <2>1 DEF Invoke
  <1>2. ASSUME NEW t \in Caller, TakeBusy(t) PROVE TypeOK'
    BY <1>2 DEF TakeBusy
  <1>3. ASSUME NEW t \in Caller, Send(t) PROVE TypeOK'
    <2>1. [op |-> "call", request |-> req[t], from |-> t] \in ServerMessage
      BY DEF ServerMessage, Sender
    <2>2. toServer' \in Seq(ServerMessage)
      BY <1>3, <2>1, AppendIndex DEF Send
    <2>. QED BY <1>3, <2>2 DEF Send
  <1>4. ASSUME NEW t \in Caller, SendFails(t) PROVE TypeOK'
    <2>1. Unsent \in Answer
      BY DEF Unsent, Answer
    <2>. QED BY <1>4, <2>1 DEF SendFails
  <1>5. ASSUME NEW t \in Caller, TakeDone(t) PROVE TypeOK'
    BY <1>5 DEF TakeDone
  <1>6. ASSUME NEW t \in Caller, Finish(t) PROVE TypeOK'
    BY <1>6 DEF Finish
  <1>7. CASE ReceiveStatus
    <2>1. toClient' \in Seq(ClientMessage) /\ rc' \in ReturnCode
      BY <1>7, TailIndex, MessageKinds DEF ReceiveStatus
    <2>. QED BY <1>7, <2>1 DEF ReceiveStatus
  <1>8. CASE ReceiveLoad
    <2>1. /\ toClient' \in Seq(ClientMessage)
          /\ Head(toClient).rc \in ReturnCode
          /\ Head(toClient).value \in Value \cup {NoValue}
      BY <1>8, TailIndex, MessageKinds DEF ReceiveLoad
    <2>2. buffer' \in [Caller -> Value \cup {NoValue}]
      BY <1>8, <2>1 DEF ReceiveLoad
    <2>. QED BY <1>8, <2>1, <2>2 DEF ReceiveLoad
  <1>9. CASE ReceiveBootEntry
    <2>1. /\ toClient' \in Seq(ClientMessage)
          /\ Head(toClient).name \in Name
          /\ Head(toClient).value \in Value
      BY <1>9, TailIndex, MessageKinds DEF ReceiveBootEntry
    <2>2. BootAck \in ServerMessage
      BY DEF ServerMessage
    <2>3. Append(toServer, BootAck) \in Seq(ServerMessage)
      BY <2>2, AppendIndex
    <2>4. toServer' \in Seq(ServerMessage)
      BY <1>9, <2>3 DEF ReceiveBootEntry
    <2>5. staged' \in Store
      BY <1>9, <2>1 DEF ReceiveBootEntry, Store
    <2>. QED BY <1>9, <2>1, <2>4, <2>5 DEF ReceiveBootEntry
  <1>10. CASE ServeRequest
    <2>. DEFINE m == Head(toServer)
    <2>1. /\ m.request \in Request /\ m.from \in Sender
          /\ toServer' \in Seq(ServerMessage)
      BY <1>10, TailIndex, MessageKinds DEF ServeRequest
    <2>2. PICK e \in Served(store, m.request) :
            /\ store' = e[2]
            /\ answer' = [t \in Caller |-> IF t = m.from THEN e[1] ELSE answer[t]]
            /\ \/ toClient' = Append(toClient, [op |-> m.request.op, rc |-> e[1].rc,
                                                value |-> e[1].value, to |-> m.from])
               \/ UNCHANGED toClient
      BY <1>10 DEF ServeRequest
    <2>3. /\ e[1] = [rc |-> e[1].rc, value |-> e[1].value]
          /\ e[1].rc \in {"ok", "error"}
          /\ e[1].value \in Value \cup {NoValue}
          /\ e[2] \in Store
          /\ m.request.op \in {"save", "load", "commit"}
      BY <2>1, ServedAnswers
    <2>4. [op |-> m.request.op, rc |-> e[1].rc, value |-> e[1].value, to |-> m.from]
            \in ClientMessage
      BY <2>1, <2>3 DEF ClientMessage, Reply, ReturnCode
    <2>5. Append(toClient, [op |-> m.request.op, rc |-> e[1].rc,
                            value |-> e[1].value, to |-> m.from]) \in Seq(ClientMessage)
      BY <2>4, AppendIndex
    <2>6. toClient' \in Seq(ClientMessage)
      BY <2>2, <2>5
    <2>7. e[1] \in Answer
      BY <2>3 DEF Answer, ReturnCode
    <2>8. answer' \in [Caller -> Answer]
      BY <2>2, <2>7
    <2>. QED BY <1>10, <2>1, <2>2, <2>3, <2>6, <2>8 DEF ServeRequest
  <1>11. CASE ReceiveBootAck
    <2>1. toServer' \in Seq(ServerMessage)
      BY <1>11, TailIndex DEF ReceiveBootAck
    <2>. QED BY <1>11, <2>1 DEF ReceiveBootAck
  <1>12. CASE BootStart
    BY <1>12 DEF BootStart
  <1>13. ASSUME NEW n \in Name, BootSend(n) PROVE TypeOK'
    <2>1. store[n] \in Value
      BY <1>13 DEF BootSend, TodoStored, SettingsLocked
    <2>2. [op |-> "boot", name |-> n, value |-> store[n]] \in ClientMessage
      BY <2>1 DEF ClientMessage, BootEntry
    <2>3. toClient' \in Seq(ClientMessage)
      BY <1>13, <2>2, AppendIndex DEF BootSend
    <2>. QED BY <1>13, <2>3 DEF BootSend
  <1>14. CASE BootTakeDone
    BY <1>14 DEF BootTakeDone
  <1>15. CASE BootFinish
    BY <1>15 DEF BootFinish
  <1>16. CASE UNCHANGED vars
    BY <1>16 DEF vars
  <1>. QED
    BY <1>1, <1>2, <1>3, <1>4, <1>5, <1>6, <1>7, <1>8, <1>9, <1>10, <1>11, <1>12,
       <1>13, <1>14, <1>15, <1>16
    DEF Next, Call, ClientReceive, ServerReceive, Boot

-----------------------------------------------------------------------------
(* The inductive invariant. *)

\* The invariant holds before anybody calls: nothing is in flight.
LEMMA InitIInv == Init => IInv
  <1>. SUFFICES ASSUME Init PROVE IInv
    OBVIOUS
  <1>1. TypeOK
    BY InitType
  <1>2. CallsInFlight = {} /\ RepliesInFlight = {}
    BY DEF Init, CallsInFlight, RepliesInFlight
  <1>. QED
    BY <1>1, <1>2 DEF Init, IInv, CallExclusion, Inside, CallsOwned, RepliesOwned, OneCall,
       OneReply, NotBoth, DoneOwned, CallProgress, ReturnsOwnAnswer, TodoStored,
       SettingsLocked, NoAnswer

\* The parts of the invariant that say where requests, replies and done are.
Tokens == CallsOwned /\ RepliesOwned /\ OneCall /\ OneReply /\ NotBoth /\ DoneOwned

\* A step of one caller, alone between taking and giving busy.
LEMMA CallerStep ==
    ASSUME IInv, TypeOK', NEW t \in Caller,
           \/ \E r \in Request : Invoke(t, r)
           \/ TakeBusy(t) \/ SendFails(t) \/ TakeDone(t) \/ Finish(t)
    PROVE  IInv'
  <1>. USE DEF boot, client
  <1>. USE DEF IInv, TypeOK
  <1>1. CallsInFlight' = CallsInFlight /\ RepliesInFlight' = RepliesInFlight
    BY DEF Invoke, TakeBusy, SendFails, TakeDone, Finish, CallsInFlight, RepliesInFlight
  <1>2. TodoStored'
    BY DEF TodoStored, SettingsLocked, Invoke, TakeBusy, SendFails, TakeDone, Finish
  <1>3. ASSUME NEW r \in Request, Invoke(t, r) PROVE IInv'
    <2>1. CallExclusion'
      BY <1>3 DEF Invoke, CallExclusion, Inside
    <2>2. \A u \in Caller : phase[u] = "takeDone" =>
             u # t /\ phase'[u] = "takeDone" /\ req'[u] = req[u]
             /\ buffer'[u] = buffer[u] /\ answer'[u] = answer[u]
      BY <1>3 DEF Invoke
    <2>3. CallsOwned'
      BY <1>1, <1>3, <2>2 DEF Invoke, CallsOwned, CallOwned, Outstanding
    <2>4. RepliesOwned'
      BY <1>1, <1>3, <2>2 DEF Invoke, RepliesOwned, ReplyOwned, Outstanding
    <2>5. OneCall' /\ OneReply' /\ NotBoth'
      BY <1>1 DEF OneCall, OneReply, NotBoth
    <2>6. DoneOwned'
      <3>1. done' = done /\ rc' = rc
        BY <1>3 DEF Invoke
      <3>. QED BY <2>2, <3>1 DEF DoneOwned
    <2>7. CallProgress' /\ ReturnsOwnAnswer'
      BY <1>3 DEF Invoke, CallProgress, ReturnsOwnAnswer
    <2>. QED BY <1>2, <2>1, <2>3, <2>4, <2>5, <2>6, <2>7
  <1>4. CASE TakeBusy(t)
    <2>1. CallExclusion'
      BY <1>4 DEF TakeBusy, CallExclusion, Inside
    <2>2. CallsInFlight = {} /\ RepliesInFlight = {} /\ done = 0
      <3>1. \A u \in Caller : phase[u] # "takeDone"
        BY <1>4 DEF TakeBusy, CallExclusion, Inside
      <3>2. done # 1
        BY <3>1, Zenon DEF DoneOwned
      <3>3. ASSUME NEW i \in CallsInFlight PROVE FALSE
        BY <3>1, <3>3 DEF CallsOwned, CallOwned, Outstanding
      <3>4. ASSUME NEW i \in RepliesInFlight PROVE FALSE
        BY <3>1, <3>4 DEF RepliesOwned, ReplyOwned, Outstanding
      <3>. QED BY <3>2, <3>3, <3>4
    <2>3. Tokens'
      BY <1>1, <1>4, <2>2 DEF TakeBusy, Tokens, CallsOwned, RepliesOwned, OneCall, OneReply,
         NotBoth, DoneOwned
    <2>4. CallProgress' /\ ReturnsOwnAnswer'
      BY <1>4 DEF TakeBusy, CallProgress, ReturnsOwnAnswer, CallExclusion, Inside
    <2>. QED BY <1>2, <2>1, <2>3, <2>4 DEF Tokens
  <1>5. CASE SendFails(t)
    <2>1. CallExclusion'
      BY <1>5 DEF SendFails, CallExclusion, Inside
    <2>2. Tokens'
      BY <1>1, <1>5 DEF SendFails, CallExclusion, Inside, Tokens, CallsOwned, RepliesOwned,
         CallOwned, ReplyOwned, Outstanding, OneCall, OneReply, NotBoth, DoneOwned
    <2>3. CallProgress' /\ ReturnsOwnAnswer'
      BY <1>5 DEF SendFails, CallProgress, ReturnsOwnAnswer, Unsent
    <2>. QED BY <1>2, <2>1, <2>2, <2>3 DEF Tokens
  <1>6. CASE TakeDone(t)
    <2>1. CallExclusion'
      BY <1>6 DEF TakeDone, CallExclusion, Inside
    <2>2. CallsInFlight = {} /\ RepliesInFlight = {}
      BY <1>6 DEF TakeDone, CallsOwned, RepliesOwned, CallOwned, ReplyOwned, Outstanding
    <2>3. Tokens'
      BY <1>1, <1>6, <2>2 DEF TakeDone, Tokens, CallsOwned, RepliesOwned, OneCall, OneReply,
         NotBoth, DoneOwned
    <2>4. answer[t] = [rc |-> rc, value |-> buffer[t]] /\ ret[t] = "none"
      BY <1>6 DEF TakeDone, DoneOwned, CallExclusion, Inside, CallProgress
    <2>5. CallProgress' /\ ReturnsOwnAnswer'
      BY <1>6, <2>4 DEF TakeDone, CallExclusion, Inside, CallProgress, ReturnsOwnAnswer
    <2>. QED BY <1>2, <2>1, <2>3, <2>5 DEF Tokens
  <1>7. CASE Finish(t)
    <2>1. CallExclusion'
      BY <1>7 DEF Finish, CallExclusion, Inside
    <2>2. Tokens'
      BY <1>1, <1>7 DEF Finish, CallExclusion, Inside, Tokens, CallsOwned, RepliesOwned,
         CallOwned, ReplyOwned, Outstanding, OneCall, OneReply, NotBoth, DoneOwned
    <2>3. CallProgress' /\ ReturnsOwnAnswer'
      BY <1>7 DEF Finish, CallProgress, ReturnsOwnAnswer
    <2>. QED BY <1>2, <2>1, <2>2, <2>3 DEF Tokens
  <1>. QED BY <1>3, <1>4, <1>5, <1>6, <1>7

\* What is not a request or a reply may come and go on the links: as long as
\* each request and reply keeps its content, moving up by k or l places, every
\* part about them is kept.
LEMMA TokensKept ==
    ASSUME IInv, TypeOK', UNCHANGED client, UNCHANGED answer,
           NEW k \in {0, 1}, NEW l \in {0, 1},
           \A i \in CallsInFlight' : i + k \in CallsInFlight /\ toServer'[i] = toServer[i + k],
           \A i \in RepliesInFlight' : i + l \in RepliesInFlight /\ toClient'[i] = toClient[i + l]
    PROVE  Tokens'
  <1>1. CallsInFlight' \subseteq Nat /\ RepliesInFlight' \subseteq Nat
    BY DEF TypeOK, CallsInFlight, RepliesInFlight
  <1>2. CallsOwned'
    <2>. SUFFICES ASSUME NEW i \in CallsInFlight' PROVE CallOwned(toServer[i])'
      BY DEF CallsOwned
    <2>1. CallOwned(toServer[i + k])
      BY DEF IInv, CallsOwned
    <2>. QED BY <2>1 DEF CallOwned, Outstanding, client
  <1>3. RepliesOwned'
    <2>. SUFFICES ASSUME NEW i \in RepliesInFlight' PROVE ReplyOwned(toClient[i])'
      BY DEF RepliesOwned
    <2>1. ReplyOwned(toClient[i + l])
      BY DEF IInv, RepliesOwned
    <2>. QED BY <2>1 DEF ReplyOwned, Outstanding, client
  <1>4. OneCall' /\ OneReply'
    BY <1>1 DEF IInv, OneCall, OneReply
  <1>5. NotBoth'
    BY DEF IInv, NotBoth
  <1>6. DoneOwned'
    BY Zenon DEF IInv, DoneOwned, client
  <1>. QED BY <1>2, <1>3, <1>4, <1>5, <1>6 DEF Tokens

\* What the callers know depends on their own state alone.
LEMMA CallersKept ==
    ASSUME IInv, UNCHANGED client, UNCHANGED answer
    PROVE  CallExclusion' /\ CallProgress' /\ ReturnsOwnAnswer'
  BY DEF IInv, client, CallExclusion, Inside, CallProgress, ReturnsOwnAnswer

\* The steps of the start-up walk leave the calls alone.
LEMMA WalkStep ==
    ASSUME IInv, TypeOK',
           \/ ReceiveBootEntry \/ ReceiveBootAck
           \/ BootStart \/ (\E n \in Name : BootSend(n)) \/ BootTakeDone \/ BootFinish
    PROVE  IInv'
  <1>. USE DEF boot
  <1>. SUFFICES Tokens' /\ TodoStored'
    <2>1. UNCHANGED client /\ UNCHANGED answer
      BY DEF ReceiveBootEntry, ReceiveBootAck, BootStart, BootSend, BootTakeDone, BootFinish
    <2>. QED BY <2>1, CallersKept DEF IInv, Tokens
  <1>1. CASE ReceiveBootEntry
    <2>1. \A i \in RepliesInFlight' : i + 1 \in RepliesInFlight
                                        /\ toClient'[i] = toClient[i + 1]
      BY <1>1, TailIndex DEF IInv, TypeOK, ReceiveBootEntry, RepliesInFlight
    <2>2. \A i \in CallsInFlight' : i + 0 \in CallsInFlight /\ toServer'[i] = toServer[i + 0]
      <3>1. CASE UNCHANGED toServer
        BY <3>1 DEF IInv, TypeOK, CallsInFlight
      <3>2. CASE toServer' = Append(toServer, BootAck)
        <4>1. BootAck \in ServerMessage /\ BootAck.op = "boot"
          BY DEF ServerMessage, BootAck
        <4>. QED BY <3>2, <4>1, AppendIndex DEF IInv, TypeOK, CallsInFlight
      <3>. QED BY <1>1, <3>1, <3>2 DEF ReceiveBootEntry
    <2>3. UNCHANGED client /\ UNCHANGED answer
      BY <1>1 DEF ReceiveBootEntry
    <2>4. Tokens'
      BY <2>1, <2>2, <2>3, TokensKept
    <2>. QED BY <1>1, <2>4 DEF ReceiveBootEntry, IInv, TodoStored, SettingsLocked
  <1>2. CASE ReceiveBootAck
    <2>1. \A i \in CallsInFlight' : i + 1 \in CallsInFlight /\ toServer'[i] = toServer[i + 1]
      BY <1>2, TailIndex DEF IInv, TypeOK, ReceiveBootAck, CallsInFlight
    <2>2. \A i \in RepliesInFlight' : i + 0 \in RepliesInFlight
                                        /\ toClient'[i] = toClient[i + 0]
      BY <1>2 DEF IInv, TypeOK, ReceiveBootAck, RepliesInFlight
    <2>3. UNCHANGED client /\ UNCHANGED answer
      BY <1>2 DEF ReceiveBootAck
    <2>4. Tokens'
      BY <2>1, <2>2, <2>3, TokensKept
    <2>. QED BY <1>2, <2>4 DEF ReceiveBootAck, IInv, TodoStored, SettingsLocked
  <1>3. ASSUME NEW n \in Name, BootSend(n) PROVE Tokens' /\ TodoStored'
    <2>1. \A i \in RepliesInFlight' : i + 0 \in RepliesInFlight
                                        /\ toClient'[i] = toClient[i + 0]
      <3>. DEFINE m == [op |-> "boot", name |-> n, value |-> store[n]]
      <3>1. m \in ClientMessage /\ m.op = "boot"
        BY <1>3 DEF BootSend, IInv, TodoStored, SettingsLocked, ClientMessage, BootEntry
      <3>. HIDE DEF m
      <3>. QED BY <1>3, <3>1, AppendIndex DEF IInv, TypeOK, BootSend, RepliesInFlight, m
    <2>2. \A i \in CallsInFlight' : i + 0 \in CallsInFlight /\ toServer'[i] = toServer[i + 0]
      BY <1>3 DEF IInv, TypeOK, BootSend, CallsInFlight
    <2>3. UNCHANGED client /\ UNCHANGED answer
      BY <1>3 DEF BootSend
    <2>4. Tokens'
      BY <2>1, <2>2, <2>3, TokensKept
    <2>. QED BY <1>3, <2>4 DEF BootSend, IInv, TodoStored, SettingsLocked
  <1>4. CASE BootStart \/ BootTakeDone \/ BootFinish
    <2>1. UNCHANGED client /\ UNCHANGED answer /\ UNCHANGED <<toServer, toClient, store>>
      BY <1>4 DEF BootStart, BootTakeDone, BootFinish
    <2>2. /\ \A i \in CallsInFlight' : i + 0 \in CallsInFlight /\ toServer'[i] = toServer[i + 0]
          /\ \A i \in RepliesInFlight' : i + 0 \in RepliesInFlight
                                           /\ toClient'[i] = toClient[i + 0]
      BY <2>1 DEF IInv, TypeOK, CallsInFlight, RepliesInFlight
    <2>3. Tokens'
      BY <2>1, <2>2, TokensKept
    <2>4. TodoStored'
      BY <1>4, <2>1 DEF BootStart, BootTakeDone, BootFinish, IInv, TypeOK, Store,
         TodoStored, SettingsLocked
    <2>. QED BY <2>3, <2>4
  <1>. QED BY <1>1, <1>2, <1>3, <1>4

\* A caller sends its request: it is alone inside, so nothing else is in flight.
LEMMA SendStep ==
    ASSUME IInv, TypeOK', NEW t \in Caller, Send(t)
    PROVE  IInv'
  <1>. USE DEF IInv, TypeOK
  <1>. PICK m : m = [op |-> "call", request |-> req[t], from |-> t]
    OBVIOUS
  <1>1. \A u \in Caller : phase[u] # "takeDone"
    BY DEF Send, CallExclusion, Inside
  <1>2. done # 1
    BY <1>1, Zenon DEF DoneOwned
  <1>3. ASSUME NEW i \in CallsInFlight PROVE FALSE
    BY <1>1, <1>3 DEF CallsOwned, CallOwned, Outstanding
  <1>4. ASSUME NEW i \in RepliesInFlight PROVE FALSE
    BY <1>1, <1>4 DEF RepliesOwned, ReplyOwned, Outstanding
  <1>5. RepliesInFlight' = {}
    BY <1>4 DEF Send, RepliesInFlight
  <1>6. \A i \in CallsInFlight' : i = Len(toServer) + 1 /\ toServer'[i] = m
    <2>1. m \in ServerMessage
      BY DEF ServerMessage, Sender
    <2>. QED BY <1>3, <2>1, AppendIndex DEF Send, CallsInFlight
  <1>7. CallOwned(m)'
    <2>1. /\ phase'[t] = "takeDone" /\ buffer'[t] = NoValue /\ done' = 0
          /\ req'[t] = req[t] /\ answer'[t] = NoAnswer
      BY <1>2 DEF Send, CallProgress
    <2>2. req[t].op = "load" => loadPointer' = t
      BY DEF Send, CallProgress
    <2>. QED BY <2>1, <2>2 DEF CallOwned, Outstanding
  <1>8. CallsOwned'
    <2>. SUFFICES ASSUME NEW i \in CallsInFlight' PROVE CallOwned(toServer[i])'
      BY DEF CallsOwned
    <2>. QED BY <1>6, <1>7 DEF CallOwned, Outstanding
  <1>9. RepliesOwned' /\ OneCall' /\ OneReply' /\ NotBoth'
    BY <1>5, <1>6 DEF RepliesOwned, OneCall, OneReply, NotBoth
  <1>10. DoneOwned'
    BY <1>2 DEF Send, DoneOwned
  <1>11. CallExclusion'
    BY DEF Send, CallExclusion, Inside
  <1>12. CallProgress' /\ ReturnsOwnAnswer'
    BY DEF Send, CallProgress, ReturnsOwnAnswer
  <1>13. TodoStored'
    BY DEF Send, boot, TodoStored, SettingsLocked
  <1>. QED BY <1>8, <1>9, <1>10, <1>11, <1>12, <1>13

\* The client receives the reply in flight, the only one: rc and the buffer of
\* the caller that waits take its answer, and done is given.
LEMMA ReplyStep ==
    ASSUME IInv, TypeOK', ReceiveStatus \/ ReceiveLoad
    PROVE  IInv'
  <1>. USE DEF IInv, TypeOK
  <1>. DEFINE m == Head(toClient)
  <1>. DEFINE t == m.to
  <1>1. /\ toClient # <<>> /\ toClient' = Tail(toClient) /\ m.op # "boot"
        /\ rc' = m.rc /\ done' = 1
        /\ UNCHANGED <<phase, req, ret, busy, toServer, store, boot, answer>>
    BY DEF ReceiveStatus, ReceiveLoad
  <1>2. 1 \in RepliesInFlight /\ toClient[1] = m
    BY <1>1, TailIndex DEF RepliesInFlight
  <1>3. ReplyOwned(m)
    BY <1>2 DEF RepliesOwned
  <1>4. CallsInFlight' = {}
    BY <1>1, <1>2 DEF NotBoth, CallsInFlight
  <1>5. RepliesInFlight' = {}
    <2>. SUFFICES ASSUME NEW i \in RepliesInFlight' PROVE FALSE
      OBVIOUS
    <2>1. i \in Nat \ {0} /\ i + 1 \in RepliesInFlight
      BY <1>1, TailIndex DEF RepliesInFlight
    <2>. QED BY <1>2, <2>1 DEF OneReply
  <1>6. /\ t \in Caller /\ phase[t] = "takeDone" /\ buffer[t] = NoValue
        /\ answer[t] = [rc |-> m.rc, value |-> m.value]
    BY <1>3 DEF ReplyOwned, Outstanding
  <1>7. buffer'[t] = m.value /\ \A u \in Caller \ {t} : buffer'[u] = buffer[u]
    <2>1. CASE ReceiveStatus
      BY <1>3, <1>6, <2>1 DEF ReceiveStatus, ReplyOwned
    <2>2. CASE ReceiveLoad
      BY <1>3, <1>6, <2>2 DEF ReceiveLoad, ReplyOwned
    <2>. QED BY <2>1, <2>2
  <1>8. \A u \in Caller \ {t} : phase[u] \in {"idle", "takeBusy"}
    BY <1>6 DEF CallExclusion, Inside
  <1>9. DoneOwned'
    BY <1>1, <1>6, <1>7 DEF DoneOwned
  <1>10. CallsOwned' /\ RepliesOwned' /\ OneCall' /\ OneReply' /\ NotBoth'
    BY <1>4, <1>5 DEF CallsOwned, RepliesOwned, OneCall, OneReply, NotBoth
  <1>11. CallExclusion'
    BY <1>1 DEF CallExclusion, Inside
  <1>12. CallProgress' /\ ReturnsOwnAnswer'
    BY <1>1, <1>6, <1>7, <1>8 DEF CallProgress, ReturnsOwnAnswer
  <1>13. TodoStored'
    BY <1>1 DEF boot, TodoStored, SettingsLocked
  <1>. QED BY <1>9, <1>10, <1>11, <1>12, <1>13

\* The server takes the request in flight, the only one, and answers it.
LEMMA ServeStep ==
    ASSUME IInv, TypeOK', ServeRequest
    PROVE  IInv'
  <1>. USE DEF IInv, TypeOK
  <1>. DEFINE m == Head(toServer)
  <1>. DEFINE t == m.from
  <1>1. /\ toServer # <<>> /\ toServer' = Tail(toServer) /\ m.op = "call"
        /\ UNCHANGED client /\ UNCHANGED boot
    BY DEF ServeRequest
  <1>2. 1 \in CallsInFlight /\ toServer[1] = m /\ m.request \in Request
    BY <1>1, TailIndex, MessageKinds DEF CallsInFlight
  <1>3. CallOwned(m)
    BY <1>2 DEF CallsOwned
  <1>4. CallsInFlight' = {}
    <2>. SUFFICES ASSUME NEW i \in CallsInFlight' PROVE FALSE
      OBVIOUS
    <2>1. i \in Nat \ {0} /\ i + 1 \in CallsInFlight
      BY <1>1, TailIndex DEF CallsInFlight
    <2>. QED BY <1>2, <2>1 DEF OneCall
  <1>5. RepliesInFlight = {}
    BY <1>2 DEF NotBoth
  <1>6. PICK e \in Served(store, m.request) :
          /\ store' = e[2]
          /\ answer' = [u \in Caller |-> IF u = t THEN e[1] ELSE answer[u]]
          /\ \/ toClient' = Append(toClient, [op |-> m.request.op, rc |-> e[1].rc,
                                              value |-> e[1].value, to |-> t])
             \/ UNCHANGED toClient
    BY DEF ServeRequest
  <1>7. /\ e[1] = [rc |-> e[1].rc, value |-> e[1].value]
        /\ e[1].rc \in {"ok", "error"}
        /\ e[1].value \in Value \cup {NoValue}
        /\ (m.request.op = "load" /\ e[1].rc = "ok") \/ e[1].value = NoValue
        /\ m.request.op # "save" => e[2] = store
        /\ m.request.op \in {"save", "load", "commit"}
    BY <1>2, ServedAnswers
  <1>. PICK reply :
         reply = [op |-> m.request.op, rc |-> e[1].rc, value |-> e[1].value, to |-> t]
    OBVIOUS
  <1>8. /\ t \in Caller /\ phase[t] = "takeDone" /\ buffer[t] = NoValue /\ done = 0
        /\ m.request.op = "load" => loadPointer = t
    BY <1>3 DEF CallOwned, Outstanding
  <1>9. ReplyOwned(reply)'
    <2>1. answer'[reply.to] = [rc |-> reply.rc, value |-> reply.value]
      BY <1>6, <1>7, <1>8
    <2>. QED BY <1>1, <1>7, <1>8, <2>1 DEF ReplyOwned, Outstanding, client
  <1>10. \A i \in RepliesInFlight' : i = Len(toClient) + 1 /\ toClient'[i] = reply
    <2>1. CASE UNCHANGED toClient
      BY <1>5, <2>1 DEF RepliesInFlight
    <2>2. CASE toClient' = Append(toClient, reply)
      <3>1. reply \in ClientMessage
        BY <1>7, <1>8 DEF ClientMessage, Reply, ReturnCode, Sender
      <3>. QED BY <1>5, <2>2, <3>1, AppendIndex DEF RepliesInFlight
    <2>. QED BY <1>6, <2>1, <2>2
  <1>11. RepliesOwned'
    <2>. SUFFICES ASSUME NEW i \in RepliesInFlight' PROVE ReplyOwned(toClient[i])'
      BY DEF RepliesOwned
    <2>. QED BY <1>9, <1>10 DEF ReplyOwned, Outstanding
  <1>12. CallsOwned' /\ OneCall' /\ OneReply' /\ NotBoth'
    BY <1>4, <1>10 DEF CallsOwned, OneCall, OneReply, NotBoth
  <1>13. DoneOwned'
    BY <1>1, <1>8 DEF client, DoneOwned
  <1>14. CallExclusion'
    BY <1>1 DEF client, CallExclusion, Inside
  <1>15. CallProgress' /\ ReturnsOwnAnswer'
    <2>1. \A u \in Caller : phase[u] # "takeDone" => answer'[u] = answer[u]
      BY <1>6, <1>8
    <2>. QED BY <1>1, <2>1 DEF client, CallProgress, ReturnsOwnAnswer
  <1>16. TodoStored'
    <2>1. SettingsLocked => store' = store
      BY <1>6, <1>7 DEF ServeRequest
    <2>. QED BY <1>1, <2>1 DEF boot, TodoStored, SettingsLocked
  <1>. QED BY <1>11, <1>12, <1>13, <1>14, <1>15, <1>16

\* Every step keeps the inductive invariant.
LEMMA NextIInv == IInv /\ [Next]_vars => IInv'
  <1>. SUFFICES ASSUME IInv, [Next]_vars PROVE IInv'
    OBVIOUS
  <1>1. TypeOK'
    BY NextType DEF IInv
  <1>2. ASSUME NEW t \in Caller, \E r \in Request : Invoke(t, r) PROVE IInv'
    BY <1>1, <1>2, CallerStep
  <1>3. ASSUME NEW t \in Caller, TakeBusy(t) PROVE IInv'
    BY <1>1, <1>3, CallerStep
  <1>4. ASSUME NEW t \in Caller, Call(t) PROVE IInv'
    BY <1>1, <1>4, CallerStep, SendStep DEF Call
  <1>5. CASE ClientReceive
    BY <1>1, <1>5, ReplyStep, WalkStep DEF ClientReceive
  <1>6. CASE ServerReceive
    BY <1>1, <1>6, ServeStep, WalkStep DEF ServerReceive
  <1>7. CASE Boot
    BY <1>1, <1>7, WalkStep DEF Boot
  <1>8. CASE UNCHANGED vars
    <2>1. /\ UNCHANGED client /\ UNCHANGED answer
          /\ UNCHANGED <<toServer, toClient, store, bootPhase, bootTodo>>
      BY <1>8 DEF vars, boot
    <2>2. /\ \A i \in CallsInFlight' : i + 0 \in CallsInFlight /\ toServer'[i] = toServer[i + 0]
          /\ \A i \in RepliesInFlight' : i + 0 \in RepliesInFlight
                                           /\ toClient'[i] = toClient[i + 0]
      BY <2>1 DEF IInv, TypeOK, CallsInFlight, RepliesInFlight
    <2>3. Tokens'
      BY <1>1, <2>1, <2>2, TokensKept
    <2>4. TodoStored'
      BY <2>1 DEF IInv, TodoStored, SettingsLocked
    <2>. QED BY <1>1, <2>1, <2>3, <2>4, CallersKept DEF IInv, Tokens
  <1>. QED BY <1>2, <1>3, <1>4, <1>5, <1>6, <1>7, <1>8 DEF Next

-----------------------------------------------------------------------------
(* The theorems. *)

\* The inductive invariant holds in every reachable state, for any callers,
\* names, values and faults.
THEOREM Invariance == Spec => []IInv
  BY InitIInv, NextIInv, PTL DEF Spec

\* Every variable keeps its type, whatever the callers do.
THEOREM TypeCorrect == Spec => []TypeOK
  <1>1. IInv => TypeOK
    BY DEF IInv
  <1>. QED BY <1>1, Invariance, PTL

\* Whatever the number of callers, one at a time is inside a call.
THEOREM Exclusion == Spec => []CallExclusion
  <1>1. IInv => CallExclusion
    BY DEF IInv
  <1>. QED BY <1>1, Invariance, PTL

\* No caller is ever given the code or the value of another's request, or has
\* its buffer written after its call has returned, even when messages are lost.
THEOREM OwnAnswer == Spec => []ReturnsOwnAnswer
  <1>1. IInv => ReturnsOwnAnswer
    BY DEF IInv
  <1>. QED BY <1>1, Invariance, PTL

\* The null check that the load callback leaves as a comment is never needed:
\* a load's reply finds the buffer of the caller that waits for it.
THEOREM LoadTargetCorrect == Spec => []LoadTarget
  <1>1. IInv => LoadTarget
    BY DEF IInv, RepliesOwned, ReplyOwned, Outstanding, LoadTarget
  <1>. QED BY <1>1, Invariance, PTL

-----------------------------------------------------------------------------
(* IpcSettings implements RemoteCall. *)

\* A code is in rc from the first reply on: done is given for it, and who has
\* taken done, or could not send, has an answer.
CodeThere ==
    /\ done = 1 => rc \in ReturnCode
    /\ \A t \in Caller : phase[t] = "finish" => ret[t] = "unsent" \/ rc \in ReturnCode

SimInv == IInv /\ CodeThere

\* The start of a call, its step on the server, its refusal and its return are
\* the steps of RemoteCall, for a caller at that place.
LEMMA InvokeSimulates ==
    ASSUME SimInv, NEW t \in Caller, NEW r \in Request, Invoke(t, r)
    PROVE  Abstract!Invoke(t, r)
  BY DEF Invoke, Abstract!Invoke, SimInv, IInv, TypeOK

LEMMA SendFailsSimulates ==
    ASSUME SimInv, NEW t \in Caller, SendFails(t)
    PROVE  Abstract!Refuse(t)
  BY DEF SendFails, Abstract!Refuse, SimInv, IInv, TypeOK, CallProgress, Unsent, NoAnswer

LEMMA FinishSimulates ==
    ASSUME SimInv, NEW t \in Caller, Finish(t)
    PROVE  Abstract!Return(t)
  <1>1. answer[t] = [rc |-> IF ret[t] = "unsent" THEN "unsent" ELSE rc, value |-> buffer[t]]
    BY DEF Finish, SimInv, IInv, CallProgress
  <1>2. answer[t] # NoAnswer
    BY <1>1 DEF Finish, SimInv, CodeThere, NoAnswer, ReturnCode
  <1>. QED BY <1>1, <1>2 DEF Finish, Abstract!Return, SimInv, IInv, TypeOK, NoAnswer

\* The server's step is the single instant at which the call takes effect: its
\* caller still waits, nothing was made of this request before, and the
\* request is the one the caller made.
LEMMA ServeSimulates ==
    ASSUME SimInv, ServeRequest
    PROVE  \E t \in Caller : Abstract!Execute(t)
  <1>. DEFINE m == Head(toServer)
  <1>1. /\ toServer \in Seq(ServerMessage) /\ store \in Store
        /\ req \in [Caller -> Request] /\ answer \in [Caller -> Answer]
        /\ phase \in [Caller -> {"idle", "takeBusy", "send", "takeDone", "finish"}]
    BY DEF SimInv, IInv, TypeOK
  <1>2. toServer # <<>> /\ m.op = "call" /\ UNCHANGED client
    BY DEF ServeRequest
  <1>3. m = toServer[1] /\ 1 \in CallsInFlight /\ m.request \in Request
    BY <1>1, <1>2, TailIndex, MessageKinds DEF CallsInFlight
  <1>. PICK t : t = m.from
    OBVIOUS
  <1>4. /\ t \in Caller /\ phase[t] = "takeDone" /\ answer[t] = NoAnswer
        /\ req[t] = m.request
    BY <1>3 DEF SimInv, IInv, CallsOwned, CallOwned, Outstanding
  <1>5. PICK e \in Served(store, req[t]) :
          /\ store' = e[2]
          /\ answer' = [u \in Caller |-> IF u = t THEN e[1] ELSE answer[u]]
    BY <1>4 DEF ServeRequest
  <1>6. e[1] # NoAnswer
    <2>1. e[1].rc \in {"ok", "error"}
      BY <1>1, <1>3, <1>4, ServedAnswers
    <2>. QED BY <2>1 DEF NoAnswer
  <1>. HIDE DEF m
  <1>7. answer' = [answer EXCEPT ![t] = e[1]]
    BY <1>1, <1>5
  <1>8. Abstract!Execute(t)
    BY <1>1, <1>2, <1>4, <1>5, <1>6, <1>7 DEF Abstract!Execute, client
  <1>. QED BY <1>4, <1>8

\* The receive thread writes no buffer but that of the caller that waits.
LEMMA ReceiveStutters ==
    ASSUME SimInv, ReceiveStatus \/ ReceiveLoad
    PROVE  UNCHANGED Abstract!vars
  <1>1. /\ UNCHANGED <<phase, req, ret, store, answer>>
    BY DEF ReceiveStatus, ReceiveLoad
  <1>2. \A t \in Caller : phase[t] = "idle" => buffer'[t] = buffer[t]
    <2>1. CASE ReceiveStatus
      BY <2>1 DEF ReceiveStatus
    <2>2. CASE ReceiveLoad
      <3>. DEFINE m == Head(toClient)
      <3>1. 1 \in RepliesInFlight /\ m = toClient[1] /\ m.op = "load"
        BY <2>2, TailIndex DEF ReceiveLoad, SimInv, IInv, TypeOK, RepliesInFlight
      <3>2. loadPointer = m.to /\ phase[m.to] = "takeDone"
        BY <3>1 DEF SimInv, IInv, RepliesOwned, ReplyOwned, Outstanding
      <3>. QED BY <2>2, <3>2 DEF ReceiveLoad
    <2>. QED BY <2>1, <2>2
  <1>. QED BY <1>1, <1>2 DEF Abstract!vars

\* Waiting for busy, sending and waiting for done, the walk and the messages
\* of either change nothing a caller can see.
LEMMA OthersStutter ==
    ASSUME SimInv,
           \/ \E t \in Caller : TakeBusy(t) \/ Send(t) \/ TakeDone(t)
           \/ ReceiveBootEntry \/ ReceiveBootAck \/ Boot \/ UNCHANGED vars
    PROVE  UNCHANGED Abstract!vars
  <1>1. /\ UNCHANGED <<req, ret, buffer, store, answer>>
        /\ \A t \in Caller : phase'[t] = "idle" <=> phase[t] = "idle"
    BY DEF TakeBusy, Send, TakeDone, ReceiveBootEntry, ReceiveBootAck, Boot, BootStart,
       BootSend, BootTakeDone, BootFinish, vars, client, SimInv, IInv, TypeOK
  <1>. QED BY <1>1 DEF Abstract!vars

\* A code, once it is in rc, is only replaced by another.
LEMMA NextCodeThere ==
    ASSUME IInv, CodeThere, [Next]_vars
    PROVE  CodeThere'
  <1>1. rc' = rc \/ rc' \in ReturnCode
    <2>1. CASE ReceiveStatus \/ ReceiveLoad
      BY <2>1, TailIndex, MessageKinds DEF ReceiveStatus, ReceiveLoad, IInv, TypeOK
    <2>2. CASE ~(ReceiveStatus \/ ReceiveLoad)
      BY <2>2 DEF Next, Call, ClientReceive, ServerReceive, Boot, vars, client, Invoke,
         TakeBusy, Send, SendFails, TakeDone, Finish, ReceiveBootEntry, ServeRequest,
         ReceiveBootAck, BootStart, BootSend, BootTakeDone, BootFinish
    <2>. QED BY <2>1, <2>2
  <1>2. done' = 1 => done = 1 \/ rc' \in ReturnCode
    <2>1. CASE ReceiveStatus \/ ReceiveLoad
      BY <2>1, TailIndex, MessageKinds DEF ReceiveStatus, ReceiveLoad, IInv, TypeOK
    <2>2. CASE ~(ReceiveStatus \/ ReceiveLoad)
      BY <2>2 DEF Next, Call, ClientReceive, ServerReceive, Boot, vars, client, Invoke,
         TakeBusy, Send, SendFails, TakeDone, Finish, ReceiveBootEntry, ServeRequest,
         ReceiveBootAck, BootStart, BootSend, BootTakeDone, BootFinish
    <2>. QED BY <2>1, <2>2
  <1>3. \A t \in Caller : phase'[t] = "finish" =>
           \/ phase[t] = "finish" /\ ret'[t] = ret[t]
           \/ done = 1 \/ ret'[t] = "unsent"
    BY DEF Next, Call, ClientReceive, ServerReceive, Boot, vars, client, Invoke,
       TakeBusy, Send, SendFails, TakeDone, Finish, ReceiveStatus, ReceiveLoad,
       ReceiveBootEntry, ServeRequest, ReceiveBootAck, BootStart, BootSend, BootTakeDone,
       BootFinish, IInv, TypeOK
  <1>. QED BY <1>1, <1>2, <1>3 DEF CodeThere

\* Whatever the number of callers, the interleaving and the messages lost, the
\* two halves of the settings service together are a linearizable object: a
\* call takes effect on the store at most once, between its invocation and its
\* return, and returns the outcome of that effect (ipc_settings.c).
THEOREM Linearizable == Spec => ImplementsRemoteCall
  <1>1. Init => Abstract!Init
    <2>. SUFFICES ASSUME Init PROVE Abstract!Init
      OBVIOUS
    <2>1. store \in Store /\ req \in [Caller -> Request]
      BY InitType DEF TypeOK
    <2>. QED BY <2>1 DEF Init, Abstract!Init, NoAnswer
  <1>2. Init => SimInv
    BY InitIInv DEF Init, SimInv, CodeThere
  <1>3. SimInv /\ [Next]_vars => SimInv'
    BY NextIInv, NextCodeThere DEF SimInv
  <1>4. SimInv /\ [Next]_vars => [Abstract!Next]_(Abstract!vars)
    <2>. SUFFICES ASSUME SimInv, [Next]_vars PROVE Abstract!Next \/ UNCHANGED Abstract!vars
      OBVIOUS
    <2>1. ASSUME NEW t \in Caller, NEW r \in Request, Invoke(t, r) PROVE Abstract!Next
      BY <2>1, InvokeSimulates DEF Abstract!Next
    <2>2. ASSUME NEW t \in Caller, SendFails(t) PROVE Abstract!Next
      BY <2>2, SendFailsSimulates DEF Abstract!Next
    <2>3. ASSUME NEW t \in Caller, Finish(t) PROVE Abstract!Next
      BY <2>3, FinishSimulates DEF Abstract!Next
    <2>4. CASE ServeRequest
      BY <2>4, ServeSimulates DEF Abstract!Next
    <2>5. CASE ReceiveStatus \/ ReceiveLoad
      BY <2>5, ReceiveStutters
    <2>6. CASE \/ \E t \in Caller : TakeBusy(t) \/ Send(t) \/ TakeDone(t)
               \/ ReceiveBootEntry \/ ReceiveBootAck \/ Boot \/ UNCHANGED vars
      BY <2>6, OthersStutter
    <2>. QED BY <2>1, <2>2, <2>3, <2>4, <2>5, <2>6 DEF Next, Call, ClientReceive, ServerReceive
  <1>. QED BY <1>1, <1>2, <1>3, <1>4, PTL DEF Spec, ImplementsRemoteCall, Abstract!Spec
=============================================================================
