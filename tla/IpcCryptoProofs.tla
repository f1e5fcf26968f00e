-------------------------- MODULE IpcCryptoProofs --------------------------
(***************************************************************************)
(* Theorems about IpcCrypto, for every set of callers and keys, any size   *)
(* of the key store and of the heap, whether calls are paired or not and   *)
(* whichever sends fail.                                                   *)
(***************************************************************************)
EXTENDS IpcCrypto, TLAPS

\* One call at a time is between taking busy and giving it back.
Inside(t) == phase[t] \in {"send", "takeDone", "finish"}

CallExclusion ==
    /\ \A t, u \in Caller : Inside(t) /\ Inside(u) => t = u
    /\ busy = 0 <=> \E t \in Caller : Inside(t)

\* t waits for the server, which has not written to its memory.
Waits(t) == t \in Caller /\ phase[t] = "takeDone" /\ result[t] = NoKey

\* A request on its way is alone: nothing else is on either link or given.
RequestOwned ==
    toServer # <<>> =>
        LET m == Head(toServer)
        IN  /\ Tail(toServer) = <<>> /\ toClient = <<>> /\ done = 0
            /\ Waits(m.from)
            /\ req[m.from] = m.request
            /\ answer[m.from] = NoAnswer
            /\ m.request.op \in Kind => loadPointer = m.from

\* So is a reply.
ReplyOwned ==
    toClient # <<>> =>
        LET m == Head(toClient)
        IN  /\ Tail(toClient) = <<>> /\ done = 0
            /\ Waits(m.to)
            /\ answer[m.to] = [rc |-> m.rc, value |-> m.value]
            /\ m.op \in Kind => loadPointer = m.to
            /\ (m.op \in Kind /\ m.rc = "ok") \/ m.value = NoKey

\* done is given to the caller that waits, when rc and its memory hold the
\* server's answer.
DoneOwned ==
    done = 1 =>
        \E t \in Caller :
            /\ phase[t] = "takeDone"
            /\ answer[t] = [rc |-> rc, value |-> result[t]]
            /\ answer[t] # NoAnswer

\* What each caller knows at each place of its call.
CallProgress ==
    \A t \in Caller :
        /\ phase[t] \in {"takeBusy", "send"} => answer[t] = NoAnswer /\ result[t] = NoKey
        /\ phase[t] \in {"takeBusy", "send", "takeDone"} => ret[t] = "none"
        /\ phase[t] = "send" /\ req[t].op \in Kind => loadPointer = t
        /\ phase[t] = "finish" =>
              /\ answer[t] = [rc |-> IF ret[t] = "unsent" THEN "unsent" ELSE rc,
                              value |-> result[t]]
              /\ answer[t] # NoAnswer
        /\ phase[t] = "idle" => answer[t] = [rc |-> ret[t], value |-> result[t]]

CallInv ==
    /\ TypeOK
    /\ CallExclusion
    /\ RequestOwned
    /\ ReplyOwned
    /\ DoneOwned
    /\ CallProgress

\* Of paired calls, only the caller that has the session is in a call; between
\* the two calls of its session it has set a key.
Sessions ==
    /\ ~paired => session = NULL
    /\ paired => \A t \in Caller : phase[t] # "idle" => session = t
    /\ \A t \in Caller :
          session = t /\ phase[t] = "idle" => req[t].op = "set_key" /\ answer[t].rc = "ok"

\* The key t has set is there and not used yet.
Holding(t) ==
    \/ req[t].op = "set_key" /\ answer[t].rc = "ok"
    \/ req[t].op \in Kind /\ answer[t] = NoAnswer

\* In a session the keys are those of the operations that could not be sent and
\* those that could not be destroyed, and the key of the session from the moment
\* it is set to its use.
KeysCounted ==
    paired =>
        \/ /\ session = NULL
           /\ Live(keys) = orphans + kept
        \/ /\ session \in Caller /\ Holding(session)
           /\ Live(keys) = orphans + kept + 1
           /\ keys.slot \in ImportedKey
           /\ keys.slot.key = own[session]
        \/ /\ session \in Caller /\ ~Holding(session)
           /\ Live(keys) = orphans + kept

\* What an operation brought back was computed under its caller's own key.
AnswersUnderOwnKey ==
    paired =>
        \A t \in Caller :
            req[t].op \in Kind /\ answer[t].rc = "ok" => answer[t].value = own[t]

\* own is the key of the last request to set one.
OwnRequested == \A t \in Caller : req[t].op = "set_key" => own[t] = req[t].key

\* The key store never holds more keys than it has room for.
StoreBound == Live(keys) <= KeySlots

KeysInv ==
    /\ Sessions
    /\ KeysCounted
    /\ AnswersUnderOwnKey
    /\ OwnRequested
    /\ StoreBound

IInv == CallInv /\ KeysInv

-----------------------------------------------------------------------------
(* Lemmas: links and the key store. *)

\* A message sent on an empty link is the first and the last on it.
LEMMA OnlyMessage ==
    ASSUME NEW S, NEW m \in S, NEW s \in Seq(S), s = <<>>
    PROVE  /\ Append(s, m) \in Seq(S)
           /\ Append(s, m) # <<>>
           /\ Head(Append(s, m)) = m
           /\ Tail(Append(s, m)) = <<>>
  OBVIOUS

\* A message leaves a link at its head.
LEMMA FirstMessage ==
    ASSUME NEW S, NEW s \in Seq(S), s # <<>>
    PROVE  Tail(s) \in Seq(S) /\ Head(s) \in S
  OBVIOUS

\* What a message is made of.
LEMMA MessageParts ==
    /\ \A m \in ServerMessage : m.request \in Request /\ m.from \in Caller
    /\ \A m \in ClientMessage :
          /\ m.op \in {"set_key"} \cup Kind /\ m.rc \in ReturnCode
          /\ m.value \in Key \cup {NoKey} /\ m.to \in Caller
  BY DEF ServerMessage, ClientMessage

\* A request sets a key or uses one.
LEMMA RequestKinds ==
    ASSUME NEW r \in Request
    PROVE  \/ r.op = "set_key" /\ r.op \notin Kind /\ r.key \in Key /\ r.kind \in Kind
           \/ r.op \in Kind /\ r.op # "set_key"
  BY DEF Request, SetKeys, Ciphers, Kind

\* The null id is no key, so that the keys counted are those in the store.
LEMMA LiveCounts ==
    ASSUME NEW s \in KeyStore
    PROVE  /\ s.lost \in Nat /\ Live(s) \in Nat
           /\ s.slot \in ImportedKey => Live(s) = s.lost + 1
           /\ s.slot \notin ImportedKey => s.slot = NoImport /\ Live(s) = s.lost
  BY SlotAssumption DEF KeyStore, Live, NoImport, ImportedKey, Kind

\* Setting a key adds it to those in the store and forgets, but does not
\* destroy, the one named before; it fails on a full store.
LEMMA SetKeyServes ==
    ASSUME NEW s \in KeyStore, Live(s) <= KeySlots, NEW r \in SetKeys, NEW e \in SetKey(s, r)
    PROVE  /\ e[1].value = NoKey /\ e[1] = [rc |-> e[1].rc, value |-> NoKey]
           /\ e[2] \in KeyStore
           /\ \/ /\ e[1].rc = "ok"
                 /\ Live(e[2]) = Live(s) + 1 /\ Live(e[2]) <= KeySlots
                 /\ e[2].slot \in ImportedKey /\ e[2].slot.key = r.key
              \/ /\ e[1].rc = "error"
                 /\ Live(e[2]) = Live(s)
           /\ e[3] = 0
  <1>1. Live(s) \in 0..KeySlots
    BY LiveCounts, SlotAssumption
  <1>2. CASE e = <<Failed, [slot |-> NoImport, lost |-> Live(s)], 0>>
    <2>1. e[2] \in KeyStore /\ e[2].slot = NoImport /\ e[2].lost = Live(s)
      BY <1>1, <1>2 DEF KeyStore
    <2>2. Live(e[2]) = Live(s)
      BY <2>1 DEF Live
    <2>. QED BY <1>2, <2>1, <2>2 DEF Failed
  <1>3. CASE /\ Live(s) < KeySlots
             /\ e = <<[rc |-> "ok", value |-> NoKey],
                      [slot |-> [key |-> r.key, kind |-> r.kind], lost |-> Live(s)], 0>>
    <2>1. [key |-> r.key, kind |-> r.kind] \in ImportedKey
      BY DEF SetKeys, ImportedKey
    <2>2. e[2] \in KeyStore /\ e[2].slot \in ImportedKey /\ e[2].slot.key = r.key
      BY <1>1, <1>3, <2>1 DEF KeyStore
    <2>3. Live(e[2]) = Live(s) + 1
      BY <1>3, <2>2, LiveCounts
    <2>. QED BY <1>1, <1>3, <2>2, <2>3, SlotAssumption
  <1>. QED BY <1>2, <1>3 DEF SetKey

\* Whether an operation succeeds depends on the key it finds alone.
LEMMA ResultsOfKey ==
    ASSUME NEW s \in KeyStore, NEW r \in Ciphers, NEW a \in Results(s, r)
    PROVE  /\ a = [rc |-> a.rc, value |-> a.value]
           /\ \/ /\ a.rc = "ok" /\ s.slot \in ImportedKey
                 /\ a.value = s.slot.key /\ a.value \in Key
              \/ a.rc = "error" /\ a.value = NoKey
  <1>1. CASE a = Failed
    BY <1>1 DEF Failed
  <1>2. CASE s.slot.kind = r.op /\ a = [rc |-> "ok", value |-> s.slot.key]
    <2>1. s.slot \in ImportedKey
      BY <1>2 DEF KeyStore, NoImport, Ciphers, Kind
    <2>. QED BY <1>2, <2>1 DEF ImportedKey
  <1>. QED BY <1>1, <1>2 DEF Results

\* An operation destroys the key it finds, whatever comes of it, or leaves it and
\* counts it; its result was computed under that key.
LEMMA EncryptServes ==
    ASSUME NEW s \in KeyStore, NEW r \in Ciphers, NEW e \in Encrypt(s, r)
    PROVE  /\ e[1] = [rc |-> e[1].rc, value |-> e[1].value]
           /\ e[2] \in KeyStore
           /\ \/ e[3] = 0 /\ Live(e[2]) = s.lost
              \/ e[3] = 1 /\ Live(e[2]) = s.lost + 1 /\ Live(e[2]) = Live(s)
           /\ \/ /\ e[1].rc = "ok" /\ s.slot \in ImportedKey
                 /\ e[1].value = s.slot.key /\ e[1].value \in Key
              \/ e[1].rc = "error" /\ e[1].value = NoKey
  <1>1. e[1] \in Results(s, r)
    BY DEF Encrypt
  <1>2. CASE e[2] = [s EXCEPT !.slot = NoImport] /\ e[3] = 0
    <2>1. e[2] \in KeyStore /\ e[2].slot = NoImport /\ e[2].lost = s.lost
      BY <1>2 DEF KeyStore
    <2>2. Live(e[2]) = s.lost
      BY <2>1 DEF Live
    <2>. QED BY <1>1, <1>2, <2>1, <2>2, ResultsOfKey
  <1>3. CASE e[2] = s /\ e[3] = 1 /\ s.slot # NoImport
    <2>1. Live(s) = s.lost + 1
      BY <1>3 DEF Live
    <2>. QED BY <1>1, <1>3, <2>1, ResultsOfKey
  <1>. QED BY <1>2, <1>3 DEF Encrypt

\* A request is served by the one or the other.
LEMMA ServedAnswers ==
    ASSUME NEW s \in KeyStore, Live(s) <= KeySlots, NEW r \in Request, NEW e \in Served(s, r)
    PROVE  /\ e[1] = [rc |-> e[1].rc, value |-> e[1].value]
           /\ e[1].rc \in {"ok", "error"}
           /\ e[1].value \in Key \cup {NoKey}
           /\ (r.op \in Kind /\ e[1].rc = "ok") \/ e[1].value = NoKey
           /\ e[2] \in KeyStore /\ Live(e[2]) <= KeySlots /\ Live(e[2]) \in Nat
           /\ e[3] \in 0..1
  <1>1. CASE r \in SetKeys
    <2>1. e \in SetKey(s, r)
      BY <1>1 DEF Served, SetKeys
    <2>2. /\ e[2] \in KeyStore /\ Live(e[2]) <= KeySlots
          /\ e[1].value = NoKey /\ e[1] = [rc |-> e[1].rc, value |-> NoKey]
          /\ e[1].rc \in {"ok", "error"} /\ e[3] = 0
      BY <1>1, <2>1, SetKeyServes, LiveCounts
    <2>. QED BY <2>2, LiveCounts
  <1>2. CASE r \in Ciphers
    <2>1. e \in Encrypt(s, r) /\ r.op \in Kind
      BY <1>2 DEF Served, Ciphers, Kind
    <2>2. s.lost <= KeySlots
      BY DEF KeyStore
    <2>3. /\ e[2] \in KeyStore
          /\ \/ e[3] = 0 /\ Live(e[2]) = s.lost
             \/ e[3] = 1 /\ Live(e[2]) = Live(s)
      BY <1>2, <2>1, EncryptServes
    <2>4. Live(e[2]) <= KeySlots /\ e[3] \in 0..1
      BY <2>2, <2>3
    <2>. QED BY <1>2, <2>1, <2>3, <2>4, EncryptServes, LiveCounts
  <1>. QED BY <1>1, <1>2 DEF Request

-----------------------------------------------------------------------------
(* Type correctness. *)

\* The initial values have their types.
LEMMA InitType == Init => TypeOK
  <1>. SUFFICES ASSUME Init PROVE TypeOK
    OBVIOUS
  <1>1. [op |-> "ecb"] \in Request
    BY DEF Request, Ciphers, Kind
  <1>2. NoAnswer \in Answer
    BY DEF NoAnswer, Answer
  <1>3. [slot |-> NoImport, lost |-> 0] \in KeyStore
    BY SlotAssumption DEF KeyStore
  <1>4. paired \in BOOLEAN /\ up \in BOOLEAN /\ replyLost \in BOOLEAN
    BY DEF Init
  <1>5. heap \in 0..HeapBlocks /\ orphans \in 0..KeySlots
    BY HeapAssumption, SlotAssumption DEF Init
  <1>6. kept \in 0..KeySlots
    BY SlotAssumption DEF Init
  <1>. QED BY <1>1, <1>2, <1>3, <1>4, <1>5, <1>6 DEF Init, TypeOK

\* The request at the head of the link is its caller's own, not served before.
LEMMA RequestServed ==
    ASSUME IInv, ServeRequest, NEW m, m = Head(toServer)
    PROVE  /\ m.from \in Caller /\ phase[m.from] = "takeDone" /\ result[m.from] = NoKey
           /\ m.request \in Request /\ req[m.from] = m.request
           /\ answer[m.from] = NoAnswer
           /\ toServer' = <<>> /\ toClient = <<>> /\ done = 0
           /\ m.request.op \in Kind => loadPointer = m.from
           /\ UNCHANGED client
           /\ \E e \in Served(keys, m.request) :
                 /\ keys' = e[2]
                 /\ answer' = [answer EXCEPT ![m.from] = e[1]]
                 /\ toClient' \in {<<>>, Append(toClient,
                                     [op |-> m.request.op, rc |-> e[1].rc,
                                      value |-> e[1].value, to |-> m.from])}
                 /\ e[1] = [rc |-> e[1].rc, value |-> e[1].value]
                 /\ e[1].rc \in {"ok", "error"}
                 /\ e[1].value \in Key \cup {NoKey}
                 /\ (m.request.op \in Kind /\ e[1].rc = "ok") \/ e[1].value = NoKey
                 /\ Live(e[2]) <= KeySlots
                 /\ kept' = IF paired THEN kept + e[3] ELSE kept
  <1>1. toServer # <<>> /\ toServer' = Tail(toServer) /\ UNCHANGED client
    BY DEF ServeRequest
  <1>2. /\ Waits(m.from) /\ req[m.from] = m.request /\ answer[m.from] = NoAnswer
        /\ Tail(toServer) = <<>> /\ toClient = <<>> /\ done = 0
        /\ m.request.op \in Kind => loadPointer = m.from
    BY <1>1 DEF IInv, CallInv, RequestOwned
  <1>3. m.request \in Request
    BY <1>1, FirstMessage, MessageParts DEF IInv, CallInv, TypeOK
  <1>4. PICK e \in Served(keys, m.request) :
          /\ keys' = e[2]
          /\ answer' = [answer EXCEPT ![m.from] = e[1]]
          /\ \/ toClient' = Append(toClient, [op |-> m.request.op, rc |-> e[1].rc,
                                              value |-> e[1].value, to |-> m.from])
             \/ UNCHANGED toClient
          /\ kept' = IF paired THEN kept + e[3] ELSE kept
    BY DEF ServeRequest
  <1>5. /\ e[1] = [rc |-> e[1].rc, value |-> e[1].value]
        /\ e[1].rc \in {"ok", "error"}
        /\ e[1].value \in Key \cup {NoKey}
        /\ (m.request.op \in Kind /\ e[1].rc = "ok") \/ e[1].value = NoKey
        /\ Live(e[2]) <= KeySlots
    <2>1. keys \in KeyStore /\ Live(keys) <= KeySlots
      BY DEF IInv, CallInv, TypeOK, KeysInv, StoreBound
    <2>. QED BY <1>3, <2>1, ServedAnswers
  <1>. QED BY <1>1, <1>2, <1>3, <1>4, <1>5 DEF Waits

\* The keys left are counted in numbers.
LEMMA KeptCounts ==
    ASSUME IInv
    PROVE  orphans \in Nat /\ kept \in Nat /\ Live(keys) \in Nat
  BY LiveCounts, SlotAssumption DEF IInv, CallInv, TypeOK

\* A session's own key is one more than those left before it.
LEMMA KeyHeld ==
    ASSUME IInv, paired, session \in Caller, Holding(session)
    PROVE  orphans + 1 <= KeySlots /\ kept + 1 <= KeySlots
  <1>1. Live(keys) = orphans + kept + 1
    BY CallerAssumption DEF IInv, KeysInv, KeysCounted
  <1>2. Live(keys) <= KeySlots
    BY DEF IInv, KeysInv, StoreBound
  <1>. QED BY <1>1, <1>2, KeptCounts, SlotAssumption

\* There is room to count one more key that could not be destroyed: it is in the
\* store.
LEMMA ServeKeepsKept ==
    ASSUME IInv, ServeRequest
    PROVE  kept' \in 0..KeySlots
  <1>. PICK m : m = Head(toServer)
    OBVIOUS
  <1>. PICK t : t = m.from
    OBVIOUS
  <1>1. /\ t \in Caller /\ phase[t] = "takeDone" /\ m.request \in Request
        /\ req[t] = m.request /\ answer[t] = NoAnswer
    BY RequestServed
  <1>2. PICK e \in Served(keys, m.request) : kept' = IF paired THEN kept + e[3] ELSE kept
    BY RequestServed
  <1>3. /\ keys \in KeyStore /\ Live(keys) <= KeySlots /\ kept \in 0..KeySlots
        /\ orphans \in Nat
    BY KeptCounts DEF IInv, CallInv, TypeOK, KeysInv, StoreBound
  <1>4. e[3] \in 0..1
    BY <1>1, <1>3, ServedAnswers
  <1>5. ASSUME paired, e[3] = 1 PROVE kept + 1 <= KeySlots
    <2>1. m.request \in Ciphers
      <3>1. ASSUME m.request \in SetKeys PROVE FALSE
        <4>1. e \in SetKey(keys, m.request)
          BY <3>1 DEF Served, SetKeys
        <4>2. e[3] = 0
          BY <1>3, <3>1, <4>1, SetKeyServes
        <4>. QED BY <1>5, <4>2
      <3>. QED BY <1>1, <3>1 DEF Request
    <2>2. session = t /\ Holding(t)
      BY <1>1, <1>5, <2>1 DEF IInv, KeysInv, Sessions, Holding, Ciphers
    <2>. QED BY <1>1, <1>5, <2>2, KeyHeld
  <1>. QED BY <1>2, <1>3, <1>4, <1>5, SlotAssumption

\* Every step keeps the types; there is room to count another orphan because
\* its key was in the store.
LEMMA NextType == IInv /\ [Next]_vars => TypeOK'
  <1>. SUFFICES ASSUME TypeOK, IInv, [Next]_vars PROVE TypeOK'
    BY DEF IInv, CallInv
  <1>. USE DEF TypeOK, client, callers, server
  <1>1. ASSUME NEW t \in Caller, NEW r \in Request, Invoke(t, r) PROVE TypeOK'
    <2>1. NoAnswer \in Answer
      BY DEF NoAnswer, Answer
    <2>2. own' \in [Caller -> Key \cup {NoKey}]
      BY <1>1, RequestKinds DEF Invoke
    <2>3. paired' \in BOOLEAN /\ up' \in BOOLEAN /\ replyLost' \in BOOLEAN
      BY <1>1, Zenon DEF Invoke
    <2>. QED BY <1>1, <2>1, <2>2, <2>3 DEF Invoke
  <1>2. ASSUME NEW t \in Caller, TakeBusy(t) PROVE TypeOK'
    BY <1>2 DEF TakeBusy
  <1>3. ASSUME NEW t \in Caller, Send(t) PROVE TypeOK'
    <2>. PICK m : m = [request |-> req[t], from |-> t]
      OBVIOUS
    <2>1. m \in ServerMessage
      BY DEF ServerMessage
    <2>2. Append(toServer, m) \in Seq(ServerMessage)
      BY <2>1
    <2>. QED BY <1>3, <2>2 DEF Send
  <1>4. ASSUME NEW t \in Caller, SendFails(t) PROVE TypeOK'
    <2>1. Unsent \in Answer
      BY DEF Unsent, Answer
    <2>2. orphans' \in 0..KeySlots
      <3>1. CASE paired /\ req[t].op \in Kind
        <4>1. session = t /\ Holding(t)
          BY <1>4, <3>1 DEF SendFails, IInv, CallInv, CallProgress, KeysInv, Sessions, Holding
        <4>2. orphans + 1 <= KeySlots
          BY <3>1, <4>1, KeyHeld
        <4>. QED BY <1>4, <3>1, <4>2, SlotAssumption DEF SendFails
      <3>. QED BY <1>4, <3>1 DEF SendFails
    <2>. QED BY <1>4, <2>1, <2>2 DEF SendFails
  <1>5. ASSUME NEW t \in Caller, TakeDone(t) PROVE TypeOK'
    BY <1>5 DEF TakeDone
  <1>6. ASSUME NEW t \in Caller, Finish(t) PROVE TypeOK'
    BY <1>6 DEF Finish
  <1>7. CASE ReceiveSetKey
    <2>1. toClient' \in Seq(ClientMessage) /\ rc' \in ReturnCode
      BY <1>7, FirstMessage, MessageParts DEF ReceiveSetKey
    <2>. QED BY <1>7, <2>1 DEF ReceiveSetKey
  <1>8. CASE ReceiveResult
    <2>1. /\ toClient' \in Seq(ClientMessage) /\ rc' \in ReturnCode
          /\ Head(toClient).value \in Key \cup {NoKey}
      BY <1>8, FirstMessage, MessageParts DEF ReceiveResult
    <2>. QED BY <1>8, <2>1 DEF ReceiveResult
  <1>9. CASE ServeRequest
    <2>. DEFINE m == Head(toServer)
    <2>1. m.request \in Request /\ m.from \in Caller /\ toServer' \in Seq(ServerMessage)
      BY <1>9, FirstMessage, MessageParts DEF ServeRequest
    <2>2. PICK e \in Served(keys, m.request) :
            /\ keys' = e[2]
            /\ answer' = [answer EXCEPT ![m.from] = e[1]]
            /\ \/ toClient' = Append(toClient, [op |-> m.request.op, rc |-> e[1].rc,
                                                value |-> e[1].value, to |-> m.from])
               \/ UNCHANGED toClient
      BY <1>9 DEF ServeRequest
    <2>3. /\ e[1] = [rc |-> e[1].rc, value |-> e[1].value]
          /\ e[1].rc \in ReturnCode /\ e[1].value \in Key \cup {NoKey}
          /\ e[2] \in KeyStore
      BY <2>1, ServedAnswers DEF IInv, KeysInv, StoreBound, ReturnCode
    <2>4. answer' \in [Caller -> Answer]
      BY <2>2, <2>3 DEF Answer
    <2>5. toClient' \in Seq(ClientMessage)
      <3>. PICK reply : reply = [op |-> m.request.op, rc |-> e[1].rc,
                                 value |-> e[1].value, to |-> m.from]
        OBVIOUS
      <3>1. reply \in ClientMessage
        BY <2>1, <2>3, RequestKinds DEF ClientMessage
      <3>2. Append(toClient, reply) \in Seq(ClientMessage)
        BY <3>1
      <3>. QED BY <2>2, <3>2
    <2>6. heap' \in 0..HeapBlocks
      BY <1>9, <2>1, HeapAssumption DEF ServeRequest, Allocate, Kind
    <2>8. kept' \in 0..KeySlots
      BY <1>9, ServeKeepsKept
    <2>7. replyLost' \in BOOLEAN /\ up' \in BOOLEAN /\ paired' \in BOOLEAN
      BY <1>9, Zenon DEF ServeRequest
    <2>. QED BY <1>9, <2>1, <2>2, <2>3, <2>4, <2>5, <2>6, <2>7, <2>8 DEF ServeRequest
  <1>10. CASE Crash
    BY <1>10 DEF Crash
  <1>11. CASE UNCHANGED vars
    BY <1>11 DEF vars
  <1>. QED
    BY <1>1, <1>2, <1>3, <1>4, <1>5, <1>6, <1>7, <1>8, <1>9, <1>10, <1>11
    DEF Next, Call, ClientReceive

-----------------------------------------------------------------------------
(* The invariant of the calls: one at a time, each with its own answer. *)

\* The parts of CallInv that say where requests, replies and done are.
Tokens == RequestOwned /\ ReplyOwned /\ DoneOwned

\* Nothing is on its way and done is not given while nobody waits for it.
LEMMA NobodyWaits ==
    ASSUME CallInv, \A t \in Caller : phase[t] # "takeDone"
    PROVE  toServer = <<>> /\ toClient = <<>> /\ done = 0
  <1>1. toServer = <<>>
    BY DEF CallInv, RequestOwned, Waits
  <1>2. toClient = <<>>
    BY DEF CallInv, ReplyOwned, Waits
  <1>3. done # 1
    BY Zenon DEF CallInv, DoneOwned
  <1>. QED BY <1>1, <1>2, <1>3 DEF CallInv, TypeOK

\* A step of one caller, alone between taking and giving busy.
LEMMA CallerKeepsCalls ==
    ASSUME CallInv, TypeOK', NEW t \in Caller,
           (\E r \in Request : Invoke(t, r)) \/ TakeBusy(t) \/ Call(t)
    PROVE  CallInv'
  <1>. USE DEF CallInv, TypeOK
  <1>1. ASSUME NEW r \in Request, Invoke(t, r) PROVE CallInv'
    <2>1. CallExclusion'
      BY <1>1 DEF Invoke, CallExclusion, Inside
    <2>2. \A u \in Caller : phase[u] = "takeDone" =>
             u # t /\ phase'[u] = "takeDone" /\ req'[u] = req[u]
             /\ result'[u] = result[u] /\ answer'[u] = answer[u]
      BY <1>1 DEF Invoke
    <2>3. UNCHANGED <<toServer, toClient, done, rc, loadPointer>>
      BY <1>1 DEF Invoke
    <2>4. RequestOwned'
      BY <2>2, <2>3 DEF RequestOwned, Waits
    <2>5. ReplyOwned'
      BY <2>2, <2>3 DEF ReplyOwned, Waits
    <2>6. DoneOwned'
      BY <2>2, <2>3 DEF DoneOwned
    <2>7. CallProgress'
      BY <1>1 DEF Invoke, CallProgress
    <2>. QED BY <2>1, <2>4, <2>5, <2>6, <2>7
  <1>2. CASE TakeBusy(t)
    <2>1. CallExclusion'
      BY <1>2 DEF TakeBusy, CallExclusion, Inside
    <2>2. \A u \in Caller : phase[u] # "takeDone"
      BY <1>2 DEF TakeBusy, CallExclusion, Inside
    <2>3. Tokens'
      BY <1>2, <2>2, NobodyWaits DEF TakeBusy, Tokens, RequestOwned, ReplyOwned, DoneOwned
    <2>4. CallProgress'
      BY <1>2 DEF TakeBusy, CallProgress, CallExclusion, Inside
    <2>. QED BY <2>1, <2>3, <2>4 DEF Tokens
  <1>3. CASE Send(t)
    <2>. PICK m : m = [request |-> req[t], from |-> t]
      OBVIOUS
    <2>1. CallExclusion'
      BY <1>3 DEF Send, CallExclusion, Inside
    <2>2. \A u \in Caller : phase[u] # "takeDone"
      BY <1>3 DEF Send, CallExclusion, Inside
    <2>3. toServer = <<>> /\ toClient = <<>> /\ done = 0
      BY <2>2, NobodyWaits
    <2>4. m \in ServerMessage
      BY DEF ServerMessage
    <2>5. toServer' # <<>> /\ Head(toServer') = m /\ Tail(toServer') = <<>>
      BY <1>3, <2>3, <2>4, OnlyMessage DEF Send
    <2>6. /\ phase'[t] = "takeDone" /\ req'[t] = req[t] /\ result'[t] = NoKey
          /\ answer'[t] = NoAnswer /\ toClient' = <<>> /\ done' = 0
          /\ req[t].op \in Kind => loadPointer' = t
      BY <1>3, <2>3 DEF Send, CallProgress
    <2>7. Tokens'
      BY <2>5, <2>6 DEF Tokens, RequestOwned, ReplyOwned, DoneOwned, Waits
    <2>8. CallProgress'
      BY <1>3 DEF Send, CallProgress
    <2>. QED BY <2>1, <2>7, <2>8 DEF Tokens
  <1>4. CASE SendFails(t)
    <2>1. CallExclusion'
      BY <1>4 DEF SendFails, CallExclusion, Inside
    <2>2. \A u \in Caller : phase[u] # "takeDone"
      BY <1>4 DEF SendFails, CallExclusion, Inside
    <2>3. Tokens'
      BY <1>4, <2>2, NobodyWaits DEF SendFails, Tokens, RequestOwned, ReplyOwned, DoneOwned
    <2>4. CallProgress'
      BY <1>4 DEF SendFails, CallProgress, Unsent, NoAnswer
    <2>. QED BY <2>1, <2>3, <2>4 DEF Tokens
  <1>5. CASE TakeDone(t)
    <2>1. CallExclusion'
      BY <1>5 DEF TakeDone, CallExclusion, Inside
    <2>2. toServer = <<>> /\ toClient = <<>> /\ done' = 0
      BY <1>5 DEF TakeDone, RequestOwned, ReplyOwned
    <2>3. Tokens'
      BY <1>5, <2>2 DEF TakeDone, Tokens, RequestOwned, ReplyOwned, DoneOwned
    <2>4. answer[t] = [rc |-> rc, value |-> result[t]] /\ answer[t] # NoAnswer
      BY <1>5 DEF TakeDone, DoneOwned, CallExclusion, Inside
    <2>5. CallProgress'
      BY <1>5, <2>4 DEF TakeDone, CallProgress, CallExclusion, Inside
    <2>. QED BY <2>1, <2>3, <2>5 DEF Tokens
  <1>6. CASE Finish(t)
    <2>1. CallExclusion'
      BY <1>6 DEF Finish, CallExclusion, Inside
    <2>2. \A u \in Caller : phase[u] # "takeDone"
      BY <1>6 DEF Finish, CallExclusion, Inside
    <2>3. Tokens'
      BY <1>6, <2>2, NobodyWaits DEF Finish, Tokens, RequestOwned, ReplyOwned, DoneOwned
    <2>4. CallProgress'
      BY <1>6 DEF Finish, CallProgress
    <2>. QED BY <2>1, <2>3, <2>4 DEF Tokens
  <1>. QED BY <1>1, <1>2, <1>3, <1>4, <1>5, <1>6 DEF Call

\* The client receives the reply in flight: rc and the memory of the caller that
\* waits take its answer, and done is given.
LEMMA ReplyKeepsCalls ==
    ASSUME CallInv, TypeOK', ReceiveSetKey \/ ReceiveResult
    PROVE  CallInv'
  <1>. USE DEF CallInv, TypeOK
  <1>. DEFINE m == Head(toClient)
  <1>1. /\ toClient # <<>> /\ toClient' = Tail(toClient)
        /\ rc' = m.rc /\ done' = 1
        /\ UNCHANGED <<phase, req, ret, busy, toServer, answer>>
    BY DEF ReceiveSetKey, ReceiveResult
  <1>. PICK t : t = m.to
    OBVIOUS
  <1>2. /\ t \in Caller /\ phase[t] = "takeDone" /\ result[t] = NoKey
        /\ answer[t] = [rc |-> m.rc, value |-> m.value]
        /\ m.op \in Kind => loadPointer = t
        /\ (m.op \in Kind /\ m.rc = "ok") \/ m.value = NoKey
        /\ Tail(toClient) = <<>> /\ done = 0
    BY <1>1 DEF ReplyOwned, Waits
  <1>3. m.rc \in ReturnCode
    BY <1>1, FirstMessage, MessageParts
  <1>4. toServer = <<>>
    BY <1>1 DEF RequestOwned
  <1>5. result'[t] = m.value /\ \A u \in Caller \ {t} : result'[u] = result[u]
    <2>1. CASE ReceiveSetKey
      BY <1>2, <2>1 DEF ReceiveSetKey, Kind
    <2>2. CASE ReceiveResult
      BY <1>2, <2>2 DEF ReceiveResult
    <2>. QED BY <2>1, <2>2
  <1>6. \A u \in Caller \ {t} : phase[u] \in {"idle", "takeBusy"}
    BY <1>2 DEF CallExclusion, Inside
  <1>7. DoneOwned'
    <2>1. answer'[t] = [rc |-> rc', value |-> result'[t]] /\ phase'[t] = "takeDone"
      BY <1>1, <1>2, <1>5
    <2>2. answer'[t] # NoAnswer
      BY <1>1, <1>3, <2>1 DEF NoAnswer, ReturnCode
    <2>. QED BY <1>2, <2>1, <2>2 DEF DoneOwned
  <1>8. RequestOwned' /\ ReplyOwned'
    BY <1>1, <1>2, <1>4 DEF RequestOwned, ReplyOwned
  <1>9. CallExclusion'
    BY <1>1 DEF CallExclusion, Inside
  <1>10. CallProgress'
    BY <1>1, <1>2, <1>5, <1>6 DEF CallProgress
  <1>. QED BY <1>7, <1>8, <1>9, <1>10

\* The server takes the request in flight and answers it, or loses the answer.
LEMMA ServeKeepsCalls ==
    ASSUME IInv, TypeOK', ServeRequest
    PROVE  CallInv'
  <1>. PICK m : m = Head(toServer)
    OBVIOUS
  <1>. PICK t : t = m.from
    OBVIOUS
  <1>1. /\ t \in Caller /\ phase[t] = "takeDone" /\ result[t] = NoKey
        /\ m.request \in Request
        /\ toServer' = <<>> /\ toClient = <<>> /\ done = 0
        /\ m.request.op \in Kind => loadPointer = t
        /\ UNCHANGED client
    BY RequestServed
  <1>2. PICK e \in Served(keys, m.request) :
          /\ answer' = [answer EXCEPT ![t] = e[1]]
          /\ toClient' \in {<<>>, Append(toClient, [op |-> m.request.op, rc |-> e[1].rc,
                                                    value |-> e[1].value, to |-> t])}
          /\ e[1] = [rc |-> e[1].rc, value |-> e[1].value]
          /\ e[1].rc \in {"ok", "error"}
          /\ e[1].value \in Key \cup {NoKey}
          /\ (m.request.op \in Kind /\ e[1].rc = "ok") \/ e[1].value = NoKey
    BY RequestServed
  <1>. PICK reply : reply = [op |-> m.request.op, rc |-> e[1].rc,
                             value |-> e[1].value, to |-> t]
    OBVIOUS
  <1>3. reply \in ClientMessage
    BY <1>1, <1>2, RequestKinds DEF ClientMessage, ReturnCode
  <1>4. toClient' # <<>> => Head(toClient') = reply /\ Tail(toClient') = <<>>
    <2>1. toClient \in Seq(ClientMessage)
      BY DEF IInv, CallInv, TypeOK
    <2>2. toClient' = <<>> \/ toClient' = Append(toClient, reply)
      BY <1>2
    <2>3. Head(Append(toClient, reply)) = reply /\ Tail(Append(toClient, reply)) = <<>>
      BY <1>1, <1>3, <2>1, OnlyMessage
    <2>. QED BY <2>2, <2>3
  <1>5. /\ answer'[t] = e[1]
        /\ \A u \in Caller \ {t} : answer'[u] = answer[u]
    BY <1>1, <1>2 DEF IInv, CallInv, TypeOK
  <1>6. RequestOwned'
    BY <1>1 DEF RequestOwned
  <1>7. ReplyOwned'
    BY <1>1, <1>2, <1>4, <1>5 DEF ReplyOwned, Waits, client
  <1>8. DoneOwned'
    BY <1>1 DEF DoneOwned, client
  <1>9. CallExclusion'
    BY <1>1 DEF IInv, CallInv, CallExclusion, Inside, client
  <1>10. CallProgress'
    BY <1>1, <1>5 DEF IInv, CallInv, CallProgress, client
  <1>. QED BY <1>6, <1>7, <1>8, <1>9, <1>10 DEF CallInv

\* A crash of the server stops it, and changes nothing else.
LEMMA OthersKeepCalls ==
    ASSUME CallInv, TypeOK', Crash \/ UNCHANGED vars
    PROVE  CallInv'
  <1>1. UNCHANGED <<client, toServer, toClient, answer>>
    BY DEF Crash, vars
  <1>2. Tokens'
    BY <1>1 DEF CallInv, Tokens, RequestOwned, ReplyOwned, DoneOwned, Waits, client
  <1>3. CallExclusion' /\ CallProgress'
    BY <1>1 DEF CallInv, CallExclusion, Inside, CallProgress, client
  <1>. QED BY <1>2, <1>3 DEF CallInv, Tokens

-----------------------------------------------------------------------------
(* The invariant of the keys. *)

\* A step that leaves requests, answers, sessions and the key store alone keeps
\* the invariant.
LEMMA KeysKept ==
    ASSUME KeysInv, UNCHANGED <<paired, session, own, orphans, kept, req, answer, keys>>,
           \A t \in Caller : phase'[t] = "idle" <=> phase[t] = "idle"
    PROVE  KeysInv'
  <1>1. Sessions'
    BY Zenon DEF KeysInv, Sessions
  <1>2. KeysCounted'
    BY Zenon DEF KeysInv, KeysCounted, Holding
  <1>3. AnswersUnderOwnKey' /\ OwnRequested' /\ StoreBound'
    BY DEF KeysInv, AnswersUnderOwnKey, OwnRequested, StoreBound
  <1>. QED BY <1>1, <1>2, <1>3 DEF KeysInv

\* The steps of a call that are not seen from the key store.
LEMMA UnseenKeepsKeys ==
    ASSUME IInv,
           \/ \E t \in Caller : TakeBusy(t) \/ Send(t) \/ TakeDone(t)
           \/ ReceiveSetKey \/ ReceiveResult \/ Crash \/ UNCHANGED vars
    PROVE  KeysInv'
  <1>1. /\ UNCHANGED <<paired, session, own, orphans, kept, req, answer, keys>>
        /\ \A t \in Caller : phase'[t] = "idle" <=> phase[t] = "idle"
    BY DEF TakeBusy, Send, TakeDone, ReceiveSetKey, ReceiveResult, Crash, vars, client, callers,
       server, IInv, CallInv, TypeOK
  <1>. QED BY <1>1, KeysKept DEF IInv

\* A call starts: a session with it, or its second call.
LEMMA InvokeKeepsKeys ==
    ASSUME IInv, NEW t \in Caller, NEW r \in Request, Invoke(t, r)
    PROVE  KeysInv'
  <1>1. /\ req' = [req EXCEPT ![t] = r] /\ answer' = [answer EXCEPT ![t] = NoAnswer]
        /\ own' = IF r.op = "set_key" THEN [own EXCEPT ![t] = r.key] ELSE own
        /\ phase' = [phase EXCEPT ![t] = "takeBusy"] /\ phase[t] = "idle"
        /\ session' = IF paired THEN t ELSE NULL
        /\ paired => session = IF r.op = "set_key" THEN NULL ELSE t
        /\ UNCHANGED <<paired, orphans, kept, keys>>
    BY DEF Invoke, MaySession, server
  <1>2. /\ phase \in [Caller -> {"idle", "takeBusy", "send", "takeDone", "finish"}]
        /\ req \in [Caller -> Request] /\ own \in [Caller -> Key \cup {NoKey}]
        /\ answer \in [Caller -> Answer]
    BY DEF IInv, CallInv, TypeOK
  <1>3. NoAnswer.rc = "none"
    BY DEF NoAnswer
  <1>4. Sessions'
    BY <1>1, <1>2, CallerAssumption DEF IInv, KeysInv, Sessions
  <1>5. KeysCounted'
    <2>. SUFFICES ASSUME paired PROVE KeysCounted'
      BY <1>1 DEF KeysCounted
    <2>1. CASE r.op = "set_key"
      <3>1. session = NULL /\ session' = t /\ ~Holding(t)'
        BY <1>1, <1>2, <1>3, <2>1 DEF Holding, Kind
      <3>2. Live(keys) = orphans + kept
        BY <3>1, CallerAssumption DEF IInv, KeysInv, KeysCounted
      <3>. QED BY <1>1, <3>1, <3>2 DEF KeysCounted, Live
    <2>2. CASE r.op # "set_key"
      <3>1. session = t /\ session' = t /\ own' = own
        BY <1>1, <2>2
      <3>2. Holding(t) /\ Holding(t)'
        BY <1>1, <1>2, <2>2, <3>1, RequestKinds DEF IInv, KeysInv, Sessions, Holding
      <3>3. /\ Live(keys) = orphans + kept + 1
            /\ keys.slot \in ImportedKey
            /\ keys.slot.key = own[t]
        BY <3>1, <3>2, CallerAssumption DEF IInv, KeysInv, KeysCounted
      <3>. QED BY <1>1, <3>1, <3>2, <3>3 DEF KeysCounted, Live
    <2>. QED BY <2>1, <2>2
  <1>6. AnswersUnderOwnKey' /\ OwnRequested'
    BY <1>1, <1>2, <1>3 DEF IInv, KeysInv, AnswersUnderOwnKey, OwnRequested
  <1>7. StoreBound'
    BY <1>1 DEF IInv, KeysInv, StoreBound, Live
  <1>. QED BY <1>4, <1>5, <1>6, <1>7 DEF KeysInv

\* A call that could not be sent: an operation leaves its key behind.
LEMMA SendFailsKeepsKeys ==
    ASSUME IInv, NEW t \in Caller, SendFails(t)
    PROVE  KeysInv'
  <1>1. /\ answer' = [answer EXCEPT ![t] = Unsent]
        /\ orphans' = IF paired /\ req[t].op \in Kind THEN orphans + 1 ELSE orphans
        /\ phase[t] = "send" /\ phase' = [phase EXCEPT ![t] = "finish"]
        /\ UNCHANGED <<paired, session, own, kept, req, keys>>
    BY DEF SendFails, server
  <1>2. /\ phase \in [Caller -> {"idle", "takeBusy", "send", "takeDone", "finish"}]
        /\ answer \in [Caller -> Answer] /\ req[t] \in Request
    BY DEF IInv, CallInv, TypeOK
  <1>3. answer[t] = NoAnswer /\ answer'[t] = Unsent
    BY <1>1, <1>2 DEF IInv, CallInv, CallProgress
  <1>4. Unsent # NoAnswer /\ Unsent.rc = "unsent" /\ NoAnswer.rc = "none"
    BY DEF Unsent, NoAnswer
  <1>5. Sessions'
    BY <1>1, <1>2 DEF IInv, KeysInv, Sessions
  <1>6. KeysCounted'
    <2>. SUFFICES ASSUME paired PROVE KeysCounted'
      BY <1>1 DEF KeysCounted
    <2>1. session = t /\ session # NULL /\ ~Holding(t)'
      BY <1>1, <1>3, <1>4, CallerAssumption DEF IInv, KeysInv, Sessions, Holding
    <2>2. Holding(t) <=> req[t].op \in Kind
      BY <1>2, <1>3, <1>4, RequestKinds DEF Holding
    <2>3. Live(keys) = orphans' + kept
      BY <1>1, <2>1, <2>2, KeptCounts DEF IInv, KeysInv, KeysCounted
    <2>. QED BY <1>1, <2>1, <2>3 DEF KeysCounted, Live
  <1>7. AnswersUnderOwnKey' /\ OwnRequested'
    BY <1>1, <1>2, <1>4 DEF IInv, KeysInv, AnswersUnderOwnKey, OwnRequested
  <1>8. StoreBound'
    BY <1>1 DEF IInv, KeysInv, StoreBound, Live
  <1>. QED BY <1>5, <1>6, <1>7, <1>8 DEF KeysInv

\* A call returns: the session goes on if it has set a key, and ends if not.
LEMMA FinishKeepsKeys ==
    ASSUME IInv, NEW t \in Caller, Finish(t)
    PROVE  KeysInv'
  <1>1. /\ phase[t] = "finish" /\ phase' = [phase EXCEPT ![t] = "idle"]
        /\ ret' = [ret EXCEPT ![t] = IF ret[t] = "unsent" THEN "unsent" ELSE rc]
        /\ session' = IF req[t].op = "set_key" /\ ret'[t] = "ok" THEN session ELSE NULL
        /\ UNCHANGED <<paired, own, orphans, kept, req, answer, keys>>
    BY DEF Finish, server
  <1>2. /\ phase \in [Caller -> {"idle", "takeBusy", "send", "takeDone", "finish"}]
        /\ ret \in [Caller -> ReturnCode \cup {"none", "unsent"}] /\ req[t] \in Request
    BY DEF IInv, CallInv, TypeOK
  <1>3. ret'[t] = answer[t].rc /\ answer[t] # NoAnswer
    <2>1. /\ answer[t] = [rc |-> IF ret[t] = "unsent" THEN "unsent" ELSE rc,
                          value |-> result[t]]
          /\ answer[t] # NoAnswer
      BY <1>1 DEF IInv, CallInv, CallProgress
    <2>2. ret'[t] = IF ret[t] = "unsent" THEN "unsent" ELSE rc
      BY <1>1, <1>2
    <2>. QED BY <2>1, <2>2
  <1>4. \A u \in Caller : session = u /\ phase[u] = "idle" =>
                             req[u].op = "set_key" /\ answer[u].rc = "ok"
    BY DEF IInv, KeysInv, Sessions
  <1>5. Sessions'
    <2>1. ~paired => session = NULL
      BY DEF IInv, KeysInv, Sessions
    <2>2. paired => \A u \in Caller : phase[u] # "idle" => u = t
      BY <1>1 DEF IInv, KeysInv, Sessions
    <2>. QED BY <1>1, <1>2, <1>3, <1>4, <2>1, <2>2, CallerAssumption DEF Sessions
  <1>6. KeysCounted'
    <2>. SUFFICES ASSUME paired PROVE KeysCounted'
      BY <1>1 DEF KeysCounted
    <2>1. session = t /\ session # NULL
      BY <1>1, CallerAssumption DEF IInv, KeysInv, Sessions
    <2>2. CASE req[t].op = "set_key" /\ ret'[t] = "ok"
      <3>1. session' = session
        BY <1>1, <2>2
      <3>. QED BY <1>1, <3>1 DEF IInv, KeysInv, KeysCounted, Holding, Live
    <2>3. CASE ~(req[t].op = "set_key" /\ ret'[t] = "ok")
      <3>1. ~Holding(t)
        BY <1>3, <2>3 DEF Holding
      <3>2. Live(keys) = orphans + kept
        BY <2>1, <3>1 DEF IInv, KeysInv, KeysCounted
      <3>. QED BY <1>1, <2>3, <3>2 DEF KeysCounted, Live
    <2>. QED BY <2>2, <2>3
  <1>7. AnswersUnderOwnKey' /\ OwnRequested'
    BY <1>1 DEF IInv, KeysInv, AnswersUnderOwnKey, OwnRequested
  <1>8. StoreBound'
    BY <1>1 DEF IInv, KeysInv, StoreBound, Live
  <1>. QED BY <1>5, <1>6, <1>7, <1>8 DEF KeysInv

\* The server serves the session's request: it counts the key it sets, and
\* gives the one it uses back.
LEMMA ServeKeepsKeys ==
    ASSUME IInv, ServeRequest
    PROVE  KeysInv'
  <1>. PICK m : m = Head(toServer)
    OBVIOUS
  <1>. PICK t : t = m.from
    OBVIOUS
  <1>1. /\ t \in Caller /\ phase[t] = "takeDone" /\ m.request \in Request
        /\ req[t] = m.request /\ answer[t] = NoAnswer /\ UNCHANGED client
    BY RequestServed
  <1>2. PICK e \in Served(keys, m.request) :
          /\ keys' = e[2]
          /\ answer' = [answer EXCEPT ![t] = e[1]]
          /\ e[1].rc \in {"ok", "error"}
          /\ Live(e[2]) <= KeySlots
          /\ kept' = IF paired THEN kept + e[3] ELSE kept
    BY RequestServed
  <1>3. keys \in KeyStore /\ Live(keys) <= KeySlots /\ answer \in [Caller -> Answer]
    BY DEF IInv, CallInv, TypeOK, KeysInv, StoreBound
  <1>4. /\ answer'[t] = e[1] /\ answer'[t] # NoAnswer /\ NoAnswer.rc = "none"
        /\ \A u \in Caller \ {t} : answer'[u] = answer[u]
    BY <1>1, <1>2, <1>3 DEF NoAnswer
  <1>5. UNCHANGED <<phase, req, paired, session, own, orphans>>
    BY <1>1 DEF client, callers
  <1>6. Sessions'
    BY <1>1, <1>4, <1>5 DEF IInv, KeysInv, Sessions
  <1>7. paired => session = t /\ session # NULL
    BY <1>1, CallerAssumption DEF IInv, KeysInv, Sessions
  <1>8. OwnRequested' /\ StoreBound'
    BY <1>2, <1>5 DEF IInv, KeysInv, OwnRequested, StoreBound, Live
  <1>9. ASSUME m.request \in SetKeys PROVE KeysCounted' /\ AnswersUnderOwnKey'
    <2>1. m.request.op = "set_key" /\ m.request.op \notin Kind
      BY <1>9 DEF SetKeys, Kind
    <2>2. e \in SetKey(keys, m.request)
      BY <2>1 DEF Served
    <2>3. own[t] = m.request.key
      BY <1>1, <2>1 DEF IInv, KeysInv, OwnRequested
    <2>4. paired => Live(keys) = orphans + kept
      BY <1>1, <1>4, <1>7, <2>1 DEF IInv, KeysInv, KeysCounted, Holding
    <2>5. \/ /\ e[1].rc = "ok" /\ Live(e[2]) = Live(keys) + 1
             /\ e[2].slot \in ImportedKey /\ e[2].slot.key = own[t]
          \/ e[1].rc = "error" /\ Live(e[2]) = Live(keys)
      BY <1>3, <1>9, <2>2, <2>3, SetKeyServes
    <2>6. Holding(t)' <=> e[1].rc = "ok"
      BY <1>1, <1>4, <1>5, <2>1 DEF Holding
    <2>9. kept' = kept
      <3>1. e[3] = 0
        BY <1>3, <1>9, <2>2, SetKeyServes
      <3>. QED BY <1>2, <3>1, KeptCounts
    <2>7. KeysCounted'
      BY <1>1, <1>2, <1>5, <1>7, <2>4, <2>5, <2>6, <2>9 DEF KeysCounted, Live
    <2>8. AnswersUnderOwnKey'
      BY <1>1, <1>4, <1>5, <2>1 DEF IInv, KeysInv, AnswersUnderOwnKey
    <2>. QED BY <2>7, <2>8
  <1>10. ASSUME m.request \in Ciphers PROVE KeysCounted' /\ AnswersUnderOwnKey'
    <2>1. m.request.op # "set_key" /\ m.request.op \in Kind
      BY <1>10 DEF Ciphers, Kind
    <2>2. e \in Encrypt(keys, m.request)
      BY <2>1 DEF Served
    <2>3. paired => /\ Live(keys) = orphans + kept + 1
                    /\ keys.slot \in ImportedKey /\ keys.slot.key = own[t]
      BY <1>1, <1>7, <2>1 DEF IInv, KeysInv, KeysCounted, Holding
    <2>4. paired => keys.lost = orphans + kept
      BY <1>3, <2>3, LiveCounts, KeptCounts
    <2>5. \/ e[3] = 0 /\ Live(e[2]) = keys.lost
          \/ e[3] = 1 /\ Live(e[2]) = keys.lost + 1
      BY <1>3, <1>10, <2>2, EncryptServes
    <2>10. e[1].rc = "ok" => e[1].value = keys.slot.key
      BY <1>3, <1>10, <2>2, EncryptServes
    <2>9. paired => Live(e[2]) = orphans + kept'
      BY <1>2, <2>4, <2>5, KeptCounts
    <2>6. ~Holding(t)'
      BY <1>1, <1>4, <1>5, <2>1 DEF Holding
    <2>7. KeysCounted'
      BY <1>1, <1>2, <1>5, <1>7, <2>6, <2>9 DEF KeysCounted, Live
    <2>8. AnswersUnderOwnKey'
      BY <1>1, <1>4, <1>5, <2>3, <2>10 DEF IInv, KeysInv, AnswersUnderOwnKey
    <2>. QED BY <2>7, <2>8
  <1>11. m.request \in SetKeys \/ m.request \in Ciphers
    BY <1>1 DEF Request
  <1>. QED BY <1>6, <1>8, <1>9, <1>10, <1>11 DEF KeysInv

-----------------------------------------------------------------------------
(* The invariant. *)

LEMMA InitIInv == Init => IInv
  <1>. SUFFICES ASSUME Init PROVE IInv
    OBVIOUS
  <1>1. CallInv
    BY InitType DEF Init, CallInv, CallExclusion, Inside, RequestOwned, ReplyOwned, DoneOwned,
       CallProgress, NoAnswer
  <1>2. Sessions /\ AnswersUnderOwnKey /\ OwnRequested
    BY CallerAssumption DEF Init, Sessions, AnswersUnderOwnKey, OwnRequested, NoAnswer
  <1>3. Live(keys) = 0
    BY DEF Init, Live
  <1>4. KeysCounted /\ StoreBound
    BY <1>3, SlotAssumption DEF Init, KeysCounted, StoreBound
  <1>. QED BY <1>1, <1>2, <1>4 DEF IInv, KeysInv

LEMMA NextIInv == IInv /\ [Next]_vars => IInv'
  <1>. SUFFICES ASSUME IInv, [Next]_vars PROVE IInv'
    OBVIOUS
  <1>1. CallInv /\ TypeOK'
    BY NextType DEF IInv
  <1>2. ASSUME NEW t \in Caller, NEW r \in Request, Invoke(t, r) PROVE IInv'
    BY <1>1, <1>2, CallerKeepsCalls, InvokeKeepsKeys DEF IInv
  <1>3. ASSUME NEW t \in Caller, TakeBusy(t) PROVE IInv'
    BY <1>1, <1>3, CallerKeepsCalls, UnseenKeepsKeys DEF IInv
  <1>4. ASSUME NEW t \in Caller, Send(t) \/ TakeDone(t) PROVE IInv'
    BY <1>1, <1>4, CallerKeepsCalls, UnseenKeepsKeys DEF IInv, Call
  <1>5. ASSUME NEW t \in Caller, SendFails(t) PROVE IInv'
    BY <1>1, <1>5, CallerKeepsCalls, SendFailsKeepsKeys DEF IInv, Call
  <1>6. ASSUME NEW t \in Caller, Finish(t) PROVE IInv'
    BY <1>1, <1>6, CallerKeepsCalls, FinishKeepsKeys DEF IInv, Call
  <1>7. CASE ReceiveSetKey \/ ReceiveResult
    BY <1>1, <1>7, ReplyKeepsCalls, UnseenKeepsKeys DEF IInv
  <1>8. CASE ServeRequest
    BY <1>1, <1>8, ServeKeepsCalls, ServeKeepsKeys DEF IInv
  <1>9. CASE Crash \/ UNCHANGED vars
    BY <1>1, <1>9, OthersKeepCalls, UnseenKeepsKeys DEF IInv
  <1>. QED BY <1>2, <1>3, <1>4, <1>5, <1>6, <1>7, <1>8, <1>9 DEF Next, Call, ClientReceive

-----------------------------------------------------------------------------
(* The theorems. *)

\* The inductive invariant holds in every reachable state, for any callers and
\* keys, any size of the store and of the heap, and any faults.
THEOREM Invariance == Spec => []IInv
  BY InitIInv, NextIInv, PTL DEF Spec

\* Every variable keeps its type; with it, no more keys are forgotten than the
\* key store has room for.
THEOREM TypeCorrect == Spec => []TypeOK
  <1>1. IInv => TypeOK
    BY DEF IInv, CallInv
  <1>. QED BY <1>1, Invariance, PTL

\* However many callers bracket setting a key and using it, an operation that
\* succeeds returns what was computed under its own caller's key (on_set_key and
\* the operations' callbacks share one magic_key_id).
THEOREM OwnKeyCorrect == Spec => []OwnKey
  <1>1. IInv => OwnKey
    <2>. SUFFICES ASSUME IInv, paired, NEW t \in Caller,
                         phase[t] = "idle", req[t].op \in Kind, ret[t] = "ok"
                  PROVE  result[t] = own[t]
      BY DEF OwnKey
    <2>1. answer[t] = [rc |-> ret[t], value |-> result[t]]
      BY DEF IInv, CallInv, CallProgress
    <2>2. answer[t].value = own[t]
      BY <2>1 DEF IInv, KeysInv, AnswersUnderOwnKey
    <2>. QED BY <2>1, <2>2
  <1>. QED BY <1>1, Invariance, PTL

\* Between sessions the keys in the store are those of the operations whose send
\* failed and those whose destruction failed, for any store: no third path leaves
\* a key, and none that was left is ever destroyed (the early returns of the
\* client's calls, crypto_cleanup).
THEOREM KeysLeftCounted == Spec => []NoKeyLeft
  <1>1. IInv => NoKeyLeft
    BY CallerAssumption DEF IInv, KeysInv, KeysCounted, NoKeyLeft
  <1>. QED BY <1>1, Invariance, PTL

-----------------------------------------------------------------------------
(* IpcCrypto implements RemoteCall. *)

LEMMA InvokeSimulates ==
    ASSUME IInv, NEW t \in Caller, NEW r \in Request, Invoke(t, r)
    PROVE  Abstract!Invoke(t, r)
  BY DEF Invoke, Abstract!Invoke, IInv, CallInv, TypeOK, server

LEMMA SendFailsSimulates ==
    ASSUME IInv, NEW t \in Caller, SendFails(t)
    PROVE  Abstract!Refuse(t)
  BY DEF SendFails, Abstract!Refuse, IInv, CallInv, TypeOK, CallProgress, Unsent, NoAnswer, server

LEMMA FinishSimulates ==
    ASSUME IInv, NEW t \in Caller, Finish(t)
    PROVE  Abstract!Return(t)
  <1>1. /\ answer[t] = [rc |-> IF ret[t] = "unsent" THEN "unsent" ELSE rc, value |-> result[t]]
        /\ answer[t] # NoAnswer
    BY DEF Finish, IInv, CallInv, CallProgress
  <1>. QED BY <1>1 DEF Finish, Abstract!Return, IInv, CallInv, TypeOK, server

\* The call takes effect when the server serves it, whether or not the reply
\* can be sent.
LEMMA ServeSimulates ==
    ASSUME IInv, ServeRequest
    PROVE  \E t \in Caller : Abstract!Execute(t)
  <1>. PICK m : m = Head(toServer)
    OBVIOUS
  <1>. PICK t : t = m.from
    OBVIOUS
  <1>1. /\ t \in Caller /\ phase[t] = "takeDone" /\ m.request \in Request
        /\ req[t] = m.request /\ answer[t] = NoAnswer /\ UNCHANGED client
    BY RequestServed
  <1>2. PICK e \in Served(keys, m.request) :
          /\ keys' = e[2]
          /\ answer' = [answer EXCEPT ![t] = e[1]]
          /\ e[1].rc \in {"ok", "error"}
    BY RequestServed
  <1>3. e[1] # NoAnswer
    BY <1>2 DEF NoAnswer
  <1>4. /\ answer \in [Caller -> Answer] /\ phase \in [Caller -> {"idle", "takeBusy", "send",
                                                                 "takeDone", "finish"}]
    BY DEF IInv, CallInv, TypeOK
  <1>5. Abstract!Execute(t)
    BY <1>1, <1>2, <1>3, <1>4 DEF Abstract!Execute, client
  <1>. QED BY <1>1, <1>5

\* A result is written to the memory of the caller that waits, and of no other.
LEMMA ReceiveStutters ==
    ASSUME IInv, ReceiveSetKey \/ ReceiveResult
    PROVE  UNCHANGED Abstract!vars
  <1>1. UNCHANGED <<phase, req, ret, keys, answer>>
    BY DEF ReceiveSetKey, ReceiveResult, server
  <1>2. \A t \in Caller : phase[t] = "idle" => result'[t] = result[t]
    <2>1. CASE ReceiveSetKey
      BY <2>1 DEF ReceiveSetKey
    <2>2. CASE ReceiveResult
      <3>1. phase[loadPointer] = "takeDone"
        BY <2>2 DEF ReceiveResult, IInv, CallInv, ReplyOwned, Waits
      <3>. QED BY <2>2, <3>1 DEF ReceiveResult
    <2>. QED BY <2>1, <2>2
  <1>. QED BY <1>1, <1>2 DEF Abstract!vars

LEMMA OthersStutter ==
    ASSUME IInv,
           \/ \E t \in Caller : TakeBusy(t) \/ Send(t) \/ TakeDone(t)
           \/ Crash \/ UNCHANGED vars
    PROVE  UNCHANGED Abstract!vars
  <1>1. /\ UNCHANGED <<req, ret, result, keys, answer>>
        /\ \A t \in Caller : phase'[t] = "idle" <=> phase[t] = "idle"
    BY DEF TakeBusy, Send, TakeDone, Crash, vars, client, server, IInv, CallInv, TypeOK
  <1>. QED BY <1>1 DEF Abstract!vars

\* Whatever the number of callers, the interleaving, the replies lost and the
\* crash of the server, the two halves of the key service together are a
\* linearizable object: a call takes effect on the key store at most once,
\* between its invocation and its return, and returns the outcome of that effect
\* (ipc_crypto.c).
THEOREM Linearizable == Spec => ImplementsRemoteCall
  <1>1. Init => Abstract!Init
    <2>. SUFFICES ASSUME Init PROVE Abstract!Init
      OBVIOUS
    <2>1. keys \in KeyStore /\ req \in [Caller -> Request]
      BY InitType DEF TypeOK
    <2>. QED BY <2>1 DEF Init, Abstract!Init, NoAnswer
  <1>2. IInv /\ [Next]_vars => [Abstract!Next]_(Abstract!vars)
    <2>. SUFFICES ASSUME IInv, [Next]_vars PROVE Abstract!Next \/ UNCHANGED Abstract!vars
      OBVIOUS
    <2>1. ASSUME NEW t \in Caller, NEW r \in Request, Invoke(t, r) PROVE Abstract!Next
      BY <2>1, InvokeSimulates DEF Abstract!Next
    <2>2. ASSUME NEW t \in Caller, SendFails(t) PROVE Abstract!Next
      BY <2>2, SendFailsSimulates DEF Abstract!Next
    <2>3. ASSUME NEW t \in Caller, Finish(t) PROVE Abstract!Next
      BY <2>3, FinishSimulates DEF Abstract!Next
    <2>4. CASE ServeRequest
      BY <2>4, ServeSimulates DEF Abstract!Next
    <2>5. CASE ReceiveSetKey \/ ReceiveResult
      BY <2>5, ReceiveStutters
    <2>6. CASE \/ \E t \in Caller : TakeBusy(t) \/ Send(t) \/ TakeDone(t)
               \/ Crash \/ UNCHANGED vars
      BY <2>6, OthersStutter
    <2>. QED BY <2>1, <2>2, <2>3, <2>4, <2>5, <2>6 DEF Next, Call, ClientReceive
  <1>. QED BY <1>1, <1>2, InitIInv, NextIInv, PTL DEF Spec, ImplementsRemoteCall, Abstract!Spec
=============================================================================
