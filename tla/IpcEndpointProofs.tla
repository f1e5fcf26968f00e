------------------------- MODULE IpcEndpointProofs -------------------------
(***************************************************************************)
(* Theorems about IpcEndpoint, for any number of threads, any messages and *)
(* any sizes of the payload and of the link.                               *)
(***************************************************************************)
EXTENDS IpcEndpoint, TLAPS

\* What the calls of a set were given.
Opcodes(calls) == {c.message.opcode : c \in calls}
Sizes(calls)   == {c.message.size : c \in calls}
Threads(calls) == {c.thread : c \in calls}

\* Every call in progress is known to every other.
Overlapping == \A t, u \in Thread : Inside(t) /\ Inside(u) => CallOf(u) \in overlap[t]

\* memcpy goes as far as the size, and is over when the message is sent.
Copying ==
    \A t \in Thread :
        /\ Inside(t) => /\ message[t] \in Sends[t]
                        /\ message[t].size \in 0..MaxSize
                        /\ copied[t] <= message[t].size
        /\ pc[t] \notin {"data", "transmit"} => copied[t] = 0
        /\ pc[t] = "transmit" => copied[t] = message[t].size

\* What a thread has written was written by it or by a call it has overlapped,
\* or, behind the data, written back by its owner.
FreshOpcode ==
    \A t \in Thread :
        pc[t] \in {"size", "data", "transmit"} => payload.opcode \in Opcodes(overlap[t])

FreshSize ==
    \A t \in Thread : pc[t] \in {"data", "transmit"} => payload.size \in Sizes(overlap[t])

FreshData ==
    \A t \in Thread : \A c \in 1..copied[t] :
        \/ payload.data[c] \in Threads(overlap[t])
        \/ c \in Behind /\ payload.data[c] = NULL

\* FromConcurrentCalls, of one message.
SentFresh(w) ==
    /\ w.opcode \in Opcodes(w.overlap)
    /\ w.size \in Sizes(w.overlap)
    /\ \A b \in DOMAIN w.data :
          \/ w.data[b] \in Threads(w.overlap)
          \/ b \in Behind /\ w.data[b] = NULL

\* main() sends when it has seen the endpoint bound, and not before.
MainWaits ==
    /\ Inside(MainThread) => boot = "send"
    /\ boot = "send" \/ boundSem = 1 => bound

IInv ==
    /\ TypeOK
    /\ Overlapping
    /\ Copying
    /\ FreshOpcode
    /\ FreshSize
    /\ FreshData
    /\ FromConcurrentCalls
    /\ OverrunBySizeOnly
    /\ MainWaits

-----------------------------------------------------------------------------
(* Lemmas. *)

\* A message that ipc_send_message does not refuse fits in the struct.
LEMMA SizesFit ==
    ASSUME NEW t \in Thread, NEW m \in Sends[t]
    PROVE  m \in Message /\ (m.size <= MaxSize => m.size \in 0..MaxSize)
  <1>1. m \in Message
    BY SendsAssumption
  <1>. QED BY <1>1, SizeAssumption DEF Message, MaxSize

\* What comes from the calls of a set comes from those of a larger one.
LEMMA MoreCalls ==
    ASSUME NEW A, NEW B, A \subseteq B
    PROVE  /\ Opcodes(A) \subseteq Opcodes(B)
           /\ Sizes(A) \subseteq Sizes(B)
           /\ Threads(A) \subseteq Threads(B)
  BY DEF Opcodes, Sizes, Threads

\* A call brings its own opcode, size and thread.
LEMMA CallBrings ==
    ASSUME NEW t \in Thread, NEW calls, CallOf(t) \in calls
    PROVE  /\ message[t].opcode \in Opcodes(calls)
           /\ message[t].size \in Sizes(calls)
           /\ t \in Threads(calls)
  BY DEF CallOf, Opcodes, Sizes, Threads

\* A message sent goes behind those on the link.
LEMMA LinkAppend ==
    ASSUME NEW S, NEW s \in Seq(S), NEW m \in S
    PROVE  /\ Append(s, m) \in Seq(S)
           /\ Len(Append(s, m)) = Len(s) + 1
           /\ \A i \in DOMAIN Append(s, m) :
                 (i \in DOMAIN s /\ Append(s, m)[i] = s[i]) \/ Append(s, m)[i] = m
  OBVIOUS

\* A message received leaves the others.
LEMMA LinkTail ==
    ASSUME NEW S, NEW s \in Seq(S), s # <<>>
    PROVE  /\ Tail(s) \in Seq(S)
           /\ Len(Tail(s)) <= Len(s)
           /\ \A i \in DOMAIN Tail(s) : i + 1 \in DOMAIN s /\ Tail(s)[i] = s[i + 1]
  OBVIOUS

LEMMA Constants ==
    /\ DataSize \in Nat /\ Overhead \in Nat /\ LinkRoom \in Nat /\ LinkRoom > 0
    /\ MaxSize \in Nat /\ DataSize <= MaxSize
  BY SizeAssumption DEF MaxSize

-----------------------------------------------------------------------------
(* The invariant. *)

LEMMA InitIInv == Init => IInv
  <1>. SUFFICES ASSUME Init PROVE IInv
    OBVIOUS
  <1>1. \A t \in Thread : message[t] \in Message
    <2>. SUFFICES ASSUME NEW t \in Thread PROVE message[t] \in Message
      OBVIOUS
    <2>1. Sends[t] \subseteq Message /\ Sends[t] # {}
      BY SendsAssumption
    <2>. QED BY <2>1 DEF Init
  <1>2. message \in [Thread -> Message]
    BY <1>1 DEF Init
  <1>3. payload \in Payload
    BY Constants DEF Init, Payload
  <1>4. TypeOK
    <2>1. link \in Seq(Wire) /\ Len(link) <= LinkRoom
      BY Constants DEF Init
    <2>2. /\ pc \in [Thread -> InCall \cup {"idle"}]
          /\ copied \in [Thread -> 0..MaxSize] /\ overlap \in [Thread -> SUBSET CallRecord]
      BY Constants DEF Init
    <2>3. /\ boot \in {"setup", "wait", "send", "over"}
          /\ boundSem \in 0..1 /\ dispatched \in {"none", "sent", "mixed"}
      BY DEF Init
    <2>4. bound \in BOOLEAN
      BY Zenon DEF Init
    <2>. QED BY <1>2, <1>3, <2>1, <2>2, <2>3, <2>4 DEF TypeOK
  <1>5. /\ Overlapping /\ Copying /\ FreshOpcode /\ FreshSize /\ FreshData
        /\ OverrunBySizeOnly
    BY Constants DEF Init, OverrunBySizeOnly, Behind, Cell, Overlapping, Copying, FreshOpcode, FreshSize, FreshData, Inside, InCall
  <1>6. FromConcurrentCalls /\ MainWaits
    BY ThreadAssumption DEF Init, FromConcurrentCalls, MainWaits, Inside, InCall
  <1>. QED BY <1>4, <1>5, <1>6 DEF IInv

\* Start-up: no thread and no message is touched.
LEMMA StartUpKeeps ==
    ASSUME IInv, Setup \/ Bound \/ WaitForReady \/ UNCHANGED vars
    PROVE  IInv'
  <1>1. UNCHANGED <<pc, message, copied, payload, link, overlap>>
    BY DEF Setup, Bound, WaitForReady, vars
  <1>2. TypeOK'
    <2>1. /\ boot' \in {"setup", "wait", "send", "over"}
          /\ boundSem' \in 0..1 /\ dispatched' = dispatched
      BY DEF IInv, TypeOK, Setup, Bound, WaitForReady, vars
    <2>2. bound' \in BOOLEAN
      BY Zenon DEF IInv, TypeOK, Setup, Bound, WaitForReady, vars
    <2>. QED BY <1>1, <2>1, <2>2 DEF IInv, TypeOK
  <1>3. /\ Overlapping' /\ Copying' /\ FreshOpcode' /\ FreshSize' /\ FreshData'
        /\ FromConcurrentCalls' /\ OverrunBySizeOnly'
    BY <1>1 DEF IInv, Overlapping, Copying, FreshOpcode, FreshSize, FreshData, Inside, CallOf,
       FromConcurrentCalls, OverrunBySizeOnly
  <1>4. MainWaits'
    BY <1>1 DEF IInv, MainWaits, Inside, Setup, Bound, WaitForReady, vars
  <1>. QED BY <1>2, <1>3, <1>4 DEF IInv

\* A call starts: the calls in progress learn of it, and it of them.
LEMMA EnterKeeps ==
    ASSUME IInv, NEW t \in Thread, NEW m \in Message, Enter(t, m)
    PROVE  IInv'
  <1>1. /\ pc[t] = "idle" /\ pc' = [pc EXCEPT ![t] = "opcode"]
        /\ message' = [message EXCEPT ![t] = m]
        /\ UNCHANGED <<boot, bound, boundSem, copied, payload, link, dispatched>>
        /\ t = MainThread => boot = "send"
    BY DEF Enter
  <1>2. /\ pc \in [Thread -> InCall \cup {"idle"}] /\ message \in [Thread -> Message]
        /\ overlap \in [Thread -> SUBSET CallRecord] /\ copied \in [Thread -> 0..MaxSize]
    BY DEF IInv, TypeOK
  <1>. DEFINE mine   == [thread |-> t, message |-> m]
              others == {u \in Thread : Inside(u)}
  <1>3. overlap' = [u \in Thread |->
                       IF u = t THEN {mine} \cup {CallOf(w) : w \in others}
                       ELSE IF u \in others THEN overlap[u] \cup {mine}
                       ELSE overlap[u]]
    BY DEF Enter
  <1>4. mine \in CallRecord /\ \A u \in Thread : CallOf(u) \in CallRecord
    BY <1>2 DEF CallRecord, CallOf
  <1>5. m \in Sends[t] /\ m.size \in 0..MaxSize
    BY SizesFit DEF Enter
  <1>6. /\ \A u \in Thread : Inside(u)' <=> u = t \/ u \in others
        /\ t \notin others
        /\ CallOf(t)' = mine
        /\ \A u \in others : CallOf(u)' = CallOf(u)
    BY <1>1, <1>2 DEF Inside, InCall, CallOf
  <1>7. \A u \in Thread : u # t => overlap[u] \subseteq overlap'[u] /\ pc'[u] = pc[u]
    BY <1>1, <1>2, <1>3
  <1>8. pc'[t] = "opcode" /\ message'[t] = m /\ \A u \in Thread \ {t} : message'[u] = message[u]
    BY <1>1, <1>2
  <1>9. TypeOK'
    <2>1. overlap' \in [Thread -> SUBSET CallRecord]
      BY <1>2, <1>3, <1>4
    <2>2. pc' \in [Thread -> InCall \cup {"idle"}] /\ message' \in [Thread -> Message]
      BY <1>1, <1>2 DEF InCall
    <2>. QED BY <1>1, <2>1, <2>2 DEF IInv, TypeOK
  <1>10. Overlapping'
    <2>. SUFFICES ASSUME NEW u \in Thread, NEW w \in Thread, Inside(u)', Inside(w)'
                  PROVE  CallOf(w)' \in overlap'[u]
      BY DEF Overlapping
    <2>1. CASE u = t
      BY <1>3, <1>6, <2>1
    <2>2. CASE u # t /\ w = t
      BY <1>3, <1>6, <2>2
    <2>3. CASE u # t /\ w # t
      <3>1. Inside(u) /\ Inside(w) /\ CallOf(w)' = CallOf(w)
        BY <1>6, <2>3
      <3>. QED BY <1>7, <2>3, <3>1 DEF IInv, Overlapping
    <2>. QED BY <2>1, <2>2, <2>3
  <1>. HIDE DEF mine, others
  <1>11. copied[t] = 0
    BY <1>1 DEF IInv, Copying
  <1>12. Copying'
    <2>. SUFFICES ASSUME NEW u \in Thread
                  PROVE  /\ Inside(u)' => /\ message'[u] \in Sends[u]
                                          /\ message'[u].size \in 0..MaxSize
                                          /\ copied'[u] <= message'[u].size
                         /\ pc'[u] \notin {"data", "transmit"} => copied'[u] = 0
                         /\ pc'[u] = "transmit" => copied'[u] = message'[u].size
      BY DEF Copying
    <2>1. CASE u = t
      BY <1>1, <1>5, <1>8, <1>11, <2>1
    <2>2. CASE u # t
      BY <1>1, <1>7, <1>8, <2>2 DEF IInv, Copying, Inside
    <2>. QED BY <2>1, <2>2
  <1>13. FreshOpcode' /\ FreshSize' /\ FreshData'
    <2>1. \A u \in Thread \ {t} : /\ Opcodes(overlap[u]) \subseteq Opcodes(overlap'[u])
                                  /\ Sizes(overlap[u]) \subseteq Sizes(overlap'[u])
                                  /\ Threads(overlap[u]) \subseteq Threads(overlap'[u])
      BY <1>7, MoreCalls
    <2>2. FreshOpcode' /\ FreshSize'
      BY <1>1, <1>7, <1>8, <2>1 DEF IInv, FreshOpcode, FreshSize
    <2>3. FreshData'
      BY <1>1, <1>11, <2>1 DEF IInv, FreshData
    <2>. QED BY <2>2, <2>3
  <1>14. FromConcurrentCalls' /\ OverrunBySizeOnly'
    BY <1>1 DEF IInv, FromConcurrentCalls, OverrunBySizeOnly
  <1>15. MainWaits'
    BY <1>1, <1>2 DEF IInv, MainWaits, Inside
  <1>. QED BY <1>9, <1>10, <1>12, <1>13, <1>14, <1>15 DEF IInv

\* What a thread writes into data_payload is its own, and the calls in progress
\* know of it.
LEMMA WriteKeeps ==
    ASSUME IInv, NEW t \in Thread, WriteOpcode(t) \/ WriteSize(t) \/ CopyData(t)
    PROVE  IInv'
  <1>1. /\ UNCHANGED <<boot, bound, boundSem, message, link, dispatched, overlap>>
        /\ Inside(t)
    BY DEF WriteOpcode, WriteSize, CopyData, Inside, InCall
  <1>2. /\ pc \in [Thread -> InCall \cup {"idle"}] /\ message \in [Thread -> Message]
        /\ copied \in [Thread -> 0..MaxSize] /\ payload \in Payload
    BY DEF IInv, TypeOK
  <1>3. /\ payload.data \in [Cell -> Thread \cup {NULL}]
        /\ \A u \in Thread : message[u].opcode \in Opcode /\ message[u].size \in 0..MaxSize + 1
        /\ message[t] \in Sends[t] /\ message[t].size \in 0..MaxSize
        /\ \A u \in Thread : copied[u] \in 0..MaxSize
    BY <1>1, <1>2 DEF Payload, Message, IInv, Copying
  <1>4. \A u \in Thread : Inside(u) => /\ message[t].opcode \in Opcodes(overlap[u])
                                       /\ message[t].size \in Sizes(overlap[u])
                                       /\ t \in Threads(overlap[u])
    BY <1>1, CallBrings DEF IInv, Overlapping
  <1>5. \A u \in Thread : pc[u] \in {"size", "data", "transmit"} => Inside(u)
    BY DEF Inside, InCall
  <1>6. \A u \in Thread : 0 < copied[u] => Inside(u)
    BY <1>5 DEF IInv, Copying
  <1>7. FromConcurrentCalls'
    BY <1>1 DEF IInv, FromConcurrentCalls
  <1>8. CASE WriteOpcode(t)
    <2>1. /\ pc[t] = "opcode" /\ pc' = [pc EXCEPT ![t] = "size"] /\ copied' = copied
          /\ payload' = [payload EXCEPT !.opcode = message[t].opcode]
      BY <1>8 DEF WriteOpcode
    <2>2. /\ payload'.opcode = message[t].opcode /\ payload'.size = payload.size
          /\ payload'.data = payload.data /\ payload' \in Payload
      BY <1>2, <1>3, <2>1 DEF Payload
    <2>3. TypeOK'
      BY <1>1, <1>2, <2>1, <2>2 DEF IInv, TypeOK, InCall
    <2>4. \A u \in Thread : Inside(u)' <=> Inside(u)
      BY <1>1, <1>2, <2>1 DEF Inside, InCall
    <2>5. Overlapping' /\ MainWaits'
      BY <1>1, <2>4, ThreadAssumption DEF IInv, Overlapping, MainWaits, CallOf
    <2>6. Copying'
      BY <1>1, <1>2, <2>1, <2>4 DEF IInv, Copying
    <2>7. FreshOpcode'
      BY <1>1, <1>2, <1>4, <1>5, <2>1, <2>2 DEF FreshOpcode
    <2>8. FreshSize' /\ FreshData' /\ OverrunBySizeOnly'
      BY <1>1, <1>2, <2>1, <2>2 DEF IInv, FreshSize, FreshData, OverrunBySizeOnly
    <2>. QED BY <1>7, <2>3, <2>5, <2>6, <2>7, <2>8 DEF IInv
  <1>9. CASE WriteSize(t)
    <2>1. /\ pc[t] = "size" /\ pc' = [pc EXCEPT ![t] = "data"] /\ copied' = copied
          /\ payload' = [payload EXCEPT !.size = message[t].size]
      BY <1>9 DEF WriteSize
    <2>2. /\ payload'.opcode = payload.opcode /\ payload'.size = message[t].size
          /\ payload'.data = payload.data /\ payload' \in Payload
      BY <1>2, <1>3, <2>1 DEF Payload
    <2>3. TypeOK'
      BY <1>1, <1>2, <2>1, <2>2 DEF IInv, TypeOK, InCall
    <2>4. \A u \in Thread : Inside(u)' <=> Inside(u)
      BY <1>1, <1>2, <2>1 DEF Inside, InCall
    <2>5. Overlapping' /\ MainWaits'
      BY <1>1, <2>4, ThreadAssumption DEF IInv, Overlapping, MainWaits, CallOf
    <2>6. Copying'
      BY <1>1, <1>2, <2>1, <2>4 DEF IInv, Copying
    <2>7. FreshSize'
      BY <1>1, <1>2, <1>4, <1>5, <2>1, <2>2 DEF FreshSize
    <2>8. FreshOpcode' /\ FreshData' /\ OverrunBySizeOnly'
      BY <1>1, <1>2, <2>1, <2>2 DEF IInv, FreshOpcode, FreshData, OverrunBySizeOnly
    <2>. QED BY <1>7, <2>3, <2>5, <2>6, <2>7, <2>8 DEF IInv
  <1>10. CASE CopyData(t) /\ copied[t] < message[t].size
    <2>1. /\ pc[t] = "data" /\ pc' = pc /\ copied' = [copied EXCEPT ![t] = copied[t] + 1]
          /\ payload' = [payload EXCEPT !.data[copied[t] + 1] = t]
      BY <1>10 DEF CopyData
    <2>2. copied[t] + 1 \in Cell /\ copied[t] + 1 <= message[t].size
      BY <1>3, <1>10, Constants DEF Cell
    <2>3. /\ payload'.opcode = payload.opcode /\ payload'.size = payload.size
          /\ payload'.data = [payload.data EXCEPT ![copied[t] + 1] = t]
          /\ payload' \in Payload
      BY <1>2, <1>3, <2>1, <2>2 DEF Payload
    <2>4. copied' \in [Thread -> 0..MaxSize]
      BY <1>2, <2>1, <2>2 DEF Cell
    <2>5. TypeOK'
      BY <1>1, <1>2, <2>1, <2>3, <2>4 DEF IInv, TypeOK
    <2>6. Overlapping' /\ MainWaits' /\ FreshOpcode' /\ FreshSize'
      BY <1>1, <2>1, <2>3 DEF IInv, Overlapping, MainWaits, CallOf, Inside, FreshOpcode, FreshSize
    <2>7. Copying'
      BY <1>1, <1>2, <1>3, <2>1, <2>2 DEF IInv, Copying, Inside
    <2>8. FreshData'
      <3>. SUFFICES ASSUME NEW u \in Thread, NEW c \in 1..copied'[u]
                    PROVE  \/ payload'.data[c] \in Threads(overlap[u])
                           \/ c \in Behind /\ payload'.data[c] = NULL
        BY <1>1 DEF FreshData
      <3>1. c \in Cell
        BY <2>4, Constants DEF Cell
      <3>2. CASE c = copied[t] + 1
        <4>1. Inside(u)
          BY <1>1, <1>2, <1>3, <1>6, <2>1, <3>2
        <4>. QED BY <1>3, <1>4, <2>3, <3>1, <3>2, <4>1
      <3>3. CASE c # copied[t] + 1
        <4>1. c \in 1..copied[u]
          BY <1>2, <1>3, <2>1, <3>3
        <4>2. payload'.data[c] = payload.data[c]
          BY <1>3, <2>3, <3>1, <3>3
        <4>. QED BY <4>1, <4>2 DEF IInv, FreshData
      <3>. QED BY <3>2, <3>3
    <2>9. OverrunBySizeOnly'
      <3>. SUFFICES ASSUME NEW c \in Behind, payload'.data[c] # NULL
                    PROVE  \E m \in Sends[payload'.data[c]] : m.size \in c..MaxSize
        BY DEF OverrunBySizeOnly
      <3>1. c \in Cell
        BY Constants DEF Behind, Cell
      <3>2. CASE c = copied[t] + 1
        <4>1. payload'.data[c] = t
          BY <1>3, <2>3, <3>1, <3>2
        <4>2. message[t].size \in c..MaxSize
          BY <1>3, <2>2, <3>2, Constants DEF Cell
        <4>. QED BY <1>3, <4>1, <4>2
      <3>3. CASE c # copied[t] + 1
        <4>1. payload'.data[c] = payload.data[c]
          BY <1>3, <2>3, <3>1, <3>3
        <4>. QED BY <4>1 DEF IInv, OverrunBySizeOnly
      <3>. QED BY <3>2, <3>3
    <2>. QED BY <1>7, <2>5, <2>6, <2>7, <2>8, <2>9 DEF IInv
  <1>11. CASE CopyData(t) /\ ~(copied[t] < message[t].size)
    <2>1. /\ pc[t] = "data" /\ pc' = [pc EXCEPT ![t] = "transmit"]
          /\ copied' = copied /\ payload' = payload
      BY <1>11 DEF CopyData
    <2>2. copied[t] = message[t].size
      BY <1>1, <1>3, <1>11 DEF IInv, Copying
    <2>3. TypeOK'
      BY <1>1, <1>2, <2>1 DEF IInv, TypeOK, InCall
    <2>4. \A u \in Thread : Inside(u)' <=> Inside(u)
      BY <1>1, <1>2, <2>1 DEF Inside, InCall
    <2>5. Overlapping' /\ MainWaits'
      BY <1>1, <2>4, ThreadAssumption DEF IInv, Overlapping, MainWaits, CallOf
    <2>6. Copying'
      BY <1>1, <1>2, <2>1, <2>2, <2>4 DEF IInv, Copying
    <2>7. FreshOpcode' /\ FreshSize' /\ FreshData' /\ OverrunBySizeOnly'
      BY <1>1, <1>2, <2>1 DEF IInv, FreshOpcode, FreshSize, FreshData, OverrunBySizeOnly
    <2>. QED BY <1>7, <2>3, <2>5, <2>6, <2>7 DEF IInv
  <1>. QED BY <1>8, <1>9, <1>10, <1>11

\* What is sent has been written during the call; the call is over.
LEMMA TransmitKeeps ==
    ASSUME IInv, NEW t \in Thread, Transmit(t)
    PROVE  IInv'
  <1>1. /\ pc[t] = "transmit" /\ pc' = [pc EXCEPT ![t] = "idle"]
        /\ copied' = [copied EXCEPT ![t] = 0] /\ overlap' = [overlap EXCEPT ![t] = {}]
        /\ UNCHANGED <<boot, bound, boundSem, message, payload, dispatched>>
    BY DEF Transmit
  <1>2. /\ pc \in [Thread -> InCall \cup {"idle"}] /\ message \in [Thread -> Message]
        /\ copied \in [Thread -> 0..MaxSize] /\ payload \in Payload
        /\ overlap \in [Thread -> SUBSET CallRecord] /\ link \in Seq(Wire)
        /\ Len(link) <= LinkRoom
    BY DEF IInv, TypeOK
  <1>. PICK w : w = [opcode  |-> payload.opcode,
                     size    |-> payload.size,
                     data    |-> [c \in 1..message[t].size |-> payload.data[c]],
                     call    |-> CallOf(t),
                     overlap |-> overlap[t]]
    OBVIOUS
  <1>3. \/ link' = link
        \/ Len(link) < LinkRoom /\ link' = Append(link, w)
    <2>1. link' = IF bound /\ Len(link) < LinkRoom THEN Append(link, w) ELSE link
      BY Zenon DEF Transmit
    <2>. QED BY <2>1
  <1>4. /\ Inside(t) /\ message[t].size \in 0..MaxSize /\ copied[t] = message[t].size
    BY <1>1 DEF IInv, Copying, Inside, InCall
  <1>5. w \in Wire
    <2>1. [c \in 1..message[t].size |-> payload.data[c]] \in [1..message[t].size -> Thread \cup {NULL}]
      BY <1>2, <1>4, Constants DEF Payload, Cell
    <2>2. CallOf(t) \in CallRecord
      BY <1>2 DEF CallOf, CallRecord
    <2>. QED BY <1>2, <1>4, <2>1, <2>2 DEF Wire, Payload
  <1>6. SentFresh(w)
    BY <1>1, <1>4 DEF IInv, FreshOpcode, FreshSize, FreshData, SentFresh
  <1>7. /\ Append(link, w) \in Seq(Wire) /\ Len(Append(link, w)) = Len(link) + 1
        /\ \A i \in DOMAIN Append(link, w) :
              (i \in DOMAIN link /\ Append(link, w)[i] = link[i]) \/ Append(link, w)[i] = w
    BY <1>2, <1>5, LinkAppend
  <1>8. Len(link) \in Nat
    BY <1>2
  <1>9. TypeOK'
    <2>1. link' \in Seq(Wire) /\ Len(link') <= LinkRoom
      <3>1. CASE link' = link
        BY <1>2, <3>1
      <3>2. CASE Len(link) < LinkRoom /\ link' = Append(link, w)
        <4>1. link' \in Seq(Wire) /\ Len(link') = Len(link) + 1
          BY <1>7, <3>2
        <4>. QED BY <1>8, <3>2, <4>1, Constants
      <3>. QED BY <1>3, <3>1, <3>2
    <2>2. /\ pc' \in [Thread -> InCall \cup {"idle"}] /\ copied' \in [Thread -> 0..MaxSize]
          /\ overlap' \in [Thread -> SUBSET CallRecord]
      BY <1>1, <1>2, Constants
    <2>. QED BY <1>1, <2>1, <2>2 DEF IInv, TypeOK
  <1>10. FromConcurrentCalls'
    <2>1. \A i \in DOMAIN link' : (i \in DOMAIN link /\ link'[i] = link[i]) \/ link'[i] = w
      BY <1>3, <1>7
    <2>2. \A i \in DOMAIN link : SentFresh(link[i])
      BY DEF IInv, FromConcurrentCalls, SentFresh, Opcodes, Sizes, Threads
    <2>3. \A i \in DOMAIN link' : SentFresh(link'[i])
      BY <1>6, <2>1, <2>2
    <2>. QED BY <2>3 DEF FromConcurrentCalls, SentFresh, Opcodes, Sizes, Threads
  <1>11. /\ \A u \in Thread : Inside(u)' <=> Inside(u) /\ u # t
         /\ \A u \in Thread \ {t} : /\ pc'[u] = pc[u] /\ copied'[u] = copied[u]
                                    /\ overlap'[u] = overlap[u]
         /\ pc'[t] = "idle" /\ copied'[t] = 0
    BY <1>1, <1>2 DEF Inside, InCall
  <1>12. Overlapping' /\ MainWaits'
    BY <1>1, <1>11, ThreadAssumption DEF IInv, Overlapping, MainWaits, CallOf
  <1>13. Copying'
    BY <1>1, <1>11 DEF IInv, Copying
  <1>14. FreshOpcode' /\ FreshSize' /\ FreshData' /\ OverrunBySizeOnly'
    BY <1>1, <1>11 DEF IInv, FreshOpcode, FreshSize, FreshData, OverrunBySizeOnly
  <1>. QED BY <1>9, <1>10, <1>12, <1>13, <1>14 DEF IInv

\* The other core takes a message off the link.
LEMMA ReceiveKeeps ==
    ASSUME IInv, Receive
    PROVE  IInv'
  <1>1. /\ link # <<>> /\ link' = Tail(link)
        /\ dispatched' \in {dispatched, "sent", "mixed"}
        /\ UNCHANGED <<boot, bound, boundSem, pc, message, copied, payload, overlap>>
    BY DEF Receive
  <1>2. link \in Seq(Wire) /\ Len(link) <= LinkRoom
    BY DEF IInv, TypeOK
  <1>3. /\ link' \in Seq(Wire) /\ Len(link') <= LinkRoom
        /\ \A i \in DOMAIN link' : i + 1 \in DOMAIN link /\ link'[i] = link[i + 1]
    BY <1>1, <1>2, LinkTail, Constants
  <1>4. TypeOK'
    BY <1>1, <1>3 DEF IInv, TypeOK
  <1>5. FromConcurrentCalls'
    BY <1>3 DEF IInv, FromConcurrentCalls
  <1>6. /\ Overlapping' /\ Copying' /\ FreshOpcode' /\ FreshSize' /\ FreshData' /\ MainWaits'
        /\ OverrunBySizeOnly'
    BY <1>1 DEF IInv, Overlapping, Copying, FreshOpcode, FreshSize, FreshData, Inside, CallOf,
       MainWaits, OverrunBySizeOnly
  <1>. QED BY <1>4, <1>5, <1>6 DEF IInv

\* The owner of the memory behind data_payload takes a cell back.
LEMMA OwnerKeeps ==
    ASSUME IInv, NEW c \in Behind, OwnerWrites(c)
    PROVE  IInv'
  <1>1. /\ payload' = [payload EXCEPT !.data[c] = NULL]
        /\ UNCHANGED <<boot, bound, boundSem, pc, message, copied, link, dispatched, overlap>>
    BY DEF OwnerWrites
  <1>2. payload \in Payload /\ c \in Cell
    BY Constants DEF IInv, TypeOK, Behind, Cell
  <1>3. /\ payload'.opcode = payload.opcode /\ payload'.size = payload.size
        /\ payload'.data = [payload.data EXCEPT ![c] = NULL]
        /\ payload' \in Payload
    BY <1>1, <1>2 DEF Payload
  <1>4. \A b \in Cell : payload'.data[b] = IF b = c THEN NULL ELSE payload.data[b]
    BY <1>2, <1>3 DEF Payload
  <1>5. TypeOK'
    BY <1>1, <1>3 DEF IInv, TypeOK
  <1>6. /\ Overlapping' /\ Copying' /\ FreshOpcode' /\ FreshSize' /\ MainWaits'
        /\ FromConcurrentCalls'
    BY <1>1, <1>3 DEF IInv, Overlapping, Copying, FreshOpcode, FreshSize, Inside, CallOf,
       MainWaits, FromConcurrentCalls
  <1>7. \A t \in Thread : copied[t] \in 0..MaxSize
    BY DEF IInv, TypeOK
  <1>8. FreshData'
    <2>. SUFFICES ASSUME NEW t \in Thread, NEW b \in 1..copied[t]
                  PROVE  \/ payload'.data[b] \in Threads(overlap[t])
                         \/ b \in Behind /\ payload'.data[b] = NULL
      BY <1>1 DEF FreshData
    <2>1. b \in Cell
      BY <1>7, Constants DEF Cell
    <2>. QED BY <1>4, <2>1 DEF IInv, FreshData
  <1>9. OverrunBySizeOnly'
    <2>1. Behind \subseteq Cell
      BY Constants DEF Behind, Cell
    <2>. QED BY <1>4, <2>1 DEF IInv, OverrunBySizeOnly
  <1>. QED BY <1>5, <1>6, <1>8, <1>9 DEF IInv

LEMMA NextIInv == IInv /\ [Next]_vars => IInv'
  BY StartUpKeeps, EnterKeeps, WriteKeeps, TransmitKeeps, OwnerKeeps, ReceiveKeeps DEF Next

-----------------------------------------------------------------------------
(* The theorems. *)

\* The inductive invariant holds in every reachable state, for any threads,
\* messages and sizes.
THEOREM Invariance == Spec => []IInv
  BY InitIInv, NextIInv, PTL DEF Spec

\* Every variable keeps its type; with it, a memcpy of ipc_send_message ends at
\* the latest as many cells past data_payload.data as the rest of the struct has,
\* whatever sizes the threads write over each other's.
THEOREM TypeCorrect == Spec => []TypeOK
  <1>1. IInv => TypeOK
    BY DEF IInv
  <1>. QED BY <1>1, Invariance, PTL

\* However many threads of ipc_send_message interleave in the one data_payload,
\* a message holds nothing that an earlier, finished call has left there.
THEOREM NothingStale == Spec => []FromConcurrentCalls
  <1>1. IInv => FromConcurrentCalls
    BY DEF IInv
  <1>. QED BY <1>1, Invariance, PTL

\* For any threads, messages and sizes, the memory behind data_payload is touched
\* by callers of the sizes between the data and the struct alone: callers that
\* keep to the data, or go past the struct, never do, in no interleaving.
THEOREM OverrunByThoseSizes == Spec => []OverrunBySizeOnly
  <1>1. IInv => OverrunBySizeOnly
    BY DEF IInv
  <1>. QED BY <1>1, Invariance, PTL

\* main() only sends over a bound endpoint: ipc_wait_for_ready returns no
\* earlier, and nothing unbinds the endpoint.
THEOREM MainWaitsForBound == Spec => []MainSendsBound
  <1>1. IInv => MainSendsBound
    BY DEF IInv, MainWaits, MainSendsBound
  <1>. QED BY <1>1, Invariance, PTL

\* A call of ipc_send_message that no other overlaps, for a message that fits in
\* the data, sends the opcode, the size and the bytes it was given: a lock around
\* each call would be enough for every such message to be sent as it is.
AloneAsSent ==
    \A i \in DOMAIN link :
        link[i].overlap = {link[i].call} /\ DOMAIN link[i].data \cap Behind = {} => AsSent(link[i])

THEOREM AloneIsAsSent == Spec => []AloneAsSent
  <1>1. IInv => AloneAsSent
    BY DEF IInv, FromConcurrentCalls, AloneAsSent, AsSent
  <1>. QED BY <1>1, Invariance, PTL
=============================================================================
