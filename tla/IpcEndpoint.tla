---------------------------- MODULE IpcEndpoint ----------------------------
(***************************************************************************)
(* One direction of the link between the two cores (app/src/               *)
(* ipc_endpoint.c): threads of one core in ipc_send_message, the endpoint  *)
(* that becomes bound, the receive callback of the other core.             *)
(*                                                                         *)
(* Every thread builds its message in the same static data_payload, field  *)
(* by field and without a lock.  The settings and the key service each let *)
(* one caller in, but not one caller between them, and the main loop and   *)
(* the receive thread send as well.                                        *)
(*                                                                         *)
(* ipc_send_message refuses what is longer than the struct, not what is    *)
(* longer than its data: the longest messages it accepts are copied past   *)
(* data_payload.  What the linker has put there the source does not say:   *)
(* its owner may go on writing to it, or the core may fault, and then none *)
(* of its threads takes another step.                                      *)
(*                                                                         *)
(* The bytes a thread sends are told apart by the thread alone.  Handlers  *)
(* are registered while the system initialises, before the endpoint is set *)
(* up, and never removed: the registered opcodes are a constant.           *)
(***************************************************************************)
EXTENDS Naturals, Sequences

CONSTANTS
    Thread,      \* the threads of one core that send
    MainThread,  \* the one that runs main()
    Opcode,
    Registered,  \* the opcodes the other core has a callback for
    DataSize,    \* the cells of data_payload.data
    Overhead,    \* the cells of struct ipc_payload besides
    Sends,       \* what each thread sends, a set of messages
    LinkRoom,    \* bound: messages the link's ring buffer has room for
    ReadRoom,    \* the cells of the receiver's buffer, for data and overhead
    NULL         \* never written

MaxSize == DataSize + Overhead
Message == [opcode : Opcode, size : 0..MaxSize + 1]

ASSUME ThreadAssumption == MainThread \in Thread /\ NULL \notin Thread
ASSUME OpcodeAssumption == Registered \subseteq Opcode /\ NULL \notin Opcode
ASSUME SizeAssumption ==
    /\ DataSize \in Nat /\ Overhead \in Nat
    /\ LinkRoom \in Nat \ {0} /\ ReadRoom \in Nat
ASSUME SendsAssumption == Sends \in [Thread -> (SUBSET Message) \ {{}}]

\* The data and the memory that lies behind it.
Cell   == 1..MaxSize
Behind == DataSize + 1..MaxSize
InCall == {"opcode", "size", "data", "transmit"}

VARIABLES
    boot,         \* where main() stands: setting up, waiting, sending, over
    bound,        \* the endpoint is bound
    boundSem,     \* ipc_bound_sem
    pc,           \* the next statement of each thread in ipc_send_message
    message,      \* what it was asked to send
    copied,       \* how far its memcpy has got
    payload,      \* data_payload: opcode, size and the thread each cell is from,
                  \* NULL in a cell behind it that holds its owner's content
    link,         \* messages sent and not received
    dispatched,   \* ghost: what the last callback was given: nothing yet, a
                  \* message as it was sent, or a mixture
    overlap       \* ghost: the calls in progress at some time during each
                  \* thread's call, its own among them

vars == <<boot, bound, boundSem, pc, message, copied, payload, link, dispatched, overlap>>

Payload == [opcode : Opcode \cup {NULL}, size : 0..MaxSize + 1,
            data : [Cell -> Thread \cup {NULL}]]

CallRecord == [thread : Thread, message : Message]

\* What is on the link.  "call" and "overlap" are ghosts.
Wire == [opcode : Opcode \cup {NULL}, size : 0..MaxSize + 1,
         data : UNION {[1..n -> Thread \cup {NULL}] : n \in 0..MaxSize},
         call : CallRecord, overlap : SUBSET CallRecord]

TypeOK ==
    /\ boot \in {"setup", "wait", "send", "over"}
    /\ bound \in BOOLEAN /\ boundSem \in 0..1
    /\ pc \in [Thread -> InCall \cup {"idle"}]
    /\ message \in [Thread -> Message]
    /\ copied \in [Thread -> 0..MaxSize]
    /\ payload \in Payload
    /\ link \in Seq(Wire) /\ Len(link) <= LinkRoom
    /\ dispatched \in {"none", "sent", "mixed"}
    /\ overlap \in [Thread -> SUBSET CallRecord]

Init ==
    /\ boot = "setup"
    /\ bound = FALSE /\ boundSem = 0
    /\ pc = [t \in Thread |-> "idle"]
    /\ message = [t \in Thread |-> CHOOSE m \in Sends[t] : TRUE]
    /\ copied = [t \in Thread |-> 0]
    /\ payload = [opcode |-> NULL, size |-> 0, data |-> [c \in Cell |-> NULL]]
    /\ link = <<>>
    /\ dispatched = "none"
    /\ overlap = [t \in Thread |-> {}]

-----------------------------------------------------------------------------
(* Start-up: main() and the endpoint's bound callback. *)

\* ipc_setup; main returns if the instance or the endpoint fails.
Setup ==
    /\ boot = "setup"
    /\ boot' \in {"wait", "over"}
    /\ UNCHANGED <<bound, boundSem, pc, message, copied, payload, link, dispatched, overlap>>

\* The other core is up as well: the service calls ipc_endpoint_bound.
Bound ==
    /\ boot \notin {"setup", "over"}
    /\ ~bound
    /\ bound' = TRUE
    /\ boundSem' = 1
    /\ UNCHANGED <<boot, pc, message, copied, payload, link, dispatched, overlap>>

\* Mutant of WaitForReady: the wait gives up after a time.
WaitTimesOut ==
    /\ boot = "wait"
    /\ boundSem' = 0
    /\ boot' = "send"
    /\ UNCHANGED <<bound, pc, message, copied, payload, link, dispatched, overlap>>

WaitForReady ==
    /\ boot = "wait"
    /\ boundSem = 1
    /\ boundSem' = 0
    /\ boot' = "send"
    /\ UNCHANGED <<bound, pc, message, copied, payload, link, dispatched, overlap>>

-----------------------------------------------------------------------------
(* A thread in ipc_send_message. *)

Inside(t) == pc[t] \in InCall
CallOf(t) == [thread |-> t, message |-> message[t]]

\* Mutant of Enter: a message longer than the payload is not refused.
EnterAny(t, m) ==
    /\ pc[t] = "idle"
    /\ t = MainThread => boot = "send"
    /\ m \in Sends[t]
    /\ pc' = [pc EXCEPT ![t] = "opcode"]
    /\ message' = [message EXCEPT ![t] = m]
    /\ LET mine   == [thread |-> t, message |-> m]
           others == {u \in Thread : Inside(u)}
       IN  overlap' = [u \in Thread |->
                          IF u = t THEN {mine} \cup {CallOf(w) : w \in others}
                          ELSE IF u \in others THEN overlap[u] \cup {mine}
                          ELSE overlap[u]]
    /\ UNCHANGED <<boot, bound, boundSem, copied, payload, link, dispatched>>

\* Only a message longer than the whole payload is refused, without a trace.
Enter(t, m) ==
    /\ pc[t] = "idle"
    /\ t = MainThread => boot = "send"
    /\ m \in Sends[t]
    /\ m.size <= MaxSize
    /\ pc' = [pc EXCEPT ![t] = "opcode"]
    /\ message' = [message EXCEPT ![t] = m]
    /\ LET mine   == [thread |-> t, message |-> m]
           others == {u \in Thread : Inside(u)}
       IN  overlap' = [u \in Thread |->
                          IF u = t THEN {mine} \cup {CallOf(w) : w \in others}
                          ELSE IF u \in others THEN overlap[u] \cup {mine}
                          ELSE overlap[u]]
    /\ UNCHANGED <<boot, bound, boundSem, copied, payload, link, dispatched>>

WriteOpcode(t) ==
    /\ pc[t] = "opcode"
    /\ payload' = [payload EXCEPT !.opcode = message[t].opcode]
    /\ pc' = [pc EXCEPT ![t] = "size"]
    /\ UNCHANGED <<boot, bound, boundSem, message, copied, link, dispatched, overlap>>

\* Mutant of WriteSize: an acknowledgement, which has no data, leaves the size.
WriteSizeOfData(t) ==
    /\ pc[t] = "size"
    /\ payload' = IF message[t].size = 0 THEN payload
                  ELSE [payload EXCEPT !.size = message[t].size]
    /\ pc' = [pc EXCEPT ![t] = "data"]
    /\ UNCHANGED <<boot, bound, boundSem, message, copied, link, dispatched, overlap>>

WriteSize(t) ==
    /\ pc[t] = "size"
    /\ payload' = [payload EXCEPT !.size = message[t].size]
    /\ pc' = [pc EXCEPT ![t] = "data"]
    /\ UNCHANGED <<boot, bound, boundSem, message, copied, link, dispatched, overlap>>

\* Mutant of CopyData: the struct is filled, whatever the size.
CopyStruct(t) ==
    /\ pc[t] = "data"
    /\ IF copied[t] < MaxSize
       THEN /\ payload' = [payload EXCEPT !.data[copied[t] + 1] = t]
            /\ copied' = [copied EXCEPT ![t] = @ + 1]
            /\ UNCHANGED pc
       ELSE /\ pc' = [pc EXCEPT ![t] = "transmit"]
            /\ UNCHANGED <<payload, copied>>
    /\ UNCHANGED <<boot, bound, boundSem, message, link, dispatched, overlap>>

\* memcpy, one cell after the other, as far as the size says.
CopyData(t) ==
    /\ pc[t] = "data"
    /\ IF copied[t] < message[t].size
       THEN /\ payload' = [payload EXCEPT !.data[copied[t] + 1] = t]
            /\ copied' = [copied EXCEPT ![t] = @ + 1]
            /\ UNCHANGED pc
       ELSE /\ pc' = [pc EXCEPT ![t] = "transmit"]
            /\ UNCHANGED <<payload, copied>>
    /\ UNCHANGED <<boot, bound, boundSem, message, link, dispatched, overlap>>

\* ipc_service_send copies as much of the payload as the local size says.  It
\* fails while the endpoint is not bound and when the link is full.
Transmit(t) ==
    /\ pc[t] = "transmit"
    /\ pc' = [pc EXCEPT ![t] = "idle"]
    /\ link' = IF bound /\ Len(link) < LinkRoom
               THEN Append(link, [opcode  |-> payload.opcode,
                                  size    |-> payload.size,
                                  data    |-> [c \in 1..message[t].size |-> payload.data[c]],
                                  call    |-> CallOf(t),
                                  overlap |-> overlap[t]])
               ELSE link
    /\ copied' = [copied EXCEPT ![t] = 0]
    /\ overlap' = [overlap EXCEPT ![t] = {}]
    /\ UNCHANGED <<boot, bound, boundSem, message, payload, dispatched>>

\* The owner of what lies behind data_payload writes its own content back.
OwnerWrites(c) ==
    /\ payload.data[c] # NULL
    /\ payload' = [payload EXCEPT !.data[c] = NULL]
    /\ UNCHANGED <<boot, bound, boundSem, pc, message, copied, link, dispatched, overlap>>

-----------------------------------------------------------------------------
(* The other core: ipc_endpoint_receive. *)

\* The message is what the call that sent it was given.
AsSent(w) ==
    /\ w.opcode = w.call.message.opcode
    /\ w.size = w.call.message.size
    /\ \A b \in DOMAIN w.data : w.data[b] = w.call.thread

\* A length that does not match the size is printed; the message is handed on
\* all the same.  One of an opcode nobody registered is dropped; one that is too
\* long for the receiver's buffer stays on the link.
Receive ==
    /\ link # <<>>
    /\ Len(Head(link).data) + Overhead <= ReadRoom
    /\ dispatched' = IF Head(link).opcode \notin Registered THEN dispatched
                     ELSE IF AsSent(Head(link)) THEN "sent" ELSE "mixed"
    /\ link' = Tail(link)
    /\ UNCHANGED <<boot, bound, boundSem, pc, message, copied, payload, overlap>>

-----------------------------------------------------------------------------
Next ==
    \/ Setup \/ Bound \/ WaitForReady
    \/ \E t \in Thread :
          \/ \E m \in Message : Enter(t, m)
          \/ WriteOpcode(t) \/ WriteSize(t) \/ CopyData(t) \/ Transmit(t)
    \/ \E c \in Behind : OwnerWrites(c)
    \/ Receive

Spec == Init /\ [][Next]_vars

-----------------------------------------------------------------------------
(* Properties. *)

\* Nothing stale is sent: the opcode, the size and each byte of a message come
\* from calls of ipc_send_message in progress during the call that sent it, or,
\* past the data, from the memory behind it.  A call that no other overlaps
\* therefore sends what it was asked to, whatever an earlier message left in
\* data_payload.
FromConcurrentCalls ==
    \A i \in DOMAIN link :
        LET w == link[i]
        IN  /\ w.opcode \in {c.message.opcode : c \in w.overlap}
            /\ w.size \in {c.message.size : c \in w.overlap}
            /\ \A b \in DOMAIN w.data :
                  \/ w.data[b] \in {c.thread : c \in w.overlap}
                  \/ b \in Behind /\ w.data[b] = NULL

\* The memory behind data_payload is overwritten, and the core put at risk, by
\* the sizes that the test of ipc_send_message lets through by mistake and by no
\* others: however the calls interleave in data_payload, a thread whose messages
\* fit in the data, or are refused, touches no cell behind it.
OverrunBySizeOnly ==
    \A c \in Behind :
        payload.data[c] # NULL =>
            \E m \in Sends[payload.data[c]] : m.size \in c..MaxSize

\* Once main() has got past ipc_wait_for_ready the endpoint is bound for good,
\* so that a heartbeat fails for want of room only.
MainSendsBound == Inside(MainThread) => bound

\* A message is sent over the link: what reaches a callback is what one call of
\* ipc_send_message was given, opcode, size and bytes (ipc_endpoint.h:54).
DispatchedAsSent == dispatched # "mixed"
=============================================================================
