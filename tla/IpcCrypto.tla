----------------------------- MODULE IpcCrypto -----------------------------
(***************************************************************************)
(* The key service of the two-core LoRaWAN application                     *)
(* (app/src/ipc_crypto.c).  Threads of the client core set a key and have  *)
(* the server encrypt or authenticate data under it, one call at a time,   *)
(* as they do for settings.  The server keeps one key: setting a key puts  *)
(* it in magic_key_id, and every operation ends by destroying what is      *)
(* there, which may fail.                                                  *)
(*                                                                         *)
(* A result stands for the key it was computed under.  The callbacks for   *)
(* CCM and for verification are left out: no client function sends their   *)
(* opcodes.                                                                *)
(***************************************************************************)
EXTENDS Naturals, Sequences, FiniteSets

CONSTANTS
    Caller,      \* threads of the client core that use the key service
    Key,
    NoKey,       \* no key, a result never written
    NULL,        \* no destination for a result, no open session
    KeySlots,    \* bound: the volatile keys the PSA key store can hold
    HeapBlocks,  \* bound: the responses the server's heap has room for
    SendFaults   \* the messages whose sending may fail

ASSUME CallerAssumption == NULL \notin Caller
ASSUME KeyAssumption == NoKey \notin Key
ASSUME SlotAssumption == KeySlots \in Nat \ {0}
ASSUME HeapAssumption == HeapBlocks \in Nat
ASSUME FaultAssumption == SendFaults \subseteq {"request", "reply"}

Kind     == {"ecb", "cmac"}    \* what a key may be used for
SetKeys  == [op : {"set_key"}, key : Key, kind : Kind]
Ciphers  == [op : Kind]
Request  == SetKeys \cup Ciphers

ReturnCode == {"ok", "error"}
Answer     == [rc : ReturnCode \cup {"none", "unsent"}, value : Key \cup {NoKey}]
NoAnswer   == [rc |-> "none", value |-> NoKey]
Unsent     == [rc |-> "unsent", value |-> NoKey]
Failed     == [rc |-> "error", value |-> NoKey]

\* The server's key store: the key magic_key_id names, if any, and the number
\* of keys imported before it that nothing names any more.
ImportedKey == [key : Key, kind : Kind]
NoImport    == [key |-> NoKey, kind |-> "none"]
KeyStore    == [slot : ImportedKey \cup {NoImport}, lost : 0..KeySlots]

\* "from" and "to" are on no wire: no action of the client reads them.
ServerMessage == [request : Request, from : Caller]
ClientMessage == [op : {"set_key"} \cup Kind, rc : ReturnCode,
                  value : Key \cup {NoKey}, to : Caller]

VARIABLES
    phase,        \* where each caller stands in its call
    req,          \* what the call asks
    ret,          \* its local rc
    result,       \* the memory an operation fills in
    busy, done,   \* the client's semaphores, both binary
    rc,           \* ipc_lorawan_crypto_data.rc
    loadPointer,  \* ipc_lorawan_crypto_data.load_pointer: whose memory, or NULL
    paired,       \* TRUE: callers bracket set_key and the operation that uses
                  \* the key with a lock of their own; it never changes
    session,      \* the caller that holds that lock
    toServer, toClient,
    keys,         \* the server's key store
    heap,         \* the free blocks of its heap
    up,           \* FALSE once the server has used a block it did not get
    answer,       \* ghost: what the server made of each caller's own request
    own,          \* ghost: the key each caller set last
    orphans,      \* ghost: in sessions, the operations that could not be sent
    kept,         \* ghost: in sessions, the used keys that could not be destroyed
    replyLost     \* ghost: a reply could not be sent

callers == <<paired, session, own, orphans>>
client == <<phase, req, ret, result, busy, done, rc, loadPointer, callers>>
server == <<keys, heap, up, kept, replyLost>>
vars == <<client, toServer, toClient, server, answer>>

TypeOK ==
    /\ phase \in [Caller -> {"idle", "takeBusy", "send", "takeDone", "finish"}]
    /\ req \in [Caller -> Request]
    /\ ret \in [Caller -> ReturnCode \cup {"none", "unsent"}]
    /\ result \in [Caller -> Key \cup {NoKey}]
    /\ busy \in 0..1 /\ done \in 0..1
    /\ rc \in ReturnCode \cup {"none"}
    /\ loadPointer \in Caller \cup {NULL}
    /\ paired \in BOOLEAN /\ session \in Caller \cup {NULL}
    /\ toServer \in Seq(ServerMessage)
    /\ toClient \in Seq(ClientMessage)
    /\ keys \in KeyStore
    /\ heap \in 0..HeapBlocks /\ up \in BOOLEAN
    /\ answer \in [Caller -> Answer]
    /\ own \in [Caller -> Key \cup {NoKey}]
    /\ orphans \in 0..KeySlots /\ kept \in 0..KeySlots /\ replyLost \in BOOLEAN

Init ==
    /\ phase = [t \in Caller |-> "idle"]
    /\ req = [t \in Caller |-> [op |-> "ecb"]]
    /\ ret = [t \in Caller |-> "none"]
    /\ result = [t \in Caller |-> NoKey]
    /\ busy = 1 /\ done = 0
    /\ rc = "none"
    /\ loadPointer = NULL
    /\ paired \in BOOLEAN /\ session = NULL
    /\ toServer = <<>> /\ toClient = <<>>
    /\ keys = [slot |-> NoImport, lost |-> 0]
    /\ heap = HeapBlocks /\ up = TRUE
    /\ answer = [t \in Caller |-> NoAnswer]
    /\ own = [t \in Caller |-> NoKey]
    /\ orphans = 0 /\ kept = 0 /\ replyLost = FALSE

-----------------------------------------------------------------------------
(* A thread of the client core in ipc_lorawan_crypto_set_key,                *)
(* _aes128_ecb_encrypt or _cmac_aes128_encrypt.                              *)

\* A session is a set_key and, if that succeeds, one operation.
MaySession(t, r) ==
    paired => session = IF r.op = "set_key" THEN NULL ELSE t

Invoke(t, r) ==
    /\ phase[t] = "idle"
    /\ MaySession(t, r)
    /\ session' = IF paired THEN t ELSE NULL
    /\ phase' = [phase EXCEPT ![t] = "takeBusy"]
    /\ req' = [req EXCEPT ![t] = r]
    /\ ret' = [ret EXCEPT ![t] = "none"]
    /\ result' = [result EXCEPT ![t] = NoKey]
    /\ answer' = [answer EXCEPT ![t] = NoAnswer]
    /\ own' = IF r.op = "set_key" THEN [own EXCEPT ![t] = r.key] ELSE own
    /\ UNCHANGED <<busy, done, rc, loadPointer, paired, orphans, toServer, toClient,
                   server>>

TakeBusy(t) ==
    /\ phase[t] = "takeBusy"
    /\ busy = 1
    /\ busy' = 0
    /\ phase' = [phase EXCEPT ![t] = "send"]
    /\ loadPointer' = IF req[t].op \in Kind THEN t ELSE loadPointer
    /\ UNCHANGED <<req, ret, result, done, rc, callers, toServer, toClient, server, answer>>

Send(t) ==
    /\ phase[t] = "send"
    /\ phase' = [phase EXCEPT ![t] = "takeDone"]
    /\ toServer' = Append(toServer, [request |-> req[t], from |-> t])
    /\ UNCHANGED <<req, ret, result, busy, done, rc, loadPointer, callers, toClient, server,
                   answer>>

SendFails(t) ==
    /\ phase[t] = "send"
    /\ "request" \in SendFaults
    /\ phase' = [phase EXCEPT ![t] = "finish"]
    /\ ret' = [ret EXCEPT ![t] = "unsent"]
    /\ answer' = [answer EXCEPT ![t] = Unsent]
    /\ orphans' = IF paired /\ req[t].op \in Kind THEN orphans + 1 ELSE orphans
    /\ UNCHANGED <<req, result, busy, done, rc, loadPointer, paired, session, own, toServer,
                   toClient, server>>

\* Mutant of TakeDone: the semaphore is looked at and not taken.
PeekDone(t) ==
    /\ phase[t] = "takeDone"
    /\ done = 1
    /\ phase' = [phase EXCEPT ![t] = "finish"]
    /\ UNCHANGED <<req, ret, result, busy, done, rc, loadPointer, callers, toServer, toClient,
                   server, answer>>

TakeDone(t) ==
    /\ phase[t] = "takeDone"
    /\ done = 1
    /\ done' = 0
    /\ phase' = [phase EXCEPT ![t] = "finish"]
    /\ UNCHANGED <<req, ret, result, busy, rc, loadPointer, callers, toServer, toClient, server,
                   answer>>

Finish(t) ==
    /\ phase[t] = "finish"
    /\ ret' = [ret EXCEPT ![t] = IF ret[t] = "unsent" THEN "unsent" ELSE rc]
    /\ busy' = 1
    /\ phase' = [phase EXCEPT ![t] = "idle"]
    /\ session' = IF req[t].op = "set_key" /\ ret'[t] = "ok" THEN session ELSE NULL
    /\ UNCHANGED <<req, result, done, rc, loadPointer, paired, own, orphans, toServer, toClient,
                   server, answer>>

-----------------------------------------------------------------------------
(* The client core's receive thread. *)

ReceiveSetKey ==
    /\ toClient # <<>>
    /\ Head(toClient).op = "set_key"
    /\ rc' = Head(toClient).rc
    /\ done' = 1
    /\ toClient' = Tail(toClient)
    /\ UNCHANGED <<phase, req, ret, result, busy, loadPointer, callers, toServer, server, answer>>

ReceiveResult ==
    /\ toClient # <<>>
    /\ Head(toClient).op \in Kind
    /\ result' = [t \in Caller |->
                     IF t = loadPointer /\ Head(toClient).rc = "ok"
                     THEN Head(toClient).value ELSE result[t]]
    /\ loadPointer' = NULL
    /\ rc' = Head(toClient).rc
    /\ done' = 1
    /\ toClient' = Tail(toClient)
    /\ UNCHANGED <<phase, req, ret, busy, callers, toServer, server, answer>>

-----------------------------------------------------------------------------
(* The server core. *)

\* The keys the PSA key store holds, and those it would hold unnamed once
\* magic_key_id is written over.
Live(s) == IF s.slot = NoImport THEN s.lost ELSE s.lost + 1

\* What the server may make of a request: an answer, the key store it leaves,
\* and 1 if it was to destroy a key and could not.

\* Mutant of SetKey: the import is counted on a full store.
SetKeyFull(s, r) ==
    {<<[rc |-> "ok", value |-> NoKey],
       [slot |-> [key |-> r.key, kind |-> r.kind], lost |-> Live(s)], 0>>}

\* psa_import_key writes magic_key_id, with the null id when it fails, and it
\* fails when the store is full.
SetKey(s, r) ==
    {<<Failed, [slot |-> NoImport, lost |-> Live(s)], 0>>} \cup
    IF Live(s) < KeySlots
    THEN {<<[rc |-> "ok", value |-> NoKey],
            [slot |-> [key |-> r.key, kind |-> r.kind], lost |-> Live(s)], 0>>}
    ELSE {}

\* The operation proper: it may fail, and does under no key or one of the other
\* kind.
Results(s, r) ==
    {Failed} \cup
    IF s.slot.kind = r.op THEN {[rc |-> "ok", value |-> s.slot.key]} ELSE {}

\* Mutant of Encrypt: a failed operation returns before the key is destroyed.
EncryptEarlyReturn(s, r) ==
    {<<Failed, s, 0>>} \cup
    {<<a, [s EXCEPT !.slot = NoImport], 0>> : a \in Results(s, r) \ {Failed}}

\* The key is to be destroyed whether the operation succeeded or not; if that
\* fails it is logged, and the key stays where it is.
Encrypt(s, r) ==
    {<<a, [s EXCEPT !.slot = NoImport], 0>> : a \in Results(s, r)} \cup
    IF s.slot = NoImport THEN {} ELSE {<<a, s, 1>> : a \in Results(s, r)}

Served(s, r) == IF r.op = "set_key" THEN SetKey(s, r) ELSE Encrypt(s, r)

\* An operation allocates its response.  ECB frees it; CMAC never does.
Allocate(op) ==
    /\ op \in Kind => heap > 0
    /\ heap' = IF op = "cmac" THEN heap - 1 ELSE heap

\* Mutants of ServeRequest: a reply that could not be sent leaves the request to
\* be served again; a failure is not answered.
ServeAgain ==
    /\ up
    /\ toServer # <<>>
    /\ Allocate(Head(toServer).request.op)
    /\ \E e \in Served(keys, Head(toServer).request) :
          /\ keys' = e[2]
          /\ kept' = IF paired THEN kept + e[3] ELSE kept
          /\ answer' = [answer EXCEPT ![Head(toServer).from] = e[1]]
          /\ \/ /\ toClient' = Append(toClient,
                               [op |-> Head(toServer).request.op, rc |-> e[1].rc,
                                value |-> e[1].value, to |-> Head(toServer).from])
                /\ toServer' = Tail(toServer)
             \/ "reply" \in SendFaults /\ UNCHANGED <<toServer, toClient>>
    /\ UNCHANGED <<client, up, replyLost>>

AnswerSuccess ==
    /\ up
    /\ toServer # <<>>
    /\ Allocate(Head(toServer).request.op)
    /\ \E e \in Served(keys, Head(toServer).request) :
          /\ keys' = e[2]
          /\ kept' = IF paired THEN kept + e[3] ELSE kept
          /\ answer' = [answer EXCEPT ![Head(toServer).from] = e[1]]
          /\ toClient' = IF e[1].rc # "ok" THEN toClient
                         ELSE Append(toClient,
                               [op |-> Head(toServer).request.op, rc |-> e[1].rc,
                                value |-> e[1].value, to |-> Head(toServer).from])
    /\ toServer' = Tail(toServer)
    /\ UNCHANGED <<client, up, replyLost>>

ServeRequest ==
    /\ up
    /\ toServer # <<>>
    /\ Allocate(Head(toServer).request.op)
    /\ \E e \in Served(keys, Head(toServer).request) :
          /\ keys' = e[2]
          /\ kept' = IF paired THEN kept + e[3] ELSE kept
          /\ answer' = [answer EXCEPT ![Head(toServer).from] = e[1]]
          /\ \/ /\ toClient' = Append(toClient,
                               [op |-> Head(toServer).request.op, rc |-> e[1].rc,
                                value |-> e[1].value, to |-> Head(toServer).from])
                /\ UNCHANGED replyLost
             \/ "reply" \in SendFaults /\ replyLost' = TRUE /\ UNCHANGED toClient
    /\ toServer' = Tail(toServer)
    /\ UNCHANGED <<client, up>>

\* malloc returned NULL and nobody looked: the core writes to address zero.
Crash ==
    /\ up
    /\ toServer # <<>>
    /\ Head(toServer).request.op \in Kind /\ heap = 0
    /\ up' = FALSE
    /\ UNCHANGED <<client, toServer, toClient, keys, heap, kept, replyLost, answer>>

-----------------------------------------------------------------------------
Call(t) == Send(t) \/ SendFails(t) \/ TakeDone(t) \/ Finish(t)

ClientReceive == ReceiveSetKey \/ ReceiveResult

Next ==
    \/ \E t \in Caller :
          \/ \E r \in Request : Invoke(t, r)
          \/ TakeBusy(t)
          \/ Call(t)
    \/ ClientReceive
    \/ ServeRequest \/ Crash

Spec == Init /\ [][Next]_vars

\* Every thread that can run eventually runs; the kernel wakes the caller that
\* has waited longest for busy.
FairSpec ==
    /\ Spec
    /\ \A t \in Caller : WF_vars(Call(t)) /\ SF_vars(TakeBusy(t))
    /\ WF_vars(ClientReceive)
    /\ WF_vars(ServeRequest \/ Crash)

-----------------------------------------------------------------------------
(* Properties. *)

Abstract == INSTANCE RemoteCall WITH
    Outcome   <- Answer,
    NoOutcome <- NoAnswer,
    Refused   <- Unsent,
    Server    <- KeyStore,
    Effect    <- Served,
    server    <- keys,
    stage     <- [t \in Caller |-> IF phase[t] = "idle" THEN "idle"
                                   ELSE IF answer[t] = NoAnswer THEN "pending"
                                   ELSE "executed"],
    request   <- req,
    outcome   <- answer,
    returned  <- [t \in Caller |-> IF phase[t] = "idle"
                                   THEN [rc |-> ret[t], value |-> result[t]]
                                   ELSE NoAnswer]

\* Each call acts on the key store at most once, between its invocation and
\* its return, and returns the outcome of that action, also when replies are
\* lost (ipc_crypto.c, client and server halves together).
ImplementsRemoteCall == Abstract!Spec

\* Two paths leave a key in the store between the sessions of paired calls, named
\* by magic_key_id or by nothing: an operation that could not be sent, and a key
\* that could not be destroyed after its use.  No other does, and no key left so
\* is ever destroyed: KeySlots of them and no key can be set any more.
NoKeyLeft ==
    paired /\ session = NULL => Live(keys) = orphans + kept

\* With paired calls the result an operation returns was computed under the key
\* its own caller set last, never under one another caller set in between.
OwnKey ==
    paired =>
        \A t \in Caller :
            phase[t] = "idle" /\ req[t].op \in Kind /\ ret[t] = "ok" => result[t] = own[t]

\* Every call to the key service returns, until a reply is lost or the responses
\* to CMAC requests have used the server's heap up.
CallReturns ==
    \A t \in Caller : phase[t] # "idle" ~> phase[t] = "idle" \/ ~up \/ replyLost
=============================================================================
