------------------------------ MODULE IpcCodec ------------------------------
(***************************************************************************)
(* The layouts of the messages of the two-core application: what the two   *)
(* halves of ipc_settings.c and ipc_crypto.c write into a message and read *)
(* out of it, in cells of one byte and with the sizes of the code, so that *)
(* every width, header and limit is where it is in the program.            *)
(*                                                                         *)
(* One call, or one entry of the start-up walk, is on its way at a time:   *)
(* IpcSettings and IpcCrypto say why.  A message longer than the receiver's*)
(* buffer stays in the link for ever.                                      *)
(***************************************************************************)
EXTENDS Naturals, Sequences

CONSTANTS
    Name,          \* the names of settings
    NameLength,    \* the strlen of each
    ValueSize,     \* bounds: the sizes of the values saved and stored,
    MaxSize,       \*   of the buffers a load brings along
    PlainSize,     \*   and of the data to be encrypted
    Byte,          \* the values of uint8_t (256)
    DataSize,      \* IPC_MESSAGE_DATA_SIZE (512)
    Overhead,      \* IPC_MESSAGE_OVERHEAD (4)
    ReadRoom,      \* CONFIG_PBUF_RX_READ_BUF_SIZE (512)
    LoadResponse   \* the bytes ipc_setting_callback_load allocates (16)

ASSUME NameAssumption == NameLength \in [Name -> Nat \ {0}]
ASSUME SizeAssumption ==
    /\ ValueSize \subseteq Nat \ {0} /\ PlainSize \subseteq Nat
    /\ MaxSize \subseteq 0 .. Byte - 1
    /\ Byte \in Nat \ {0} /\ DataSize \in Nat /\ Overhead \in Nat /\ ReadRoom \in Nat
    /\ LoadResponse \in Nat /\ LoadResponse > 5
\* The receiver's buffer has room for any load request, for a MAC's reply of 24
\* bytes and for a load's; what it has room for is accepted.
ASSUME RoomAssumption ==
    /\ Byte + 1 + Overhead <= ReadRoom
    /\ 24 + Overhead <= ReadRoom /\ LoadResponse + Overhead <= ReadRoom
    /\ ReadRoom <= DataSize + 2 * Overhead

Cells(tag, n) == [i \in 1 .. n |-> <<tag, i>>]
First(s, n)   == SubSeq(s, 1, IF n < Len(s) THEN n ELSE Len(s))
Text(n)       == Cells(n, NameLength[n]) \o Cells("NUL", 1)

\* The names whose size, the terminator included, a uint8_t holds.
Short == {n \in Name : NameLength[n] + 1 < Byte}

\* What the run-time handler of a name holds, an encryption and a MAC: the cells
\* say what they were made from.  A MAC, 16 bytes, is one cell.
Held(n, k) == [i \in 1 .. k |-> <<"held", n, i>>]
Ecb(data)  == [i \in DOMAIN data |-> <<"ecb", data[i]>>]
Mac(data)  == <<<<"mac", data>>>>

Value == {Cells("new", k) : k \in ValueSize}
Saves == [op : {"save"}, name : Name, value : Value]
Loads == [op : {"load"}, name : Name, max : MaxSize]
Ecbs  == [op : {"ecb"}, data : {Cells("data", k) : k \in PlainSize}]
Macs  == [op : {"cmac"}, data : {Cells("data", k) : k \in PlainSize},
          prior : {Cells("prior", k) : k \in {0, 16}}]
Calls == Saves \cup Loads \cup Ecbs \cup Macs

None == [op |-> "none"]

VARIABLES
    status,    \* idle, waiting (a caller on done), walking (the server's main)
    call,      \* the call under way or the last one
    rc,        \* its return code
    result,    \* the caller's memory
    toServer, toClient,  \* the message on its way, or None
    store,     \* the values in flash; an empty one is not stored
    staged,    \* what a set handler of the client read last
    up         \* FALSE once the server has faulted

vars == <<status, call, rc, result, toServer, toClient, store, staged, up>>

Init ==
    /\ status = "idle" /\ call = None /\ rc = "none" /\ result = <<>>
    /\ toServer = None /\ toClient = None
    /\ \E k \in ValueSize :
          store = [n \in Name |-> IF n \in Short THEN Cells("old", k) ELSE <<>>]
    /\ staged = None
    /\ up = TRUE

-----------------------------------------------------------------------------
(* The messages: "size" is what ipc_send_message is given, header and padding *)
(* included, "data" what follows the header.                                  *)

\* Mutant of SaveData: the header's name size is without the terminator.
SaveNameLength(c) ==
    LET valueSize == Len(c.value) % Byte
    IN  [op |-> "save", size |-> 2 + NameLength[c.name] + 1 + valueSize,
         nameSize |-> NameLength[c.name] % Byte, valueSize |-> valueSize,
         data |-> Text(c.name) \o First(c.value, valueSize)]

SaveData(c) ==
    LET nameSize  == (NameLength[c.name] + 1) % Byte
        valueSize == Len(c.value) % Byte
    IN  [op |-> "save", size |-> 2 + nameSize + valueSize,
         nameSize |-> nameSize, valueSize |-> valueSize,
         data |-> First(Text(c.name), nameSize) \o First(c.value, valueSize)]

\* Mutant of LoadData: the terminator is not sent.
LoadUnterminated(c) ==
    [op |-> "load", size |-> 2 + (NameLength[c.name] % Byte), max |-> c.max,
     data |-> First(Text(c.name), NameLength[c.name] % Byte)]

LoadData(c) ==
    LET nameSize == (NameLength[c.name] + 1) % Byte
    IN  [op |-> "load", size |-> 2 + nameSize, max |-> c.max,
         data |-> First(Text(c.name), nameSize)]

EcbData(c) == [op |-> "ecb", size |-> 4 + Len(c.data), data |-> c.data]

\* Mutant of CmacData: the prior data is put behind the data.
DataFirst(c) ==
    [op |-> "cmac", size |-> 4 + Len(c.data) + Len(c.prior), data |-> c.data \o c.prior]

CmacData(c) ==
    [op |-> "cmac", size |-> 4 + Len(c.data) + Len(c.prior), data |-> c.prior \o c.data]

Request(c) ==
    CASE c.op = "save" -> SaveData(c)
      [] c.op = "load" -> LoadData(c)
      [] c.op = "ecb"  -> EcbData(c)
      [] c.op = "cmac" -> CmacData(c)

\* The walk's entry: the subtree's key, a slash and the rest make the name up;
\* the header has the value's size as a uint8_t, the data has all of it.
BootData(n) ==
    [op |-> "boot", size |-> 2 + NameLength[n] + 1 + Len(store[n]), name |-> n,
     nameSize |-> NameLength[n] + 1, valueSize |-> Len(store[n]) % Byte,
     data |-> Text(n) \o store[n]]

\* ipc_send_message lets up to Overhead bytes more through than its buffer has
\* data, and writes them beyond it; no message that long is ever delivered.
Accepted(m)  == m.size <= DataSize + Overhead
Delivered(m) == m.size + Overhead <= ReadRoom

-----------------------------------------------------------------------------
(* A call.                                                                   *)

Call(c) ==
    /\ status = "idle"
    /\ call' = c /\ result' = <<>> /\ staged' = None
    /\ \/ /\ Accepted(Request(c))
          /\ status' = "waiting" /\ rc' = "none" /\ toServer' = Request(c)
       \/ /\ ~Accepted(Request(c))
          /\ rc' = "unsent" /\ UNCHANGED <<status, toServer>>
    /\ UNCHANGED <<toClient, store, up>>

\* A callback of the server takes a request, and its reply is sent or refused.
Arrived(op) ==
    /\ up
    /\ toServer.op = op
    /\ Delivered(toServer)
    /\ toServer' = None
    /\ UNCHANGED <<status, call, rc, result, staged>>

Reply(m) == toClient' = IF Accepted(m) THEN m ELSE None

\* The name is read up to its terminator; without one it runs on into the value
\* and what the buffer held behind it: it may be any setting's name, or none.
Exact(m)     == {n \in Short : First(m.data, NameLength[n] + 1) = Text(n)}
NamesRead(m) == IF Exact(m) # {} THEN Exact(m) ELSE Short

ServeSave ==
    /\ Arrived("save")
    /\ \/ /\ \E n \in NamesRead(toServer) :
                store' = [store EXCEPT ![n] = SubSeq(toServer.data, toServer.nameSize + 1,
                                                   toServer.nameSize + toServer.valueSize)]
          /\ Reply([op |-> "save", size |-> 4, rc |-> "ok"])
       \/ /\ \E code \in {"error"} \cup IF Exact(toServer) = {} THEN {"ok"} ELSE {} :
                Reply([op |-> "save", size |-> 4, rc |-> code])
          /\ UNCHANGED store
    /\ UNCHANGED up

\* What the load response has room for behind its header of five bytes.
LoadRoom == LoadResponse - 5

\* The run-time handler of the name writes up to max bytes and returns their
\* number, which becomes value_size.  Past the end of the response the heap is
\* overwritten: the server faults, or sends what fits.
ServeLoad ==
    /\ Arrived("load")
    /\ \/ \E n \in NamesRead(toServer), k \in MaxSize :
             /\ k <= toServer.max
             /\ \/ /\ Reply([op |-> "load", size |-> LoadResponse, rc |-> "ok",
                             valueSize |-> k, data |-> First(Held(n, k), LoadRoom)])
                   /\ UNCHANGED up
                \/ k > LoadRoom /\ up' = FALSE /\ UNCHANGED toClient
       \/ /\ Reply([op |-> "load", size |-> LoadResponse, rc |-> "error",
                    valueSize |-> 0, data |-> <<>>])
          /\ UNCHANGED up
    /\ UNCHANGED store

\* ECB works on whole blocks; its response is as long as the data.
ServeEcb ==
    /\ Arrived("ecb")
    /\ LET size == 8 + Len(toServer.data)
       IN  \/ /\ Len(toServer.data) % 16 = 0
              /\ Reply([op |-> "ecb", size |-> size, rc |-> "ok", data |-> Ecb(toServer.data)])
           \/ Reply([op |-> "ecb", size |-> size, rc |-> "error", data |-> <<>>])
    /\ UNCHANGED <<store, up>>

\* Mutant of ServeCmac: its response is as long as that of ECB would be.
MacAsLongAsData ==
    /\ Arrived("cmac")
    /\ LET size == 8 + Len(toServer.data)
       IN  \/ Reply([op |-> "cmac", size |-> size, rc |-> "ok", data |-> Mac(toServer.data)])
           \/ Reply([op |-> "cmac", size |-> size, rc |-> "error", data |-> <<>>])
    /\ UNCHANGED <<store, up>>

ServeCmac ==
    /\ Arrived("cmac")
    /\ \/ Reply([op |-> "cmac", size |-> 8 + 16, rc |-> "ok", data |-> Mac(toServer.data)])
       \/ Reply([op |-> "cmac", size |-> 8 + 16, rc |-> "error", data |-> <<>>])
    /\ UNCHANGED <<store, up>>

\* A load copies value_size bytes: behind the response's data lies what the
\* receive buffer held.
Copied(m) == [i \in 1 .. m.valueSize |-> IF i <= Len(m.data) THEN m.data[i] ELSE <<"junk", i>>]

\* The client's callbacks, and the waiting call's return.
Return ==
    /\ toClient.op \in {"save", "load", "ecb", "cmac"}
    /\ Delivered(toClient)
    /\ rc' = toClient.rc
    /\ result' = IF toClient.op = "load" THEN Copied(toClient)
                 ELSE IF toClient.op # "save" /\ toClient.rc = "ok" THEN toClient.data
                 ELSE result
    /\ status' = "idle" /\ toClient' = None
    /\ UNCHANGED <<call, toServer, store, staged, up>>

-----------------------------------------------------------------------------
(* An entry of the start-up walk.                                            *)

\* ipc_setting_boot_load_loop.  An entry that is refused ends the walk.
Walk(n) ==
    /\ status = "idle" /\ up
    /\ store[n] # <<>>
    /\ Accepted(BootData(n))
    /\ toClient' = BootData(n)
    /\ status' = "walking"
    /\ call' = None /\ rc' = "none" /\ result' = <<>> /\ staged' = None
    /\ UNCHANGED <<toServer, store, up>>

\* Mutant of ReadValue: the length asked for is not clamped.
ReadUnclamped(m, len) == SubSeq(m.data \o Cells("junk", len), m.nameSize + 1, m.nameSize + len)

\* ipc_setting_callback_boot_load_read_value.
ReadValue(m, len) ==
    SubSeq(m.data, m.nameSize + 1, m.nameSize + (IF len > m.valueSize THEN m.valueSize ELSE len))

\* ipc_setting_callback_boot_load: the set handler is told the size, and reads
\* as much as it likes; the acknowledgement has no data.
Stage ==
    /\ toClient.op = "boot"
    /\ Delivered(toClient)
    /\ \E len \in {toClient.valueSize} \cup MaxSize :
          staged' = [name |-> toClient.name, asked |-> len, value |-> ReadValue(toClient, len)]
    /\ status' = "idle" /\ toClient' = None
    /\ UNCHANGED <<call, rc, result, toServer, store, up>>

Next ==
    \/ \E c \in Calls : Call(c)
    \/ ServeSave \/ ServeLoad \/ ServeEcb \/ ServeCmac
    \/ Return
    \/ \E n \in Short : Walk(n)
    \/ Stage

Spec == Init /\ [][Next]_vars

-----------------------------------------------------------------------------
(* Properties. *)

\* A save of a name and a value whose sizes fit a uint8_t stores exactly that
\* value under exactly that name when it reports success, and never touches
\* another setting (ipc_setting_save, ipc_setting_callback_save).
SavesExactly ==
    [][ toServer.op = "save" /\ toServer' = None /\ call.name \in Short /\ Len(call.value) < Byte =>
          IF toClient'.rc = "ok" THEN store' = [store EXCEPT ![call.name] = call.value]
          ELSE store' = store ]_vars

\* A load brings back what the handler of its own name holds, as long as that
\* fits the response of 16 bytes, and then the server survives; it never writes
\* more than its caller has room for (ipc_setting_load and both callbacks).
LoadsExactly ==
    call.op = "load" =>
        /\ Len(result) <= call.max
        /\ call.max <= LoadRoom => up
        /\ call.name \in Short /\ Len(result) <= LoadRoom =>
              result = Held(call.name, Len(result))

\* What a set handler of the client reads of an entry is the stored value, or
\* as much of it as it asked for, whatever the layout in between
\* (ipc_setting_boot_load_loop, ipc_setting_callback_boot_load_read_value).
WalksExactly ==
    [][ status = "walking" /\ status' = "idle" =>
          LET stored == store[staged'.name]
          IN  Len(stored) < Byte => staged'.value = First(stored, staged'.asked) ]_vars

\* An operation that returns success brings back the encryption of its data, or
\* the MAC of the prior data followed by the data (ipc_crypto.c, both halves).
EncryptsExactly ==
    status = "idle" /\ rc = "ok" =>
        /\ call.op = "ecb" => result = Ecb(call.data)
        /\ call.op = "cmac" => result = Mac(call.prior \o call.data)

\* The only calls that wait for ever, and the only entries the walk waits for
\* ever at, are those too long for the receiver's buffer; an ECB reply, which
\* is longer than its request, is so four bytes before the request is.
Stuck == status # "idle" /\ up /\ \A m \in {toServer, toClient} : m = None \/ ~Delivered(m)

Answered ==
    Stuck =>
        \/ /\ status = "walking"
           /\ NameLength[toClient.name] + Len(store[toClient.name]) > ReadRoom - Overhead - 3
        \/ /\ status = "waiting" /\ call.op = "save"
           /\ NameLength[call.name] + Len(call.value) > ReadRoom - Overhead - 3
        \/ /\ status = "waiting" /\ call.op = "ecb"
           /\ Len(call.data) > ReadRoom - Overhead - 8
        \/ /\ status = "waiting" /\ call.op = "cmac"
           /\ Len(call.prior) + Len(call.data) > ReadRoom - Overhead - 4
=============================================================================
