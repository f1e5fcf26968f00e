# A verification project for lora-hacks-ng

The repository runs a LoRaWAN node on one chip with two cores.  The *client*
core runs the LoRaWAN stack; it has no flash and no key store.  The *server*
core has both.  `app/src` is built for both cores: the same `main.c` and
`ipc_endpoint.c`, and the two halves of `ipc_settings.c` and `ipc_crypto.c` that
Kconfig chooses.  `gpio_test` is a program of its own: shell commands that drive
one pin after the other, with MCUmgr over Bluetooth.  The modules here model that program, TLC checks small
instances of it, and TLAPS proves their safety properties for instances of any size.

File names below are relative to the repository.

## Inventory

| component | state | operations | how it meets the others |
|---|---|---|---|
| settings service, `app/src/ipc_settings.c` | client: semaphores `busy` and `done`, `rc`, `load_pointer`; server: `busy`, `done` | `ipc_setting_save`, `_load`, `_commit` (client threads), their callbacks on both cores, `ipc_setting_boot_load` (server's main thread) | requests, replies, boot entries and acknowledgements over the endpoint; the server's callbacks use the SDK's settings subsystem, the client's hand entries to set handlers |
| key service, `app/src/ipc_crypto.c` | client: as above; server: `magic_key_id`, the PSA key store, the heap | `ipc_lorawan_crypto_set_key`, `_aes128_ecb_encrypt`, `_cmac_aes128_encrypt`, their callbacks | requests and replies over the endpoint; a key is set by one call and used by another |
| endpoint, `app/src/ipc_endpoint.c` | `data_payload`, the list of handlers, `ipc_bound_sem` | `ipc_setup`, `ipc_wait_for_ready`, `ipc_send_message`, `ipc_register`, the bound and receive callbacks | called by every thread that sends; calls the services' callbacks on the receive thread |
| main loop, `app/src/main.c` | a counter | start-up, a heartbeat every two seconds | sends under opcode 0, which the settings service uses |
| context storage, `app/src/lorawan_nvm_settings.c`, `lorawan_nvm_settings_setting.c` | a staged value and a flag per group | `lorawan_nvm_data_mgmt_event`, `lorawan_nvm_data_restore`, the set handler | saves through the settings backend, is filled by the start-up walk |
| settings backend, `app/src/settings_ipc.c` | none | `csi_save`, `csi_save_end` | turns `settings_save_one` on the client into `ipc_setting_save` |
| launch of the client core, `app/src/flipper_cpu.c` | none | two register writes | before the kernel starts |
| GPIO test, `gpio_test/src/main.c` | `last_port`, the pins | `app next`, `previous`, `current`, `reboot` | run by the serial shell and, over MCUmgr, by the dummy shell |
| advertising, `gpio_test/src/bluetooth.c` | `advertise_work` | `start_smp_bluetooth_adverts`, the work handler, four callbacks of the stack | competes with connections for the stack's one connection object |
| samples, `crypto/aes_ecb`, `crypto/cmac` | a key id | set up, encrypt or sign, verify, finish | programs of their own |

The hard parts are these.

- Callers, two receive threads, two main threads and the start-up walk
  interleave over two binary semaphores per service, one shared return code and
  one shared load pointer.
- Sends may fail, and nothing retries; every wait is `K_FOREVER`.
- The walk holds the lock of the settings subsystem while it waits for the far
  end, and the far end may be waiting for that lock.
- The heartbeat shares an opcode with a request and with a reply, and the client
  core sends it while the server may still be in its walk.
- Every sender writes one unprotected buffer, and the test of a message's size
  lets through what is a few bytes longer than its data.
- A key and its use are two calls on one slot; a key that cannot be destroyed
  stays; responses to CMAC requests are never freed.
- A reset may fall between the saves of two groups, nothing in the code orders
  restoring after the walk, and both may fail.
- Sizes pass through `uint8_t`, a load response has 16 bytes, an ECB response is
  longer than its request, and three limits of a message's length differ.
- Two shells step one index without a lock, and the index may leave its table.
- Advertising is only started again by callbacks; a start without a free
  connection object fails and nothing retries.

What makes each component correct: a call is exclusive, takes effect at most
once and brings back its own answer (settings, keys); every entry is delivered
and acknowledged once (the walk); a message is what its sender asked for
(endpoint); a result is computed under the caller's own key and no key is left
unaccounted for (keys); the stored context never goes back (context storage); what is stored,
loaded and encrypted is byte for byte what was asked for (layouts); the pins
driven are the one the index names (GPIO test); advertising resumes (Bluetooth);
calls and the walk end (services).  `PROJECT.json` lists the hazards line by line with the
properties that cover them.

## Modules

| module | models | remarks |
|---|---|---|
| `RemoteCall` | what a synchronous call between the cores promises | abstract: invoke, one atomic effect or a refusal, return |
| `IpcSettings` | the settings service, both halves | implements `RemoteCall` |
| `LoraSystem` | `IpcSettings` with the heartbeats of `main.c` on a bounded link | EXTENDS `IpcSettings` |
| `IpcCrypto` | the key service, both halves | implements `RemoteCall` |
| `IpcCodec` | the messages of both services byte by byte, with the sizes of the code | one call, or entry of the walk, at a time |
| `IpcEndpoint` | one direction of the link, the shared buffer and what lies behind it, becoming bound | |
| `LorawanNvm` | saving, staging and restoring the context, resets | uses the save `IpcSettings` implements |
| `GpioTest` | the shell commands over `last_port` | |
| `SmpAdvert` | the advertising work item and its callbacks | |
| `GpioTestApp` | the two as one image that a fault stops and a command reboots | EXTENDS both |
| `IpcSettingsProofs`, `IpcSettingsTokenProofs` | theorems about `IpcSettings`: its calls; the walk and the wake-ups | the second EXTENDS the first |
| `LoraSystemProofs` | theorems about `LoraSystem` | EXTENDS `IpcSettingsTokenProofs` |
| `IpcCryptoProofs`, `IpcCodecProofs`, `IpcEndpointProofs`, `LorawanNvmProofs`, `GpioTestProofs` | theorems about the module of that name | |
| `MC...` | symmetry sets and constant definitions for TLC | |

### How state and actions correspond to the code

*Calls.*  A thread's program counter is `phase`: `takeBusy`, `send`, `takeDone`
and `finish` are the four statements of `ipc_setting_save`, `_load` and
`_commit` (and of the three calls of the key service) at which another thread
can run; `ret` is the local `rc`, `buffer` (`result`) the memory a caller passed.
The loads and operations that return data write `load_pointer` together with
taking `busy`: nothing else writes it there.  `SendFails` is the early return
after a negative code of `ipc_send_message`.

*Callbacks.*  `ReceiveStatus`, `ReceiveLoad`, `ReceiveBootEntry`,
`ServeRequest`, `ReceiveBootAck` are the callbacks the receive threads run, each
one step with the message it sends: a receive thread is one thread, and the
state a callback touches is only looked at by a caller after the semaphore it
gives.  The server's answer is chosen by `Served`: settings operations may fail
and leave the store alone; a load is answered by the run-time handlers of the
server.

*The walk.*  `BootStart` to `BootFinish` are `ipc_setting_boot_load` and its
loop.  `SettingsLocked` is the lock `settings_load_subtree_direct` holds from
end to end and `settings_save_one` takes; loads and commits do not take it.  In
`LoraSystem`, `Stuck` names the two ways the walk stops for good: `HeldBySave`, a
save at the head of the server's link that waits for that lock while the walk
waits for an acknowledgement, and `AckLost`.

*Ghosts.*  `answer` is what the server made of each caller's own request, `own`
the key a caller set last, `orphans` the operations of sessions that could not be
sent, `kept` the keys of sessions that were used and could not be destroyed,
`replyLost` that a reply could not be sent; `overlap` the calls of
`ipc_send_message` a call overlaps, `failed` the groups whose last save failed,
`unrestored` the usable groups the stack did not restore and has not saved since,
`excused` the ports whose configuration failed or whose commands overlapped,
`atEnd` that a command left the table's end, `silenced` that advertising could
not start although the object was free.  The fields `from` and `to` are on no
wire.  No guard reads a ghost.

*The key store.*  `slot` is what `magic_key_id` names.  `psa_import_key` writes
the id, the null id if it fails, so a key that is still there is counted
in `lost`.  ECB and CMAC destroy the key whatever their outcome; if
`crypto_cleanup` fails the key stays in its slot, and the caller is not told
(`Encrypt`).  `heap` counts
free blocks for responses; CMAC's is never given back, and with none left the
server core faults (`Crash`), since nobody looks at what `malloc` returned.
`paired`, chosen in the initial state, says whether callers keep `set_key` and
the operation together.

*The endpoint.*  `ipc_send_message` is five steps: the guard on the size, the
stores of opcode and size, the copy cell by cell, and `ipc_service_send`, which
copies as much of the buffer as the local size says.  The guard compares with the
size of the struct, so a message of 513 to 516 bytes is copied past
`data_payload.data`: the cells `Behind` are that memory.  Its owner may write its
own content back at any time (`OwnerWrites`), or the core may fault, which is a
behaviour that stops.  The receiver's buffer has `ReadRoom` cells: what is longer
stays on the link.  Handlers are registered by `SYS_INIT` functions before
`main`, so `Registered` is a constant.

*The heartbeats.*  `ClientBeat` arrives at the server as a save request.  Its
name is one counter byte followed by what is left in the receive buffer, so over
time it can be any name; a name outside the model's `Name` has no effect the
model sees.  The server answers it as it answers a save, and that answer too
arrives at the client as a reply.  `ServerBeat` arrives at the client as the reply
to a save, with a code no settings operation returns.  The client's begin as soon
as the link is bound, the server's after the walk.  `Room` is what full links
leave possible: the outcomes in which nothing is sent.  Since a full link refuses
any message, every send may fail in `LoraSystem` (`EverySendMayFail`).

*The messages.*  In `IpcCodec` a message is a sequence of bytes, each telling what
it came from.  `SaveData`, `LoadData`, `EcbData`, `CmacData` and `BootData` are
what a sender puts together, sizes reduced to their width; `Serve...`, `Copied`
and `ReadValue` are what the receiver takes out.  A name of 255 bytes and its
terminator have size 0 in a `uint8_t`, so that the receiver finds no terminator
and reads on into whatever its buffer held: any name, or none (`NamesRead`).  A
value above `LoadRoom` is written past the load response: the core faults or
sends what fits.  A message is refused above 516 bytes of data (`Accepted`), and
one longer than the receiver's buffer of 512 bytes, header included, is never
taken from the link (`Delivered`).

*The GPIO test.*  A command is the steps of `configure_gpio`: `Release` (the last
port an input), `Drive` (the next an output), `Record` (`last_port`), then
`Report` of `app_current_handler`.  Each shell runs one command at a time.  A
pin read past the table's end is undefined: the core faults, or a pin outside of
the table is configured.  `last_port` is a `uint8_t`: previous at 0 gives
`Byte - 1`.

*Advertising.*  `object` is the connection object the stack has one of:
advertising takes it, a connection takes it over, and after a disconnection or a
failed connection the stack recycles it and says so.  `queued` and `running` are
the work item: it may be submitted again while its handler runs.

*The context.*  A group's value is the number of times the stack changed it.
`WalkStart`, `HandleSet` and `WalkEnd` are the start-up walk as the context storage
sees it: each entry is handed over or, after one that cannot be sent, none.
`Restore` comes at any point of it and leaves the stack with the groups loaded by
then, or, when the stack does not give or take its context, with none.
`SaveOne` is one iteration of the loop in `lorawan_nvm_save_settings`, through
`settings_ipc_save`; of a group in `Wide`, above 255 bytes, it keeps a setting of
another size (`Kept`); no save is carried out during the walk, which holds the
lock (`Saved`).  `Reset` resets both cores.

## Abstractions and assumptions

- Links are FIFO and do not lose what they accepted; sending may fail
  (`SendFaults` names the messages for which it may).
- In the service modules a message is sent in one step.  `IpcEndpoint` shows
  when that is true: a call no other overlaps sends exactly its message, if the
  message fits in the data (`AloneIsAsSent`, proved from `FromConcurrentCalls`), and the run
  `EndpointAsSent` shows what happens otherwise.
- Names, values and keys are model values in the service modules; lengths and
  layouts are in `IpcCodec`, where in turn one call is on its way at a time, which
  is what `CallExclusion` and `BootToken` establish.
- `StartGate` (no call before the walk has ended) is a discipline of the
  application that the repository does not contain (`soft-se-mod.c` and the
  application that starts the stack are not in it).  It is assumed in the
  runs `SettingsLiveness` and `SystemBeats`, and no theorem needs it.  It holds no
  heartbeat back: in `SystemBeats` it only keeps the run small, since to the
  server a heartbeat during the walk is a caller's save.  Whether callers keep
  `set_key` and the operation together is not known either: `paired` takes both
  values.
- Which groups are `Wide` is decided by structures of the LoRaWAN stack; the
  model has one of each kind.
- The stack of `gpio_test` has one connection object (`CONFIG_BT_MAX_CONN` is not
  raised), advertising holds it from its start, and the recycled callback comes
  after the object is free.
- Of what `strncmp` accepts as a prefix in the set handler only the exact names
  occur: none of the five names is a prefix of another, and the client stores no
  others.
- A value is written to flash atomically (ZMS), and the walk's reading of an entry
  from flash does not fail (`ipc_settings.c:294` drops the result).
- What the linker puts behind `data_payload` the source does not say: its content
  may change at any time, and overwriting it may stop the core but changes nothing
  else the model has.
- The stack restores once after a reset, and holds the context it is given in
  place: what was copied into it stands also when handing it over fails, or is
  rejected as a whole.

## Runs

| run | instance | shows |
|---|---|---|
| `SettingsCalls` | 2 callers, 2 settings of which one is handled by the client, 2 values, every send may fail, calls during the walk | exclusion, one wake-up per waiting caller, load buffers, one acknowledgement per entry, at most two messages on a link, that the walk delivers the stored values although saves go on, that a returned call has its own answer and that `IpcSettings` implements `RemoteCall` |
| `SettingsLiveness` | 2 callers, 2 settings, sends of requests and entries may fail, `StartGate` | every call returns, the walk ends, no deadlock |
| `SettingsDeadlock` (violated) | 1 caller, nothing fails, no gate | a save queued ahead of an acknowledgement stops both cores |
| `SystemBeats` | 1 caller, heartbeats of both cores, every message may be lost, room for 2 messages to the server and 1 to the client, 1 setting, `StartGate` | no heartbeat passes for an acknowledgement, and they do not change what a walk delivers; a client's heartbeat ahead of an acknowledgement stops the walk for good, as a lost acknowledgement does; nothing else stops it; once the server's main loop runs, no caller waits for ever |
| `SystemAnswers` (violated) | 1 caller, every message may be lost, room for 2 messages each way | a caller returns with the server's answer to the client's own heartbeat, or with a heartbeat of the server |
| `CryptoCalls` | 2 callers, paired or not, 2 keys, a key store for 2 keys, a heap for 1 response, requests and replies may be lost, a key may withstand destruction | `IpcCrypto` implements `RemoteCall`; results under the caller's own key; the two paths that leave a key in the store; calls return until a reply is lost or the heap is used up |
| `EndpointRace` | main loop, settings caller and receive thread; data of 2 cells in a struct of 3, messages of 0, 1, 3 and 4 cells | what a raced message may consist of; who writes past `data_payload`; main sends only when bound |
| `EndpointAsSent` (violated) | the same threads, messages of 0, 1 and 2 cells, which fit | two senders produce a message nobody sent |
| `CodecSizes` | the sizes of the code; names of 21, 254, 255 and 256 bytes, values of 1, 255, 256 and 300, load buffers of 0, 11, 12 and 255, data around the limits of the link | what is stored, loaded, restored and encrypted; which sizes are never answered |
| `NvmResets` | 3 groups of which one is wide, 2 changes each; the walk may give up, restoring come before, during or after it or fail, saves fail, entries have another size; resets | a setting goes back at most once after a start that did not restore it, and never otherwise; a group is level with its setting, or one change ahead while it is to be saved, unless its save or its restoring failed or it is wide; no deadlock |
| `NvmWide` (violated) | the same, 1 change each | a wide group is reported as saved and is not stored |
| `GpioShells` | 2 shells, 3 ports, an index of 6 values, advertising may fail to start | the pins driven are those named, the table is left only at its ends, advertising resumes |

*Bounds.*  Two callers are enough for every conflict over `busy`, `done`, `rc`
and `load_pointer`: a call conflicts with the one before it, and the exclusion
results are proved for any number.  Two settings give the walk a first and a
last entry, one refused and one staged.  Two values tell an old value from a
new one.  `LinkBound` shows that the service alone needs no bound on its links;
the heartbeats do, and `ServerRoom` and `ClientRoom` are the capacities at which
sending fails; the runs need two messages to the server, so that a heartbeat and
a request or an acknowledgement can both be on their way.
`EndpointRace` needs one cell behind the data, and sizes on both sides of the one
limit that is tested.
`HeapBlocks` and `KeySlots` are small so that they run out.  `MaxVersion` lets
every group be behind, level and ahead of the flash.  `CodecSizes` has the sizes
on both sides of each limit, and two members of a side behave alike.  Three ports
are a first, a last and one between; `Byte` leaves indices beyond the table that
are not its end, and two shells are enough for two commands to overlap (any
number is proved).

*Deadlock.*  It is checked in `SettingsLiveness` and `NvmResets`.  It is off where the
system really may stop: where a lost reply or acknowledgement leaves everybody
waiting, where a message is never delivered, where the walk deadlocks with a save, where full links block each other
and where the server core has faulted or main has returned.

*Fairness.*  The kernel runs every thread that can run, so a caller that is inside
a call, each receive thread and the server's main thread are weakly fair.
`k_sem_take` wakes the thread that has waited longest among those of one
priority: a caller that finds `busy` free again and again takes it at last,
strong fairness of `TakeBusy`.  No thread is obliged to make a call.  In
`LoraSystem` the server's heartbeat is fair because the loop of `main` never
ends; the client's need not be.  In `GpioTestApp` the work queue runs what is
queued and the stack gives an unused connection object back; nobody is obliged
to connect, to disconnect or to type a command.

*Mutants.*  Each property of a passing run has a plausible bug of the code that
breaks it; the mutated operators stand before the operators they replace.

## Findings

1. `SettingsDeadlock`: a save during the walk stops both cores
   (`app/src/ipc_settings.c:306` and `:177`).  The client's heartbeat is a save to
   the server and may come during the walk (`app/src/main.c:72`): no discipline of
   the application prevents it.  `WalkEndsOrSticks` and `StuckForGood` say that
   this, and a lost acknowledgement, is how the walk can stop.
2. `SystemAnswers`: the heartbeat's opcode 0 is the opcode of a save
   (`app/src/main.c:72`).  The shortest trace goes through the client's own
   heartbeat: the server answers it, and the answer reaches a caller that waits for
   another; the three bytes of the server's heartbeat do the same.
3. `EndpointAsSent`: `data_payload` is shared without a lock
   (`app/src/ipc_endpoint.c:109`).
4. `NvmWide`: a setting above 255 bytes is cut short and reported as saved
   (`app/src/settings_ipc.c:33`).

`BeatsWakeCallers` is the other side of the second finding: a caller whose reply was lost
is woken by the very heartbeat that forges replies, so that removing it leaves
the caller waiting, as `K_FOREVER` says.

Limits that the passing runs state rather than refute: `LoadsExactly` (a load of
more than 11 bytes overruns the response), `Answered` (an ECB of 501 to 512
bytes or a CMAC of 505 to 512 waits for ever; above, it is refused), `NoKeyLeft` (an operation that
could not be sent leaves its key, and so does a key that could not be destroyed),
`OverrunBySizeOnly` (a message of 513 to 516 bytes is copied past
`data_payload`), `NeverRegresses` (after a start that did not restore a group its first
save goes back), `FaultsOnlyFromEnds` (next at the last port
reads past the table).

## Proofs

Every safety property that a passing run checks is also proved, for every value
of the constants that the named assumptions admit; so are the action properties
and the two refinements.

| module | theorem | states |
|---|---|---|
| `IpcSettingsProofs` | `TypeCorrect`, `Exclusion`, `OwnAnswer`, `LoadTargetCorrect` | `TypeOK`, `CallExclusion`, `ReturnsOwnAnswer`, `LoadTarget` |
| | `Linearizable` | `ImplementsRemoteCall` |
| `IpcSettingsTokenProofs` | `WalkToken`, `WalkComplete`, `LinksBounded`, `WakeUpToken` | `BootToken`, `BootComplete`, `LinkBound`, `ReplyToken` |
| `LoraSystemProofs` | `SystemTypeCorrect`, `SystemExclusion`, `BeatsAreNoAcks`, `StuckStays` | `TypeOK`, `CallExclusion`, `BeatsForgeNoAck`, `StuckForGood`, of `SystemSpec` |
| `IpcCryptoProofs` | `TypeCorrect`, `OwnKeyCorrect`, `KeysLeftCounted` | `TypeOK`, `OwnKey`, `NoKeyLeft` |
| | `Linearizable` | `ImplementsRemoteCall` |
| `IpcEndpointProofs` | `TypeCorrect`, `NothingStale`, `OverrunByThoseSizes`, `MainWaitsForBound` | `TypeOK`, `FromConcurrentCalls`, `OverrunBySizeOnly`, `MainSendsBound` |
| | `AloneIsAsSent` | a call that no other overlaps sends what it was given, if that fits in the data |
| `IpcCodecProofs` | `LoadsAreExact`, `OperationsAreExact`, `OnlyLongOnesWait`, `SavesAreExact`, `WalksAreExact` | `LoadsExactly`, `EncryptsExactly`, `Answered`, `SavesExactly`, `WalksExactly` |
| `LorawanNvmProofs` | `TypeCorrect`, `Settled`, `Progress` | `TypeOK`, `OnlyFailuresLag`, `NeverRegresses` |
| `GpioTestProofs` | `TypesCorrect`, `PinsNamed`, `TableLeftAtEnds` | `TypeOK`, `DrivesWhatItNames`, `FaultsOnlyFromEnds` |

None of the properties is inductive, but for the types.  What each needs
besides, TLC first checked on the instances of the runs.

*Settings, the calls.*  `IInv` adds who owns what: what is in flight belongs to
the one caller that waits (`CallsOwned`, `RepliesOwned`, `DoneOwned`); there is
at most one request, one reply, and never two of request, reply and `done`
(`OneCall`, `OneReply`, `NotBoth`); and `CallProgress` says what `answer`, `ret`,
`rc` and the published buffer are at each point of a call.  The proof that a
step keeps `IInv` has a lemma per kind of step; `AppendIndex` and `TailIndex`
carry facts about messages through a link.

*The refinement.*  `Linearizable` is a step simulation: `Invoke`, `SendFails`,
`ServeRequest` and `Finish` are the steps `Invoke`, `Refuse`, `Execute` and
`Return` of `RemoteCall`, for a caller at that place, and every other step
stutters.  What makes it true is in `IInv`: a request that is served is the one
its caller waits for and has no answer yet; a reply is written into the memory of
the caller that waits; who has taken `done` has the server's answer in `rc` and
its buffer.  `IpcCrypto` is simulated in the same way, whether or not the reply
can be sent and also after the server core has faulted.

*Settings, the walk.*  `WalkInv` says that the entry on the link, its
acknowledgement and the server's `done` exclude one another and are there only
while the walk waits; that an entry on the link has the stored value
(`EntriesStored`, for which the lock on the settings is needed); and that what is
no longer to be sent is staged or on its way (`WalkStaged`).  It does not speak
of calls, so that the heartbeats, which break the invariant of the calls, keep
it: `LoraSystemProofs` adds the two steps of the heartbeats.  `StuckStays`
needs it as well: while the walk waits, no message but its acknowledgement gives
`done`, and a save at the head of the link stays there.  `ReplyInv`
adds to `IInv` that the request or the reply a caller waits for is on a link.  A
message keeps its place on a link or moves up by one, which `MovedUp` and the
lemmas on links are about.

*Keys.*  `CallInv` is the counterpart of `IInv` of the settings, simpler because
nothing else is on the links.  `KeysInv` counts keys: outside of a session the
store holds the orphans and the kept keys; in one it holds one more, the session's, from the answer
to `set_key` to the answer to the operation (`Holding`), and its value is the
caller's own.  `Sessions` says who may be in a call at all.

*Endpoint.*  Each call in progress is known to every other (`Overlapping`), what a
thread has written is from a call it has overlapped (`FreshOpcode`, `FreshSize`,
`FreshData`, cell by cell up to `copied`), and `memcpy` goes as far as the size of
its own message (`Copying`): what another thread writes over the buffer's size
moves no copy.  Nothing is assumed of the sizes callers ask for.

*Layouts.*  The invariant says what is on its way: the request of the call that
waits, or an answer to it, or the walk's entry as it is stored.  The lemmas are
about layouts: what stands behind a header (`BehindHeader`), that a name that a
`uint8_t` can size is read for what it is (`NameIsRead`, `SaveParts`,
`LoadParts`), and that a value that fits the response is copied whole
(`CopiedWhole`).  They rest on the library's theorems about sequences.
`RoomAssumption` states the relations of the sizes in the code that the proof of
`Answered` needs, among them that the receiver's buffer of 512 bytes has room for
every load request and that what it has room for is accepted.

*Context.*  The invariant adds three parts to the two properties: before restoring,
what is loaded is as it is stored (`Staging`); after it, the context is never behind
the flash but for what was not restored (`Ahead`); a save starts from the first
descriptor (`FromFirst`).  `OnlyFailuresLag` counts exactly, none or one change
behind, so that it is kept from one iteration of the loop to the next: the group of
the iteration is settled and, since the table names it once, has no turn left.  No
order of the walk, restoring and saves is assumed.

*GPIO test.*  `DrivesWhatItNames` speaks of the moments when no command is between
its calls; the invariant says what is driven in between (`Accounted`: the port a
command has driven and not yet recorded) and that the targets of overlapping
commands are excused (`OverlapExcused`), so that the last of them to finish leaves
nothing unexplained.  `InTable` adds the targets of commands on their way to
`FaultsOnlyFromEnds`.

Assumed are only the named assumptions on the constants.  Only model-checked is
liveness, which is out of the prover's reach under fairness: `CallReturns`,
`BootEnds`, `WalkEndsOrSticks`, `BeatsWakeCallers` and `AdvertisesAgain`.  The violated properties are
false.  `Served` and `Effect` are operators and not functions of two arguments,
which the prover does not support.

## Plan

Done: all modules listed above, and the proofs of all they promise but liveness.
What is left:

1. Proofs under hypotheses of what the violated runs refute: that
   `DispatchedAsSent` holds where calls of `ipc_send_message` exclude one another,
   and `ReturnsOwnAnswer` of `LoraSystem` where the server sends no heartbeat.
2. The assumption that the services send in one step, as a refinement between
   `IpcEndpoint` and a link, under the same exclusion.

## Not modelled

- `flipper_cpu.c` writes two registers before the kernel starts.
- The AES-ECB and CMAC samples call PSA functions in a fixed order on one thread,
  with a fixed key and text, and end at the first failure.  There is no input, no
  state that survives and nothing to interleave.
- The CCM and verification callbacks of the key service: no client function
  sends their opcodes, so no state of the program has one of their messages.
- `ipc_unregister` has no caller; `ipc_register` runs before `main`.
- `app version` prints a constant.
- Build files, Kconfig, and the SDK, which appears as the assumptions above.
