------------------------------ MODULE SmpAdvert ------------------------------
(***************************************************************************)
(* The Bluetooth side of the GPIO test program (gpio_test/src/bluetooth.c):*)
(* a work item starts advertising, and the callbacks of the stack submit   *)
(* it again when there is a connection object to advertise with.           *)
(*                                                                         *)
(* The stack has one connection object.  Advertising holds it from the     *)
(* start; a connection takes it over; after a disconnection or a failed    *)
(* connection it is on its way back until the stack recycles it.           *)
(***************************************************************************)

CONSTANT StartFails   \* TRUE: advertising may fail to start for other reasons

ASSUME StartAssumption == StartFails \in BOOLEAN

VARIABLES
    stack,     \* the Bluetooth stack: off, enabling, ready or failed
    object,    \* the connection object
    queued,    \* advertise_work is in the queue
    running,   \* the work queue is in advertise
    silenced   \* ghost: the last start failed although the object was free

advert == <<stack, object, queued, running, silenced>>

AdvertTypeOK ==
    /\ stack \in {"off", "enabling", "ready", "failed"}
    /\ object \in {"free", "advertising", "connected", "returning"}
    /\ queued \in BOOLEAN /\ running \in BOOLEAN /\ silenced \in BOOLEAN

AdvertInit ==
    /\ stack = "off"
    /\ object = "free"
    /\ queued = FALSE /\ running = FALSE /\ silenced = FALSE

-----------------------------------------------------------------------------
\* start_smp_bluetooth_adverts.
Enable ==
    /\ stack = "off"
    /\ stack' \in {"enabling", "failed"}
    /\ UNCHANGED <<object, queued, running, silenced>>

\* bt_ready.
Ready ==
    /\ stack = "enabling"
    /\ \/ stack' = "ready" /\ queued' = TRUE
       \/ stack' = "failed" /\ UNCHANGED queued
    /\ UNCHANGED <<object, running, silenced>>

\* The work queue takes the item; from here it may be submitted again.
RunWork ==
    /\ queued /\ ~running
    /\ queued' = FALSE /\ running' = TRUE
    /\ UNCHANGED <<stack, object, silenced>>

\* advertise: without a free object the start fails, and nothing tries again.
Advertise ==
    /\ running
    /\ running' = FALSE
    /\ \/ /\ object = "free"
          /\ object' = "advertising" /\ silenced' = FALSE
       \/ /\ object # "free"
          /\ UNCHANGED <<object, silenced>>
       \/ /\ StartFails /\ object = "free"
          /\ silenced' = TRUE /\ UNCHANGED object
    /\ UNCHANGED <<stack, queued>>

\* connected, without and with an error.
Connected ==
    /\ object = "advertising"
    /\ object' = "connected"
    /\ UNCHANGED <<stack, queued, running, silenced>>

ConnectFails ==
    /\ object = "advertising"
    /\ object' = "returning"
    /\ queued' = TRUE
    /\ UNCHANGED <<stack, running, silenced>>

\* Mutant of Recycled: advertising is not started again.
RecycleSilently ==
    /\ object = "returning"
    /\ object' = "free"
    /\ UNCHANGED <<stack, queued, running, silenced>>

\* disconnected only logs.
Disconnected ==
    /\ object = "connected"
    /\ object' = "returning"
    /\ UNCHANGED <<stack, queued, running, silenced>>

\* on_conn_recycled.
Recycled ==
    /\ object = "returning"
    /\ object' = "free"
    /\ queued' = TRUE
    /\ UNCHANGED <<stack, running, silenced>>

AdvertNext ==
    \/ Enable \/ Ready
    \/ RunWork \/ Advertise
    \/ Connected \/ ConnectFails \/ Disconnected \/ Recycled

AdvertReboot ==
    /\ stack' = "off"
    /\ object' = "free"
    /\ queued' = FALSE /\ running' = FALSE /\ silenced' = FALSE
=============================================================================
