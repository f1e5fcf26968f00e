----------------------------- MODULE GpioTestApp -----------------------------
(***************************************************************************)
(* The GPIO test program as one image: the shell commands of GpioTest and  *)
(* the advertising of SmpAdvert on one core, which a fault stops and the   *)
(* command "app reboot" starts anew.                                       *)
(***************************************************************************)
EXTENDS GpioTest, SmpAdvert

vars == <<gpio, advert>>

TypeOK == GpioTypeOK /\ AdvertTypeOK

Init == GpioInit /\ AdvertInit

Command == GpioNext /\ UNCHANGED advert
Radio   == up /\ AdvertNext /\ UNCHANGED gpio
Reboot  == GpioReboot /\ AdvertReboot

Next == Command \/ Radio \/ Reboot

Spec == Init /\ [][Next]_vars

\* The work queue runs what is queued and the stack gives an object that nobody
\* uses back; nobody has to connect, disconnect or type a command.
Fairness ==
    /\ WF_vars(up /\ RunWork /\ UNCHANGED gpio)
    /\ WF_vars(up /\ Advertise /\ UNCHANGED gpio)
    /\ WF_vars(up /\ Recycled /\ UNCHANGED gpio)

FairSpec == Spec /\ Fairness

-----------------------------------------------------------------------------
\* Whenever the stack is ready and neither advertises nor is connected, it does
\* so again, unless the core stops or is rebooted or advertising could not be
\* started for a reason of its own: no order of the callbacks and the work item
\* loses the start (bluetooth.c).
AdvertisesAgain ==
    stack = "ready" /\ object \in {"free", "returning"} ~>
        object \in {"advertising", "connected"} \/ silenced \/ stack # "ready" \/ ~up
=============================================================================
