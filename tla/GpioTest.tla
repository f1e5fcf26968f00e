------------------------------ MODULE GpioTest ------------------------------
(***************************************************************************)
(* The GPIO test program (gpio_test/src/main.c): the shell command "app"   *)
(* drives the pins of a table high one after the other, the last one back  *)
(* to an input before the next.  A single index, last_port, says which pin *)
(* is under test.                                                          *)
(*                                                                         *)
(* Commands come from the serial shell's thread and, over MCUmgr, from the *)
(* work queue of its transport (prj.conf enables both shells), and nothing *)
(* locks the index: each command is a few steps here.  Reading the table   *)
(* past its end is undefined: the core faults, or some pin that is not in  *)
(* the table is configured.                                                *)
(***************************************************************************)
EXTENDS Naturals

CONSTANTS
    Shell,   \* the threads that run commands
    N,       \* the entries of gpio_ports
    Byte     \* bound: the values of uint8_t (256)

ASSUME TableAssumption == N \in Nat \ {0} /\ Byte \in Nat /\ Byte > N + 1

Port  == 0 .. N - 1
Index == 0 .. Byte - 1

VARIABLES
    last_port,
    driven,    \* the pins of the table configured as outputs
    pc,        \* where each thread stands in its command
    target,    \* its next_port
    up,        \* FALSE once the core has faulted
    excused,   \* ghost: the ports of a failed configuration or of overlapping commands
    atEnd      \* ghost: next was entered at the last port, or previous at the first

gpio == <<last_port, driven, pc, target, up, excused, atEnd>>

GpioTypeOK ==
    /\ last_port \in Index
    /\ driven \subseteq Port
    /\ pc \in [Shell -> {"idle", "release", "drive", "record", "report"}]
    /\ target \in [Shell -> Index]
    /\ up \in BOOLEAN
    /\ excused \subseteq Port
    /\ atEnd \in BOOLEAN

GpioInit ==
    /\ last_port = N
    /\ driven = {}
    /\ pc = [s \in Shell |-> "idle"]
    /\ target = [s \in Shell |-> 0]
    /\ up = TRUE
    /\ excused = {}
    /\ atEnd = FALSE

\* The commands between their first and their last call of gpio_pin_configure,
\* and what another one's step there puts in doubt.
Configuring == {s \in Shell : pc[s] \in {"drive", "record"}}

Doubted(s) ==
    IF Configuring \subseteq {s} THEN {}
    ELSE {target[t] : t \in Configuring \cup {s}} \cap Port

-----------------------------------------------------------------------------
(* The commands. *)

\* Mutant of StartNext: an inactive index is taken for a port.
NextFromInactive(s) ==
    /\ pc[s] = "idle"
    /\ target' = [target EXCEPT ![s] = IF last_port > N THEN 0 ELSE (last_port + 1) % Byte]
    /\ pc' = [pc EXCEPT ![s] = "release"]
    /\ atEnd' = (atEnd \/ last_port = N - 1)
    /\ UNCHANGED <<last_port, driven, up, excused>>

\* app_next_handler, up to its call of configure_gpio.
StartNext(s) ==
    /\ pc[s] = "idle"
    /\ target' = [target EXCEPT ![s] = IF last_port >= N THEN 0 ELSE last_port + 1]
    /\ pc' = [pc EXCEPT ![s] = "release"]
    /\ atEnd' = (atEnd \/ last_port = N - 1)
    /\ UNCHANGED <<last_port, driven, up, excused>>

\* Mutant of StartPrevious: the index is a signed integer.
PreviousSigned(s) ==
    /\ pc[s] = "idle"
    /\ target' = [target EXCEPT ![s] = IF last_port = N THEN N - 1 ELSE last_port - 1]
    /\ pc' = [pc EXCEPT ![s] = "release"]
    /\ atEnd' = (atEnd \/ last_port = 0)
    /\ UNCHANGED <<last_port, driven, up, excused>>

\* app_previous_handler likewise; the index is a uint8_t and wraps.
StartPrevious(s) ==
    /\ pc[s] = "idle"
    /\ target' = [target EXCEPT ![s] =
                     IF last_port = N THEN N - 1
                     ELSE IF last_port = 0 THEN Byte - 1 ELSE last_port - 1]
    /\ pc' = [pc EXCEPT ![s] = "release"]
    /\ atEnd' = (atEnd \/ last_port = 0)
    /\ UNCHANGED <<last_port, driven, up, excused>>

StartCurrent(s) ==
    /\ pc[s] = "idle"
    /\ pc' = [pc EXCEPT ![s] = "report"]
    /\ UNCHANGED <<last_port, driven, target, up, excused, atEnd>>

\* Mutant of Release: the pin about to be driven is made an input, not the last.
ReleaseTarget(s) ==
    /\ pc[s] = "release"
    /\ pc' = [pc EXCEPT ![s] = "drive"]
    /\ driven' = driven \ {target[s]}
    /\ excused' = (excused \ {target[s]}) \cup Doubted(s)
    /\ UNCHANGED <<last_port, target, up, atEnd>>

\* configure_gpio: the last pin becomes an input again, or stays if that fails.
Release(s) ==
    /\ pc[s] = "release"
    /\ pc' = [pc EXCEPT ![s] = "drive"]
    /\ \/ /\ driven' = driven \ {last_port}
          /\ excused' = (excused \ {last_port}) \cup Doubted(s)
       \/ /\ last_port \in Port
          /\ excused' = excused \cup {last_port} \cup Doubted(s)
          /\ UNCHANGED driven
    /\ UNCHANGED <<last_port, target, up, atEnd>>

\* The next pin becomes an output, or stays as it is if that fails.
Drive(s) ==
    /\ pc[s] = "drive"
    /\ pc' = [pc EXCEPT ![s] = "record"]
    /\ \/ /\ target[s] \in Port
          /\ driven' = driven \cup {target[s]}
          /\ excused' = excused \cup Doubted(s)
          /\ UNCHANGED up
       \/ /\ excused' = excused \cup ({target[s]} \cap Port) \cup Doubted(s)
          /\ UNCHANGED <<driven, up>>
       \/ /\ target[s] \notin Port
          /\ up' = FALSE
          /\ UNCHANGED <<driven, excused>>
    /\ UNCHANGED <<last_port, target, atEnd>>

Record(s) ==
    /\ pc[s] = "record"
    /\ pc' = [pc EXCEPT ![s] = "report"]
    /\ last_port' = target[s]
    /\ excused' = excused \cup Doubted(s)
    /\ UNCHANGED <<driven, target, up, atEnd>>

\* app_current_handler; index N is reported as inactive, beyond it the name is
\* read past the table.
Report(s) ==
    /\ pc[s] = "report"
    /\ pc' = [pc EXCEPT ![s] = "idle"]
    /\ \/ UNCHANGED up
       \/ last_port > N /\ up' = FALSE
    /\ target' = [target EXCEPT ![s] = 0]
    /\ UNCHANGED <<last_port, driven, excused, atEnd>>

GpioNext ==
    /\ up
    /\ \E s \in Shell :
          \/ StartNext(s) \/ StartPrevious(s) \/ StartCurrent(s)
          \/ Release(s) \/ Drive(s) \/ Record(s) \/ Report(s)

\* app_reboot_handler, from a thread that is in no other command: the pins and
\* the index start anew.
GpioReboot ==
    /\ up
    /\ \E s \in Shell : pc[s] = "idle"
    /\ last_port' = N
    /\ driven' = {}
    /\ pc' = [s \in Shell |-> "idle"]
    /\ target' = [s \in Shell |-> 0]
    /\ excused' = {}
    /\ atEnd' = FALSE
    /\ UNCHANGED up

-----------------------------------------------------------------------------
\* When no command is at work, the pins driven are exactly the one "current"
\* names, but for those whose configuration failed and those of commands that
\* overlapped (configure_gpio, app_current_handler): an index that left the
\* table and came back leaves no pin behind.
DrivesWhatItNames ==
    up /\ (\A s \in Shell : pc[s] \in {"idle", "release", "report"}) =>
        driven \ excused = ({last_port} \cap Port) \ excused

\* The table is read past its end only after next was entered at the last port
\* or previous at the first, however the commands of the two shells overlap.
FaultsOnlyFromEnds == ~atEnd => up /\ last_port \in 0 .. N
=============================================================================
