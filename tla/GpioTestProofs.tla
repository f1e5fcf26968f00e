--------------------------- MODULE GpioTestProofs ---------------------------
(***************************************************************************)
(* Proofs about the shell commands of GpioTestApp, for any number of       *)
(* shells and any table.                                                   *)
(***************************************************************************)
EXTENDS GpioTestApp, TLAPS

\* Until next or previous leaves the table, every command on its way has a port
\* of the table as its target.
InTable ==
    ~atEnd =>
        /\ up /\ last_port \in 0 .. N
        /\ \A s \in Shell : pc[s] \in {"release", "drive", "record"} => target[s] \in Port

\* The ports a command between its calls accounts for: driven and not recorded.
Claimed(p) == \E s \in Configuring : pc[s] = "record" /\ target[s] = p

\* A pin nothing excuses is driven if and only if last_port names it or, while
\* commands are between their calls, one of them has driven it.
Accounted ==
    \A p \in Port \ excused :
        p \in driven <=> IF Configuring = {} THEN p = last_port ELSE Claimed(p)

\* The targets of overlapping commands are excused.
OverlapExcused ==
    \A s, t \in Configuring : s # t /\ target[s] \in Port => target[s] \in excused

GInv == GpioTypeOK /\ InTable /\ Accounted /\ OverlapExcused

-----------------------------------------------------------------------------
\* The indices the commands compute fit a uint8_t.
LEMMA Indices ==
    /\ 0 \in Index /\ N \in Index
    /\ \A i \in Index :
          /\ i < N => i + 1 \in Index
          /\ i # 0 => i - 1 \in Index
    /\ N - 1 \in Index /\ Byte - 1 \in Index
BY TableAssumption DEF Index

\* The program starts with nothing driven and the index at the table's end.
LEMMA InitGInv == GpioInit => GInv
<1> SUFFICES ASSUME GpioInit PROVE GInv
    OBVIOUS
<1>1. GpioTypeOK
    BY Indices, Zenon DEF GpioInit, GpioTypeOK
<1>2. InTable
    BY TableAssumption DEF GpioInit, InTable
<1>3. Configuring = {}
    BY DEF GpioInit, Configuring
<1>4. Accounted /\ OverlapExcused
    BY <1>3, TableAssumption DEF GpioInit, Accounted, OverlapExcused, Port
<1> QED BY <1>1, <1>2, <1>4 DEF GInv

\* A command that starts or reports touches no pin and no command between its
\* calls.
LEMMA OutsideStep ==
    ASSUME GInv, NEW s \in Shell,
           StartNext(s) \/ StartPrevious(s) \/ StartCurrent(s) \/ Report(s)
    PROVE  GInv'
<1> USE DEF GInv
<1>1. GpioTypeOK'
    <2>1. target' \in [Shell -> Index]
        <3>1. CASE StartNext(s)
            BY <3>1, Indices, TableAssumption DEF GpioTypeOK, StartNext, Index
        <3>2. CASE StartPrevious(s)
            BY <3>2, Indices DEF GpioTypeOK, StartPrevious
        <3>3. CASE StartCurrent(s) \/ Report(s)
            BY <3>3, Indices DEF GpioTypeOK, StartCurrent, Report
        <3> QED BY <3>1, <3>2, <3>3
    <2>2. pc' \in [Shell -> {"idle", "release", "drive", "record", "report"}]
        BY DEF GpioTypeOK, StartNext, StartPrevious, StartCurrent, Report
    <2>3. /\ UNCHANGED <<last_port, driven, excused>>
          /\ up' \in BOOLEAN /\ atEnd' \in BOOLEAN
        BY DEF GpioTypeOK, StartNext, StartPrevious, StartCurrent, Report
    <2> QED BY <2>1, <2>2, <2>3 DEF GpioTypeOK, Port
<1>2. InTable'
    <2>1. CASE StartNext(s)
        BY <2>1, TableAssumption DEF StartNext, InTable, GpioTypeOK, Port, Index
    <2>2. CASE StartPrevious(s)
        BY <2>2, TableAssumption DEF StartPrevious, InTable, GpioTypeOK, Port, Index
    <2>3. CASE StartCurrent(s) \/ Report(s)
        BY <2>3, TableAssumption DEF StartCurrent, Report, InTable, GpioTypeOK, Port, Index
    <2> QED BY <2>1, <2>2, <2>3
<1>3. /\ Configuring' = Configuring
      /\ \A t \in Configuring : target'[t] = target[t] /\ pc'[t] = pc[t]
      /\ driven' = driven /\ excused' = excused /\ last_port' = last_port
    BY DEF Configuring, GpioTypeOK, StartNext, StartPrevious, StartCurrent, Report
<1>4. Accounted'
    BY <1>3 DEF Accounted, Claimed, Port
<1>5. OverlapExcused'
    BY <1>3 DEF OverlapExcused, Port
<1> QED BY <1>1, <1>2, <1>4, <1>5

\* What a command's step puts in doubt are ports, the targets of all commands
\* between their calls and its own, if there is another one.
LEMMA DoubtedPorts ==
    ASSUME NEW s \in Shell
    PROVE  /\ Doubted(s) \subseteq Port
           /\ Configuring \subseteq {s} => Doubted(s) = {}
           /\ ~(Configuring \subseteq {s}) =>
                 \A t \in Configuring \cup {s} : target[t] \in Port => target[t] \in Doubted(s)
BY DEF Doubted

\* Making the last port an input again keeps the invariant.
LEMMA ReleaseInv ==
    ASSUME GInv, NEW s \in Shell, Release(s)
    PROVE  GInv'
<1> USE DEF GInv
<1>1. GpioTypeOK'
    BY DoubtedPorts DEF GpioTypeOK, Release
<1>2. InTable'
    BY DEF InTable, GpioTypeOK, Release
<1>3. /\ Configuring' = Configuring \cup {s} /\ s \notin Configuring
      /\ target' = target /\ last_port' = last_port
      /\ pc'[s] = "drive" /\ \A t \in Configuring : pc'[t] = pc[t]
    BY DEF Configuring, GpioTypeOK, Release
<1>4. OverlapExcused'
    <2> SUFFICES ASSUME NEW t \in Configuring', NEW u \in Configuring', t # u,
                        target[t] \in Port
                 PROVE  target[t] \in excused'
        BY <1>3 DEF OverlapExcused, Port
    <2>1. ~(Configuring \subseteq {s})
        BY <1>3
    <2>2. target[t] \in Doubted(s)
        BY <2>1, <1>3, DoubtedPorts
    <2> QED BY <2>2 DEF Release
<1>5. Accounted'
    <2> SUFFICES ASSUME NEW p \in Port, p \notin excused'
                 PROVE  p \in driven' <=> Claimed(p)'
        BY <1>3 DEF Accounted, Port
    <2>1. p \notin Doubted(s)
        BY DEF Release
    <2>2. ~Claimed(p)'
        <3> SUFFICES ASSUME NEW t \in Configuring', pc'[t] = "record", target[t] = p
                     PROVE  FALSE
            BY <1>3 DEF Claimed
        <3> QED BY <1>3, <2>1, DoubtedPorts
    <2>3. p \notin driven'
        <3>1. CASE p = last_port
            BY <3>1 DEF Release
        <3>2. CASE p # last_port
            <4>1. p \notin excused /\ driven' \subseteq driven
                BY <3>2 DEF Release
            <4>2. ~Claimed(p)
                BY <2>2, <1>3 DEF Claimed
            <4> QED BY <3>2, <4>1, <4>2 DEF Accounted
        <3> QED BY <3>1, <3>2
    <2> QED BY <2>2, <2>3
<1> QED BY <1>1, <1>2, <1>4, <1>5

\* Making the next port an output keeps the invariant.
LEMMA DriveInv ==
    ASSUME GInv, NEW s \in Shell, Drive(s)
    PROVE  GInv'
<1> USE DEF GInv
<1>1. GpioTypeOK'
    BY DoubtedPorts DEF GpioTypeOK, Drive
<1>2. InTable'
    BY DEF InTable, GpioTypeOK, Drive
<1>3. /\ Configuring' = Configuring /\ s \in Configuring
      /\ target' = target /\ last_port' = last_port
      /\ pc[s] = "drive" /\ pc'[s] = "record"
      /\ \A t \in Configuring \ {s} : pc'[t] = pc[t]
    BY DEF Configuring, GpioTypeOK, Drive
<1>4. excused \subseteq excused'
    BY DEF Drive
<1>5. OverlapExcused'
    BY <1>3, <1>4 DEF OverlapExcused, Port
<1>6. Accounted'
    <2> SUFFICES ASSUME NEW p \in Port, p \notin excused'
                 PROVE  p \in driven' <=> Claimed(p)'
        BY <1>3 DEF Accounted, Port
    <2>1. p \in driven <=> Claimed(p)
        BY <1>3, <1>4 DEF Accounted
    <2>2. Claimed(p)' <=> Claimed(p) \/ target[s] = p
        BY <1>3 DEF Claimed
    <2>3. p \in driven' <=> p \in driven \/ target[s] = p
        <3>1. CASE target[s] = p /\ p \notin driven'
            BY <3>1 DEF Drive
        <3>2. CASE target[s] # p
            BY <3>2 DEF Drive
        <3> QED BY <3>1, <3>2 DEF Drive
    <2> QED BY <2>1, <2>2, <2>3
<1> QED BY <1>1, <1>2, <1>5, <1>6

\* Recording the next port keeps the invariant.
LEMMA RecordInv ==
    ASSUME GInv, NEW s \in Shell, Record(s)
    PROVE  GInv'
<1> USE DEF GInv
<1>1. GpioTypeOK'
    BY DoubtedPorts DEF GpioTypeOK, Record
<1>2. InTable'
    BY TableAssumption DEF InTable, GpioTypeOK, Record, Port
<1>3. /\ Configuring' = Configuring \ {s} /\ s \in Configuring
      /\ target' = target /\ driven' = driven /\ last_port' = target[s]
      /\ pc[s] = "record"
      /\ \A t \in Configuring \ {s} : pc'[t] = pc[t]
      /\ excused' = excused \cup Doubted(s)
    BY DEF Configuring, GpioTypeOK, Record
<1>4. OverlapExcused'
    BY <1>3 DEF OverlapExcused, Port
<1>5. Accounted'
    <2> SUFFICES ASSUME NEW p \in Port, p \notin excused'
                 PROVE  p \in driven <=> IF Configuring' = {} THEN p = target[s]
                                         ELSE Claimed(p)'
        BY <1>3 DEF Accounted, Port
    <2>1. p \in driven <=> Claimed(p)
        BY <1>3 DEF Accounted
    <2>2. CASE Configuring = {s}
        BY <2>1, <2>2, <1>3 DEF Claimed
    <2>3. CASE Configuring # {s}
        <3>1. \A t \in Configuring : target[t] # p
            BY <1>3, <2>3, DoubtedPorts
        <3> QED BY <3>1, <2>1, <2>3, <1>3 DEF Claimed
    <2> QED BY <2>2, <2>3
<1> QED BY <1>1, <1>2, <1>4, <1>5

\* Every step of the program keeps the invariant.
LEMMA NextGInv == GInv /\ [Next]_vars => GInv'
<1> SUFFICES ASSUME GInv, [Next]_vars PROVE GInv'
    OBVIOUS
<1>1. CASE Command
    <2> PICK s \in Shell :
          \/ StartNext(s) \/ StartPrevious(s) \/ StartCurrent(s)
          \/ Release(s) \/ Drive(s) \/ Record(s) \/ Report(s)
        BY <1>1 DEF Command, GpioNext
    <2> QED BY OutsideStep, ReleaseInv, DriveInv, RecordInv
<1>2. CASE Reboot
    <2>1. GpioTypeOK'
        <3>1. last_port' \in Index /\ target' \in [Shell -> Index]
            BY <1>2, Indices DEF Reboot, GpioReboot
        <3>2. /\ driven' = {} /\ excused' = {} /\ up' = up /\ atEnd' \in BOOLEAN
              /\ pc' \in [Shell -> {"idle", "release", "drive", "record", "report"}]
            BY <1>2 DEF Reboot, GpioReboot
        <3> QED BY <3>1, <3>2 DEF GInv, GpioTypeOK
    <2>2. Configuring' = {}
        BY <1>2 DEF Reboot, GpioReboot, Configuring
    <2>3. InTable'
        BY <1>2, TableAssumption DEF Reboot, GpioReboot, InTable
    <2>4. Accounted' /\ OverlapExcused'
        BY <1>2, <2>2, TableAssumption
        DEF Reboot, GpioReboot, Accounted, OverlapExcused, Port
    <2> QED BY <2>1, <2>3, <2>4 DEF GInv
<1>3. CASE Radio \/ UNCHANGED vars
    <2>1. UNCHANGED gpio
        BY <1>3 DEF Radio, vars
    <2>2. Configuring' = Configuring
        BY <2>1 DEF gpio, Configuring
    <2> QED BY <2>1, <2>2
            DEF gpio, GInv, GpioTypeOK, InTable, Accounted, Claimed, OverlapExcused, Index, Port
<1> QED BY <1>1, <1>2, <1>3 DEF Next

-----------------------------------------------------------------------------
\* The invariant holds in every reachable state.
THEOREM GpioInvariance == Spec => []GInv
<1>1. Init => GInv
    BY InitGInv DEF Init
<1> QED BY <1>1, NextGInv, PTL DEF Spec

\* When no command is at work the pins driven are the one last_port names, but
\* for failed configurations and overlapping commands (configure_gpio).
THEOREM PinsNamed == Spec => []DrivesWhatItNames
<1>1. GInv => DrivesWhatItNames
    <2> SUFFICES ASSUME GInv, \A s \in Shell : pc[s] \in {"idle", "release", "report"}
                 PROVE  driven \ excused = ({last_port} \cap Port) \ excused
        BY DEF DrivesWhatItNames
    <2>1. Configuring = {}
        BY DEF Configuring
    <2> QED BY <2>1 DEF GInv, Accounted, GpioTypeOK
<1> QED BY <1>1, GpioInvariance, PTL

\* The table is left only by next at its last port or previous at its first
\* (app_next_handler, app_previous_handler).
THEOREM TableLeftAtEnds == Spec => []FaultsOnlyFromEnds
<1>1. GInv => FaultsOnlyFromEnds
    BY DEF GInv, InTable, FaultsOnlyFromEnds
<1> QED BY <1>1, GpioInvariance, PTL

-----------------------------------------------------------------------------
\* The callbacks, the work item and the stack keep their types.
LEMMA AdvertType == AdvertTypeOK /\ [Next]_vars => AdvertTypeOK'
<1> SUFFICES ASSUME AdvertTypeOK, [Next]_vars PROVE AdvertTypeOK'
    OBVIOUS
<1> USE DEF AdvertTypeOK
<1>1. CASE AdvertNext
    BY <1>1 DEF AdvertNext, Enable, Ready, RunWork, Advertise, Connected, ConnectFails,
                Disconnected, Recycled
<1>2. CASE AdvertReboot
    BY <1>2 DEF AdvertReboot
<1>3. CASE UNCHANGED advert
    BY <1>3 DEF advert
<1> QED BY <1>1, <1>2, <1>3 DEF Next, Command, Radio, Reboot, vars

\* Every variable of the program keeps its type; the index stays a uint8_t.
THEOREM TypesCorrect == Spec => []TypeOK
<1>1. Init => AdvertTypeOK
    BY DEF Init, AdvertInit, AdvertTypeOK
<1>2. Spec => []AdvertTypeOK
    BY <1>1, AdvertType, PTL DEF Spec
<1>3. GInv /\ AdvertTypeOK => TypeOK
    BY DEF GInv, TypeOK
<1> QED BY <1>2, <1>3, GpioInvariance, PTL
=============================================================================
