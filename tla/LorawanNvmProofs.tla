-------------------------- MODULE LorawanNvmProofs --------------------------
(***************************************************************************)
(* Proofs about LorawanNvm, for any groups, table and number of changes.   *)
(***************************************************************************)
EXTENDS LorawanNvm, TLAPS

\* Before the stack restores, what is staged as loaded is as it is stored.
Staging ==
    phase = "boot" =>
        \A g \in Group :
            /\ context[g] = 0
            /\ loaded[g] => g \in UsableGroups /\ staged[g] = flash[g].version

\* From then on the stack is not behind the flash, but for what it did not restore.
Ahead ==
    phase # "boot" =>
        \A g \in UsableGroups \ unrestored : flash[g].version <= context[g]

\* A save starts from the first descriptor and has flags only while it lasts.
FromFirst == phase # "saving" => index = 1 /\ flags = {}

Inv == TypeOK /\ FromFirst /\ Staging /\ Ahead /\ OnlyFailuresLag

-----------------------------------------------------------------------------
\* The table has a first entry and the positions a loop visits.
LEMMA Table ==
    /\ Len(Descriptor) \in Nat \ {0}
    /\ DOMAIN Descriptor = 1..Len(Descriptor)
    /\ \A i \in DOMAIN Descriptor : Descriptor[i] \in Group
BY DescriptorAssumption

\* No step leaves the types.
LEMMA NextType == TypeOK /\ [Next]_vars => TypeOK'
<1> SUFFICES ASSUME TypeOK, [Next]_vars PROVE TypeOK'
    OBVIOUS
<1> USE DEF TypeOK, walkVars, saveVars
<1>1. CASE WalkStart
    BY <1>1 DEF WalkStart
<1>2. ASSUME NEW g \in Group, HandleSet(g) PROVE TypeOK'
    BY <1>2 DEF HandleSet, Stored
<1>3. CASE WalkEnd
    BY <1>3 DEF WalkEnd
<1>4. CASE Restore
    BY <1>4 DEF Restore, UsableGroups
<1>5. ASSUME NEW changed \in SUBSET Group, Notify(changed) PROVE TypeOK'
    <2>1. context' \in [Group -> Version]
        BY <1>5, VersionAssumption DEF Notify, Version
    <2> QED BY <1>5, <2>1 DEF Notify
<1>6. CASE SaveOne
    <2> DEFINE g == Descriptor[index]
    <2>1. g \in Group
        BY Table
    <2>2. Kept(g) \in Stored
        BY <2>1 DEF Kept, Stored
    <2>3. flash' \in [Group -> Stored] /\ failed' \subseteq Group /\ unrestored' \subseteq Group
        BY <1>6, <2>1, <2>2 DEF SaveOne, Saved, NotSaved
    <2>4. /\ index' \in DOMAIN Descriptor
          /\ phase' \in {"boot", "running", "saving"} /\ flags' \subseteq Group
        BY <1>6, Table DEF SaveOne, Advance
    <2> QED BY <1>6, <2>3, <2>4 DEF SaveOne
<1>7. CASE Reset
    BY <1>7, Table, VersionAssumption DEF Reset, Version
<1>8. CASE UNCHANGED vars
    BY <1>8 DEF vars
<1> QED BY <1>1, <1>2, <1>3, <1>4, <1>5, <1>6, <1>7, <1>8 DEF Next

-----------------------------------------------------------------------------
\* The invariant holds of any flash a device may start with.
LEMMA InitInv == Init => Inv
<1> SUFFICES ASSUME Init PROVE Inv
    OBVIOUS
<1> USE DEF Init
<1>1. TypeOK
    BY Table, VersionAssumption DEF TypeOK, Version
<1>2. Staging
    BY DEF Staging
<1> QED BY <1>1, <1>2 DEF Inv, Ahead, OnlyFailuresLag, FromFirst

\* The steps of the walk leave what the stack has and what is saved alone, and
\* stage an entry as it is stored.
LEMMA WalkInv ==
    ASSUME Inv, WalkStart \/ WalkEnd \/ (\E g \in Group : HandleSet(g)), TypeOK'
    PROVE  Inv'
<1> USE DEF Inv, walkVars, saveVars
<1>1. UNCHANGED <<flash, context, phase, index, flags, failed, unrestored>>
    BY DEF WalkStart, WalkEnd, HandleSet
<1>2. Staging'
    <2>1. CASE \E g \in Group : HandleSet(g)
        BY <1>1, <2>1 DEF HandleSet, Staging, TypeOK, UsableGroups
    <2>2. CASE WalkStart \/ WalkEnd
        BY <1>1, <2>2 DEF WalkStart, WalkEnd, Staging, UsableGroups
    <2> QED BY <2>1, <2>2
<1>3. Ahead' /\ OnlyFailuresLag' /\ FromFirst'
    BY <1>1 DEF Ahead, OnlyFailuresLag, FromFirst, Usable, UsableGroups, ToSave
<1> QED BY <1>2, <1>3

\* Restoring brings a group level with the flash, or counts it as not restored.
LEMMA RestoreInv ==
    ASSUME Inv, Restore, TypeOK' PROVE Inv'
<1> USE DEF Inv, walkVars
<1>1. UNCHANGED <<flash, index, flags, failed>> /\ phase = "boot" /\ phase' = "running"
    BY DEF Restore
<1>2. PICK taken \in {{g \in Group : loaded[g]}, {}} :
        /\ context' = [g \in Group |-> IF g \in taken THEN staged[g] ELSE context[g]]
        /\ unrestored' = UsableGroups \ taken
    BY DEF Restore
<1>3. \A g \in taken : loaded[g]
    BY <1>2
<1>4. ASSUME NEW g \in Group, g \notin unrestored' PROVE context'[g] = Usable(g)
    <2>1. CASE g \in taken
        BY <2>1, <1>1, <1>2, <1>3 DEF Staging, Usable
    <2>2. CASE g \notin taken
        <3>1. g \notin UsableGroups
            BY <2>2, <1>2, <1>4
        <3>2. context'[g] = 0
            BY <2>2, <1>1, <1>2 DEF Staging
        <3> QED BY <3>1, <3>2 DEF Usable
    <2> QED BY <2>1, <2>2
<1>5. \A g \in Group : context'[g] \in Nat /\ Usable(g)' = Usable(g) /\ ~ToSave(g)'
    BY <1>1, VersionAssumption DEF TypeOK, Version, Usable, UsableGroups, ToSave, FromFirst
<1>6. Ahead'
    <2> SUFFICES ASSUME NEW g \in UsableGroups', g \notin unrestored'
                 PROVE  flash'[g].version <= context'[g]
        BY DEF Ahead
    <2>1. g \in Group /\ context'[g] = flash'[g].version
        BY <1>1, <1>4 DEF Usable, UsableGroups
    <2> QED BY <2>1, <1>5
<1>7. OnlyFailuresLag'
    BY <1>4, <1>5 DEF OnlyFailuresLag
<1>8. FromFirst' /\ Staging'
    BY <1>1 DEF FromFirst, Staging
<1> QED BY <1>6, <1>7, <1>8

\* A change of the context puts the changed groups one ahead and schedules them.
LEMMA NotifyInv ==
    ASSUME NEW changed \in SUBSET Group, Inv, Notify(changed), TypeOK' PROVE Inv'
<1> USE DEF Inv, walkVars
<1>1. UNCHANGED <<flash, index, unrestored>> /\ phase = "running" /\ index = 1 /\ flags = {}
    BY DEF Notify, FromFirst
<1>2. \A g \in Group : context'[g] = IF g \in changed THEN context[g] + 1 ELSE context[g]
    BY DEF Notify
<1>3. \A g \in Group : context[g] \in Nat /\ Usable(g) \in Nat /\ Usable(g)' = Usable(g)
    BY <1>1, VersionAssumption DEF TypeOK, Stored, Version, Usable, UsableGroups
<1>4. \A g \in Group : ~ToSave(g)
    BY <1>1 DEF ToSave
<1>5. Ahead'
    BY <1>1, <1>2, <1>3 DEF Ahead, Usable, UsableGroups
<1>6. CASE phase' = "saving" /\ flags' = changed /\ failed' = failed
    <2>1. ASSUME NEW g \in Group PROVE ToSave(g)' <=> g \in changed
        <3>1. PICK i \in DOMAIN Descriptor : Descriptor[i] = g
            BY DescriptorAssumption
        <3>2. index' <= i
            BY <3>1, <1>1, Table
        <3> QED BY <3>1, <3>2, <1>6 DEF ToSave
    <2>2. OnlyFailuresLag'
        BY <1>1, <1>2, <1>3, <1>4, <1>6, <2>1 DEF OnlyFailuresLag
    <2>3. FromFirst' /\ Staging'
        BY <1>6 DEF FromFirst, Staging
    <2> QED BY <1>5, <2>2, <2>3
<1>7. CASE failed' = failed \cup changed /\ phase' = phase /\ flags' = flags
    <2>1. \A g \in Group : ~ToSave(g)'
        BY <1>1, <1>7 DEF ToSave
    <2>2. OnlyFailuresLag'
        BY <1>1, <1>2, <1>3, <1>4, <1>7, <2>1 DEF OnlyFailuresLag
    <2>3. FromFirst' /\ Staging'
        BY <1>1, <1>7 DEF FromFirst, Staging
    <2> QED BY <1>5, <2>2, <2>3
<1> QED BY <1>6, <1>7 DEF Notify

\* An iteration of the save loop settles its own group and no other.
LEMMA SaveOneInv ==
    ASSUME Inv, SaveOne, TypeOK' PROVE Inv'
<1> USE DEF Inv
<1>0. index \in 1..Len(Descriptor) /\ phase = "saving"
    BY Table DEF TypeOK, SaveOne
<1>d. PICK d \in Group : d = Descriptor[index]
    BY <1>0, Table
<1>1. context' = context /\ Advance
    BY DEF SaveOne
<1>2. \/ Saved(d) /\ d \in flags
      \/ NotSaved(d) /\ d \in flags
      \/ d \notin flags /\ UNCHANGED <<flash, failed, unrestored>>
    BY <1>d DEF SaveOne
<1>3. \A g \in Group : context[g] \in Nat /\ Usable(g) \in Nat
    BY VersionAssumption DEF TypeOK, Stored, Version, Usable, UsableGroups
\* The other groups keep what is stored of them and their turn.
<1>4. ASSUME NEW g \in Group, g # d
      PROVE  /\ flash'[g] = flash[g]
             /\ g \in failed' <=> g \in failed
             /\ g \in unrestored' <=> g \in unrestored
             /\ ToSave(g)' <=> ToSave(g)
    <2>1. /\ flash'[g] = flash[g]
          /\ g \in failed' <=> g \in failed
          /\ g \in unrestored' <=> g \in unrestored
        BY <1>2, <1>4 DEF Saved, NotSaved, TypeOK
    <2>2. ASSUME ToSave(g) PROVE ToSave(g)'
        <3>1. PICK i \in DOMAIN Descriptor : index <= i /\ Descriptor[i] = g
            BY <2>2 DEF ToSave
        <3>2. index + 1 <= i /\ index < Len(Descriptor)
            BY <3>1, <1>4, <1>0, <1>d, Table
        <3> QED BY <3>1, <3>2, <2>2, <1>1 DEF ToSave, Advance
    <2>3. ASSUME ToSave(g)' PROVE ToSave(g)
        <3>1. index < Len(Descriptor) /\ index' = index + 1 /\ flags' = flags
            BY <2>3, <1>1 DEF ToSave, Advance
        <3>2. PICK i \in DOMAIN Descriptor : index' <= i /\ Descriptor[i] = g
            BY <2>3 DEF ToSave
        <3>3. index <= i
            BY <3>1, <3>2, <1>0, <1>d, Table
        <3> QED BY <3>1, <3>2, <3>3, <2>3 DEF ToSave
    <2> QED BY <2>1, <2>2, <2>3
\* The group of this iteration has had its turn: the table names it once.
<1>5. ~ToSave(d)' /\ (ToSave(d) <=> d \in flags)
    <2>1. ToSave(d) <=> d \in flags
        BY <1>0, <1>d, Table DEF ToSave
    <2>2. ASSUME ToSave(d)' PROVE FALSE
        <3>1. index' = index + 1
            BY <2>2, <1>1 DEF ToSave, Advance
        <3>2. PICK i \in DOMAIN Descriptor : index' <= i /\ Descriptor[i] = d
            BY <2>2 DEF ToSave
        <3>3. i = index
            BY <3>2, <1>0, <1>d, Table, DescriptorAssumption
        <3> QED BY <3>1, <3>2, <3>3, <1>0, <1>d
    <2> QED BY <2>1, <2>2
<1>6. Staging' /\ FromFirst'
    BY <1>0, <1>d, <1>1 DEF Staging, FromFirst, Advance
<1>7. ASSUME NEW g \in Group, g \in UsableGroups', g \notin unrestored'
      PROVE  flash'[g].version <= context[g]
    <2>1. CASE g # d
        BY <2>1, <1>0, <1>d, <1>4, <1>7 DEF Ahead, UsableGroups
    <2>2. CASE g = d /\ Saved(d)
        BY <2>2, <1>0, <1>d, <1>3 DEF Saved, Kept, TypeOK
    <2>3. CASE g = d /\ UNCHANGED <<flash, unrestored>>
        BY <2>3, <1>0, <1>d, <1>7 DEF Ahead, UsableGroups
    <2> QED BY <2>1, <2>2, <2>3, <1>2 DEF NotSaved
<1>8. Ahead'
    BY <1>7, <1>1 DEF Ahead, UsableGroups
<1>9. ASSUME NEW g \in Group \ (failed' \cup Wide \cup unrestored')
      PROVE  context[g] = Usable(g)' + (IF ToSave(g)' THEN 1 ELSE 0)
    <2>1. CASE g # d
        <3>1. context[g] = Usable(g) + (IF ToSave(g) THEN 1 ELSE 0)
            BY <2>1, <1>0, <1>d, <1>4, <1>9 DEF OnlyFailuresLag
        <3>2. Usable(g)' = Usable(g)
            BY <2>1, <1>4 DEF Usable, UsableGroups
        <3> QED BY <2>1, <3>1, <3>2, <1>4
    <2>2. CASE g = d /\ Saved(d)
        <3>1. Usable(g)' = context[g]
            BY <2>2, <1>0, <1>d, <1>9 DEF Saved, Kept, TypeOK, Usable, UsableGroups
        <3> QED BY <2>2, <3>1, <1>3, <1>5
    <2>3. CASE g = d /\ NotSaved(d)
        BY <2>3, <1>9 DEF NotSaved
    <2>4. CASE g = d /\ d \notin flags /\ UNCHANGED <<flash, failed, unrestored>>
        <3>1. context[g] = Usable(g) + (IF ToSave(g) THEN 1 ELSE 0)
            BY <2>4, <1>0, <1>d, <1>9 DEF OnlyFailuresLag
        <3>2. Usable(g)' = Usable(g)
            BY <2>4 DEF Usable, UsableGroups
        <3> QED BY <2>4, <3>1, <3>2, <1>5
    <2> QED BY <2>1, <2>2, <2>3, <2>4, <1>2
<1>10. OnlyFailuresLag'
    BY <1>1, <1>9 DEF OnlyFailuresLag
<1> QED BY <1>6, <1>8, <1>10

\* A reset leaves nothing staged and nothing to be ahead of.
LEMMA ResetInv ==
    ASSUME Inv, Reset, TypeOK' PROVE Inv'
BY DEF Inv, Reset, Staging, Ahead, OnlyFailuresLag, FromFirst

\* Every step keeps the invariant.
LEMMA NextInv == Inv /\ [Next]_vars => Inv'
<1> SUFFICES ASSUME Inv, [Next]_vars PROVE Inv'
    OBVIOUS
<1>0. TypeOK'
    BY NextType DEF Inv
<1>1. CASE WalkStart \/ WalkEnd \/ (\E g \in Group : HandleSet(g))
    BY <1>0, <1>1, WalkInv
<1>2. CASE Restore
    BY <1>0, <1>2, RestoreInv
<1>3. ASSUME NEW changed \in SUBSET Group, Notify(changed) PROVE Inv'
    BY <1>0, <1>3, NotifyInv
<1>4. CASE SaveOne
    BY <1>0, <1>4, SaveOneInv
<1>5. CASE Reset
    BY <1>0, <1>5, ResetInv
<1>6. CASE UNCHANGED vars
    BY <1>0, <1>6 DEF vars, walkVars, saveVars, Inv, FromFirst, Staging, Ahead, OnlyFailuresLag,
                Usable, UsableGroups, ToSave
<1> QED BY <1>1, <1>2, <1>3, <1>4, <1>5, <1>6 DEF Next

-----------------------------------------------------------------------------
\* Inv holds in every state the stack and the flash can reach, in whatever order
\* the stack and the walk come and whatever fails.
THEOREM Invariance == Spec => []Inv
<1> QED BY InitInv, NextInv, PTL DEF Spec

\* Every variable of the context storage keeps its type: the loop never leaves
\* nvm_setting_descriptors.
THEOREM TypeCorrect == Spec => []TypeOK
<1>1. Inv => TypeOK
    BY DEF Inv
<1> QED BY <1>1, Invariance, PTL

\* Once the stack runs, a group that the backend can hold, that was restored or
\* saved since, and whose last save did not fail is stored as the stack has it,
\* or one change behind while its turn in the loop is still to come.
THEOREM Settled == Spec => []OnlyFailuresLag
<1>1. Inv => OnlyFailuresLag
    BY DEF Inv
<1> QED BY <1>1, Invariance, PTL

\* No setting is written with an older state of its group than it holds, except
\* by the first save after a start that did not restore the group.
THEOREM Progress == Spec => NeverRegresses
<1>1. Inv /\ [Next]_vars =>
        [\A g \in UsableGroups \ unrestored : flash'[g].version >= flash[g].version]_vars
    <2> SUFFICES ASSUME Inv, [Next]_vars, NEW g \in UsableGroups \ unrestored
                 PROVE  flash'[g].version >= flash[g].version
        OBVIOUS
    <2>0. g \in Group
        BY DEF UsableGroups
    <2>1. flash[g].version \in Nat /\ context[g] \in Nat
        BY <2>0, VersionAssumption DEF Inv, TypeOK, Stored, Version
    <2>2. CASE SaveOne
        <3>1. flash[g].version <= context[g]
            BY <2>2 DEF SaveOne, Inv, Ahead
        <3>2. flash'[g] = flash[g] \/ flash'[g].version = context[g]
            BY <2>2, <2>0 DEF SaveOne, Saved, NotSaved, Kept, Inv, TypeOK
        <3> QED BY <3>1, <3>2, <2>1
    <2>3. CASE UNCHANGED flash
        BY <2>1, <2>3
    <2> QED BY <2>2, <2>3 DEF Next, WalkStart, HandleSet, WalkEnd, Restore, Notify, Reset, vars
<1> QED BY <1>1, Invariance, PTL DEF Spec, NeverRegresses
=============================================================================
