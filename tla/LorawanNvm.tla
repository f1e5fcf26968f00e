----------------------------- MODULE LorawanNvm -----------------------------
(***************************************************************************)
(* How the LoRaWAN stack of the client core keeps its context in settings  *)
(* (app/src/lorawan_nvm_settings.c, lorawan_nvm_settings_setting.c and     *)
(* settings_ipc.c).  The context is a few groups, each a setting.  After a *)
(* reset the start-up walk of IpcSettings hands the stored groups to the   *)
(* set handler, which stages them, or gives up on the way; the stack does  *)
(* not wait for it: it restores what is staged by then, or fails to; and   *)
(* from then on every change of the context saves the changed groups.      *)
(*                                                                         *)
(* A save is the abstract call IpcSettings implements: it stores the value *)
(* and succeeds, or stores nothing and fails.  A group is told by how many *)
(* times the stack has changed it: what must never be lost is progress,    *)
(* such as the count of the nonces that have been used.                    *)
(***************************************************************************)
EXTENDS Naturals, Sequences

CONSTANTS
    Group,       \* the groups of LoRaMacNvmData_t that are settings
    Wide,        \* those of more than 255 bytes
    Descriptor,  \* nvm_setting_descriptors: the groups in the order of the table
    MaxVersion,  \* bound: the changes of one group
    GetFails     \* TRUE: the stack may fail to give its context

ASSUME DescriptorAssumption ==
    /\ Descriptor \in Seq(Group) \ {<<>>}
    /\ \A g \in Group : \E i \in DOMAIN Descriptor : Descriptor[i] = g
    /\ \A i, j \in DOMAIN Descriptor : Descriptor[i] = Descriptor[j] => i = j
ASSUME WideAssumption == Wide \subseteq Group
ASSUME VersionAssumption == MaxVersion \in Nat

Version == 0..MaxVersion

\* The setting of a group: nothing, a value of the size this program gives the
\* group, or one of another size, left by another build.
Stored == [size : {"none", "same", "other"}, version : Version]

VARIABLES
    flash,    \* the settings, on the server core
    walking,  \* where the start-up walk stands: before, during, over
    walk,     \* the entries it has still to hand over
    staged,   \* setting_value_<group>
    loaded,   \* setting_loaded_<group>
    context,  \* the context of the stack
    phase,    \* where the stack stands: before restoring, running, saving
    index,    \* the descriptor lorawan_nvm_save_settings is at
    flags,    \* the groups it was told to save
    failed,     \* ghost: the groups whose last change was not saved
    unrestored  \* ghost: the stored groups that were not restored, nor saved since

walkVars == <<walking, walk, staged, loaded>>
saveVars == <<phase, index, flags>>
vars == <<flash, walkVars, context, saveVars, failed, unrestored>>

TypeOK ==
    /\ flash \in [Group -> Stored]
    /\ walking \in {"before", "during", "over"}
    /\ walk \subseteq Group
    /\ staged \in [Group -> Version]
    /\ loaded \in [Group -> BOOLEAN]
    /\ context \in [Group -> Version]
    /\ phase \in {"boot", "running", "saving"}
    /\ index \in DOMAIN Descriptor
    /\ flags \subseteq Group
    /\ failed \subseteq Group
    /\ unrestored \subseteq Group

\* The groups whose setting the stack can use, and what is kept of each.
UsableGroups == {g \in Group : flash[g].size = "same"}
Usable(g) == IF g \in UsableGroups THEN flash[g].version ELSE 0

Init ==
    /\ flash \in [Group -> Stored]
    /\ \A g \in Group : flash[g].size = "none" => flash[g].version = 0
    /\ \A g \in Wide : flash[g].size # "same"
    /\ walking = "before"
    /\ walk = {}
    /\ staged = [g \in Group |-> 0]
    /\ loaded = [g \in Group |-> FALSE]
    /\ context = [g \in Group |-> 0]
    /\ phase = "boot"
    /\ index = 1
    /\ flags = {}
    /\ failed = {}
    /\ unrestored = {}

-----------------------------------------------------------------------------
(* The set handler, restoring and saving.                                    *)

\* The server core begins its walk: from here to the end it holds the lock of the
\* settings, so that no save is carried out in between.
WalkStart ==
    /\ walking = "before"
    /\ walking' = "during"
    /\ walk' = {g \in Group : flash[g].size # "none"}
    /\ UNCHANGED <<flash, staged, loaded, context, saveVars, failed, unrestored>>

\* lora_nvm_handle_set, called for each entry of the walk.  An entry of the
\* wrong size is refused; the caller does not look at the verdict.
HandleSet(g) ==
    /\ walking = "during"
    /\ g \in walk
    /\ walk' = walk \ {g}
    /\ IF g \in UsableGroups
       THEN /\ staged' = [staged EXCEPT ![g] = flash[g].version]
            /\ loaded' = [loaded EXCEPT ![g] = TRUE]
       ELSE UNCHANGED <<staged, loaded>>
    /\ UNCHANGED <<flash, walking, context, saveVars, failed, unrestored>>

\* The walk is over: every entry was handed over, or one could not be sent and
\* the rest is dropped.
WalkEnd ==
    /\ walking = "during"
    /\ walking' = "over"
    /\ walk' = {}
    /\ UNCHANGED <<flash, staged, loaded, context, saveVars, failed, unrestored>>

\* Mutant of Restore: the loop stops at the first group that is not loaded.
RestoreUntilMissing ==
    /\ phase = "boot"
    /\ \E taken \in {{g \in Group : loaded[g]}, {}} :
          /\ context' = [g \in Group |->
                IF g \in taken /\ \E i \in DOMAIN Descriptor :
                                     /\ Descriptor[i] = g
                                     /\ \A k \in 1..i : loaded[Descriptor[k]]
                THEN staged[g] ELSE context[g]]
          /\ unrestored' = UsableGroups \ taken
    /\ phase' = "running"
    /\ UNCHANGED <<flash, walkVars, index, flags, failed>>

\* lorawan_nvm_data_restore, once after a reset, at whatever point of the walk.
\* The stack then has the groups that are loaded (also when it reports failure
\* on being given the context, which was written in place), or none of them:
\* the context could not be got, or the stack did not take it.
Restore ==
    /\ phase = "boot"
    /\ \E taken \in {{g \in Group : loaded[g]}, {}} :
          /\ context' = [g \in Group |-> IF g \in taken THEN staged[g] ELSE context[g]]
          /\ unrestored' = UsableGroups \ taken
    /\ phase' = "running"
    /\ UNCHANGED <<flash, walkVars, index, flags, failed>>

\* The stack changes some groups and calls lorawan_nvm_data_mgmt_event with
\* their flags; saving begins unless the stack cannot give its context.
Notify(changed) ==
    /\ phase = "running"
    /\ changed # {}
    /\ \A g \in changed : context[g] < MaxVersion
    /\ context' = [g \in Group |-> IF g \in changed THEN context[g] + 1 ELSE context[g]]
    /\ \/ /\ phase' = "saving"
          /\ flags' = changed
          /\ UNCHANGED failed
       \/ /\ GetFails
          /\ failed' = failed \cup changed
          /\ UNCHANGED <<phase, flags>>
    /\ UNCHANGED <<flash, walkVars, index, unrestored>>

\* Mutant of Advance: the loop runs past the end of the table.
AdvancePastEnd ==
    IF index <= Len(Descriptor)
    THEN /\ index' = index + 1
         /\ UNCHANGED <<phase, flags>>
    ELSE /\ index' = 1
         /\ phase' = "running"
         /\ flags' = {}

\* The loop's next iteration, or its end.
Advance ==
    IF index < Len(Descriptor)
    THEN /\ index' = index + 1
         /\ UNCHANGED <<phase, flags>>
    ELSE /\ index' = 1
         /\ phase' = "running"
         /\ flags' = {}

\* What a successful save of a group leaves in flash.  settings_ipc_save hands
\* its size_t length to the uint8_t of ipc_setting_save: of a wide group only
\* the remainder modulo 256 is stored.
Kept(g) == [size |-> IF g \in Wide THEN "other" ELSE "same", version |-> context[g]]

\* settings_ipc_save of one group, the call of RemoteCall.  The server carries a
\* save out only while the walk does not hold the lock of the settings.
Saved(g) ==
    /\ walking # "during"
    /\ flash' = [flash EXCEPT ![g] = Kept(g)]
    /\ failed' = failed \ {g}
    /\ unrestored' = unrestored \ {g}
NotSaved(g) ==
    /\ failed' = failed \cup {g}
    /\ UNCHANGED <<flash, unrestored>>

\* Mutant of SaveOne: the loop stops at a group that could not be saved.
SaveUntilFailure ==
    /\ phase = "saving"
    /\ LET g == Descriptor[index]
       IN  \/ g \in flags /\ Saved(g) /\ Advance
           \/ g \in flags /\ NotSaved(g) /\ index' = 1 /\ phase' = "running" /\ flags' = {}
           \/ g \notin flags /\ UNCHANGED <<flash, failed, unrestored>> /\ Advance
    /\ UNCHANGED <<walkVars, context>>

\* One iteration of lorawan_nvm_save_settings: a flagged group is saved; a
\* failure is logged and the loop goes on.
SaveOne ==
    /\ phase = "saving"
    /\ LET g == Descriptor[index]
       IN  \/ g \in flags /\ (Saved(g) \/ NotSaved(g))
           \/ g \notin flags /\ UNCHANGED <<flash, failed, unrestored>>
    /\ Advance
    /\ UNCHANGED <<walkVars, context>>

\* Both cores are reset: only the flash is left.
Reset ==
    /\ walking' = "before"
    /\ walk' = {}
    /\ staged' = [g \in Group |-> 0]
    /\ loaded' = [g \in Group |-> FALSE]
    /\ context' = [g \in Group |-> 0]
    /\ phase' = "boot"
    /\ index' = 1
    /\ flags' = {}
    /\ failed' = {}
    /\ unrestored' = {}
    /\ UNCHANGED flash

Next ==
    \/ WalkStart
    \/ \E g \in Group : HandleSet(g)
    \/ WalkEnd
    \/ Restore
    \/ \E changed \in SUBSET Group : Notify(changed)
    \/ SaveOne
    \/ Reset

Spec == Init /\ [][Next]_vars

-----------------------------------------------------------------------------
(* Properties. *)

\* No step of any run, resets at any point included, writes a setting with an
\* older state of the group than it holds (a nonce stored as used becomes unused
\* again), except the first save after a start that did not restore the group:
\* the walk gave up or had not come to it, or restoring failed.
NeverRegresses ==
    [][ \A g \in UsableGroups \ unrestored : flash'[g].version >= flash[g].version ]_vars

\* The saving loop has still to come to a group.
ToSave(g) == g \in flags /\ \E i \in DOMAIN Descriptor : index <= i /\ Descriptor[i] = g

\* Once the stack runs, a group that is not wide is stored as the stack has it,
\* or one change behind while the loop has still to come to it: the mixture a
\* reset between two saves leaves goes back by no more than the last change.
\* Only a group whose last save failed, or that was not restored, lags further:
\* one group's failure keeps no other from being saved, and what could not be
\* used is not restored.
OnlyFailuresLag ==
    phase # "boot" =>
        \A g \in Group \ (failed \cup Wide \cup unrestored) :
            context[g] = Usable(g) + (IF ToSave(g) THEN 1 ELSE 0)

\* A save that reported success stored the group, so that the next start can
\* restore it: what lorawan_nvm_save_settings concludes from the return code.
SuccessIsStored ==
    phase = "running" => \A g \in Group \ (failed \cup unrestored) : context[g] = Usable(g)
=============================================================================
