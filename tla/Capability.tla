----------------------------- MODULE Capability -----------------------------
(***************************************************************************)
(* The capability table of Sonatine (sonatine/src/capability.c): handles   *)
(* that name a slot of the table and the generation the slot was in when   *)
(* the capability was created.                                             *)
(*                                                                         *)
(* A call the code refuses returns 0 or false and changes nothing; it is   *)
(* not a step.                                                             *)
(***************************************************************************)
EXTENDS Integers

CONSTANTS
  Tasks,           \* the task identities callers pass, 0 included or not
  CapTypes,        \* the object types callers create capabilities for
  CapObjects,      \* the object identities callers name
  RightSets,       \* the sets of rights callers ask for
  CapTableSize,    \* CAP_TABLE_SIZE
  GenerationMax    \* UINT16_MAX

AllTypes ==
  {"TASK", "ENDPOINT", "FRAME", "CONSOLE", "CLOCK", "FILESYSTEM", "PROGRAM_AUTHORITY",
   "GRAPH_AUTHORITY", "DATA_AUTHORITY", "EXPERIENCE_AUTHORITY", "DEMO_AUTHORITY"}
AllRights == {"READ", "WRITE", "SEND", "RECEIVE", "CONTROL"}

CapSlots == 1 .. CapTableSize

\* The types whose capabilities carry CONTROL and nothing else.
ControlTypes == {"PROGRAM_AUTHORITY", "GRAPH_AUTHORITY", "DEMO_AUTHORITY"}

ASSUME CapabilityConstants ==
  /\ Tasks \subseteq Nat
  /\ CapTypes \subseteq AllTypes
  /\ CapObjects \subseteq Nat
  /\ RightSets \subseteq SUBSET AllRights

\* Both halves of a handle fit in 16 bits.
ASSUME CapabilitySizes ==
  /\ CapTableSize \in Nat /\ 1 <= CapTableSize /\ CapTableSize <= 65535
  /\ GenerationMax \in Nat /\ 1 <= GenerationMax /\ GenerationMax <= 65535

VARIABLE cap_table

CapView == [owner_task : Nat, object_type : AllTypes, object_id : Nat,
            rights : SUBSET AllRights]
NoView == [owner_task |-> 0, object_type |-> "TASK", object_id |-> 0, rights |-> {}]
CapEntry == [active : BOOLEAN, retired : BOOLEAN, generation : 1 .. GenerationMax,
             view : CapView]

\* The table has the shape of its C declaration, with a generation that fits.
CapTypeOK == cap_table \in [CapSlots -> CapEntry]

----------------------------------------------------------------------------
\* A handle is one uint32_t: the generation above, the slot number below.
make_handle(slot, generation) == generation * 65536 + slot

HandleSlot(handle) == handle % 65536
HandleGeneration(handle) == handle \div 65536

decode_handle(handle) == HandleSlot(handle) \in CapSlots

\* The handle decodes to an active entry that is in the generation it names.
Names(handle, slot) ==
  /\ decode_handle(handle)
  /\ slot = HandleSlot(handle)
  /\ cap_table[slot].active
  /\ cap_table[slot].generation = HandleGeneration(handle)

\* What the type of an object allows a capability to it to carry.
RightsFitType(type, rights) ==
  /\ type = "FILESYSTEM" => rights \subseteq {"READ", "WRITE"}
  /\ type \in ControlTypes => rights = {"CONTROL"}
  /\ type \in {"DATA_AUTHORITY", "EXPERIENCE_AUTHORITY"} => rights \subseteq {"WRITE", "CONTROL"}

\* Mutant: a slot whose generations are used up is handed out again.
Mutant_FreeCapSlots == {s \in CapSlots : ~cap_table[s].active}

FreeCapSlots == {s \in CapSlots : ~cap_table[s].active /\ ~cap_table[s].retired}

CanCreate(owner, type, object, rights) ==
  /\ owner # 0
  /\ object # 0
  /\ rights # {}
  /\ RightsFitType(type, rights)
  /\ FreeCapSlots # {}

\* Mutant: the delegated rights may include CONTROL.
Mutant_CanDelegate(source_owner, source, target_owner, rights) ==
  /\ target_owner # 0
  /\ rights # {}
  /\ \E s \in CapSlots :
       /\ Names(source, s)
       /\ cap_table[s].view.owner_task = source_owner
       /\ "CONTROL" \in cap_table[s].view.rights
       /\ rights \subseteq cap_table[s].view.rights

CanDelegate(source_owner, source, target_owner, rights) ==
  /\ target_owner # 0
  /\ rights # {}
  /\ "CONTROL" \notin rights
  /\ \E s \in CapSlots :
       /\ Names(source, s)
       /\ cap_table[s].view.owner_task = source_owner
       /\ "CONTROL" \in cap_table[s].view.rights
       /\ rights \subseteq cap_table[s].view.rights

cap_resolve(owner, handle, type, rights) ==
  \E s \in CapSlots :
    /\ Names(handle, s)
    /\ cap_table[s].view.owner_task = owner
    /\ cap_table[s].view.object_type = type
    /\ rights \subseteq cap_table[s].view.rights

----------------------------------------------------------------------------
\* Static storage is zero; kernel_main calls cap_init before anything else.
CapInit ==
  cap_table = [s \in CapSlots |-> [active |-> FALSE, retired |-> FALSE,
                                   generation |-> 1, view |-> NoView]]

\* cap_init clears the flags and restarts the generations; the views stay.
cap_init ==
  cap_table' = [s \in CapSlots |-> [cap_table[s] EXCEPT !.active = FALSE,
                                                        !.retired = FALSE,
                                                        !.generation = 1]]

\* The lowest free slot takes the new capability.
cap_create(owner, type, object, rights) ==
  /\ CanCreate(owner, type, object, rights)
  /\ \E slot \in FreeCapSlots :
       /\ \A other \in FreeCapSlots : slot <= other
       /\ cap_table' = [cap_table EXCEPT
            ![slot].active = TRUE,
            ![slot].view = [owner_task |-> owner, object_type |-> type,
                            object_id |-> object, rights |-> rights]]

\* cap_delegate is cap_create for the object of the source.
cap_delegate(source_owner, source, target_owner, rights) ==
  /\ CanDelegate(source_owner, source, target_owner, rights)
  /\ LET view == cap_table[HandleSlot(source)].view IN
       cap_create(target_owner, view.object_type, view.object_id, rights)

\* The slot moves to its next generation, or is retired after the last.
Revoked(entry) ==
  [entry EXCEPT !.active = FALSE,
                !.retired = IF entry.generation = GenerationMax THEN TRUE ELSE @,
                !.generation = IF entry.generation = GenerationMax THEN @ ELSE @ + 1]

cap_revoke(handle) ==
  \E slot \in CapSlots :
    /\ Names(handle, slot)
    /\ cap_table' = [cap_table EXCEPT ![slot] = Revoked(cap_table[slot])]

\* The handles callers present: all that could be issued, and one that decodes
\* to no slot.
Handles ==
  {make_handle(slot, generation) : slot \in CapSlots, generation \in 1 .. GenerationMax}
    \cup {CapTableSize + 1}
============================================================================
