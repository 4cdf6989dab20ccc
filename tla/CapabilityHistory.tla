------------------------- MODULE CapabilityHistory -------------------------
(***************************************************************************)
(* The capability table under every sequence of calls, with a record of    *)
(* how each handle came to be and which handles were revoked since the     *)
(* last cap_init.  The record only observes the calls.                     *)
(***************************************************************************)
EXTENDS Capability

VARIABLES
  revoked,   \* the handles cap_revoke accepted
  grants     \* the live handles, each with the handle it was delegated from (0: created)

cvars == <<cap_table, revoked, grants>>

LiveHandles ==
  {make_handle(s, cap_table[s].generation) : s \in {t \in CapSlots : cap_table[t].active}}

CapHistoryInit == CapInit /\ revoked = {} /\ grants = {}

Restart == cap_init /\ revoked' = {} /\ grants' = {}

\* The handle a successful create returns is the one that has become live.
Granted(source) ==
  /\ grants' = grants \cup {[handle |-> handle, source |-> source] :
                               handle \in LiveHandles' \ LiveHandles}
  /\ UNCHANGED revoked

Create(owner, type, object, rights) ==
  cap_create(owner, type, object, rights) /\ Granted(0)

Delegate(source_owner, source, target_owner, rights) ==
  cap_delegate(source_owner, source, target_owner, rights) /\ Granted(source)

Revoke(handle) ==
  /\ cap_revoke(handle)
  /\ revoked' = revoked \cup {handle}
  /\ grants' = {grant \in grants : grant.handle # handle}

CapHistoryNext ==
  \/ Restart
  \/ \E owner \in Tasks, type \in CapTypes, object \in CapObjects, rights \in RightSets :
       Create(owner, type, object, rights)
  \/ \E source_owner, target_owner \in Tasks, source \in Handles, rights \in RightSets :
       Delegate(source_owner, source, target_owner, rights)
  \/ \E handle \in Handles : Revoke(handle)

CapHistorySpec == CapHistoryInit /\ [][CapHistoryNext]_cvars

----------------------------------------------------------------------------
Resolves(handle) ==
  \E owner \in Tasks, type \in AllTypes : cap_resolve(owner, handle, type, {})

\* A revoked handle never resolves again, however often its slot is reused:
\* the generation moves on, and a slot that has none left is retired
\* (cap_revoke and the test of retired in cap_create).
RevokedStayDead == \A handle \in revoked : ~Resolves(handle)

\* A delegated capability is a leaf: it carries no CONTROL, so what it was
\* delegated from was created directly, and a capability of a type that is
\* nothing but CONTROL is never a delegated one (cap_delegate and the rights
\* tests of cap_create, in two different functions, make this true together).
DelegationIsLeaf ==
  \A grant \in grants : grant.source # 0 =>
    LET view == cap_table[HandleSlot(grant.handle)].view IN
      /\ "CONTROL" \notin view.rights
      /\ view.object_type \notin ControlTypes
      /\ \A parent \in grants : parent.handle = grant.source => parent.source = 0

\* Rights never grow: while the source of a delegated capability lives, it is
\* to the same object and its rights include the delegated ones.
DelegationNarrows ==
  \A grant \in grants : \A parent \in grants :
    grant.source = parent.handle =>
      LET view == cap_table[HandleSlot(grant.handle)].view
          origin == cap_table[HandleSlot(parent.handle)].view IN
        /\ view.object_type = origin.object_type
        /\ view.object_id = origin.object_id
        /\ view.rights \subseteq origin.rights
============================================================================
