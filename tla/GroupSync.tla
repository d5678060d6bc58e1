----------------------------- MODULE GroupSync -----------------------------
(***************************************************************************)
(* One group kept by its members' clients without a server to order the    *)
(* changes: the group operations of web/src/lib/client/chat-client.ts over *)
(* the functions of Group.                                                 *)
(*                                                                         *)
(* Each client has one stored copy.  An operation loads it, computes the   *)
(* new state and queues the write behind the earlier writes of the record  *)
(* (ChatStore.serialize), so another operation may load before the write   *)
(* lands.  Envelopes are delivered in any order.  A send that fails, which *)
(* fanOut reports and passes over, is an envelope that is never delivered. *)
(***************************************************************************)
EXTENDS Group, Sequences

CONSTANTS
  Creator, InitialMembers, \* who creates the group, and with whom
  InitialName,
  Changes,                 \* arguments of updateGroup
  Clock,                   \* readings of the wall clock of each account's device
  MaxUpdates,              \* bound: changes authored
  MaxWrites,               \* bound: queued writes of a client
  NoGroup

ASSUME SyncAssumption ==
  /\ Creator \in Account
  /\ InitialMembers \subseteq Account
  /\ InitialName \in Name
  /\ Changes \subseteq [add : SUBSET Account, remove : SUBSET Account, names : SUBSET Name]
  /\ \A ch \in Changes : ch.add # {} \/ ch.remove # {} \/ ch.names # {}
  /\ Clock \in [Account -> SUBSET (Nat \ {0})]
  /\ MaxUpdates \in Nat /\ MaxWrites \in Nat

(* A group-update as its recipients see it. *)
Update ==
  [at : Nat, by : Account, add : SUBSET Account, remove : SUBSET Account, names : SUBSET Name]

(* A copy of the group, with the updates that went into it. *)
Copy == [state : GroupState, log : SUBSET Update]

ASSUME AbsentAssumption == NoGroup \notin Copy

VARIABLES
  copy,      \* the stored copy of each client, or NoGroup
  writes,    \* queued writes of each client: a copy and what to announce to whom
  leaving,   \* copies to be queued once the announcement of leaveGroup is out
  invited,   \* clients with an undelivered group-create
  inbox,     \* undelivered updates of each client
  authored,  \* number of updates authored
  received,  \* updates each client has authored, or received for its copy
  saw        \* pairs of updates, the second made against a copy with the first

vars == <<copy, writes, leaving, invited, inbox, authored, received, saw>>

Write == [copy : Copy, announce : SUBSET Update, to : SUBSET Account]

Creation(now) == CreateGroup(InitialName, Creator, InitialMembers, now)

Init ==
  /\ copy = [c \in Account |-> NoGroup]
  /\ writes = [c \in Account |-> <<>>]
  /\ leaving = [c \in Account |-> {}]
  /\ invited = {}
  /\ inbox = [c \in Account |-> {}]
  /\ authored = 0
  /\ received = [c \in Account |-> {}]
  /\ saw = {}

-----------------------------------------------------------------------------
(* createGroupConversation: the copy is saved, then the members are told.  *)
Create ==
  /\ copy[Creator] = NoGroup
  /\ \E now \in Clock[Creator] :
       /\ copy' = [copy EXCEPT ![Creator] = [state |-> Creation(now), log |-> {}]]
       /\ invited' = (InitialMembers \ {Creator}) \X {now}
  /\ UNCHANGED <<writes, leaving, inbox, authored, received, saw>>

(* The group-create of applyContent: saved whatever is there. *)
ReceiveCreate(c) ==
  \E now \in Clock[Creator] :
    /\ <<c, now>> \in invited
    /\ invited' = invited \ {<<c, now>>}
    /\ writes' = [writes EXCEPT ![c] =
                    Append(@, [copy |-> [state |-> Creation(now), log |-> {}],
                               announce |-> {}, to |-> {}])]
    /\ UNCHANGED <<copy, leaving, inbox, authored, received, saw>>

(* requireGroup *)
MayAct(c) == copy[c] # NoGroup /\ IsMember(copy[c].state, c)

WithUpdate(g, u) == [state |-> ApplyUpdate(g.state, u), log |-> g.log \cup {u}]

Authors(c, u) ==
  /\ authored < MaxUpdates
  /\ authored' = authored + 1
  /\ received' = [received EXCEPT ![c] = @ \cup {u}]
  /\ saw' = saw \cup (copy[c].log \X {u})

(* updateGroup up to the queued write. *)
BeginUpdate(c) ==
  /\ MayAct(c)
  /\ Len(writes[c]) < MaxWrites
  /\ \E ch \in Changes, now \in Clock[c] :
       LET u == [at |-> NextTimestamp(copy[c].state, now), by |-> c,
                 add |-> ch.add, remove |-> ch.remove, names |-> ch.names]
           g == WithUpdate(copy[c], u)
           audience == CurrentMembers(g.state) \cup ch.remove
       IN  /\ Authors(c, u)
           /\ writes' = [writes EXCEPT ![c] =
                           Append(@, [copy |-> g, announce |-> {u}, to |-> audience \ {c}])]
  /\ UNCHANGED <<copy, leaving, invited, inbox>>

FanOut(announce, to) ==
  inbox' = [d \in Account |-> IF d \in to THEN inbox[d] \cup announce ELSE inbox[d]]

(* A queued write lands, and updateGroup goes on to its fan-out. *)
Commit(c) ==
  /\ writes[c] # <<>>
  /\ LET w == Head(writes[c])
     IN  /\ copy' = [copy EXCEPT ![c] = w.copy]
         /\ FanOut(w.announce, w.to)
  /\ writes' = [writes EXCEPT ![c] = Tail(@)]
  /\ UNCHANGED <<leaving, invited, authored, received, saw>>

(* leaveGroup announces the change before it saves it. *)
BeginLeave(c) ==
  /\ MayAct(c)
  /\ \E now \in Clock[c] :
       LET u == [at |-> NextTimestamp(copy[c].state, now), by |-> c,
                 add |-> {}, remove |-> {c}, names |-> {}]
       IN  /\ Authors(c, u)
           /\ FanOut({u}, CurrentMembers(copy[c].state) \ {c})
           /\ leaving' = [leaving EXCEPT ![c] = @ \cup {WithUpdate(copy[c], u)}]
  /\ UNCHANGED <<copy, writes, invited>>

EndLeave(c) ==
  /\ Len(writes[c]) < MaxWrites
  /\ \E g \in leaving[c] :
       /\ leaving' = [leaving EXCEPT ![c] = @ \ {g}]
       /\ writes' = [writes EXCEPT ![c] = Append(@, [copy |-> g, announce |-> {}, to |-> {}])]
  /\ UNCHANGED <<copy, invited, inbox, authored, received, saw>>

(* The group-update of applyContent: ignored without a copy, and from an   *)
(* account that is not a member of it.                                     *)
ReceiveUpdate(c, u) ==
  /\ u \in inbox[c]
  /\ Len(writes[c]) < MaxWrites
  /\ inbox' = [inbox EXCEPT ![c] = @ \ {u}]
  /\ received' = [received EXCEPT ![c] = @ \cup {v \in {u} : copy[c] # NoGroup}]
  /\ writes' = IF copy[c] # NoGroup /\ IsMember(copy[c].state, u.by)
                 THEN [writes EXCEPT ![c] =
                         Append(@, [copy |-> WithUpdate(copy[c], u), announce |-> {}, to |-> {}])]
                 ELSE writes
  /\ UNCHANGED <<copy, leaving, invited, authored, saw>>

Next ==
  \/ Create
  \/ \E c \in Account :
       \/ ReceiveCreate(c)
       \/ BeginUpdate(c)
       \/ Commit(c)
       \/ BeginLeave(c)
       \/ EndLeave(c)
       \/ \E u \in inbox[c] : ReceiveUpdate(c, u)

Spec == Init /\ [][Next]_vars

-----------------------------------------------------------------------------
Keepers == {c \in Account : copy[c] # NoGroup}

(* Who belongs to the group after a set of updates, in no order: the       *)
(* accounts with an addition that is later than all their removals.        *)
AddTimes(log, createdAt, a) ==
  {u.at : u \in {v \in log : a \in v.add}} \cup
  (IF a \in InitialMembers \cup {Creator} THEN {createdAt} ELSE {})

RemoveTimes(log, a) == {u.at : u \in {v \in log : a \in v.remove}}

MembersFrom(log, createdAt) ==
  {a \in Account : \E at \in AddTimes(log, createdAt, a) : \A r \in RemoveTimes(log, a) : at > r}

(* "any order of any subset converges to the same answer" (state.ts:12):   *)
(* the members of a copy depend on the set of the updates that went into   *)
(* it, not on their order, however the clocks tie.                         *)
MembersFollowChanges ==
  \A c \in Keepers :
    CurrentMembers(copy[c].state) = MembersFrom(copy[c].log, copy[c].state.createdAt)

(* "A change therefore always supersedes the state it was made against"    *)
(* (state.ts:87), on every device that applies it: an account whose        *)
(* addition was made with every removal of it in sight is a member, and    *)
(* one whose removal was made with every addition in sight is not.         *)
ChangeSupersedes ==
  \A c \in Keepers : \A u \in copy[c].log :
    LET Decides(v) == <<v, u>> \in saw
        others == copy[c].log \ {u}
    IN  /\ \A a \in u.add \ u.remove :
             (\A v \in others : a \in v.remove => Decides(v)) => IsMember(copy[c].state, a)
        /\ \A a \in u.remove :
             (\A v \in others : a \in v.add => Decides(v)) => ~IsMember(copy[c].state, a)

(* mergeGroups "converges two divergent views" (state.test.ts:208): either *)
(* side that merges the other's copy gets the members of all the updates   *)
(* that went into the two, and both name the same author of the name.      *)
MergeConverges ==
  \A c, d \in Keepers :
    LET merged == MergeGroups(copy[c].state, copy[d].state)
    IN  /\ CurrentMembers(merged) = MembersFrom(copy[c].log \cup copy[d].log, merged.createdAt)
        /\ merged.named = MergeGroups(copy[d].state, copy[c].state).named

(* "every member must reach the same membership list from the same set of  *)
(* changes, whatever order they arrive in" (state.ts:4-5): clients that    *)
(* have authored or received the same updates for their copies and have    *)
(* nothing left to write agree on the members.                             *)
MembersConverge ==
  \A c, d \in Keepers :
    /\ received[c] = received[d]
    /\ writes[c] = <<>> /\ writes[d] = <<>>
    /\ leaving[c] = {} /\ leaving[d] = {}
    => CurrentMembers(copy[c].state) = CurrentMembers(copy[d].state)
=============================================================================
