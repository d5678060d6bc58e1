------------------------------- MODULE Group -------------------------------
(***************************************************************************)
(* Group membership as a last-writer-wins set: the functions of            *)
(* web/src/lib/group/state.ts.                                             *)
(*                                                                         *)
(* Account ids are numbers, so that ties are broken by comparing them.  A  *)
(* time and its author make a stamp; an account without a record has the   *)
(* record of two stamps that never happened.                               *)
(***************************************************************************)
EXTENDS Naturals, FiniteSets, FiniteSetsExt

CONSTANTS
  Account,   \* account ids
  Name       \* group names

ASSUME GroupAssumption == Account \subseteq Nat \ {0}

Stamp == [at : Nat, by : Nat]

Never == [at |-> 0, by |-> 0]

Wins(candidate, current) ==
  IF candidate.at # current.at THEN candidate.at > current.at
                               ELSE candidate.by > current.by

Newer(candidate, current) == IF Wins(candidate, current) THEN candidate ELSE current

NoRecord == [added |-> Never, removed |-> Never]

GroupState ==
  [name : Name, named : Stamp, createdAt : Nat,
   members : [Account -> [added : Stamp, removed : Stamp]]]

-----------------------------------------------------------------------------
Stamps(s) ==
  {s.named.at, s.createdAt} \cup
  UNION {{s.members[a].added.at, s.members[a].removed.at} : a \in Account}

LatestTimestamp(s) == Max(Stamps(s))

(* Mutant: the local clock alone. *)
NextTimestampOfClock(s, now) == now

NextTimestamp(s, now) == Max({now, LatestTimestamp(s) + 1})

IsMember(s, account) ==
  s.members[account].added.at > s.members[account].removed.at

CurrentMembers(s) == {a \in Account : IsMember(s, a)}

CreateGroup(name, createdBy, members, timestamp) ==
  LET stamp == [at |-> timestamp, by |-> createdBy]
  IN  [name |-> name, named |-> stamp, createdAt |-> timestamp,
       members |-> [a \in Account |->
                      IF a \in members \cup {createdBy}
                        THEN [added |-> stamp, removed |-> Never] ELSE NoRecord]]

(* Mutant: the latest arrival wins. *)
AddMembersByArrival(members, accounts, stamp) ==
  [a \in Account |->
     IF a \in accounts THEN [added |-> stamp, removed |-> members[a].removed] ELSE members[a]]

(* applyMembershipChange for each of the accounts, adding. *)
AddMembers(members, accounts, stamp) ==
  [a \in Account |->
     IF a \in accounts
       THEN [added |-> Newer(stamp, members[a].added), removed |-> members[a].removed]
       ELSE members[a]]

(* applyMembershipChange for each of the accounts, removing. *)
RemoveMembers(members, accounts, stamp) ==
  [a \in Account |->
     IF a \in accounts
       THEN [added |-> members[a].added, removed |-> Newer(stamp, members[a].removed)]
       ELSE members[a]]

(* applyRename, for each of at most one name. *)
ApplyRename(s, names, stamp) ==
  LET renamed == names # {} /\ Wins(stamp, s.named)
  IN  [name |-> IF renamed THEN CHOOSE name \in names : TRUE ELSE s.name,
       named |-> IF renamed THEN stamp ELSE s.named,
       createdAt |-> s.createdAt,
       members |-> s.members]

(* The members' part of a group-update, additions first. *)
UpdateMembers(members, u) ==
  LET stamp == [at |-> u.at, by |-> u.by]
  IN  RemoveMembers(AddMembers(members, u.add, stamp), u.remove, stamp)

ApplyUpdate(s, u) ==
  ApplyRename([name |-> s.name, named |-> s.named, createdAt |-> s.createdAt,
               members |-> UpdateMembers(s.members, u)],
              u.names, [at |-> u.at, by |-> u.by])

-----------------------------------------------------------------------------
(* mergeGroups takes the later time, and the remote author only when the   *)
(* remote time is later.                                                   *)
Later(local, remote) == IF remote.at > local.at THEN remote ELSE local

(* Mutant: the local record wins. *)
MergeGroupsKeepsLocal(local, remote) == local

MergeGroups(local, remote) ==
  LET renamed == Wins(remote.named, local.named)
  IN  [name |-> IF renamed THEN remote.name ELSE local.name,
       named |-> IF renamed THEN remote.named ELSE local.named,
       createdAt |-> Min({local.createdAt, remote.createdAt}),
       members |-> [a \in Account |->
                      [added |-> Later(local.members[a].added, remote.members[a].added),
                       removed |-> Later(local.members[a].removed, remote.members[a].removed)]]]
=============================================================================
