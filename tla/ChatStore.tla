----------------------------- MODULE ChatStore -----------------------------
(***************************************************************************)
(* The history of a conversation as web/src/lib/store/chat.ts keeps it, as *)
(* functions on histories: a history maps message ids to messages, and a   *)
(* message is a record that has the fields set so far, as its JSON does.   *)
(* Each of these operations is a read and a write of the record under the  *)
(* write chain of its key, so each is one step.                            *)
(***************************************************************************)
EXTENDS Naturals, FiniteSets

EmptyHistory == <<>>

(* A map with one entry set, and an object spread over another: {...n, ...m}. *)
Put(h, id, m) == [j \in DOMAIN h \cup {id} |-> IF j = id THEN m ELSE h[j]]
Over(m, n) == [f \in DOMAIN m \cup DOMAIN n |-> IF f \in DOMAIN m THEN m[f] ELSE n[f]]

NoBody == 0

Field(m, f, default) == IF f \in DOMAIN m THEN m[f] ELSE default

IsDeleted(m) == Field(m, "deletedAt", FALSE)
Reactions(m) == Field(m, "reactions", {})
Without(m, f) == [g \in DOMAIN m \ {f} |-> m[g]]
HasFile(m) == "attachment" \in DOMAIN m

(* Mutant: a message that is there already is replaced, not merged. *)
AppendMessageReplaces(h, id, m) == Put(h, id, m)

(* appendMessage: a message already there is merged field by field, the    *)
(* new fields first.                                                       *)
AppendMessage(h, id, m) ==
  Put(h, id, IF id \in DOMAIN h THEN Over(m, h[id]) ELSE m)

(* patchMessage: nothing happens to a message that is not there. *)
PatchMessage(h, id, patched) == IF id \in DOMAIN h THEN Put(h, id, patched) ELSE h

(* setMessageStatus *)
SetMessageStatus(h, id, status) == PatchMessage(h, id, Over([status |-> status], h[id]))

(* markDeleted: the row stays, its body and its file go. *)
MarkDeleted(h, id) ==
  PatchMessage(h, id, Over([deletedAt |-> TRUE, body |-> NoBody], Without(h[id], "attachment")))

(* setReaction, for one emoji: the accounts that chose it. *)
SetReaction(h, id, account, active) ==
  LET chosen == Reactions(h[id])
  IN  PatchMessage(h, id,
        Over([reactions |-> IF active THEN chosen \cup {account} ELSE chosen \ {account}], h[id]))
=============================================================================
