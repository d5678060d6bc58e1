------------------------------ MODULE Mailbox ------------------------------
(***************************************************************************)
(* What the queue promises a sender and a recipient, with no sockets,      *)
(* pages, retries or crashes: an accepted envelope is kept until the       *)
(* recipient's application has processed it or its time has run out.       *)
(* docs/protocol.md section 9 states it as "A push never deletes. The row  *)
(* survives until acknowledged" and "Fetching deliberately does not        *)
(* delete".                                                                *)
(***************************************************************************)
CONSTANT Envelope

VARIABLES
  accepted,    \* the server has stored it
  stored,      \* it is still in the queue
  delivered,   \* the application has processed it, at least once
  expired      \* its time has run out

mailboxVars == <<accepted, stored, delivered, expired>>

Init ==
  /\ accepted = {}
  /\ stored = {}
  /\ delivered = {}
  /\ expired = {}

Accept(e) ==
  /\ e \notin accepted
  /\ accepted' = accepted \cup {e}
  /\ stored' = stored \cup {e}
  /\ UNCHANGED <<delivered, expired>>

(* Again, possibly: delivery is at least once. *)
Deliver(e) ==
  /\ e \in accepted
  /\ delivered' = delivered \cup {e}
  /\ UNCHANGED <<accepted, stored, expired>>

Lapse(e) ==
  /\ e \in stored
  /\ expired' = expired \cup {e}
  /\ UNCHANGED <<accepted, stored, delivered>>

(* Only what was delivered or has expired may go. *)
Remove(S) ==
  /\ S \subseteq stored \cap (delivered \cup expired)
  /\ stored' = stored \ S
  /\ UNCHANGED <<accepted, delivered, expired>>

Next ==
  \/ \E e \in Envelope : Accept(e) \/ Deliver(e) \/ Lapse(e)
  \/ \E S \in SUBSET Envelope : Remove(S)

Spec == Init /\ [][Next]_mailboxVars
=============================================================================
