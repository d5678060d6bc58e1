------------------------------- MODULE Names -------------------------------
(***************************************************************************)
(* What the modules of the delivery path share: the envelopes sent to one  *)
(* recipient and the connections the recipient opens.                      *)
(***************************************************************************)
EXTENDS Naturals, Sequences, FiniteSets

CONSTANTS
  MaxEnvelopes,   \* bound: how many submissions a behaviour has
  Conn            \* names of connections

ASSUME NamesAssumption == MaxEnvelopes \in Nat \ {0}

(* An envelope is named by the position of its transaction in the order of *)
(* created_at: that column defaults to now(), which PostgreSQL fixes when  *)
(* the transaction starts, so the order is the order in which the          *)
(* StoreEnvelope transactions BEGAN and not the one in which they commit.  *)
Envelope == 1 .. MaxEnvelopes
=============================================================================
