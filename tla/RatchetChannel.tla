--------------------------- MODULE RatchetChannel ---------------------------
(***************************************************************************)
(* Two parties with one ratchet session over a channel that may lose,      *)
(* repeat and reorder messages.  The initiator's state starts from the     *)
(* responder's signed prekey, as X3DH leaves it; the responder speaks once *)
(* a message of the initiator has opened.                                  *)
(***************************************************************************)
EXTENDS Ratchet

CONSTANTS
  Initiator, Responder,
  MaxInitiated, MaxAnswered   \* bounds: messages of either

ASSUME ChannelAssumption ==
  /\ Initiator # Responder
  /\ MaxInitiated \in Nat
  /\ MaxAnswered \in Nat

Party == {Initiator, Responder}
MaxSent(p) == IF p = Initiator THEN MaxInitiated ELSE MaxAnswered
Peer(p) == IF p = Initiator THEN Responder ELSE Initiator

VARIABLES
  st,        \* the session state of each party
  sent,      \* messages each party has sent
  opened,    \* messages each party has decrypted
  replayed,  \* messages decrypted more than once
  within     \* parties for which the outstanding messages never exceeded the bounds

vars == <<st, sent, opened, replayed, within>>

State ==
  [root : Seq(SUBSET (Party \X Nat)), ours : Party \X Nat, theirs : (Party \X Nat) \cup {NoKey},
   sending : Seq(SUBSET (Party \X Nat)), receiving : Seq(SUBSET (Party \X Nat)),
   sendCount : Nat, receiveCount : Nat, previous : Nat,
   skipped : Seq([dh : Party \X Nat, n : Nat, chain : Seq(SUBSET (Party \X Nat))])]

Message == [id : Nat, dh : Party \X Nat, pn : Nat, n : Nat, chain : Seq(SUBSET (Party \X Nat))]

(* The states and the messages are of their types, and the cache is within *)
(* MAX_SKIPPED_KEYS keys of MAX_SKIP_CHAINS chains.                        *)
ChannelTypeOK ==
  /\ st \in [Party -> State]
  /\ sent \in [Party -> SUBSET Message]
  /\ opened \in [Party -> SUBSET Message]
  /\ replayed \in SUBSET Message
  /\ within \in SUBSET Party
  /\ \A p \in Party :
       /\ Len(st[p].skipped) <= MaxSkippedKeys
       /\ Cardinality({st[p].skipped[i].dh : i \in DOMAIN st[p].skipped}) <= MaxSkipChains

Init ==
  /\ st = [p \in Party |->
             IF p = Initiator
               THEN InitializeInitiator(<<>>, <<Initiator, 1>>, <<Responder, 1>>)
               ELSE InitializeResponder(<<>>, <<Responder, 1>>)]
  /\ sent = [p \in Party |-> {}]
  /\ opened = [p \in Party |-> {}]
  /\ replayed = {}
  /\ within = Party

Outstanding(p) == sent[Peer(p)] \ opened[p]

FitsBounds(S) ==
  /\ Cardinality(S) <= MaxSkippedKeys
  /\ Cardinality({m.dh : m \in S}) <= MaxSkipChains

(* encryptMessage *)
Send(p) ==
  LET m == Sealed(st[p], Cardinality(sent[p]) + 1)
  IN  /\ Cardinality(sent[p]) < MaxSent(p)
      /\ CanEncrypt(st[p])
      /\ sent' = [sent EXCEPT ![p] = @ \cup {m}]
      /\ st' = [st EXCEPT ![p] = Encrypted(@)]
      /\ within' = IF FitsBounds(Outstanding(Peer(p)) \cup {m})
                     THEN within ELSE within \ {Peer(p)}
      /\ UNCHANGED <<opened, replayed>>

(* decryptMessage on any message of the peer, for the first time or again. *)
Receive(p, m) ==
  /\ Opens(st[p], m)
  /\ st' = [st EXCEPT ![p] = Decrypted(@, m)]
  /\ opened' = [opened EXCEPT ![p] = @ \cup {m}]
  /\ replayed' = replayed \cup (opened[p] \cap {m})
  /\ UNCHANGED <<sent, within>>

(* It throws: nothing changes. *)
Reject(p, m) ==
  /\ ~Opens(st[p], m)
  /\ UNCHANGED vars

NextStep ==
  \E p \in Party :
    \/ Send(p)
    \/ \E m \in sent[Peer(p)] : Receive(p, m) \/ Reject(p, m)

Spec == Init /\ [][NextStep]_vars

-----------------------------------------------------------------------------
(* A message is decrypted at most once, however often it is delivered: its *)
(* key is deleted from the cache, or the chain has moved past it, and an   *)
(* old ratchet key leads to a chain under which nothing authenticates.     *)
OpenedOnce == replayed = {}

(* While no more than MAX_SKIPPED_KEYS messages of MAX_SKIP_CHAINS chains  *)
(* are outstanding, whichever of them arrives next is decrypted: keys of   *)
(* skipped messages are cached, also across ratchet steps.                 *)
InAnyOrder ==
  \A p \in within : \A m \in Outstanding(p) : Opens(st[p], m)

(* "each message key is produced once by the chain" (ratchet.ts:124): no   *)
(* two messages of the session are sealed with the same key.               *)
KeyUsedOnce ==
  \A p, q \in Party : \A m \in sent[p], k \in sent[q] :
    m.chain = k.chain /\ m.n = k.n => p = q /\ m = k
=============================================================================
