------------------------------ MODULE Prekeys ------------------------------
(***************************************************************************)
(* The life of an account's one-time prekeys: the client that generates    *)
(* them and holds the private halves (web/src/lib/client/chat-client.ts),  *)
(* the server's pool (PrekeyPool), and the peers that fetch a bundle and   *)
(* send a first message which the client opens with acceptSession.         *)
(*                                                                         *)
(* A handshake is opened with the pair the peer used or not at all: with   *)
(* any other pair the two ends derive different secrets and the first      *)
(* message does not authenticate.                                          *)
(***************************************************************************)
EXTENDS PrekeyPool, Sequences, FiniteSetsExt

CONSTANTS
  PREKEY_TARGET,     \* chat-client.ts: 50
  PREKEY_LOW_WATER,  \* chat-client.ts: 10
  Faults,            \* the kinds of fault this instance injects
  MaxFaults          \* bound: how many of them in a behaviour, one of a kind

FaultKind == {"upload", "crash", "abandon", "abort"}

ASSUME PrekeysAssumption ==
  /\ Peer \subseteq Nat
  /\ PREKEY_TARGET \in Nat \ {0}
  /\ PREKEY_LOW_WATER \in 0 .. PREKEY_TARGET - 1
  /\ Faults \subseteq FaultKind
  /\ MaxFaults \in Nat

VARIABLES
  stored,    \* StoredIdentity.oneTimePrekeys, in memory
  disk,      \* the same in the vault
  saves,     \* queued saveIdentity calls, by who waits for each
  writing,   \* what the first of them is writing, as a set of sets
  topUps,    \* replenishPrekeys calls waiting for their upload or their save
  stage,     \* how far each peer's handshake is
  bundle,    \* the one-time prekey of the bundle a peer was given
  held,      \* the pair takeOneTimePrekey took for a peer's message
  faults,    \* faults so far
  made,      \* how many pairs were ever generated
  torn,      \* ids of pairs that were not in the vault when the client died
  used,      \* pairs a handshake was derived with
  reused     \* pairs a second one was derived with

clientVars == <<stored, disk, saves, writing, topUps>>
peerVars == <<stage, bundle, held>>
history == <<made, torn, used, reused>>
vars == <<poolVars, clientVars, peerVars, faults, history>>

(* new: no bundle yet; fetching; sent: its first message is queued;        *)
(* taking: the client consumes the prekey; deriving: the client has it and *)
(* opens the message; accepted, refused, abandoned: the end.               *)
Stage == {"new", "fetching", "sent", "taking", "deriving",
          "accepted", "refused", "abandoned"}

(* Who waits for a save: a peer's handshake or a top-up. *)
ForPeer(p) == [peer |-> p]
ForTopUp(keys) == [keys |-> keys]

Registered == {[id |-> i, key |-> i] : i \in 1 .. PREKEY_TARGET}

(* After register: the keys are at the server, in memory and in the vault. *)
Init ==
  /\ PoolInit(Registered)
  /\ stored = Registered
  /\ disk = Registered
  /\ saves = <<>>
  /\ writing = {}
  /\ topUps = {}
  /\ stage = [p \in Peer |-> "new"]
  /\ bundle = [p \in Peer |-> NoKey]
  /\ held = [p \in Peer |-> NoKey]
  /\ faults = {}
  /\ made = PREKEY_TARGET
  /\ torn = {}
  /\ used = {}
  /\ reused = {}

Fault(kind) ==
  /\ kind \in Faults \ faults
  /\ Cardinality(faults) < MaxFaults
  /\ faults' = faults \cup {kind}

-----------------------------------------------------------------------------
(* A peer: sessionFor fetches the bundle, and its first message goes out.  *)
(* Peers without a bundle are interchangeable, so the lowest goes first.   *)
StartFetch(p) ==
  /\ stage[p] = "new"
  /\ \A q \in Peer : q < p => stage[q] # "new"
  /\ BeginFetchBundle(p)
  /\ stage' = [stage EXCEPT ![p] = "fetching"]
  /\ UNCHANGED <<clientVars, bundle, held, faults, history>>

EndFetch(p) ==
  \E f \in {g \in fetches : g.peer = p} :
    /\ CommitFetchBundle(f)
    /\ bundle' = [bundle EXCEPT ![p] = f.row]
    /\ stage' = [stage EXCEPT ![p] = "sent"]
    /\ UNCHANGED <<clientVars, held, faults, history>>

FailFetch(p) ==
  \E f \in {g \in fetches : g.peer = p} :
    /\ Fault("abort")
    /\ AbortFetchBundle(f)
    /\ stage' = [stage EXCEPT ![p] = "new"]
    /\ UNCHANGED <<clientVars, bundle, held, history>>

(* The peer has the key and its first message never arrives: it was not    *)
(* sent, or it expired in the queue.                                       *)
Abandon(p) ==
  /\ stage[p] = "sent"
  /\ Fault("abandon")
  /\ stage' = [stage EXCEPT ![p] = "abandoned"]
  /\ UNCHANGED <<poolVars, clientVars, bundle, held, history>>

-----------------------------------------------------------------------------
(* saveIdentity: the writes to the identity record are serialised, and     *)
(* each writes the record as it is when its turn comes.                    *)
StartSave ==
  /\ saves # <<>>
  /\ writing = {}
  /\ writing' = {stored}
  /\ UNCHANGED <<poolVars, stored, disk, saves, topUps, peerVars, faults, history>>

(* What waits for the first save continues: a handshake has its prekey, or *)
(* replenishPrekeys returns.                                               *)
EndSave ==
  LET first == Head(saves)
  IN /\ writing # {}
     /\ \E record \in writing : disk' = record
     /\ writing' = {}
     /\ saves' = Tail(saves)
     /\ \/ \E p \in Peer :
             /\ first = ForPeer(p)
             /\ stage' = [stage EXCEPT ![p] = "deriving"]
             /\ used' = used \cup {held[p]}
             /\ reused' = reused \cup (used \cap {held[p]})
             /\ UNCHANGED topUps
        \/ \E t \in topUps :
             /\ first = ForTopUp(t.keys)
             /\ topUps' = topUps \ {t}
             /\ UNCHANGED <<stage, used, reused>>
     /\ UNCHANGED <<poolVars, stored, bundle, held, faults, made, torn>>

-----------------------------------------------------------------------------
(* Mutant: the id of the next pair is the number of pairs left plus one. *)
HighestIsCount(keys) == Cardinality(keys)

(* The highest id among the pairs left, 0 if there is none. *)
Highest(keys) == Max({k.id : k \in keys} \cup {0})

(* The pairs one call of replenishPrekeys generates: new ones, under the   *)
(* ids that follow the highest one left.                                   *)
Generated(keys) ==
  {[id |-> Highest(keys) + i, key |-> made + i] :
     i \in 1 .. PREKEY_TARGET - Cardinality(keys)}

(* Mutant: a full batch, whatever is left. *)
ReplenishPrekeysFullBatch ==
  LET new == {[id |-> Highest(stored) + i, key |-> made + i] :
                i \in 1 .. PREKEY_TARGET}
  IN IF Cardinality(stored) > PREKEY_LOW_WATER
     THEN UNCHANGED <<poolVars, stored, topUps, made>>
     ELSE /\ stored' = stored \cup new
          /\ made' = made + Cardinality(new)
          /\ topUps' = topUps \cup {[keys |-> new, step |-> "uploading"]}
          /\ BeginAddOneTimePrekeys(new)

(* Mutant: the low-water comparison the wrong way round. *)
ReplenishPrekeysWhenHigh ==
  LET new == Generated(stored)
  IN IF Cardinality(stored) <= PREKEY_LOW_WATER
     THEN UNCHANGED <<poolVars, stored, topUps, made>>
     ELSE /\ stored' = stored \cup new
          /\ made' = made + Cardinality(new)
          /\ topUps' = topUps \cup {[keys |-> new, step |-> "uploading"]}
          /\ BeginAddOneTimePrekeys(new)

(* replenishPrekeys up to its upload.  The pairs are in memory before the  *)
(* request goes out; an entry under the same id would be overwritten.      *)
(* sodium() has long resolved, so nothing comes between the count and the  *)
(* generation.                                                             *)
ReplenishPrekeys ==
  LET new == Generated(stored)
  IN IF Cardinality(stored) > PREKEY_LOW_WATER
     THEN UNCHANGED <<poolVars, stored, topUps, made>>
     ELSE /\ stored' = {k \in stored : \A n \in new : n.id # k.id} \cup new
          /\ made' = made + Cardinality(new)
          /\ topUps' = topUps \cup {[keys |-> new, step |-> "uploading"]}
          /\ BeginAddOneTimePrekeys(new)

(* The answer to the upload: after it the identity is saved. *)
Uploaded(t) ==
  \E u \in uploads :
    /\ t.step = "uploading"
    /\ u.keys = t.keys
    /\ u.step = "added"
    /\ uploads' = uploads \ {u}
    /\ topUps' = (topUps \ {t}) \cup {[t EXCEPT !.step = "saving"]}
    /\ saves' = Append(saves, ForTopUp(t.keys))
    /\ UNCHANGED <<rows, fetches, stored, disk, writing, peerVars, faults, history>>

(* An error, or an answer that was lost after the commit: the call throws  *)
(* and is reported.  The pairs stay in memory.                             *)
UploadFailed(t) ==
  \E u \in uploads :
    /\ t.step = "uploading"
    /\ u.keys = t.keys
    /\ \/ u.step = "failed" /\ UNCHANGED faults
       \/ u.step = "added" /\ Fault("upload")
    /\ uploads' = uploads \ {u}
    /\ topUps' = topUps \ {t}
    /\ UNCHANGED <<rows, fetches, stored, disk, saves, writing, peerVars, history>>

-----------------------------------------------------------------------------
(* Mutant: the prekey is used and the vault is not told. *)
OpenInitialUnsaved(p) ==
  /\ stage[p] = "sent"
  /\ \E k \in stored :
       /\ k.id = bundle[p].id
       /\ stored' = stored \ {k}
       /\ held' = [held EXCEPT ![p] = k]
       /\ used' = used \cup {k}
       /\ reused' = reused \cup (used \cap {k})
       /\ stage' = [stage EXCEPT ![p] = "deriving"]
  /\ UNCHANGED <<poolVars, disk, saves, writing, topUps, bundle, faults, made, torn>>

(* openEnvelope for a peer without a session: acceptSession takes the      *)
(* one-time prekey the header names out of memory and saves the identity,  *)
(* or refuses the message.  handleEnvelope reports a refusal and the       *)
(* envelope is acknowledged like any other.                                *)
OpenInitial(p) ==
  /\ stage[p] = "sent"
  /\ \/ /\ bundle[p] = NoKey
        /\ stage' = [stage EXCEPT ![p] = "deriving"]
        /\ UNCHANGED <<stored, saves, held>>
     \/ /\ bundle[p] # NoKey
        /\ \E k \in stored :
             /\ k.id = bundle[p].id
             /\ stored' = stored \ {k}
             /\ held' = [held EXCEPT ![p] = k]
        /\ saves' = Append(saves, ForPeer(p))
        /\ stage' = [stage EXCEPT ![p] = "taking"]
     \/ /\ bundle[p] # NoKey
        /\ \A k \in stored : k.id # bundle[p].id
        /\ stage' = [stage EXCEPT ![p] = "refused"]
        /\ UNCHANGED <<stored, saves, held>>
  /\ UNCHANGED <<poolVars, disk, writing, topUps, bundle, faults, history>>

(* The message authenticates: the session is saved and, without waiting,   *)
(* replenishPrekeys is called.                                             *)
Accept(p) ==
  /\ stage[p] = "deriving"
  /\ held[p] = bundle[p]
  /\ stage' = [stage EXCEPT ![p] = "accepted"]
  /\ held' = [held EXCEPT ![p] = NoKey]
  /\ ReplenishPrekeys
  /\ UNCHANGED <<disk, saves, writing, bundle, faults, torn, used, reused>>

(* It does not: the pair was not the one the peer used.  The pair is spent. *)
Refuse(p) ==
  /\ stage[p] = "deriving"
  /\ held[p] # bundle[p]
  /\ stage' = [stage EXCEPT ![p] = "refused"]
  /\ held' = [held EXCEPT ![p] = NoKey]
  /\ UNCHANGED <<poolVars, clientVars, bundle, faults, history>>

(* Pairs that handshakes have taken out of memory and are not done with. *)
InHand == {held[p] : p \in {q \in Peer : stage[q] \in {"taking", "deriving"}}}

(* The client dies and resumes from the vault.  What it was handling was   *)
(* not acknowledged and comes again; a request it sent still runs at the   *)
(* server, and nobody hears its answer.                                    *)
Crash ==
  /\ Fault("crash")
  /\ stored' = disk
  /\ saves' = <<>>
  /\ writing' = {}
  /\ topUps' = {}
  /\ stage' = [p \in Peer |-> IF stage[p] \in {"taking", "deriving"}
                              THEN "sent" ELSE stage[p]]
  /\ held' = [p \in Peer |-> NoKey]
  /\ torn' = torn \cup {k.id : k \in (stored \cup InHand) \ disk}
  /\ UNCHANGED <<poolVars, disk, bundle, made, used, reused>>

-----------------------------------------------------------------------------
CountUpload(u) ==
  CountPrekeys(u) /\ UNCHANGED <<clientVars, peerVars, faults, history>>

CommitUpload(u) ==
  CommitAddOneTimePrekeys(u) /\ UNCHANGED <<clientVars, peerVars, faults, history>>

FailUpload(u) ==
  /\ Fault("upload")
  /\ AbortAddOneTimePrekeys(u)
  /\ UNCHANGED <<clientVars, peerVars, history>>

PeerStep(p) == StartFetch(p) \/ EndFetch(p)

ClientStep(p) == OpenInitial(p) \/ Accept(p) \/ Refuse(p)

TopUpStep == \E t \in topUps : Uploaded(t) \/ UploadFailed(t)

UploadStepOf == \E u \in uploads : CountUpload(u) \/ CommitUpload(u)

Next ==
  \/ \E p \in Peer : PeerStep(p) \/ ClientStep(p) \/ FailFetch(p) \/ Abandon(p)
  \/ StartSave
  \/ EndSave
  \/ TopUpStep
  \/ UploadStepOf
  \/ \E u \in uploads : FailUpload(u)
  \/ Crash

(* Transactions end, saves land, answers arrive and queued envelopes are   *)
(* handled; no peer has to ask for a bundle.                               *)
Fairness ==
  /\ \A p \in Peer : WF_vars(EndFetch(p)) /\ WF_vars(ClientStep(p))
  /\ WF_vars(StartSave) /\ WF_vars(EndSave)
  /\ WF_vars(TopUpStep)
  /\ WF_vars(UploadStepOf)

Spec == Init /\ [][Next]_vars /\ Fairness

-----------------------------------------------------------------------------
(* Every variable has its type, the client never holds more than           *)
(* PREKEY_TARGET pairs, and no two of them or of the server's rows share   *)
(* an id, whatever top-ups, handshakes and crashes overlap.                *)
PrekeysTypeOK ==
  /\ PoolTypeOK
  /\ stored \subseteq Prekey /\ disk \subseteq Prekey
  /\ writing \subseteq SUBSET Prekey
  /\ \A t \in topUps : t.keys \subseteq Prekey /\ t.step \in {"uploading", "saving"}
  /\ stage \in [Peer -> Stage]
  /\ bundle \in [Peer -> Prekey \cup {NoKey}]
  /\ held \in [Peer -> Prekey \cup {NoKey}]
  /\ faults \subseteq Faults
  /\ made \in Nat
  /\ torn \subseteq Nat
  /\ used \subseteq Prekey /\ reused \subseteq Prekey
  /\ Cardinality(stored) <= PREKEY_TARGET
  /\ \A keys \in {stored, rows} : \A j, k \in keys : j.id = k.id => j = k

(* FetchBundle: under concurrent and rolled-back fetches, and while ids    *)
(* are used again, no public key is handed to two peers.                   *)
HandedOutOnce ==
  \A p, q \in Peer :
    p # q /\ bundle[p] # NoKey => bundle[p].key # bundle[q].key

(* takeOneTimePrekey: the client derives at most one handshake with a      *)
(* pair.  It may die at any point and open the same message again; the     *)
(* pair left the vault before it was used.                                 *)
SecretUsedOnce == reused = {}

(* What the server offers, or has handed out for a message still to come,  *)
(* the client can open: it has the pair in memory under the same id.  The  *)
(* only exceptions are ids of pairs that the client had, in memory or in a *)
(* handshake it was opening, and the vault had not, when it died:          *)
(* replenishPrekeys uploads before it saves, takeOneTimePrekey saves       *)
(* before the session exists, and both ids may be given out again.         *)
PublishedKeysHeld ==
  /\ \A k \in rows : k \in stored \/ k.id \in torn
  /\ \A p \in Peer :
       stage[p] = "sent" /\ bundle[p] # NoKey
         => bundle[p] \in stored \/ bundle[p].id \in torn

(* replenishPrekeys: a pool that is empty is refilled, unless an upload    *)
(* failed, the client died or a peer took a key and never wrote.           *)
RefilledUnlessFault ==
  rows = {} ~> (rows # {} \/ faults \cap {"upload", "crash", "abandon"} # {})
=============================================================================
