--------------------------- MODULE PrekeysProofs ---------------------------
(***************************************************************************)
(* No public prekey is handed to two peers, no pair is used for two        *)
(* handshakes, ids stay unique and what is published can be opened, for    *)
(* any number of peers, pool sizes, crashes and failures.                  *)
(*                                                                         *)
(* Why: a key is in one place at a time, an upload, a row or a peer; a     *)
(* save that is under way was read after its pair was taken; and what is   *)
(* published is in memory, where a top-up numbers its pairs past all there *)
(* are, but for the ids of pairs that a crash forgot.                      *)
(***************************************************************************)
EXTENDS Prekeys, FiniteSetTheorems, TLAPS

(* Every step is tried with Zenon, except those that name another prover. *)
USE Zenon

Open(u) == u.step \in {"waiting", "counted"}

(* What the client has drawn is finite and was counted. *)
Drawn ==
  /\ made \in Nat
  /\ IsFiniteSet(stored) /\ IsFiniteSet(disk) /\ \A record \in writing : IsFiniteSet(record)

(* A key is in one place: in an upload that has not ended, in a row, or    *)
(* with a peer.  A row that a fetch is deleting stays until it commits.    *)
PoolInv ==
  /\ \A k \in rows : k.key \in 1 .. made
  /\ \A j, k \in rows : j.key = k.key => j = k
  /\ DOMAIN bundle = Peer
  /\ \A p \in Peer : bundle[p] = NoKey \/ bundle[p].key \in 1 .. made
  /\ \A p \in Peer : \A k \in rows : bundle[p].key # k.key
  /\ \A f \in fetches : f.row = NoKey \/ f.row \in rows
  /\ \A f, g \in fetches : f.row = g.row /\ f.row # NoKey => f = g
  /\ HandedOutOnce

UploadInv ==
  /\ \A u \in uploads : {"keys", "seen", "step"} \subseteq DOMAIN u
  /\ \A u \in uploads : Open(u) => \A k \in u.keys :
       /\ k.key \in 1 .. made
       /\ \A r \in rows : r.key # k.key
       /\ \A p \in Peer : bundle[p].key # k.key
       /\ \A j \in u.keys : j.key = k.key => j = k
  /\ \A u, v \in uploads : Open(u) /\ Open(v) /\ u # v =>
       \A j \in u.keys : \A k \in v.keys : j.key # k.key

HandOutInv == Drawn /\ PoolInv /\ UploadInv

(* A top-up draws keys that nobody has seen. *)
LEMMA GeneratedIsFresh ==
  ASSUME NEW old, IsFiniteSet(old), Cardinality(old) <= PREKEY_LOW_WATER, made \in Nat
  PROVE  /\ IsFiniteSet(Generated(old))
         /\ Cardinality(Generated(old)) \in Nat
         /\ Cardinality(Generated(old)) = PREKEY_TARGET - Cardinality(old)
         /\ \A k \in Generated(old) : k.key \in made + 1 .. made + Cardinality(Generated(old))
         /\ \A j, k \in Generated(old) : j.key = k.key => j = k
<1> DEFINE n == PREKEY_TARGET - Cardinality(old)
           Pair(i) == [id |-> Highest(old) + i, key |-> made + i]
           f == [i \in 1 .. n |-> Pair(i)]
           new == Generated(old)
<1>1. n \in Nat
  BY FS_CardinalityType, PrekeysAssumption, SMT
<1>2. new = {Pair(i) : i \in 1 .. n}
  BY DEF Generated
<1>3. \A i \in 1 .. n : Pair(i).key = made + i
  OBVIOUS
<1> HIDE DEF n, new, Pair
<1>4. f \in [1 .. n -> new] /\ \A k \in new : \E i \in 1 .. n : f[i] = k
  BY <1>2
<1>5. \A i, j \in 1 .. n : f[i] = f[j] => i = j
  BY <1>1, <1>3, SMT
<1>6. f \in Bijection(1 .. n, new)
  BY <1>4, <1>5 DEF Bijection, Injection, Surjection, IsInjective
<1>7. IsFiniteSet(1 .. n) /\ Cardinality(1 .. n) = n
  BY <1>1, FS_Interval, SMT
<1>8. IsFiniteSet(new) /\ Cardinality(new) = n
  BY <1>6, <1>7, FS_Bijection, SMT DEF ExistsBijection
<1>9. \A k \in new : k.key \in made + 1 .. made + n
  BY <1>1, <1>2, <1>3, SMT
<1>10. \A j, k \in new : j.key = k.key => j = k
  BY <1>1, <1>2, <1>3, SMT
<1> QED
  BY <1>1, <1>8, <1>9, <1>10 DEF new, n

LEMMA RegisteredKeys ==
  /\ IsFiniteSet(Registered)
  /\ \A k \in Registered : k.key \in 1 .. PREKEY_TARGET /\ k # NoKey
  /\ \A j, k \in Registered : j.key = k.key => j = k
<1> DEFINE n == PREKEY_TARGET
           f == [i \in 1 .. n |-> [id |-> i, key |-> i]]
<1>1. n \in Nat
  BY PrekeysAssumption
<1>2. f \in [1 .. n -> Registered] /\ \A k \in Registered : \E i \in 1 .. n : f[i] = k
  BY DEF Registered
<1>3. f \in Surjection(1 .. n, Registered)
  BY <1>2 DEF Surjection
<1>4. IsFiniteSet(1 .. n)
  BY <1>1, FS_Interval, SMT
<1>5. IsFiniteSet(Registered)
  <2> HIDE DEF f, n
  <2> QED
    BY <1>3, <1>4, FS_Surjection
<1> QED
  BY <1>1, <1>5, SMT DEF Registered, NoKey

LEMMA HandOutInit == Init => HandOutInv
<1> SUFFICES ASSUME Init PROVE HandOutInv
  OBVIOUS
<1>1. made = PREKEY_TARGET /\ made \in Nat
  BY PrekeysAssumption DEF Init
<1>2. Drawn
  BY <1>1, RegisteredKeys DEF Init, Drawn
<1>3. DOMAIN bundle = Peer /\ \A p \in Peer : bundle[p] = NoKey /\ bundle[p].key = 0
  BY DEF Init, NoKey
<1>4. PoolInv
  BY <1>1, <1>3, RegisteredKeys, SMT DEF Init, PoolInit, PoolInv, HandedOutOnce
<1>5. UploadInv
  BY DEF Init, PoolInit, UploadInv
<1> QED
  BY <1>2, <1>4, <1>5 DEF HandOutInv

(* FetchBundle: the row is locked, and leaves the table with its commit. *)
LEMMA StartFetchStep ==
  ASSUME HandOutInv, NEW p \in Peer, StartFetch(p)
  PROVE  HandOutInv'
<1>1. UNCHANGED <<rows, uploads, bundle, made, stored, disk, writing>>
  BY DEF StartFetch, BeginFetchBundle, clientVars, history
<1>2. PICK r : /\ r = NoKey \/ r \in rows \ LockedByFetch
               /\ fetches' = fetches \cup {[peer |-> p, row |-> r]}
  BY DEF StartFetch, BeginFetchBundle
<1>3. PoolInv'
  <2> DEFINE f == [peer |-> p, row |-> r]
  <2>1. f.row = r /\ fetches' = fetches \cup {f}
    BY <1>2
  <2>2. \A g \in fetches : g.row = r => r = NoKey
    BY <1>2 DEF LockedByFetch
  <2> HIDE DEF f
  <2> QED
    BY <1>1, <1>2, <2>1, <2>2, SMT DEF HandOutInv, PoolInv, HandedOutOnce
<1> QED
  BY <1>1, <1>3 DEF HandOutInv, Drawn, UploadInv, Open

LEMMA EndFetchStep ==
  ASSUME HandOutInv, NEW p \in Peer, EndFetch(p)
  PROVE  HandOutInv'
<1>1. UNCHANGED <<uploads, made, stored, disk, writing>>
  BY DEF EndFetch, CommitFetchBundle, clientVars, history
<1>2. PICK f \in fetches : /\ rows' = rows \ {f.row}
                           /\ fetches' = fetches \ {f}
                           /\ bundle' = [bundle EXCEPT ![p] = f.row]
  BY DEF EndFetch, CommitFetchBundle
<1>3. NoKey.key = 0 /\ (f.row = NoKey \/ f.row \in rows)
  BY DEF NoKey, HandOutInv, PoolInv
<1>4. DOMAIN bundle' = Peer /\ \A q \in Peer : bundle'[q] = IF q = p THEN f.row ELSE bundle[q]
  BY <1>2 DEF HandOutInv, PoolInv
<1>5. PoolInv'
  BY <1>1, <1>2, <1>3, <1>4, SMT DEF HandOutInv, PoolInv, HandedOutOnce, Drawn
<1>6. UploadInv'
  BY <1>1, <1>2, <1>3, <1>4, SMT DEF HandOutInv, PoolInv, UploadInv, Open
<1> QED
  BY <1>1, <1>5, <1>6 DEF HandOutInv, Drawn

LEMMA FailFetchStep ==
  ASSUME HandOutInv, NEW p \in Peer, FailFetch(p)
  PROVE  HandOutInv'
<1>1. UNCHANGED <<rows, uploads, bundle, made, stored, disk, writing>> /\ fetches' \subseteq fetches
  BY DEF FailFetch, AbortFetchBundle, clientVars, history
<1>2. PoolInv'
  BY <1>1 DEF HandOutInv, PoolInv, HandedOutOnce
<1> QED
  BY <1>1, <1>2 DEF HandOutInv, Drawn, UploadInv, Open

(* An upload goes on with the keys it has, or ends without adding them. *)
LEMMA UploadGoesOn ==
  ASSUME HandOutInv, NEW u \in uploads, Open(u), NEW v,
         v.keys = u.keys, {"keys", "seen", "step"} \subseteq DOMAIN v,
         uploads' = (uploads \ {u}) \cup {v},
         UNCHANGED <<rows, fetches, bundle, made, stored, disk, writing>>
  PROVE  HandOutInv'
<1>1. UploadInv'
  BY SMT DEF HandOutInv, UploadInv, Open
<1> QED
  BY <1>1 DEF HandOutInv, Drawn, PoolInv, HandedOutOnce

LEMMA CountUploadStep ==
  ASSUME HandOutInv, NEW u \in uploads, CountUpload(u)
  PROVE  HandOutInv'
<1> DEFINE fewer == [u EXCEPT !.seen = {}, !.step = "failed"]
           counted == [u EXCEPT !.seen = u.seen \cap rows, !.step = "counted"]
<1>1. \A v \in {fewer, counted} : v.keys = u.keys /\ {"keys", "seen", "step"} \subseteq DOMAIN v
  BY DEF HandOutInv, UploadInv
<1>2. PICK v \in {fewer, counted} : uploads' = (uploads \ {u}) \cup {v}
  BY DEF CountUpload, CountPrekeys
<1>3. Open(u) /\ UNCHANGED <<rows, fetches, bundle, made, stored, disk, writing>>
  BY DEF CountUpload, CountPrekeys, Open, clientVars, peerVars, history
<1> HIDE DEF fewer, counted
<1> QED
  BY <1>1, <1>2, <1>3, UploadGoesOn

LEMMA FailUploadStep ==
  ASSUME HandOutInv, NEW u \in uploads, FailUpload(u)
  PROVE  HandOutInv'
<1> DEFINE v == [u EXCEPT !.seen = {}, !.step = "failed"]
<1>1. v.keys = u.keys /\ {"keys", "seen", "step"} \subseteq DOMAIN v
  BY DEF HandOutInv, UploadInv
<1>2. uploads' = (uploads \ {u}) \cup {v}
  BY DEF FailUpload, AbortAddOneTimePrekeys
<1>3. Open(u) /\ UNCHANGED <<rows, fetches, bundle, made, stored, disk, writing>>
  BY DEF FailUpload, AbortAddOneTimePrekeys, Open, clientVars, peerVars, history
<1> HIDE DEF v
<1> QED
  BY <1>1, <1>2, <1>3, UploadGoesOn

(* The insert: the keys leave the upload, which is over, for the table. *)
LEMMA CommitUploadStep ==
  ASSUME HandOutInv, NEW u \in uploads, CommitUpload(u)
  PROVE  HandOutInv'
<1> DEFINE v == [u EXCEPT !.seen = {}, !.step = "added"]
<1>1. v.step = "added" /\ {"keys", "seen", "step"} \subseteq DOMAIN v
  BY DEF HandOutInv, UploadInv
<1>2. Open(u) /\ uploads' = (uploads \ {u}) \cup {v}
  BY DEF CommitUpload, CommitAddOneTimePrekeys, Open
<1>3. UNCHANGED <<fetches, bundle, made, stored, disk, writing>>
  BY DEF CommitUpload, CommitAddOneTimePrekeys, clientVars, peerVars, history
<1>4. rows \subseteq rows' /\ rows' \subseteq rows \cup u.keys
  BY DEF CommitUpload, CommitAddOneTimePrekeys
<1> HIDE DEF v
<1>5. PoolInv'
  BY <1>2, <1>3, <1>4, SMT DEF HandOutInv, PoolInv, UploadInv, HandedOutOnce
<1>6. UploadInv'
  BY <1>1, <1>2, <1>3, <1>4, SMT DEF HandOutInv, UploadInv, Open
<1> QED
  BY <1>3, <1>5, <1>6 DEF HandOutInv, Drawn

(* The client's steps that draw no keys. *)
LEMMA ClientKeepsHandOut ==
  ASSUME HandOutInv, Drawn', UNCHANGED <<rows, fetches, bundle, made>>, uploads' \subseteq uploads
  PROVE  HandOutInv'
BY SMT DEF HandOutInv, PoolInv, UploadInv, HandedOutOnce, Open

(* The top-up after a handshake. *)
LEMMA AcceptStep ==
  ASSUME HandOutInv, NEW p \in Peer, Accept(p)
  PROVE  HandOutInv'
<1>1. UNCHANGED <<disk, writing, bundle>>
  BY DEF Accept
<1>2. CASE UNCHANGED <<poolVars, stored, topUps, made>>
  BY <1>1, <1>2, ClientKeepsHandOut DEF poolVars, HandOutInv, Drawn
<1>3. CASE ~UNCHANGED <<poolVars, stored, topUps, made>>
  <2> DEFINE new == Generated(stored)
             u == [keys |-> new, seen |-> rows, step |-> "waiting"]
  <2>1. ~(Cardinality(stored) > PREKEY_LOW_WATER)
    BY <1>3 DEF Accept, ReplenishPrekeys
  <2>2. IsFiniteSet(stored) /\ Cardinality(stored) \in Nat /\ made \in Nat
    BY FS_CardinalityType DEF HandOutInv, Drawn
  <2>3. /\ IsFiniteSet(new)
        /\ Cardinality(new) \in Nat
        /\ \A k \in new : k.key \in made + 1 .. made + Cardinality(new)
        /\ \A j, k \in new : j.key = k.key => j = k
    BY <2>1, <2>2, GeneratedIsFresh, PrekeysAssumption, SMT
  <2>4. /\ stored' = {k \in stored : \A n \in new : n.id # k.id} \cup new
        /\ made' = made + Cardinality(new)
        /\ uploads' = uploads \cup {u}
        /\ UNCHANGED <<rows, fetches>>
    BY <2>1 DEF Accept, ReplenishPrekeys, BeginAddOneTimePrekeys
  <2>5. u.keys = new /\ {"keys", "seen", "step"} \subseteq DOMAIN u
    OBVIOUS
  <2> HIDE DEF new, u
  <2>6. Drawn'
    <3> DEFINE rest == {k \in stored : \A n \in new : n.id # k.id}
    <3>1. IsFiniteSet(rest)
      BY <2>2, FS_Subset
    <3> HIDE DEF rest
    <3>2. IsFiniteSet(rest \cup new)
      BY <2>3, <3>1, FS_Union
    <3> QED
      BY <1>1, <2>2, <2>3, <2>4, <3>2, SMT DEF HandOutInv, Drawn, rest
  <2>7. PoolInv'
    BY <1>1, <2>2, <2>3, <2>4, SMT DEF HandOutInv, PoolInv, HandedOutOnce
  <2>8. NoKey.key = 0
    BY DEF NoKey
  <2>9. UploadInv'
    BY <1>1, <2>2, <2>3, <2>4, <2>5, <2>8, SMT DEF HandOutInv, PoolInv, UploadInv, Open
  <2> QED
    BY <2>6, <2>7, <2>9 DEF HandOutInv
<1> QED
  BY <1>2, <1>3

LEMMA HandOutStep == HandOutInv /\ [Next]_vars => HandOutInv'
<1> SUFFICES ASSUME HandOutInv, [Next]_vars PROVE HandOutInv'
  OBVIOUS
<1> USE DEF poolVars, clientVars, peerVars, history
<1>1. ASSUME NEW p \in Peer, PeerStep(p) \/ ClientStep(p) \/ FailFetch(p) \/ Abandon(p) PROVE HandOutInv'
  <2>1. CASE PeerStep(p) \/ FailFetch(p)
    BY <2>1, StartFetchStep, EndFetchStep, FailFetchStep DEF PeerStep
  <2>2. CASE Accept(p)
    BY <2>2, AcceptStep
  <2>3. CASE OpenInitial(p) \/ Refuse(p) \/ Abandon(p)
    <3>1. /\ UNCHANGED <<rows, fetches, uploads, bundle, made, disk, writing>>
          /\ stored' \subseteq stored
      BY <2>3 DEF OpenInitial, Refuse, Abandon
    <3>2. Drawn'
      BY <3>1, FS_Subset DEF HandOutInv, Drawn
    <3> QED
      BY <3>1, <3>2, ClientKeepsHandOut
  <2> QED
    BY <1>1, <2>1, <2>2, <2>3 DEF ClientStep
<1>2. CASE StartSave
  <2>1. UNCHANGED <<rows, fetches, uploads, bundle, made, stored, disk>> /\ writing' = {stored}
    BY <1>2 DEF StartSave
  <2> QED
    BY <2>1, ClientKeepsHandOut DEF HandOutInv, Drawn
<1>3. CASE EndSave
  <2>1. UNCHANGED <<rows, fetches, uploads, bundle, made, stored>> /\ writing' = {} /\ disk' \in writing
    BY <1>3 DEF EndSave
  <2> QED
    BY <2>1, ClientKeepsHandOut DEF HandOutInv, Drawn
<1>4. CASE TopUpStep
  <2>1. UNCHANGED <<rows, fetches, bundle, made, stored, disk, writing>> /\ uploads' \subseteq uploads
    BY <1>4 DEF TopUpStep, Uploaded, UploadFailed
  <2> QED
    BY <2>1, ClientKeepsHandOut DEF HandOutInv, Drawn
<1>5. CASE UploadStepOf \/ \E u \in uploads : FailUpload(u)
  BY <1>5, CountUploadStep, CommitUploadStep, FailUploadStep DEF UploadStepOf
<1>6. CASE Crash
  <2>1. UNCHANGED <<rows, fetches, uploads, bundle, made, disk>> /\ stored' = disk /\ writing' = {}
    BY <1>6 DEF Crash
  <2> QED
    BY <2>1, ClientKeepsHandOut DEF HandOutInv, Drawn
<1>7. CASE UNCHANGED vars
  BY <1>7, ClientKeepsHandOut DEF vars, HandOutInv, Drawn
<1> QED
  BY <1>1, <1>2, <1>3, <1>4, <1>5, <1>6, <1>7 DEF Next

(* No public key is handed to two peers, however fetches, uploads and      *)
(* crashes interleave (FetchBundle, AddOneTimePrekeys, replenishPrekeys).  *)
THEOREM PrekeyHandedOutOnce == Spec => []HandedOutOnce
<1>1. HandOutInv => HandedOutOnce
  BY DEF HandOutInv, PoolInv
<1> QED
  BY <1>1, HandOutInit, HandOutStep, PTL DEF Spec

-----------------------------------------------------------------------------
(* The pairs the client has, those being written, and those used: a used   *)
(* pair is neither in memory nor in the vault, nor will be.                *)
PairInv ==
  /\ \A k \in stored \cup disk \cup used : k.key \in 1 .. made
  /\ \A record \in writing : \A k \in record : k.key \in 1 .. made /\ k \notin used
  /\ \A k \in used : k \notin stored /\ k \notin disk
  /\ SecretUsedOnce

(* A pair taken for a message is in no other hand. *)
TakenInv ==
  /\ DOMAIN stage = Peer /\ DOMAIN held = Peer
  /\ \A p \in Peer : stage[p] = "taking" =>
       /\ held[p].key \in 1 .. made
       /\ held[p] \notin stored
       /\ held[p] \notin used
  /\ \A p, q \in Peer : stage[p] = "taking" /\ stage[q] = "taking" /\ held[p] = held[q] => p = q

(* Each handshake that takes a pair waits for one save; what the save in   *)
(* turn writes was read after the pair was taken.                          *)
SaveInv ==
  /\ \E S : saves \in Seq(S)
  /\ \A p \in Peer : \A i \in 1 .. Len(saves) : saves[i] = ForPeer(p) =>
       /\ stage[p] = "taking"
       /\ \A j \in 1 .. Len(saves) : saves[j] = ForPeer(p) => j = i
  /\ writing # {} => saves # <<>>
  /\ \A p \in Peer : saves # <<>> /\ saves[1] = ForPeer(p) =>
       \A record \in writing : held[p] \notin record

UsedInv == PairInv /\ TakenInv /\ SaveInv

LEMMA SavesDiffer ==
  /\ \A p, q \in Peer : ForPeer(p) = ForPeer(q) => p = q
  /\ \A p \in Peer : \A K : ForTopUp(K) # ForPeer(p)
<1>1. ASSUME NEW p \in Peer, NEW q \in Peer, ForPeer(p) = ForPeer(q) PROVE p = q
  <2>1. ForPeer(p).peer = p /\ ForPeer(q).peer = q
    BY DEF ForPeer
  <2> QED
    BY <1>1, <2>1
<1>2. ASSUME NEW p \in Peer, NEW K PROVE ForTopUp(K) # ForPeer(p)
  <2>1. "peer" \in DOMAIN ForPeer(p) /\ "peer" \notin DOMAIN ForTopUp(K)
    BY DEF ForPeer, ForTopUp
  <2> QED
    BY <2>1
<1> QED
  BY <1>1, <1>2

LEMMA AppendAny ==
  ASSUME NEW S, NEW s \in Seq(S), NEW x
  PROVE  /\ Append(s, x) \in Seq(S \cup {x})
         /\ Len(s) \in Nat /\ Len(Append(s, x)) = Len(s) + 1
         /\ \A i \in 1 .. Len(s) : Append(s, x)[i] = s[i]
         /\ Append(s, x)[Len(s) + 1] = x
<1> DEFINE T == S \cup {x}
<1>1. s \in Seq(T)
  BY SMT
<1>2. x \in T
  OBVIOUS
<1> HIDE DEF T
<1> QED
  BY <1>1, <1>2, SMT DEF T

LEMMA UsedInit == Init => UsedInv
<1> SUFFICES ASSUME Init PROVE UsedInv
  OBVIOUS
<1>1. made = PREKEY_TARGET /\ stored = Registered /\ disk = Registered /\ used = {} /\ writing = {} /\ reused = {}
  BY DEF Init
<1>2. PairInv
  BY <1>1, RegisteredKeys DEF PairInv, SecretUsedOnce
<1>3. TakenInv
  BY DEF Init, TakenInv
<1>4. saves = <<>> /\ saves \in Seq({}) /\ Len(saves) = 0
  BY SMT DEF Init
<1>5. SaveInv
  BY <1>1, <1>4, SMT DEF SaveInv
<1> QED
  BY <1>2, <1>3, <1>5 DEF UsedInv

(* Steps that neither take a pair nor save one. *)
LEMMA UsedKept ==
  ASSUME UsedInv,
         UNCHANGED <<stored, disk, writing, saves, used, reused, made>>,
         DOMAIN stage' = Peer, DOMAIN held' = Peer,
         \A p \in Peer : (stage[p] = "taking") = (stage'[p] = "taking"),
         \A p \in Peer : stage[p] = "taking" => held'[p] = held[p]
  PROVE  UsedInv'
<1>1. PairInv'
  BY DEF UsedInv, PairInv, SecretUsedOnce
<1>2. TakenInv'
  BY SMT DEF UsedInv, TakenInv
<1>3. SaveInv'
  BY Z3 DEF UsedInv, SaveInv
<1> QED
  BY <1>1, <1>2, <1>3 DEF UsedInv

(* takeOneTimePrekey: the pair leaves memory and a save is queued. *)
LEMMA OpenInitialUsed ==
  ASSUME UsedInv, NEW p \in Peer, OpenInitial(p)
  PROVE  UsedInv'
<1>1. UNCHANGED <<disk, writing, used, reused, made>> /\ stage[p] = "sent"
  BY DEF OpenInitial, history
<1>2. CASE UNCHANGED <<stored, saves, held>> /\ \E to \in {"deriving", "refused"} : stage' = [stage EXCEPT ![p] = to]
  BY <1>1, <1>2, UsedKept DEF UsedInv, TakenInv
<1>3. CASE \E k \in stored : /\ stored' = stored \ {k}
                             /\ held' = [held EXCEPT ![p] = k]
                             /\ saves' = Append(saves, ForPeer(p))
                             /\ stage' = [stage EXCEPT ![p] = "taking"]
  <2>1. PICK k \in stored : /\ stored' = stored \ {k}
                            /\ held' = [held EXCEPT ![p] = k]
                            /\ saves' = Append(saves, ForPeer(p))
                            /\ stage' = [stage EXCEPT ![p] = "taking"]
    BY <1>3
  <2>2. PairInv'
    BY <1>1, <2>1 DEF UsedInv, PairInv, SecretUsedOnce
  <2>3. TakenInv'
    BY <1>1, <2>1 DEF UsedInv, TakenInv, PairInv
  <2>4. PICK S : saves \in Seq(S)
    BY DEF UsedInv, SaveInv
  <2>5. /\ saves' \in Seq(S \cup {ForPeer(p)})
        /\ Len(saves) \in Nat /\ Len(saves') = Len(saves) + 1
        /\ \A i \in 1 .. Len(saves) : saves'[i] = saves[i]
        /\ saves'[Len(saves) + 1] = ForPeer(p)
    BY <2>1, <2>4, AppendAny, SMT
  <2>6. /\ \A q \in Peer : stage'[q] = IF q = p THEN "taking" ELSE stage[q]
        /\ \A q \in Peer : held'[q] = IF q = p THEN k ELSE held[q]
    BY <2>1 DEF UsedInv, TakenInv
  <2>7. \A i \in 1 .. Len(saves) : saves[i] # ForPeer(p)
    BY <1>1 DEF UsedInv, SaveInv
  <2>8. ASSUME NEW q \in Peer, NEW i \in 1 .. Len(saves'), saves'[i] = ForPeer(q)
        PROVE  stage'[q] = "taking" /\ \A j \in 1 .. Len(saves') : saves'[j] = ForPeer(q) => j = i
    BY <2>5, <2>6, <2>7, <2>8, SavesDiffer, SMT DEF UsedInv, SaveInv
  <2>9. saves' # <<>>
    BY <2>5, SMT
  <2>10. ASSUME NEW q \in Peer, saves'[1] = ForPeer(q), NEW record \in writing'
         PROVE  held'[q] \notin record
    <3>1. saves # <<>> /\ Len(saves) >= 1
      BY <1>1, <2>4, <2>5, <2>10, SMT DEF UsedInv, SaveInv
    <3> QED
      BY <1>1, <2>5, <2>6, <2>7, <2>10, <3>1, SMT DEF UsedInv, SaveInv
  <2>11. SaveInv'
    BY <2>5, <2>8, <2>9, <2>10 DEF SaveInv
  <2> QED
    BY <2>2, <2>3, <2>11 DEF UsedInv
<1> QED
  BY <1>2, <1>3 DEF OpenInitial

(* The first save of the queue has landed. *)
LEMMA EndSaveUsed ==
  ASSUME UsedInv, EndSave
  PROVE  UsedInv'
<1>1. UNCHANGED <<stored, held, made>> /\ writing # {} /\ writing' = {} /\ disk' \in writing /\ saves' = Tail(saves)
  BY DEF EndSave
<1>2. PICK S : saves \in Seq(S)
  BY DEF UsedInv, SaveInv
<1>3. saves # <<>>
  BY <1>1 DEF UsedInv, SaveInv
<1>4. /\ saves' \in Seq(S) /\ Len(saves) \in Nat \ {0} /\ Len(saves') = Len(saves) - 1
      /\ \A i \in 1 .. Len(saves') : saves'[i] = saves[i + 1]
      /\ Head(saves) = saves[1]
  BY <1>1, <1>2, <1>3, SMT
<1>5. CASE UNCHANGED <<stage, used, reused>>
  <2>1. PairInv'
    BY <1>1, <1>5 DEF UsedInv, PairInv, SecretUsedOnce
  <2>2. TakenInv'
    BY <1>1, <1>5 DEF UsedInv, TakenInv
  <2>3. SaveInv'
    BY <1>1, <1>4, <1>5, SMT DEF UsedInv, SaveInv
  <2> QED
    BY <2>1, <2>2, <2>3 DEF UsedInv
<1>6. ASSUME NEW p \in Peer, saves[1] = ForPeer(p),
             stage' = [stage EXCEPT ![p] = "deriving"],
             used' = used \cup {held[p]},
             reused' = reused \cup (used \cap {held[p]})
      PROVE  UsedInv'
  <2>1. stage[p] = "taking" /\ \A record \in writing : held[p] \notin record
    BY <1>3, <1>4, <1>6, SMT DEF UsedInv, SaveInv
  <2>2. PairInv'
    BY <1>1, <1>6, <2>1 DEF UsedInv, PairInv, TakenInv, SecretUsedOnce
  <2>3. TakenInv'
    BY <1>1, <1>6, <2>1 DEF UsedInv, TakenInv
  <2>4. \A q \in Peer : stage'[q] = IF q = p THEN "deriving" ELSE stage[q]
    BY <1>6 DEF UsedInv, TakenInv
  <2>5. \A i \in 1 .. Len(saves') : saves'[i] # ForPeer(p)
    BY <1>4, <1>6, SMT DEF UsedInv, SaveInv
  <2>6. SaveInv'
    BY <1>1, <1>4, <2>4, <2>5, SMT DEF UsedInv, SaveInv
  <2> QED
    BY <2>2, <2>3, <2>6 DEF UsedInv
<1> QED
  BY <1>4, <1>5, <1>6 DEF EndSave

(* A top-up queues a save that no handshake waits for. *)
LEMMA UploadedUsed ==
  ASSUME UsedInv, NEW t \in topUps, Uploaded(t)
  PROVE  UsedInv'
<1>1. UNCHANGED <<stored, disk, writing, stage, held, used, reused, made>> /\ saves' = Append(saves, ForTopUp(t.keys))
  BY DEF Uploaded, peerVars, history
<1>2. PICK S : saves \in Seq(S)
  BY DEF UsedInv, SaveInv
<1>3. /\ saves' \in Seq(S \cup {ForTopUp(t.keys)})
      /\ Len(saves) \in Nat /\ Len(saves') = Len(saves) + 1
      /\ \A i \in 1 .. Len(saves) : saves'[i] = saves[i]
      /\ saves'[Len(saves) + 1] = ForTopUp(t.keys)
  BY <1>1, <1>2, AppendAny, SMT
<1>4. saves' # <<>> /\ (saves # <<>> => Len(saves) >= 1)
  BY <1>2, <1>3, SMT
<1>5. \A p \in Peer : \A i \in 1 .. Len(saves') : saves'[i] = ForPeer(p) => i \in 1 .. Len(saves)
  BY <1>3, SavesDiffer, SMT
<1>6. SaveInv'
  BY <1>1, <1>3, <1>4, <1>5, SMT DEF UsedInv, SaveInv
<1> QED
  BY <1>1, <1>6 DEF UsedInv, PairInv, TakenInv, SecretUsedOnce

LEMMA AcceptUsed ==
  ASSUME HandOutInv, UsedInv, NEW p \in Peer, Accept(p)
  PROVE  UsedInv'
<1>1. /\ UNCHANGED <<disk, saves, writing, used, reused>> /\ stage[p] = "deriving"
      /\ stage' = [stage EXCEPT ![p] = "accepted"] /\ held' = [held EXCEPT ![p] = NoKey]
  BY DEF Accept
<1>2. CASE UNCHANGED <<stored, made>>
  BY <1>1, <1>2, UsedKept DEF UsedInv, TakenInv
<1>3. CASE ~UNCHANGED <<stored, made>>
  <2> DEFINE new == Generated(stored)
  <2>1. ~(Cardinality(stored) > PREKEY_LOW_WATER)
    BY <1>3 DEF Accept, ReplenishPrekeys
  <2>2. IsFiniteSet(stored) /\ Cardinality(stored) \in Nat /\ made \in Nat
    BY FS_CardinalityType DEF HandOutInv, Drawn
  <2>3. /\ Cardinality(new) \in Nat
        /\ \A k \in new : k.key \in made + 1 .. made + Cardinality(new)
    BY <2>1, <2>2, GeneratedIsFresh, PrekeysAssumption, SMT
  <2>4. stored' \subseteq stored \cup new /\ made' = made + Cardinality(new)
    BY <2>1 DEF Accept, ReplenishPrekeys
  <2> HIDE DEF new
  <2>5. PairInv'
    BY <1>1, <2>2, <2>3, <2>4, SMT DEF UsedInv, PairInv, SecretUsedOnce
  <2>6. TakenInv'
    BY <1>1, <2>2, <2>3, <2>4, SMT DEF UsedInv, TakenInv
  <2>7. \A q \in Peer : stage[q] = "taking" => stage'[q] = "taking" /\ held'[q] = held[q]
    BY <1>1 DEF UsedInv, TakenInv
  <2>8. saves # <<>> => 1 \in 1 .. Len(saves)
    BY SMT DEF UsedInv, SaveInv
  <2>9. SaveInv'
    BY <1>1, <2>7, <2>8, SMT DEF UsedInv, SaveInv
  <2> QED
    BY <2>5, <2>6, <2>9 DEF UsedInv
<1> QED
  BY <1>2, <1>3

(* A peer fetches one bundle at a time. *)
FetchInv ==
  /\ DOMAIN stage = Peer
  /\ \A f \in fetches : f.peer \in Peer /\ stage[f.peer] = "fetching"
  /\ \A f, g \in fetches : f.peer = g.peer => f = g

LEMMA FetchStep == UsedInv /\ FetchInv /\ [Next]_vars => FetchInv'
<1> SUFFICES ASSUME UsedInv, FetchInv, [Next]_vars PROVE FetchInv'
  OBVIOUS
<1> USE DEF FetchInv, poolVars, clientVars, peerVars, history
<1>1. ASSUME NEW p \in Peer, StartFetch(p) PROVE FetchInv'
  <2>1. PICK r : fetches' = fetches \cup {[peer |-> p, row |-> r]}
    BY <1>1 DEF StartFetch, BeginFetchBundle
  <2> DEFINE f == [peer |-> p, row |-> r]
  <2>2. f.peer = p /\ fetches' = fetches \cup {f}
    BY <2>1
  <2> HIDE DEF f
  <2> QED
    BY <1>1, <2>2 DEF StartFetch
<1>2. ASSUME NEW p \in Peer, EndFetch(p) \/ FailFetch(p) PROVE FetchInv'
  BY <1>2, SMT DEF EndFetch, FailFetch, CommitFetchBundle, AbortFetchBundle
<1>3. ASSUME NEW p \in Peer, ClientStep(p) \/ Abandon(p) PROVE FetchInv'
  <2>1. fetches' = fetches /\ stage[p] # "fetching" /\ \E to : stage' = [stage EXCEPT ![p] = to]
    BY <1>3 DEF ClientStep, OpenInitial, Accept, Refuse, Abandon, ReplenishPrekeys, BeginAddOneTimePrekeys
  <2> QED
    BY <2>1
<1>4. CASE EndSave
  <2>1. /\ fetches' = fetches
        /\ \/ UNCHANGED stage
           \/ \E p \in Peer : Head(saves) = ForPeer(p) /\ stage' = [stage EXCEPT ![p] = "deriving"]
    BY <1>4 DEF EndSave
  <2>2. 1 \in 1 .. Len(saves) /\ Head(saves) = saves[1]
    BY <1>4, SMT DEF EndSave, UsedInv, SaveInv
  <2> QED
    BY <2>1, <2>2 DEF UsedInv, SaveInv
<1>5. CASE Crash
  BY <1>5 DEF Crash
<1>6. CASE StartSave \/ TopUpStep \/ UploadStepOf \/ (\E u \in uploads : FailUpload(u)) \/ UNCHANGED vars
  <2>1. UNCHANGED <<fetches, stage>>
    BY <1>6 DEF StartSave, TopUpStep, Uploaded, UploadFailed, UploadStepOf, CountUpload, CountPrekeys,
                CommitUpload, CommitAddOneTimePrekeys, FailUpload, AbortAddOneTimePrekeys, vars
  <2> QED
    BY <2>1
<1> QED
  BY <1>1, <1>2, <1>3, <1>4, <1>5, <1>6 DEF Next, PeerStep

LEMMA UsedStep == HandOutInv /\ FetchInv /\ UsedInv /\ [Next]_vars => UsedInv'
<1> SUFFICES ASSUME HandOutInv, FetchInv, UsedInv, [Next]_vars PROVE UsedInv'
  OBVIOUS
<1> USE DEF poolVars, clientVars, peerVars, history
<1>1. ASSUME NEW p \in Peer, PeerStep(p) \/ ClientStep(p) \/ FailFetch(p) \/ Abandon(p) PROVE UsedInv'
  <2>1. CASE OpenInitial(p) \/ Accept(p)
    BY <2>1, OpenInitialUsed, AcceptUsed
  <2>2. CASE PeerStep(p) \/ FailFetch(p) \/ Abandon(p) \/ Refuse(p)
    <3>1. stage[p] # "taking"
      BY <2>2 DEF PeerStep, StartFetch, EndFetch, FailFetch, Abandon, Refuse, FetchInv
    <3>2. /\ UNCHANGED <<stored, disk, writing, saves, used, reused, made>>
          /\ \E to \in Stage \ {"taking"} : stage' = [stage EXCEPT ![p] = to]
          /\ held' = held \/ held' = [held EXCEPT ![p] = NoKey]
      BY <2>2 DEF PeerStep, StartFetch, EndFetch, FailFetch, Abandon, Refuse, Stage
    <3> QED
      BY <3>1, <3>2, UsedKept DEF UsedInv, TakenInv
  <2> QED
    BY <1>1, <2>1, <2>2 DEF ClientStep
<1>2. CASE StartSave
  <2>1. UNCHANGED <<stored, disk, saves, stage, held, used, reused, made>> /\ writing' = {stored} /\ saves # <<>>
    BY <1>2 DEF StartSave
  <2>2. 1 \in 1 .. Len(saves)
    BY <2>1, SMT DEF UsedInv, SaveInv
  <2>3. PairInv' /\ TakenInv'
    BY <2>1 DEF UsedInv, PairInv, TakenInv, SecretUsedOnce
  <2>4. SaveInv'
    <3>1. ASSUME NEW p \in Peer, saves[1] = ForPeer(p) PROVE held[p] \notin stored
      <4>1. stage[p] = "taking"
        BY <2>2, <3>1 DEF UsedInv, SaveInv
      <4> QED
        BY <4>1 DEF UsedInv, TakenInv
    <3>2. \A p \in Peer : saves'[1] = ForPeer(p) => \A record \in writing' : held'[p] \notin record
      BY <2>1, <3>1
    <3>3. /\ \E S : saves' \in Seq(S)
          /\ \A p \in Peer : \A i \in 1 .. Len(saves') : saves'[i] = ForPeer(p) =>
               /\ stage'[p] = "taking"
               /\ \A j \in 1 .. Len(saves') : saves'[j] = ForPeer(p) => j = i
      BY <2>1 DEF UsedInv, SaveInv
    <3> QED
      BY <2>1, <3>2, <3>3 DEF SaveInv
  <2> QED
    BY <2>3, <2>4 DEF UsedInv
<1>3. CASE EndSave
  BY <1>3, EndSaveUsed
<1>4. CASE TopUpStep
  <2>1. ASSUME NEW t \in topUps, UploadFailed(t) PROVE UsedInv'
    BY <2>1, UsedKept DEF UploadFailed, UsedInv, TakenInv
  <2> QED
    BY <1>4, <2>1, UploadedUsed DEF TopUpStep
<1>5. CASE UploadStepOf \/ \E u \in uploads : FailUpload(u)
  <2>1. UNCHANGED <<clientVars, peerVars, history>>
    BY <1>5 DEF UploadStepOf, CountUpload, CommitUpload, FailUpload
  <2> QED
    BY <2>1, UsedKept DEF UsedInv, TakenInv
<1>6. CASE Crash
  <2>1. /\ UNCHANGED <<disk, used, reused, made>> /\ stored' = disk /\ writing' = {} /\ saves' = <<>>
        /\ DOMAIN stage' = Peer /\ DOMAIN held' = Peer /\ \A p \in Peer : stage'[p] # "taking"
    BY <1>6 DEF Crash
  <2>2. saves' \in Seq({}) /\ Len(saves') = 0
    BY <2>1, SMT
  <2>3. PairInv' /\ TakenInv'
    BY <2>1 DEF UsedInv, PairInv, TakenInv, SecretUsedOnce
  <2>4. SaveInv'
    BY <2>1, <2>2, SMT DEF SaveInv
  <2> QED
    BY <2>3, <2>4 DEF UsedInv
<1>7. CASE UNCHANGED vars
  BY <1>7, UsedKept DEF vars, UsedInv, TakenInv
<1> QED
  BY <1>1, <1>2, <1>3, <1>4, <1>5, <1>6, <1>7 DEF Next

(* The client derives at most one handshake with a pair, wherever it dies  *)
(* and however many messages it opens at once (takeOneTimePrekey).         *)
THEOREM PrekeyPairUsedOnce == Spec => []SecretUsedOnce
<1>1. UsedInv => SecretUsedOnce
  BY DEF UsedInv, PairInv
<1>2. Init => FetchInv
  BY DEF Init, PoolInit, FetchInv
<1> QED
  BY <1>1, <1>2, HandOutInit, HandOutStep, FetchStep, UsedInit, UsedStep, PTL DEF Spec

-----------------------------------------------------------------------------
NatLess == {p \in Nat \X Nat : p[1] < p[2]}

LEMMA NatLessWellFounded == IsWellFoundedOn(NatLess, Nat)
<1>1. NatLess = OpToRel(<, Nat)
  BY DEF NatLess, OpToRel
<1> QED BY <1>1, NatLessThanWellFounded

(* A finite set of naturals has a maximum: one without it, of the fewest   *)
(* elements, would leave another one when an element is taken away.        *)
LEMMA FiniteHasMax ==
  ASSUME NEW S \in SUBSET Nat, IsFiniteSet(S), S # {}
  PROVE  Max(S) \in S /\ \A y \in S : y <= Max(S)
<1> DEFINE HasMax(T) == \E x \in T : \A y \in T : y <= x
           Bad(n) == \E T \in SUBSET Nat : IsFiniteSet(T) /\ T # {} /\ Cardinality(T) = n /\ ~HasMax(T)
           B == {n \in Nat : Bad(n)}
<1>1. ASSUME B # {} PROVE FALSE
  <2>1. PICK n \in B : \A k \in B : <<k, n>> \notin NatLess
    <3>1. B \subseteq Nat
      OBVIOUS
    <3> HIDE DEF B
    <3> QED BY <1>1, <3>1, WFMin, NatLessWellFounded
  <2>2. PICK T \in SUBSET Nat : IsFiniteSet(T) /\ T # {} /\ Cardinality(T) = n /\ ~HasMax(T)
    BY <2>1
  <2>3. PICK x \in T : TRUE
    BY <2>2
  <2> DEFINE U == T \ {x}
  <2>4. IsFiniteSet(U) /\ Cardinality(U) = n - 1 /\ Cardinality(U) \in Nat /\ U \in SUBSET Nat
    BY <2>2, <2>3, FS_RemoveElement, FS_CardinalityType
  <2>5. n \in Nat /\ n - 1 \in Nat /\ n - 1 < n
    BY <2>1, <2>4, SMT
  <2>6. n - 1 \notin B
    <3>1. <<n - 1, n>> \in NatLess
      BY <2>5 DEF NatLess
    <3> HIDE DEF B
    <3> QED BY <2>1, <3>1
  <2>7. U = {} \/ HasMax(U)
    <3> HIDE DEF HasMax, U
    <3> QED BY <2>4, <2>5, <2>6
  <2>8. CASE U = {}
    BY <2>2, <2>3, <2>8, SMT
  <2>9. ASSUME NEW z \in U, \A y \in U : y <= z PROVE FALSE
    <3>1. x \in Nat /\ z \in Nat /\ T \subseteq Nat /\ z \in T
      BY <2>3, <2>9
    <3>2. CASE x <= z
      BY <2>2, <2>9, <3>1, <3>2
    <3>3. CASE z <= x
      BY <2>2, <2>3, <2>9, <3>1, <3>3, SMT
    <3> QED BY <3>1, <3>2, <3>3, SMT
  <2> QED BY <2>7, <2>8, <2>9
<1>2. HasMax(S)
  <2>1. Cardinality(S) \in Nat
    BY FS_CardinalityType
  <2> HIDE DEF HasMax
  <2> QED BY <1>1, <2>1
<1>3. \E x \in S : \A y \in S : x >= y
  BY <1>2
<1> QED BY <1>3 DEF Max

IdsDiffer(S) == \A j, k \in S : j.id = k.id => j = k

Pairs(S) ==
  /\ S \subseteq Prekey
  /\ IsFiniteSet(S)
  /\ Cardinality(S) <= PREKEY_TARGET
  /\ IdsDiffer(S)

Upload == [keys : SUBSET Prekey, seen : SUBSET Prekey, step : UploadStep]
TopUp == [keys : SUBSET Prekey, step : {"uploading", "saving"}]

LEMMA HighestIsBound ==
  ASSUME NEW S \in SUBSET Prekey, IsFiniteSet(S)
  PROVE  Highest(S) \in Nat /\ \A k \in S : k.id <= Highest(S)
<1> DEFINE I == {k.id : k \in S}
           f == [k \in S |-> k.id]
<1>1. f \in Surjection(S, I)
  BY DEF Surjection
<1>2. IsFiniteSet(I)
  <2> HIDE DEF f, I
  <2> QED BY <1>1, FS_Surjection
<1>3. I \subseteq Nat /\ \A k \in S : k.id \in I
  BY DEF Prekey
<1> HIDE DEF I
<1>4. IsFiniteSet(I \cup {0}) /\ I \cup {0} \in SUBSET Nat /\ I \cup {0} # {}
  BY <1>2, <1>3, FS_AddElement, SMT
<1>5. Highest(S) = Max(I \cup {0})
  BY DEF Highest, I
<1>6. Max(I \cup {0}) \in I \cup {0} /\ \A y \in I \cup {0} : y <= Max(I \cup {0})
  <2> DEFINE T == I \cup {0}
  <2> HIDE DEF T
  <2>1. Max(T) \in T /\ \A y \in T : y <= Max(T)
    BY <1>4, FiniteHasMax DEF T
  <2> QED BY <2>1 DEF T
<1>7. PICK m : m = Max(I \cup {0})
  OBVIOUS
<1>8. m \in Nat /\ \A y \in I : y <= m
  <2>1. m \in I \cup {0} /\ \A y \in I \cup {0} : y <= m
    BY <1>6, <1>7
  <2> QED BY <1>3, <2>1, SMT
<1> QED BY <1>3, <1>5, <1>7, <1>8

(* The pairs of a top-up have ids of their own, and fill memory up to      *)
(* PREKEY_TARGET.                                                          *)
LEMMA GeneratedFits ==
  ASSUME NEW old, Pairs(old), Cardinality(old) <= PREKEY_LOW_WATER, made \in Nat
  PROVE  /\ Generated(old) \subseteq Prekey
         /\ IdsDiffer(Generated(old))
         /\ {k \in old : \A n \in Generated(old) : n.id # k.id} = old
         /\ Pairs(old \cup Generated(old))
<1> DEFINE new == Generated(old)
           h == Highest(old)
<1>1. h \in Nat /\ \A k \in old : k.id <= h /\ k.id \in Nat
  BY HighestIsBound DEF Pairs, Prekey
<1>2. new = {[id |-> h + i, key |-> made + i] : i \in 1 .. PREKEY_TARGET - Cardinality(old)}
  BY DEF Generated
<1>3. /\ IsFiniteSet(new)
      /\ Cardinality(new) = PREKEY_TARGET - Cardinality(old)
      /\ \A j, k \in new : j.key = k.key => j = k
  BY GeneratedIsFresh DEF Pairs
<1>4. Cardinality(old) \in Nat /\ PREKEY_TARGET \in Nat
  BY PrekeysAssumption, FS_CardinalityType DEF Pairs
<1> HIDE DEF h, new
<1>5. new \subseteq Prekey /\ (\A n \in new : n.id > h) /\ IdsDiffer(new)
  BY <1>1, <1>2, <1>4, SMT DEF Prekey, IdsDiffer
<1>6. \A k \in old : \A n \in new : n.id # k.id
  BY <1>1, <1>5, SMT DEF Prekey
<1>7. Cardinality(old \cup new) <= PREKEY_TARGET /\ IsFiniteSet(old \cup new)
  <2>1. old \cap new = {}
    BY <1>6
  <2>2. IsFiniteSet(old)
    BY DEF Pairs
  <2>3. IsFiniteSet(old \cup new) /\ Cardinality(old \cup new) = Cardinality(old) + Cardinality(new) - Cardinality(old \cap new)
    BY <1>3, <2>2, FS_Union
  <2>4. Cardinality(old \cap new) = 0
    BY <2>1, FS_EmptySet
  <2> QED BY <1>3, <1>4, <2>3, <2>4, SMT
<1>8. IdsDiffer(old \cup new)
  BY <1>5, <1>6 DEF IdsDiffer, Pairs
<1>9. Pairs(old \cup new)
  BY <1>5, <1>7, <1>8 DEF Pairs
<1> QED BY <1>5, <1>6, <1>9 DEF new

-----------------------------------------------------------------------------
(* The types, and that memory, the vault and what is being written to it   *)
(* stay within PREKEY_TARGET with one pair to an id.                       *)
TypeInv ==
  /\ rows \subseteq Prekey /\ IdsDiffer(rows)
  /\ fetches \subseteq [peer : Peer, row : Prekey \cup {NoKey}]
  /\ uploads \subseteq Upload
  /\ \A u \in uploads : Open(u) => IdsDiffer(u.keys)
  /\ Pairs(stored) /\ Pairs(disk) /\ \A record \in writing : Pairs(record)
  /\ topUps \subseteq TopUp
  /\ stage \in [Peer -> Stage]
  /\ bundle \in [Peer -> Prekey \cup {NoKey}]
  /\ held \in [Peer -> Prekey \cup {NoKey}]
  /\ faults \subseteq Faults
  /\ made \in Nat
  /\ torn \subseteq Nat
  /\ used \subseteq Prekey /\ reused \subseteq Prekey

(* The pair k can be opened, or its id was torn by a crash. *)
Have(k) == k \in stored \/ k.id \in torn

(* What is published, on its way to be, or handed out for a message that   *)
(* is still to be opened.                                                  *)
HaveInv ==
  /\ \A k \in rows : Have(k)
  /\ \A u \in uploads : Open(u) => \A k \in u.keys : Have(k)
  /\ \A p \in Peer : stage[p] = "sent" /\ bundle[p] # NoKey => Have(bundle[p])
  /\ \A p \in Peer : stage[p] \in {"taking", "deriving"} /\ bundle[p] # NoKey =>
       held[p] = bundle[p] \/ bundle[p].id \in torn

LEMMA RegisteredPairs == Pairs(Registered)
<1> DEFINE n == PREKEY_TARGET
           f == [i \in 1 .. n |-> [id |-> i, key |-> i]]
<1>1. n \in Nat
  BY PrekeysAssumption
<1>2. f \in Surjection(1 .. n, Registered)
  BY DEF Registered, Surjection
<1>3. IsFiniteSet(1 .. n) /\ Cardinality(1 .. n) = n
  BY <1>1, FS_Interval, SMT
<1>4. IsFiniteSet(Registered) /\ Cardinality(Registered) <= n
  <2> HIDE DEF f, n
  <2> QED BY <1>2, <1>3, FS_Surjection, SMT
<1>5. Registered \subseteq Prekey /\ IdsDiffer(Registered)
  BY <1>1, SMT DEF Registered, Prekey, IdsDiffer
<1> QED BY <1>4, <1>5 DEF Pairs

LEMMA TypeInit == Init => TypeInv /\ HaveInv
<1> SUFFICES ASSUME Init PROVE TypeInv /\ HaveInv
  OBVIOUS
<1>1. TypeInv
  BY RegisteredPairs, PrekeysAssumption DEF Init, PoolInit, TypeInv, Pairs, Stage
<1>2. HaveInv
  BY DEF Init, PoolInit, HaveInv, Have
<1> QED BY <1>1, <1>2

(* A subset of memory is within its bounds. *)
LEMMA FewerPairs ==
  ASSUME NEW S, Pairs(S), NEW T \in SUBSET S
  PROVE  Pairs(T)
<1>1. IsFiniteSet(T) /\ Cardinality(T) <= Cardinality(S) /\ Cardinality(T) \in Nat /\ Cardinality(S) \in Nat
  BY FS_Subset, FS_CardinalityType DEF Pairs
<1> QED BY <1>1, PrekeysAssumption, SMT DEF Pairs, IdsDiffer

(* Steps that leave the client's pairs and the peers' stages alone. *)
LEMMA FetchHave ==
  ASSUME TypeInv, HaveInv, HandOutInv, FetchInv, NEW p \in Peer, StartFetch(p) \/ EndFetch(p) \/ FailFetch(p)
  PROVE  TypeInv' /\ HaveInv'
<1> USE DEF poolVars, clientVars, peerVars, history
<1>1. CASE StartFetch(p)
  <2>1. PICK r \in rows \cup {NoKey} : fetches' = fetches \cup {[peer |-> p, row |-> r]}
    BY <1>1 DEF StartFetch, BeginFetchBundle
  <2>2. stage' = [stage EXCEPT ![p] = "fetching"]
        /\ UNCHANGED <<rows, uploads, stored, disk, writing, topUps, bundle, held, faults, made, torn, used, reused>>
    BY <1>1 DEF StartFetch, BeginFetchBundle
  <2>3. TypeInv'
    BY <2>1, <2>2, SMT DEF TypeInv, Stage, Open
  <2>4. HaveInv'
    BY <2>2 DEF TypeInv, HaveInv, Have, Open
  <2> QED BY <2>3, <2>4
<1>2. CASE EndFetch(p)
  <2>1. PICK f \in fetches : /\ rows' = rows \ {f.row} /\ fetches' = fetches \ {f}
                             /\ bundle' = [bundle EXCEPT ![p] = f.row]
    BY <1>2 DEF EndFetch, CommitFetchBundle
  <2>2. stage' = [stage EXCEPT ![p] = "sent"]
        /\ UNCHANGED <<uploads, stored, disk, writing, topUps, held, faults, made, torn, used, reused>>
    BY <1>2 DEF EndFetch, CommitFetchBundle
  <2>3. f.row \in Prekey \cup {NoKey} /\ (f.row = NoKey \/ f.row \in rows)
    BY DEF TypeInv, HandOutInv, PoolInv
  <2>4. TypeInv'
    BY <2>1, <2>2, <2>3 DEF TypeInv, Stage, Open, IdsDiffer
  <2>5. HaveInv'
    BY <2>1, <2>2, <2>3 DEF TypeInv, HaveInv, Have, Open
  <2> QED BY <2>4, <2>5
<1>3. CASE FailFetch(p)
  <2>1. stage' = [stage EXCEPT ![p] = "new"] /\ fetches' \subseteq fetches
        /\ faults' \subseteq Faults
        /\ UNCHANGED <<rows, uploads, stored, disk, writing, topUps, bundle, held, made, torn, used, reused>>
    BY <1>3 DEF FailFetch, AbortFetchBundle, Fault, TypeInv
  <2>2. TypeInv'
    BY <2>1 DEF TypeInv, Stage, Open
  <2>3. HaveInv'
    BY <2>1 DEF TypeInv, HaveInv, Have, Open
  <2> QED BY <2>2, <2>3
<1> QED BY <1>1, <1>2, <1>3

(* An upload goes on, or ends without adding its keys. *)
LEMMA UploadHave ==
  ASSUME TypeInv, HaveInv, NEW u \in uploads, CountUpload(u) \/ FailUpload(u)
  PROVE  TypeInv' /\ HaveInv'
<1> USE DEF poolVars, clientVars, peerVars, history
<1> DEFINE counted == [u EXCEPT !.seen = u.seen \cap rows, !.step = "counted"]
           failed == [u EXCEPT !.seen = {}, !.step = "failed"]
<1>1. u \in Upload
  BY DEF TypeInv
<1>2. /\ counted \in Upload /\ counted.keys = u.keys
      /\ failed \in Upload /\ failed.step = "failed"
  BY <1>1 DEF Upload, UploadStep
<1>3. Open(u) /\ \E v \in {counted, failed} : uploads' = (uploads \ {u}) \cup {v}
  BY DEF CountUpload, CountPrekeys, FailUpload, AbortAddOneTimePrekeys, Open
<1>4. faults' \subseteq Faults
      /\ UNCHANGED <<rows, fetches, stored, disk, writing, topUps, stage, bundle, held, made, torn, used, reused>>
  BY DEF CountUpload, CountPrekeys, FailUpload, AbortAddOneTimePrekeys, Fault, TypeInv
<1> HIDE DEF counted, failed
<1>5. TypeInv'
  BY <1>2, <1>3, <1>4 DEF TypeInv, Open
<1>6. HaveInv'
  BY <1>2, <1>3, <1>4 DEF HaveInv, Have, Open
<1> QED BY <1>5, <1>6

LEMMA CommitHave ==
  ASSUME TypeInv, HaveInv, NEW u \in uploads, CommitUpload(u)
  PROVE  TypeInv' /\ HaveInv'
<1> USE DEF poolVars, clientVars, peerVars, history
<1> DEFINE v == [u EXCEPT !.seen = {}, !.step = "added"]
<1>1. u \in Upload /\ u.keys \subseteq Prekey
  BY DEF TypeInv, Upload
<1>2. v \in Upload /\ v.step = "added"
  BY <1>1 DEF Upload, UploadStep
<1>3. /\ Open(u) /\ uploads' = (uploads \ {u}) \cup {v}
      /\ rows' = rows \cup {k \in u.keys : \A r \in rows : r.id # k.id /\ r.key # k.key}
  BY DEF CommitUpload, CommitAddOneTimePrekeys, Open
<1>4. UNCHANGED <<fetches, stored, disk, writing, topUps, stage, bundle, held, faults, made, torn, used, reused>>
  BY DEF CommitUpload, CommitAddOneTimePrekeys
<1> HIDE DEF v
<1>5. rows' \subseteq Prekey /\ IdsDiffer(rows')
  BY <1>1, <1>3 DEF TypeInv, IdsDiffer
<1>6. TypeInv'
  BY <1>2, <1>3, <1>4, <1>5 DEF TypeInv, Open
<1>7. HaveInv'
  BY <1>2, <1>3, <1>4 DEF HaveInv, Have, Open
<1> QED BY <1>6, <1>7

(* takeOneTimePrekey takes the pair of the bundle, which nobody else has   *)
(* been given, or one under an id that was torn.                           *)
LEMMA OpenHave ==
  ASSUME TypeInv, HaveInv, HandOutInv, NEW p \in Peer, OpenInitial(p)
  PROVE  TypeInv' /\ HaveInv'
<1> USE DEF poolVars, clientVars, peerVars, history
<1>1. UNCHANGED <<rows, fetches, uploads, disk, writing, topUps, bundle, faults, made, torn, used, reused>>
      /\ stage[p] = "sent"
  BY DEF OpenInitial
<1>2. CASE UNCHANGED <<stored, held>> /\ stage' = [stage EXCEPT ![p] = "refused"]
  <2>1. TypeInv'
    BY <1>1, <1>2 DEF TypeInv, Stage, Open
  <2>2. HaveInv'
    BY <1>1, <1>2 DEF TypeInv, HaveInv, Have, Open
  <2> QED BY <2>1, <2>2
<1>3. CASE bundle[p] = NoKey /\ UNCHANGED <<stored, held>> /\ stage' = [stage EXCEPT ![p] = "deriving"]
  <2>1. TypeInv'
    BY <1>1, <1>3 DEF TypeInv, Stage, Open
  <2>2. HaveInv'
    BY <1>1, <1>3 DEF TypeInv, HaveInv, Have, Open
  <2> QED BY <2>1, <2>2
<1>4. ASSUME bundle[p] # NoKey, NEW k \in stored, k.id = bundle[p].id, stored' = stored \ {k},
             held' = [held EXCEPT ![p] = k], stage' = [stage EXCEPT ![p] = "taking"]
      PROVE  TypeInv' /\ HaveInv'
  <2>1. Pairs(stored')
    BY <1>4, FewerPairs DEF TypeInv
  <2>2. k \in Prekey
    BY DEF TypeInv, Pairs
  <2>3. TypeInv'
    BY <1>1, <1>4, <2>1, <2>2 DEF TypeInv, Stage, Open
  <2>4. k = bundle[p] \/ k.id \in torn
    BY <1>1, <1>4 DEF HaveInv, Have, TypeInv, Pairs, IdsDiffer
  <2>5. ASSUME NEW x, Have(x), x = k => k.id \in torn PROVE Have(x)'
    BY <1>1, <1>4, <2>5 DEF Have
  <2>6. \A x \in rows : x = k => k.id \in torn
    BY <2>4 DEF HandOutInv, PoolInv
  <2>7. \A u \in uploads : Open(u) => \A x \in u.keys : x = k => k.id \in torn
    BY <2>4 DEF HandOutInv, UploadInv
  <2>8. \A q \in Peer : q # p /\ bundle[q] # NoKey /\ bundle[q] = k => k.id \in torn
    BY <2>4 DEF HandOutInv, PoolInv, HandedOutOnce
  <2>9. /\ \A q \in Peer : stage'[q] = IF q = p THEN "taking" ELSE stage[q]
        /\ \A q \in Peer : held'[q] = IF q = p THEN k ELSE held[q]
    BY <1>4 DEF TypeInv
  <2>10. /\ \A x \in rows' : Have(x)'
         /\ \A u \in uploads' : Open(u) => \A x \in u.keys : Have(x)'
    BY <1>1, <2>5, <2>6, <2>7 DEF HaveInv
  <2>11. \A q \in Peer : stage'[q] = "sent" /\ bundle'[q] # NoKey => Have(bundle[q])'
    BY <1>1, <2>5, <2>8, <2>9 DEF HaveInv
  <2>12. \A q \in Peer : stage'[q] \in {"taking", "deriving"} /\ bundle'[q] # NoKey =>
            held'[q] = bundle'[q] \/ bundle'[q].id \in torn'
    BY <1>1, <1>4, <2>4, <2>9 DEF HaveInv
  <2>13. HaveInv'
    BY <1>1, <2>10, <2>11, <2>12 DEF HaveInv, Have, Open
  <2> QED BY <2>3, <2>13
<1> QED BY <1>2, <1>3, <1>4 DEF OpenInitial

(* The top-up keeps every pair in memory: its ids follow the highest.      *)
LEMMA AcceptHave ==
  ASSUME TypeInv, HaveInv, NEW p \in Peer, Accept(p)
  PROVE  TypeInv' /\ HaveInv'
<1> USE DEF poolVars, clientVars, peerVars, history
<1>1. /\ UNCHANGED <<disk, saves, writing, bundle, faults, torn, used, reused>>
      /\ stage' = [stage EXCEPT ![p] = "accepted"] /\ held' = [held EXCEPT ![p] = NoKey]
  BY DEF Accept
<1>2. stage' \in [Peer -> Stage] /\ held' \in [Peer -> Prekey \cup {NoKey}]
  BY <1>1 DEF TypeInv, Stage
<1>3. \A q \in Peer : /\ stage'[q] = IF q = p THEN "accepted" ELSE stage[q]
                      /\ held'[q] = IF q = p THEN NoKey ELSE held[q]
  BY <1>1 DEF TypeInv
<1>4. CASE UNCHANGED <<rows, fetches, uploads, stored, topUps, made>>
  <2>1. TypeInv'
    BY <1>1, <1>2, <1>4 DEF TypeInv, Open
  <2>2. HaveInv'
    BY <1>1, <1>3, <1>4, SMT DEF HaveInv, Have, Open
  <2> QED BY <2>1, <2>2
<1>5. CASE ~UNCHANGED <<rows, fetches, uploads, stored, topUps, made>>
  <2> DEFINE new == Generated(stored)
             u == [keys |-> new, seen |-> rows, step |-> "waiting"]
             t == [keys |-> new, step |-> "uploading"]
  <2>1. ~(Cardinality(stored) > PREKEY_LOW_WATER)
    BY <1>5 DEF Accept, ReplenishPrekeys
  <2>2. Pairs(stored) /\ Cardinality(stored) \in Nat /\ made \in Nat
    BY FS_CardinalityType DEF TypeInv, Pairs
  <2>3. Cardinality(stored) <= PREKEY_LOW_WATER
    BY <2>1, <2>2, PrekeysAssumption, SMT
  <2>4. /\ new \subseteq Prekey
        /\ IdsDiffer(new)
        /\ {k \in stored : \A n \in new : n.id # k.id} = stored
        /\ Pairs(stored \cup new)
    BY <2>2, <2>3, GeneratedFits
  <2>5. Cardinality(new) \in Nat
    BY <2>2, <2>3, GeneratedIsFresh DEF Pairs
  <2>6. /\ stored' = {k \in stored : \A n \in new : n.id # k.id} \cup new
        /\ made' = made + Cardinality(new)
        /\ uploads' = uploads \cup {u}
        /\ topUps' = topUps \cup {t}
        /\ UNCHANGED <<rows, fetches>>
    BY <2>1 DEF Accept, ReplenishPrekeys, BeginAddOneTimePrekeys
  <2>7. u \in Upload /\ u.keys = new /\ t \in TopUp
    BY <2>4 DEF TypeInv, Upload, UploadStep, TopUp
  <2> HIDE DEF new, u, t
  <2>8. stored' = stored \cup new
    BY <2>4, <2>6
  <2>9. TypeInv'
    <3>1. uploads' \subseteq Upload /\ \A v \in uploads' : Open(v) => IdsDiffer(v.keys)
      BY <2>4, <2>6, <2>7 DEF TypeInv
    <3>2. topUps' \subseteq TopUp /\ made' \in Nat
      BY <2>2, <2>5, <2>6, <2>7, SMT DEF TypeInv
    <3>3. Pairs(stored')
      BY <2>4, <2>8
    <3> QED BY <1>1, <1>2, <2>6, <3>1, <3>2, <3>3 DEF TypeInv, Open
  <2>10. HaveInv'
    BY <1>1, <1>3, <2>6, <2>7, <2>8, SMT DEF HaveInv, Have, Open
  <2> QED BY <2>9, <2>10
<1> QED BY <1>4, <1>5

(* What memory had and the vault had not is torn. *)
LEMMA CrashHave ==
  ASSUME TypeInv, HaveInv, Crash
  PROVE  TypeInv' /\ HaveInv'
<1> USE DEF poolVars, clientVars, peerVars, history
<1>1. /\ UNCHANGED <<rows, fetches, uploads, disk, bundle, made, used, reused>>
      /\ stored' = disk /\ writing' = {} /\ topUps' = {} /\ faults' \subseteq Faults
      /\ stage' = [p \in Peer |-> IF stage[p] \in {"taking", "deriving"} THEN "sent" ELSE stage[p]]
      /\ held' = [p \in Peer |-> NoKey]
      /\ torn' = torn \cup {k.id : k \in (stored \cup InHand) \ disk}
  BY DEF Crash, Fault, TypeInv
<1>2. InHand \subseteq Prekey \cup {NoKey} /\ stored \subseteq Prekey
  BY SMT DEF InHand, TypeInv, Pairs
<1>3. torn' \subseteq Nat
  <2>1. \A k \in Prekey \cup {NoKey} : k.id \in Nat
    BY SMT DEF Prekey, NoKey
  <2>2. torn \subseteq Nat
    BY DEF TypeInv
  <2> QED BY <1>1, <1>2, <2>1, <2>2
<1>4. stage' \in [Peer -> Stage]
  BY <1>1 DEF TypeInv, Stage
<1>5. TypeInv'
  BY <1>1, <1>3, <1>4 DEF TypeInv, Open
<1>6. ASSUME NEW x, Have(x) PROVE Have(x)'
  BY <1>1, <1>6 DEF Have
<1>7. ASSUME NEW q \in Peer, stage'[q] = "sent", bundle'[q] # NoKey PROVE Have(bundle[q])'
  <2>1. CASE stage[q] = "sent"
    BY <1>1, <1>6, <1>7, <2>1 DEF HaveInv
  <2>2. CASE stage[q] \in {"taking", "deriving"}
    <3>1. held[q] = bundle[q] \/ bundle[q].id \in torn
      BY <1>1, <1>7, <2>2 DEF HaveInv
    <3>2. held[q] \in InHand
      BY <2>2 DEF InHand
    <3> QED BY <1>1, <3>1, <3>2 DEF Have
  <2> QED BY <1>1, <1>7, <2>1, <2>2
<1>8. \A q \in Peer : stage'[q] \notin {"taking", "deriving"}
  BY <1>1
<1>9. /\ \A x \in rows' : Have(x)'
      /\ \A u \in uploads' : Open(u) => \A x \in u.keys : Have(x)'
  BY <1>1, <1>6 DEF HaveInv
<1>10. HaveInv'
  BY <1>1, <1>7, <1>8, <1>9 DEF HaveInv, Have, Open
<1> QED BY <1>5, <1>10

LEMMA EndSaveHave ==
  ASSUME TypeInv, HaveInv, UsedInv, EndSave
  PROVE  TypeInv' /\ HaveInv'
<1> USE DEF poolVars, clientVars, peerVars, history
<1>1. /\ UNCHANGED <<rows, fetches, uploads, stored, bundle, held, faults, made, torn>>
      /\ disk' \in writing /\ writing' = {}
  BY DEF EndSave
<1>2. CASE topUps' \subseteq topUps /\ UNCHANGED <<stage, used, reused>>
  <2>1. TypeInv'
    BY <1>1, <1>2 DEF TypeInv, Open
  <2>2. HaveInv'
    BY <1>1, <1>2 DEF HaveInv, Have, Open
  <2> QED BY <2>1, <2>2
<1>3. ASSUME NEW p \in Peer, Head(saves) = ForPeer(p),
             stage' = [stage EXCEPT ![p] = "deriving"],
             used' = used \cup {held[p]},
             reused' = reused \cup (used \cap {held[p]}), UNCHANGED topUps
      PROVE  TypeInv' /\ HaveInv'
  <2>1. 1 \in 1 .. Len(saves) /\ Head(saves) = saves[1]
    BY SMT DEF EndSave, UsedInv, SaveInv
  <2>2. stage[p] = "taking"
    BY <1>3, <2>1 DEF UsedInv, SaveInv
  <2>3. held[p].key \in 1 .. made /\ held[p] \in Prekey \cup {NoKey} /\ NoKey.key = 0
    BY <2>2 DEF UsedInv, TakenInv, TypeInv, NoKey
  <2>4. held[p] \in Prekey
    BY <2>3, SMT
  <2>5. TypeInv'
    BY <1>1, <1>3, <2>4 DEF TypeInv, Open, Stage
  <2>6. \A q \in Peer : stage'[q] = IF q = p THEN "deriving" ELSE stage[q]
    BY <1>3 DEF TypeInv
  <2>7. HaveInv'
    BY <1>1, <2>2, <2>6 DEF HaveInv, Have, Open
  <2> QED BY <2>5, <2>7
<1>4. \/ topUps' \subseteq topUps /\ UNCHANGED <<stage, used, reused>>
      \/ \E p \in Peer : /\ Head(saves) = ForPeer(p)
                         /\ stage' = [stage EXCEPT ![p] = "deriving"]
                         /\ used' = used \cup {held[p]}
                         /\ reused' = reused \cup (used \cap {held[p]})
                         /\ UNCHANGED topUps
  BY DEF EndSave
<1> QED BY <1>2, <1>3, <1>4

LEMMA HaveStep ==
  ASSUME HandOutInv, FetchInv, UsedInv, TypeInv, HaveInv, [Next]_vars
  PROVE  TypeInv' /\ HaveInv'
<1> USE DEF poolVars, clientVars, peerVars, history
<1>1. ASSUME NEW p \in Peer, Abandon(p) \/ Refuse(p) PROVE TypeInv' /\ HaveInv'
  <2>1. /\ UNCHANGED <<rows, fetches, uploads, stored, disk, writing, topUps, bundle, made, torn, used, reused>>
        /\ faults' \subseteq Faults
        /\ held' \in [Peer -> Prekey \cup {NoKey}]
        /\ \A q \in Peer : q # p => held'[q] = held[q]
        /\ \E to \in {"abandoned", "refused"} : stage' = [stage EXCEPT ![p] = to]
    BY <1>1 DEF Abandon, Refuse, Fault, TypeInv
  <2>2. TypeInv'
    BY <2>1 DEF TypeInv, Stage, Open
  <2>3. HaveInv'
    BY <2>1 DEF TypeInv, HaveInv, Have, Open
  <2> QED BY <2>2, <2>3
<1>2. ASSUME UNCHANGED <<rows, fetches, stored, disk, stage, bundle, held, made, torn, used, reused>>,
             writing' = writing \/ writing' = {stored}, uploads' \subseteq uploads,
             topUps' \subseteq TopUp, faults' \subseteq Faults
      PROVE  TypeInv' /\ HaveInv'
  <2>1. TypeInv'
    BY <1>2 DEF TypeInv, Open
  <2>2. HaveInv'
    BY <1>2 DEF HaveInv, Have, Open
  <2> QED BY <2>1, <2>2
<1>3. CASE StartSave
  BY <1>2, <1>3 DEF StartSave, TypeInv
<1>4. CASE TopUpStep
  <2>1. PICK t \in topUps : Uploaded(t) \/ UploadFailed(t)
    BY <1>4 DEF TopUpStep
  <2>2. [t EXCEPT !.step = "saving"] \in TopUp /\ topUps \subseteq TopUp /\ faults \subseteq Faults
    BY DEF TypeInv, TopUp
  <2>3. topUps' \subseteq TopUp
    BY <2>1, <2>2 DEF Uploaded, UploadFailed
  <2>4. faults' \subseteq Faults
    BY <2>1, <2>2 DEF Uploaded, UploadFailed, Fault
  <2>5. /\ UNCHANGED <<rows, fetches, stored, disk, writing, stage, bundle, held, made, torn, used, reused>>
        /\ uploads' \subseteq uploads
    BY <2>1 DEF Uploaded, UploadFailed
  <2> QED BY <1>2, <2>3, <2>4, <2>5
<1>5. CASE UNCHANGED vars
  BY <1>2, <1>5 DEF vars, TypeInv
<1> QED
  BY <1>1, <1>3, <1>4, <1>5, FetchHave, UploadHave, CommitHave, OpenHave, AcceptHave, CrashHave, EndSaveHave
  DEF Next, PeerStep, ClientStep, UploadStepOf

LEMMA PrekeysInvariant == Spec => [](TypeInv /\ HaveInv)
<1>1. Init => FetchInv
  BY DEF Init, PoolInit, FetchInv
<1> QED
  BY <1>1, HandOutInit, HandOutStep, FetchStep, UsedInit, UsedStep, TypeInit, HaveStep, PTL DEF Spec

(* Memory never holds more than PREKEY_TARGET pairs, nor two under an id,  *)
(* and neither does the server's table, whatever overlaps.                 *)
THEOREM PrekeyIdsAreUnique == Spec => []PrekeysTypeOK
<1>1. TypeInv => PrekeysTypeOK
  <2> SUFFICES ASSUME TypeInv PROVE PrekeysTypeOK
    OBVIOUS
  <2>1. PoolTypeOK
    BY DEF TypeInv, PoolTypeOK, Upload
  <2>2. \A t \in topUps : t.keys \subseteq Prekey /\ t.step \in {"uploading", "saving"}
    BY DEF TypeInv, TopUp
  <2> QED BY <2>1, <2>2, SMT DEF TypeInv, PrekeysTypeOK, Pairs, IdsDiffer
<1> QED
  BY <1>1, PrekeysInvariant, PTL

(* What the server offers or has handed out for a message to come, the     *)
(* client can open, except under ids that a crash tore: replenishPrekeys   *)
(* has the pairs in memory before it uploads them, under ids that follow   *)
(* the highest one left, and takeOneTimePrekey takes what was handed out.  *)
THEOREM OfferedPairsAreHeld == Spec => []PublishedKeysHeld
<1>1. HaveInv => PublishedKeysHeld
  BY DEF HaveInv, Have, PublishedKeysHeld
<1> QED
  BY <1>1, PrekeysInvariant, PTL
=============================================================================
