-------------------------- MODULE OnboardingProofs --------------------------
(***************************************************************************)
(* A nonce buys one token, a stored identity is registered, the vault at   *)
(* rest opens, the account on screen is the stored one and no address gets *)
(* more than its share, for any number of tabs, requests, repetitions and  *)
(* faults.                                                                 *)
(*                                                                         *)
(* Why: a nonce is a challenge, in the one handler that deleted it, or in  *)
(* a token.  While no two calls race, one tab writes the vault, and the    *)
(* step it is at says what is stored; another tab that shows the account,  *)
(* or is about to, found it there and nobody creates over it.              *)
(***************************************************************************)
EXTENDS Onboarding, TLAPS

(* Every step is tried with Zenon, except those that name another prover. *)
USE Zenon

(* The rate limiter, on its own. *)

Bucket == [units : 0 .. Capacity, last : Time]

LimiterTypeOK ==
  /\ now \in Time
  /\ buckets \in [Address -> Bucket]
  /\ \A a \in Address : buckets[a].last <= now
  /\ spent \in [Address -> [Time -> Nat]]

(* What an address has spent since an instant and what it could still      *)
(* spend now come to no more than a full bucket and the refill since then. *)
(* Nothing is booked at instants still to come.                            *)
Balanced ==
  \A a \in Address : \A s \in Time :
    /\ s <= now => spent[a][s] + Refilled(buckets[a]) <= Capacity + (now - s)
    /\ s > now => spent[a][s] = 0

LimiterInv == LimiterTypeOK /\ Balanced

LEMMA RefilledBounds ==
  ASSUME LimiterTypeOK, NEW a \in Address
  PROVE  /\ buckets[a].units \in 0 .. Capacity
         /\ buckets[a].last \in Time
         /\ buckets[a].last <= now
         /\ Refilled(buckets[a]) \in 0 .. Capacity
BY RateLimitAssumption, SMT DEF LimiterTypeOK, Refilled, Bucket, Time

(* A bucket just written holds what was written. *)
LEMMA LimiterInitInv == LimiterInit => LimiterInv
BY RateLimitAssumption, SMT DEF LimiterInit, LimiterInv, LimiterTypeOK, Balanced, Refilled, Bucket, Time

LEMMA TickInv == LimiterInv /\ Tick => LimiterInv'
<1> SUFFICES ASSUME LimiterInv, Tick PROVE LimiterInv'
  OBVIOUS
<1> USE RateLimitAssumption DEF Tick, Time
<1>1. LimiterTypeOK'
  BY SMT DEF LimiterInv, LimiterTypeOK, Bucket
<1>2. ASSUME NEW a \in Address, NEW s \in Time
      PROVE  /\ s <= now' => spent'[a][s] + (Refilled(buckets[a]))' <= Capacity + (now' - s)
             /\ s > now' => spent'[a][s] = 0
  <2>1. (Refilled(buckets[a]))' <= Refilled(buckets[a]) + 1 /\ (Refilled(buckets[a]))' \in 0 .. Capacity
    <3>1. /\ buckets[a].units \in 0 .. Capacity
          /\ buckets[a].last \in Time
          /\ buckets[a].last <= now
      BY RefilledBounds DEF LimiterInv
    <3>2. buckets'[a] = buckets[a] /\ now \in Time
      BY DEF LimiterInv, LimiterTypeOK
    <3> QED
      BY <3>1, <3>2, SMT DEF Refilled
  <2>2. spent[a][s] \in Nat /\ Refilled(buckets[a]) \in Nat
    BY RefilledBounds, SMT DEF LimiterInv, LimiterTypeOK
  <2> QED
    BY <2>1, <2>2, SMT DEF LimiterInv, LimiterTypeOK, Balanced
<1> QED
  BY <1>1, <1>2 DEF LimiterInv, Balanced

LEMMA AllowInv == ASSUME LimiterInv, NEW c \in Address, Allow(c) PROVE LimiterInv'
<1> USE RateLimitAssumption DEF Time
<1> DEFINE left == Refilled(buckets[c])
<1>1. left \in 0 .. Capacity /\ left - Cost \in 0 .. Capacity /\ now \in Time
  BY RefilledBounds, SMT DEF LimiterInv, LimiterTypeOK, Allow
<1>2. now' = now /\ buckets'[c] = [units |-> left - Cost, last |-> now]
  BY DEF Allow, LimiterInv, LimiterTypeOK
<1>3. ASSUME NEW a \in Address, a # c
      PROVE  buckets'[a] = buckets[a] /\ spent'[a] = spent[a]
  BY <1>3 DEF Allow, LimiterInv, LimiterTypeOK
<1>4. ASSUME NEW s \in Time
      PROVE  spent'[c][s] = IF s <= now THEN spent[c][s] + Cost ELSE spent[c][s]
  BY DEF Allow, LimiterInv, LimiterTypeOK
<1>5. LimiterTypeOK'
  <2>1. [units |-> left - Cost, last |-> now] \in Bucket
    BY <1>1 DEF Bucket
  <2>2. buckets' \in [Address -> Bucket]
    BY <2>1 DEF Allow, LimiterInv, LimiterTypeOK
  <2>3. ASSUME NEW a \in Address PROVE buckets'[a].last <= now'
    <3>1. CASE a = c
      BY <1>1, <1>2, <3>1, SMT
    <3>2. CASE a # c
      BY <1>2, <1>3, <3>2 DEF LimiterInv, LimiterTypeOK
    <3> QED
      BY <3>1, <3>2
  <2>4. spent' \in [Address -> [Time -> Nat]]
    BY SMT DEF Allow, LimiterInv, LimiterTypeOK
  <2> QED
    BY <1>1, <1>2, <2>2, <2>3, <2>4 DEF LimiterTypeOK
<1>6. ASSUME NEW a \in Address, NEW s \in Time
      PROVE  /\ s <= now' => spent'[a][s] + (Refilled(buckets[a]))' <= Capacity + (now' - s)
             /\ s > now' => spent'[a][s] = 0
  <2>1. spent[a][s] \in Nat /\ Refilled(buckets[a]) \in Nat
    BY RefilledBounds, SMT DEF LimiterInv, LimiterTypeOK
  <2>2. /\ s <= now => spent[a][s] + Refilled(buckets[a]) <= Capacity + (now - s)
        /\ s > now => spent[a][s] = 0
    BY DEF LimiterInv, Balanced
  <2>3. CASE a # c
    <3>1. (Refilled(buckets[a]))' = Refilled(buckets[a])
      BY <1>2, <1>3, <2>3 DEF Refilled
    <3> QED
      BY <1>2, <1>3, <2>2, <2>3, <3>1
  <2>4. CASE a = c
    <3>1. (Refilled(buckets[a]))' = left - Cost
      BY <1>1, <1>2, <2>4, SMT DEF Refilled
    <3> QED
      BY <1>1, <1>2, <1>4, <2>1, <2>2, <2>4, <3>1, SMT
  <2> QED
    BY <2>3, <2>4
<1> QED
  BY <1>5, <1>6 DEF LimiterInv, Balanced

LEMMA DenyInv == ASSUME LimiterInv, NEW c \in Address, Deny(c) PROVE LimiterInv'
<1> USE RateLimitAssumption DEF Time
<1> DEFINE left == Refilled(buckets[c])
<1>1. left \in 0 .. Capacity /\ now \in Time
  BY RefilledBounds DEF LimiterInv, LimiterTypeOK
<1>2. now' = now /\ spent' = spent /\ buckets'[c] = [units |-> left, last |-> now]
  BY DEF Deny, LimiterInv, LimiterTypeOK
<1>3. ASSUME NEW a \in Address, a # c
      PROVE  buckets'[a] = buckets[a]
  BY <1>3 DEF Deny, LimiterInv, LimiterTypeOK
<1>4. LimiterTypeOK'
  <2>1. [units |-> left, last |-> now] \in Bucket
    BY <1>1 DEF Bucket
  <2>2. buckets' \in [Address -> Bucket]
    BY <2>1 DEF Deny, LimiterInv, LimiterTypeOK
  <2>3. ASSUME NEW a \in Address PROVE buckets'[a].last <= now'
    <3>1. CASE a = c
      BY <1>1, <1>2, <3>1, SMT
    <3>2. CASE a # c
      BY <1>2, <1>3, <3>2 DEF LimiterInv, LimiterTypeOK
    <3> QED
      BY <3>1, <3>2
  <2> QED
    BY <1>1, <1>2, <2>2, <2>3 DEF LimiterTypeOK, LimiterInv
<1>5. ASSUME NEW a \in Address
      PROVE  (Refilled(buckets[a]))' = Refilled(buckets[a])
  <2>1. CASE a # c
    BY <1>2, <1>3, <2>1 DEF Refilled
  <2>2. CASE a = c
    BY <1>1, <1>2, <2>2, SMT DEF Refilled
  <2> QED
    BY <2>1, <2>2
<1>6. Balanced'
  BY <1>2, <1>5 DEF LimiterInv, Balanced
<1> QED
  BY <1>4, <1>6 DEF LimiterInv

LEMMA LimiterStepInv == LimiterInv /\ [LimiterNext]_limiter => LimiterInv'
<1> SUFFICES ASSUME LimiterInv, [LimiterNext]_limiter PROVE LimiterInv'
  OBVIOUS
<1>1. CASE Tick
  BY <1>1, TickInv
<1>2. ASSUME NEW a \in Address, Allow(a) \/ Deny(a) PROVE LimiterInv'
  BY <1>2, AllowInv, DenyInv
<1>3. CASE UNCHANGED limiter
  BY <1>3 DEF LimiterInv, LimiterTypeOK, Balanced, Refilled, limiter
<1> QED
  BY <1>1, <1>2, <1>3 DEF LimiterNext

LEMMA BalancedBoundsWindow == LimiterInv => WindowBounded
<1> SUFFICES ASSUME LimiterInv, NEW a \in Address, NEW s \in Time, s <= now
             PROVE  spent[a][s] <= Capacity + (now - s)
  BY DEF WindowBounded
<1>1. Refilled(buckets[a]) \in 0 .. Capacity /\ spent[a][s] \in Nat /\ now \in Time
  BY RefilledBounds DEF LimiterInv, LimiterTypeOK
<1> QED
  BY <1>1, RateLimitAssumption, SMT DEF LimiterInv, Balanced, Time

(* In any window an address gets through no more than a burst and the      *)
(* refill of the window (Limiter.Allow), whatever the rate, the burst, the *)
(* addresses and the order of their requests.                              *)
THEOREM WindowTheorem == LimiterSpec => []WindowBounded
BY BalancedBoundsWindow, LimiterInitInv, LimiterStepInv, PTL DEF LimiterSpec

(* A request is charged to the address the outermost proxy saw, whatever   *)
(* header it came with (clientIP).                                         *)
THEOREM OwnBucket ==
  ASSUME NEW a \in Address, NEW header \in Seq(Address)
  PROVE  ClientIP(PeerAddress(a), Forwarded(a, header)) = a
<1> USE RateLimitAssumption
<1>1. CASE TrustedProxies = 0
  BY <1>1 DEF ClientIP, PeerAddress, Forwarded
<1>2. CASE TrustedProxies # 0
  <2> DEFINE tail == [i \in 1 .. TrustedProxies - 1 |-> Proxy(i)]
             chain == header \o <<a>> \o tail
             S == Address \cup {Proxy(i) : i \in 1 .. TrustedProxies - 1}
  <2>1. tail \in Seq(S) /\ Len(tail) = TrustedProxies - 1
    BY <1>2, SMT
  <2>2. /\ Len(chain) = Len(header) + TrustedProxies
        /\ chain[Len(header) + 1] = a
        /\ Len(header) \in Nat
    <3> DEFINE first == header \o <<a>>
    <3>1. /\ first \in Seq(S)
          /\ Len(first) = Len(header) + 1
          /\ first[Len(header) + 1] = a
          /\ Len(header) \in Nat
      BY SMT
    <3> HIDE DEF first, tail, S
    <3>2. Len(first \o tail) = Len(first) + Len(tail)
      BY <2>1, <3>1, SMT
    <3>3. (first \o tail)[Len(header) + 1] = first[Len(header) + 1]
      <4>1. Len(header) + 1 \in 1 .. Len(first)
        BY <3>1, SMT
      <4>2. \A i \in 1 .. Len(first) : (first \o tail)[i] = first[i]
        BY <2>1, <3>1, SMT
      <4> QED
        BY <4>1, <4>2
    <3> QED
      BY <1>2, <2>1, <3>1, <3>2, <3>3, SMT DEF first
  <2>3. Forwarded(a, header) = chain
    BY <1>2 DEF Forwarded
  <2> HIDE DEF chain
  <2> QED
    BY <1>2, <2>2, <2>3, SMT DEF ClientIP
<1> QED
  BY <1>1, <1>2

-----------------------------------------------------------------------------
(* Challenges, tokens and the stored identity. *)

Field == {"step", "account", "nonce"}

(* The tabs know no nonce that was not drawn, and a tab that is about to   *)
(* save an identity has registered it.                                     *)
TabInv ==
  /\ DOMAIN tabs = Tab
  /\ \A i \in Tab :
       /\ Field \subseteq DOMAIN tabs[i]
       /\ tabs[i].nonce \in 0 .. nonces
       /\ tabs[i].step = "saving" => tabs[i].account \in accounts

DiskInv == "identity" \in DOMAIN disk /\ IdentityRegistered

(* A nonce is in one place: a challenge, a handler that has consumed it,   *)
(* or a token.                                                             *)
NonceInv ==
  /\ nonces \in Nat
  /\ \A c \in challenges : c.nonce \in 0 .. nonces
  /\ \A t \in tokens : t.nonce \in 0 .. nonces
  /\ \A h \in handlers :
       {"tab", "nonce", "step"} \subseteq DOMAIN h /\ h.tab \in Tab /\ h.nonce \in 0 .. nonces
  /\ \A c, d \in challenges : c.nonce = d.nonce => c = d
  /\ \A c \in challenges : \A t \in tokens : c.nonce # t.nonce
  /\ \A h \in handlers : h.step = "issue" =>
       /\ \A c \in challenges : c.nonce # h.nonce
       /\ \A t \in tokens : t.nonce # h.nonce
       /\ \A g \in handlers : g.step = "issue" /\ g.nonce = h.nonce => g = h
  /\ NonceBuysOneToken

OnboardingInv == TabInv /\ DiskInv /\ NonceInv

LEMMA FreshTabFields ==
  /\ Field \subseteq DOMAIN FreshTab
  /\ FreshTab.nonce = 0
  /\ FreshTab.step = "idle"
  /\ FreshTab.account = 0
BY DEF FreshTab, Field

LEMMA OnboardingInit == Init => OnboardingInv
<1> SUFFICES ASSUME Init PROVE OnboardingInv
  OBVIOUS
<1>1. TabInv
  BY FreshTabFields, SMT DEF Init, AccountsInit, TabInv
<1>2. DiskInv
  BY DEF Init, EmptyDisk, DiskInv, IdentityRegistered
<1>3. NonceInv
  BY DEF Init, AccountsInit, NonceInv, NonceBuysOneToken
<1> QED
  BY <1>1, <1>2, <1>3 DEF OnboardingInv

(* A tab whose call ends, goes on without saving, or fails. *)
LEMMA RestsStep ==
  ASSUME TabInv, NonceInv, NEW i \in Tab, NEW phase, Rests(i, phase), UNCHANGED <<accounts, nonces>>
  PROVE  TabInv'
<1> DEFINE r == [FreshTab EXCEPT !.phase = phase]
<1>1. Field \subseteq DOMAIN r /\ r.nonce = 0 /\ r.step = "idle"
  BY FreshTabFields DEF Field
<1>2. tabs' = [tabs EXCEPT ![i] = r]
  BY DEF Rests
<1>3. nonces \in Nat /\ nonces' = nonces /\ accounts' = accounts
  BY DEF NonceInv
<1> HIDE DEF r
<1> QED
  BY <1>1, <1>2, <1>3, SMT DEF TabInv

LEMMA GoesStep ==
  ASSUME TabInv, NonceInv, NEW i \in Tab, NEW step, step # "saving", Goes(i, step), UNCHANGED <<accounts, nonces>>
  PROVE  TabInv'
BY DEF Goes, TabInv, NonceInv, Field

LEMMA FailsStep ==
  ASSUME TabInv, NonceInv, NEW i \in Tab, Fails(i), accounts \subseteq accounts',
         nonces' \in {nonces, nonces + 1}
  PROVE  TabInv'
<1> DEFINE r == [FreshTab EXCEPT !.phase = "unlocking"]
           s == [tabs[i] EXCEPT !.step = "listing"]
<1>1. Field \subseteq DOMAIN r /\ r.nonce = 0 /\ r.step = "idle"
  BY FreshTabFields DEF Field
<1>2. Field \subseteq DOMAIN s /\ s.nonce \in 0 .. nonces /\ s.step = "listing"
  BY DEF Field, TabInv
<1>3. FailedTab(i) = r \/ FailedTab(i) = s
  BY DEF FailedTab
<1>4. tabs' = [tabs EXCEPT ![i] = FailedTab(i)]
  BY DEF Fails
<1>5. nonces \in Nat
  BY DEF NonceInv
<1> HIDE DEF r, s
<1>6. /\ Field \subseteq DOMAIN FailedTab(i)
      /\ FailedTab(i).nonce \in 0 .. nonces
      /\ FailedTab(i).step # "saving"
  BY <1>1, <1>2, <1>3, <1>5, SMT
<1>7. \A n \in 0 .. nonces : n \in 0 .. nonces'
  BY <1>5, SMT
<1> QED
  BY <1>4, <1>6, <1>7 DEF TabInv

(* The vault keeps its invariant when no record is written that was not    *)
(* there, and the nonces theirs when the server does nothing.              *)
LEMMA DiskStep ==
  ASSUME DiskInv, "identity" \in DOMAIN disk', disk'.identity \subseteq disk.identity, accounts \subseteq accounts'
  PROVE  DiskInv'
BY DEF DiskInv, IdentityRegistered

LEMMA NonceStep ==
  ASSUME NonceInv, UNCHANGED <<challenges, tokens, nonces, handlers>>
  PROVE  NonceInv'
BY DEF NonceInv, NonceBuysOneToken

LEMMA CreateChallengeStep ==
  ASSUME NonceInv, NEW a, CreateChallenge(a), UNCHANGED handlers
  PROVE  NonceInv'
<1> DEFINE c == [nonce |-> nonces + 1, account |-> a, expires |-> now + ChallengeTTL]
<1>1. nonces \in Nat /\ nonces' = nonces + 1 /\ UNCHANGED tokens
  BY DEF CreateChallenge, NonceInv
<1>2. challenges' = challenges \cup {c} /\ c.nonce = nonces + 1
  BY DEF CreateChallenge
<1> HIDE DEF c
<1> QED
  BY <1>1, <1>2, SMT DEF NonceInv, NonceBuysOneToken

(* What a tab does on its own: the server is not asked. *)
LEMMA LocalStep ==
  ASSUME OnboardingInv, NEW i \in Tab, NEW p,
         \/ Mount(i) \/ Create(i, p) \/ Unlock(i, p) \/ CheckExists(i)
         \/ WriteParams(i) \/ WriteCanary(i) \/ SaveIdentity(i)
         \/ Open(i) \/ CheckCanary(i) \/ Resume(i) \/ Reset(i)
         \/ ListRecords(i) \/ DeleteRecord(i) \/ DeleteParams(i) \/ ClearStorage(i)
         \/ Lock(i) \/ Reload(i)
  PROVE  OnboardingInv'
<1> USE DEF OnboardingInv, elsewhere, server, At
<1>1. UNCHANGED <<accounts, challenges, tokens, nonces, handlers>>
  BY DEF Mount, Create, Unlock, CheckExists, WriteParams, WriteCanary, SaveIdentity, Open,
         CheckCanary, Resume, Reset, ListRecords, DeleteRecord, DeleteParams, ClearStorage, Lock, Reload
<1>2. NonceInv'
  BY <1>1, NonceStep
<1> DEFINE SameDisk == "identity" \in DOMAIN disk' /\ disk'.identity \subseteq disk.identity
<1>3. CASE Mount(i)
  <2>1. SameDisk
    BY <1>3 DEF Mount, DiskInv
  <2>2. TabInv'
    BY <1>1, <1>3, RestsStep DEF Mount
  <2> QED
    BY <1>1, <1>2, <2>1, <2>2, DiskStep
<1>4. CASE Create(i, p)
  <2>1. SameDisk
    BY <1>4 DEF Create, DiskInv
  <2>2. TabInv'
    BY <1>1, <1>4 DEF TabInv, Field, Create
  <2> QED
    BY <1>1, <1>2, <2>1, <2>2, DiskStep
<1>5. CASE Unlock(i, p)
  <2>1. SameDisk
    BY <1>5 DEF Unlock, DiskInv
  <2>2. TabInv'
    BY <1>1, <1>5 DEF TabInv, Field, Unlock
  <2> QED
    BY <1>1, <1>2, <2>1, <2>2, DiskStep
<1>6. CASE CheckExists(i)
  <2>1. SameDisk
    BY <1>6 DEF CheckExists, DiskInv
  <2>2. TabInv'
    BY <1>1, <1>6, RestsStep, GoesStep DEF CheckExists
  <2> QED
    BY <1>1, <1>2, <2>1, <2>2, DiskStep
<1>7. CASE WriteParams(i)
  <2>1. SameDisk
    BY <1>7 DEF WriteParams, DiskInv
  <2>2. TabInv'
    BY <1>1, <1>7, GoesStep DEF WriteParams
  <2> QED
    BY <1>1, <1>2, <2>1, <2>2, DiskStep
<1>8. CASE WriteCanary(i)
  <2>1. SameDisk
    BY <1>8 DEF WriteCanary, DiskInv
  <2>2. TabInv'
    BY <1>1, <1>8, GoesStep DEF WriteCanary
  <2> QED
    BY <1>1, <1>2, <2>1, <2>2, DiskStep
<1>9. CASE SaveIdentity(i)
  <2>1. DiskInv'
    BY <1>1, <1>9, SMT DEF SaveIdentity, DiskInv, IdentityRegistered, TabInv
  <2>2. TabInv'
    BY <1>1, <1>9, GoesStep DEF SaveIdentity
  <2> QED
    BY <1>1, <1>2, <2>1, <2>2
<1>10. CASE Open(i)
  <2>1. SameDisk
    BY <1>10 DEF Open, DiskInv
  <2>2. TabInv'
    BY <1>1, <1>10, RestsStep, GoesStep, SMT DEF TabInv, Field, CannotOpen, Open
  <2> QED
    BY <1>1, <1>2, <2>1, <2>2, DiskStep
<1>11. CASE CheckCanary(i)
  <2>1. SameDisk
    BY <1>11 DEF CheckCanary, DiskInv
  <2>2. TabInv'
    BY <1>1, <1>11, RestsStep, GoesStep DEF CannotOpen, CheckCanary
  <2> QED
    BY <1>1, <1>2, <2>1, <2>2, DiskStep
<1>12. CASE Resume(i)
  <2>1. SameDisk
    BY <1>12 DEF Resume, DiskInv
  <2>2. TabInv'
    BY <1>1, <1>12, RestsStep, SMT DEF TabInv, Field, Resume
  <2> QED
    BY <1>1, <1>2, <2>1, <2>2, DiskStep
<1>13. CASE Reset(i)
  <2>1. SameDisk
    BY <1>13 DEF Reset, DiskInv
  <2>2. TabInv'
    BY <1>1, <1>13 DEF TabInv, Field, Reset
  <2> QED
    BY <1>1, <1>2, <2>1, <2>2, DiskStep
<1>14. CASE ListRecords(i)
  <2>1. SameDisk
    BY <1>14 DEF ListRecords, DiskInv
  <2>2. TabInv'
    BY <1>1, <1>14 DEF TabInv, Field, ListRecords
  <2> QED
    BY <1>1, <1>2, <2>1, <2>2, DiskStep
<1>15. CASE DeleteRecord(i)
  <2>1. SameDisk
    BY <1>15 DEF DeleteRecord, DiskInv
  <2>2. TabInv'
    BY <1>1, <1>15 DEF TabInv, Field, DeleteRecord
  <2> QED
    BY <1>1, <1>2, <2>1, <2>2, DiskStep
<1>16. CASE DeleteParams(i)
  <2>1. SameDisk
    BY <1>16 DEF DeleteParams, DiskInv
  <2>2. TabInv'
    BY <1>1, <1>16, RestsStep DEF DeleteParams
  <2> QED
    BY <1>1, <1>2, <2>1, <2>2, DiskStep
<1>17. CASE ClearStorage(i)
  <2>1. SameDisk
    BY <1>17 DEF ClearStorage, DiskInv, EmptyDisk
  <2>2. TabInv'
    BY <1>1, <1>17, RestsStep DEF ClearStorage
  <2> QED
    BY <1>1, <1>2, <2>1, <2>2, DiskStep
<1>18. CASE Lock(i)
  <2>1. SameDisk
    BY <1>18 DEF Lock, DiskInv
  <2>2. TabInv'
    BY <1>1, <1>18, RestsStep DEF Lock
  <2> QED
    BY <1>1, <1>2, <2>1, <2>2, DiskStep
<1>19. CASE Reload(i)
  <2>1. SameDisk
    BY <1>19 DEF Reload, DiskInv
  <2>2. TabInv'
    BY <1>1, <1>19, RestsStep DEF Reload
  <2> QED
    BY <1>1, <1>2, <2>1, <2>2, DiskStep
<1> QED
  BY <1>3, <1>4, <1>5, <1>6, <1>7, <1>8, <1>9, <1>10, <1>11, <1>12, <1>13, <1>14, <1>15, <1>16, <1>17, <1>18, <1>19

(* The requests of a tab, and the limiter's refusals. *)
LEMMA RequestStep ==
  ASSUME OnboardingInv, NEW i \in Tab,
         \/ Limited(i) \/ Register(i) \/ Challenge(i) \/ Verify(i)
         \/ VerifyAgain(i) \/ RequestFails(i)
  PROVE  OnboardingInv'
<1> USE DEF OnboardingInv, server
<1>1. CASE Limited(i)
  BY <1>1, FailsStep, NonceStep, DiskStep DEF Limited, DiskInv
<1>2. CASE Register(i)
  <2>1. TabInv'
    BY <1>2 DEF Register, CreateAccount, Goes, TabInv, Field
  <2> QED
    BY <1>2, <2>1, NonceStep, DiskStep DEF Register, CreateAccount, DiskInv
<1>3. CASE Challenge(i)
  <2>1. /\ nonces \in Nat /\ nonces' = nonces + 1
        /\ UNCHANGED <<accounts, handlers, disk>>
    BY <1>3 DEF Challenge, CreateChallenge, NonceInv
  <2>2. TabInv'
    BY <1>3, <2>1, SMT DEF Challenge, TabInv, Field
  <2>3. NonceInv'
    BY <1>3, <2>1, CreateChallengeStep DEF Challenge
  <2> QED
    BY <2>1, <2>2, <2>3, DiskStep DEF DiskInv
<1>4. CASE Verify(i) \/ VerifyAgain(i)
  <2>1. UNCHANGED <<accounts, challenges, tokens, nonces, disk>>
    BY <1>4 DEF Verify, VerifyAgain, browser
  <2>2. PICK copy : handlers' = handlers \cup {Handler(i, copy)}
    BY <1>4 DEF Verify, VerifyAgain
  <2>3. /\ {"tab", "nonce", "step"} \subseteq DOMAIN Handler(i, copy)
        /\ Handler(i, copy).tab \in Tab
        /\ Handler(i, copy).nonce \in 0 .. nonces
        /\ Handler(i, copy).step = "consume"
    BY DEF Handler, TabInv
  <2>4. NonceInv'
    BY <2>1, <2>2, <2>3 DEF NonceInv, NonceBuysOneToken
  <2>5. Goes(i, "waiting") \/ UNCHANGED tabs
    BY <1>4 DEF Verify, VerifyAgain, browser
  <2>6. TabInv'
    BY <2>1, <2>5, GoesStep DEF TabInv
  <2> QED
    BY <2>1, <2>4, <2>6, DiskStep DEF DiskInv
<1>5. CASE RequestFails(i)
  <2>1. /\ Fails(i) /\ UNCHANGED <<handlers, disk>>
        /\ \/ UNCHANGED server
           \/ CreateAccount(tabs[i].account) \/ CreateChallenge(tabs[i].account)
    BY <1>5 DEF RequestFails
  <2>2. accounts \subseteq accounts' /\ nonces' \in {nonces, nonces + 1}
    BY <2>1 DEF CreateAccount, CreateChallenge
  <2>3. NonceInv'
    BY <2>1, NonceStep, CreateChallengeStep DEF CreateAccount
  <2> QED
    BY <2>1, <2>2, <2>3, FailsStep, DiskStep DEF DiskInv
<1> QED
  BY <1>1, <1>2, <1>3, <1>4, <1>5

(* The first half of handleVerify: a challenge there is for the nonce      *)
(* shows that nobody has consumed it, and it is the only one.              *)
LEMMA ConsumeStep ==
  ASSUME OnboardingInv, NEW h \in handlers, Consume(h)
  PROVE  OnboardingInv'
<1> USE DEF OnboardingInv
<1>1. h.tab \in Tab /\ {"tab", "nonce", "step"} \subseteq DOMAIN h /\ h.nonce \in 0 .. nonces
  BY DEF NonceInv
<1>2. UNCHANGED <<accounts, tokens, nonces, disk>>
  BY DEF Consume, ConsumeChallenge, server
<1>3. DiskInv'
  BY <1>2, DiskStep DEF DiskInv
<1>4. CASE ConsumeChallenge(h.account, h.nonce) /\ handlers' = (handlers \ {h}) \cup {[h EXCEPT !.step = "issue"]} /\ UNCHANGED tabs
  <2> DEFINE g == [h EXCEPT !.step = "issue"]
  <2>1. g.tab = h.tab /\ g.nonce = h.nonce /\ g.step = "issue" /\ DOMAIN g = DOMAIN h
    BY <1>1
  <2>2. PICK c \in challenges : c.nonce = h.nonce /\ c \notin challenges' /\ challenges' \subseteq challenges
    BY <1>4 DEF ConsumeChallenge, Unexpired
  <2>3. handlers' = (handlers \ {h}) \cup {g}
    BY <1>4
  <2> HIDE DEF g
  <2>4. NonceInv'
    BY <1>1, <1>2, <2>1, <2>2, <2>3, SMT DEF NonceInv, NonceBuysOneToken
  <2> QED
    BY <1>2, <1>3, <1>4, <2>4 DEF TabInv
<1>5. CASE /\ handlers' = handlers \ {h}
           /\ IF Awaited(h) THEN Fails(h.tab) ELSE UNCHANGED tabs
           /\ UNCHANGED server
  <2>1. TabInv'
    BY <1>1, <1>2, <1>5, FailsStep DEF TabInv
  <2>2. NonceInv'
    BY <1>2, <1>5 DEF server, NonceInv, NonceBuysOneToken
  <2> QED
    BY <1>3, <2>1, <2>2
<1> QED
  BY <1>4, <1>5 DEF Consume

(* The second half: the handler alone holds the nonce. *)
LEMMA IssueStep ==
  ASSUME OnboardingInv, NEW h \in handlers, Issue(h)
  PROVE  OnboardingInv'
<1> USE DEF OnboardingInv
<1>1. h.tab \in Tab /\ h.nonce \in 0 .. nonces /\ h.step = "issue"
  BY DEF NonceInv, Issue
<1>2. UNCHANGED <<accounts, challenges, nonces, disk>> /\ handlers' = handlers \ {h}
  BY DEF Issue, CreateSessionToken
<1> DEFINE t == [account |-> h.account, nonce |-> h.nonce, serial |-> Cardinality(tokens) + 1]
           r == [FreshTab EXCEPT !.phase = "ready", !.account = h.account]
<1>3. tokens' = tokens \cup {t} /\ t.nonce = h.nonce
  BY DEF Issue, CreateSessionToken
<1>4. Field \subseteq DOMAIN r /\ r.nonce = 0 /\ r.step = "idle"
  BY FreshTabFields DEF Field
<1>5. tabs' = [tabs EXCEPT ![h.tab] = r] \/ tabs' = tabs
  BY DEF Issue
<1> HIDE DEF t, r
<1>6. NonceInv'
  BY <1>1, <1>2, <1>3, SMT DEF NonceInv, NonceBuysOneToken
<1>7. TabInv'
  <2>1. nonces \in Nat
    BY DEF NonceInv
  <2> QED
    BY <1>1, <1>2, <1>4, <1>5, <2>1, SMT DEF TabInv
<1> QED
  BY <1>2, <1>6, <1>7, DiskStep DEF DiskInv

LEMMA OnboardingStep == OnboardingInv /\ [Next]_vars => OnboardingInv'
<1> SUFFICES ASSUME OnboardingInv, [Next]_vars PROVE OnboardingInv'
  OBVIOUS
<1>1. ASSUME UNCHANGED <<server, browser, handlers>> PROVE OnboardingInv'
  BY <1>1, NonceStep, DiskStep DEF server, browser, OnboardingInv, TabInv, DiskInv
<1>2. CASE LetTimePass \/ UNCHANGED vars
  BY <1>1, <1>2 DEF LetTimePass, vars
<1>3. ASSUME NEW h \in handlers, Consume(h) \/ Issue(h) PROVE OnboardingInv'
  BY <1>3, ConsumeStep, IssueStep
<1>4. ASSUME NEW i \in Tab,
             \/ Limited(i) \/ Register(i) \/ Challenge(i) \/ Verify(i)
             \/ VerifyAgain(i) \/ RequestFails(i)
      PROVE  OnboardingInv'
  BY <1>4, RequestStep
<1>5. ASSUME NEW i \in Tab, NEW p,
             \/ Mount(i) \/ Create(i, p) \/ Unlock(i, p) \/ CheckExists(i)
             \/ WriteParams(i) \/ WriteCanary(i) \/ SaveIdentity(i)
             \/ Open(i) \/ CheckCanary(i) \/ Resume(i) \/ Reset(i)
             \/ ListRecords(i) \/ DeleteRecord(i) \/ DeleteParams(i) \/ ClearStorage(i)
             \/ Lock(i) \/ Reload(i)
      PROVE  OnboardingInv'
  BY <1>5, LocalStep
<1> QED
  BY <1>2, <1>3, <1>4, <1>5 DEF Next

(* A challenge buys one token, however many tabs and repeated requests     *)
(* have their handleVerify interleaved (ConsumeChallenge).                 *)
THEOREM NonceIsSingleUse == Spec => []NonceBuysOneToken
<1>1. OnboardingInv => NonceBuysOneToken
  BY DEF OnboardingInv, NonceInv
<1> QED
  BY <1>1, OnboardingInit, OnboardingStep, PTL DEF Spec

(* The identity in the vault is registered, however many tabs create,      *)
(* reset and reload at once (register: saveIdentity follows the answer).   *)
THEOREM StoredIdentityIsRegistered == Spec => []IdentityRegistered
<1>1. OnboardingInv => IdentityRegistered
  BY DEF OnboardingInv, DiskInv
<1> QED
  BY <1>1, OnboardingInit, OnboardingStep, PTL DEF Spec

-----------------------------------------------------------------------------
(* The vault and the tabs. *)

VaultKey == (Passphrase \cup {""}) \X Nat
Identity == [key : VaultKey, account : Nat]

DiskRecord == [params : SUBSET Nat, canary : SUBSET VaultKey, identity : SUBSET Identity]

Creating == {"exists", "params", "canary", "registering", "saving", "challenging", "verifying",
             "waiting", "listing", "deleting"}
Resetting == {"opening", "checking", "listing", "deleting", "clearing"}
Unlocking == {"opening", "checking", "resuming", "challenging", "verifying", "waiting"}

TabRecord ==
  [phase : {"loading", "onboarding", "unlocking", "ready"},
   call : {"none", "create", "reset", "unlock"},
   step : {"idle"} \cup Creating \cup Resetting \cup Unlocking,
   pass : Passphrase \cup {""}, key : VaultKey, account : Nat, nonce : Nat,
   doomed : SUBSET {"canary", "identity"}, recoverable : BOOLEAN]

(* A tab is at a step of the call it runs. *)
LocalOK(t) ==
  /\ t.step = "idle" <=> t.call = "none"
  /\ t.phase \in {"loading", "ready"} => t.call = "none"
  /\ t.recoverable \/ t.call \in {"unlock", "reset"} => t.phase = "unlocking"
  /\ t.call = "create" => t.key \in Key /\ t.step \in Creating
  /\ t.call = "reset" => t.step \in Resetting
  /\ t.call = "unlock" => t.step \in Unlocking

TypeInv ==
  /\ tabs \in [Tab -> TabRecord]
  /\ disk \in DiskRecord
  /\ creates \in Nat
  /\ \A i \in Tab : LocalOK(tabs[i]) /\ tabs[i].key[2] <= creates
  /\ \A salt \in disk.params : salt <= creates
  /\ \A h \in handlers : h.account \in Nat

(* A tab that writes the vault. *)
Owner(t) == t.call \in {"create", "reset"}

Vault(key, records) == [params |-> {key[2]}, canary |-> {key}, identity |-> records]

Settled == disk = EmptyDisk \/ Opens \/ ("cut" \in causes /\ CanStartOver)

(* What is stored while a tab is at a step of createAccount or resetVault. *)
Stored(t) ==
  /\ t.step \in {"exists", "opening", "checking", "clearing"} => Settled
  /\ t.step = "params" => disk = EmptyDisk
  /\ t.step = "canary" => disk = [params |-> {t.key[2]}, canary |-> {}, identity |-> {}]
  /\ t.step \in {"registering", "saving"} => disk = Vault(t.key, {})
  /\ t.step \in {"challenging", "verifying", "waiting"} =>
       disk = Vault(t.key, {[key |-> t.key, account |-> t.account]})
  /\ t.step = "listing" => Opens \/ CanStartOver
  /\ t.step = "deleting" =>
       /\ "canary" \in t.doomed => Opens \/ CanStartOver
       /\ \A f \in {"canary", "identity"} \ t.doomed : disk[f] = {}

OneOwner ==
  "raced" \notin causes =>
    \A i, j \in Tab : Owner(tabs[i]) /\ Owner(tabs[j]) => i = j

VaultInv ==
  causes \cap {"raced", "torn"} = {} =>
    /\ (\A i \in Tab : ~Owner(tabs[i])) => Settled
    /\ \A i \in Tab : Owner(tabs[i]) => Stored(tabs[i])

(* A tab that shows an account or is about to. *)
Viewer(t) == t.phase = "ready" \/ t.step \in {"challenging", "verifying", "waiting"}

(* A creator past Vault.exists is alone with its vault. *)
Alone(t, u) ==
  t.call = "create" =>
    /\ t.step # "exists" => ~Viewer(u)
    /\ u.step = "resuming" => u.key # t.key

Undisturbed == causes \cap {"raced", "early", "stale"} = {}

(* What a tab that creates or resets knows of the stored identity. *)
Own(t) ==
  /\ t.call = "create" /\ t.step \in {"canary", "registering", "saving"} => disk.params # {}
  /\ t.call = "create" /\ t.step \in {"params", "canary", "registering", "saving"} => disk.identity = {}
  /\ t.call = "create" /\ t.step # "exists" => \A r \in disk.identity : r.key = t.key
  /\ t.call = "reset" => disk.identity = {}
  /\ t.step = "deleting" /\ "identity" \notin t.doomed => disk.identity = {}

Shows(t) == \E r \in disk.identity : r.account = t.account

ShownInv ==
  Undisturbed =>
    /\ disk.identity # {} => disk.params # {}
    /\ \A i \in Tab : (Viewer(tabs[i]) => Shows(tabs[i])) /\ Own(tabs[i])
    /\ \A i, j \in Tab : i # j => Alone(tabs[i], tabs[j])

(* The answer a tab waits for is for its account. *)
Answers(h, t) ==
  t.step \in {"verifying", "waiting"} /\ t.nonce = h.nonce => h.account = t.account

AnswerInv == \A h \in handlers : Answers(h, tabs[h.tab])

BrowserInv == TypeInv /\ OneOwner /\ VaultInv /\ ShownInv /\ AnswerInv

LEMMA FreshTabOK ==
  ASSUME NEW phase \in {"loading", "onboarding", "unlocking", "ready"}, NEW a \in Nat
  PROVE  LET r == [FreshTab EXCEPT !.phase = phase, !.account = a]
         IN  /\ r \in TabRecord
             /\ r.phase = phase /\ r.call = "none" /\ r.step = "idle" /\ r.key = NoVault
             /\ r.account = a /\ LocalOK(r) /\ r.key[2] = 0
BY DEF FreshTab, NoVault, TabRecord, VaultKey, LocalOK, Creating, Resetting, Unlocking

LEMMA BrowserInit == Init => BrowserInv
<1> SUFFICES ASSUME Init PROVE BrowserInv
  OBVIOUS
<1>1. /\ FreshTab \in TabRecord
      /\ FreshTab.phase = "loading" /\ FreshTab.call = "none" /\ FreshTab.step = "idle"
      /\ LocalOK(FreshTab) /\ FreshTab.key[2] = 0
  BY DEF FreshTab, NoVault, TabRecord, VaultKey, LocalOK, Creating, Resetting, Unlocking
<1>2. \A i \in Tab : tabs[i] = FreshTab
  BY DEF Init
<1>3. disk = EmptyDisk /\ disk.identity = {} /\ disk.params = {} /\ disk \in DiskRecord
  BY DEF Init, EmptyDisk, DiskRecord
<1>4. tabs \in [Tab -> TabRecord] /\ creates = 0 /\ handlers = {}
  BY <1>1 DEF Init
<1>5. TypeInv
  BY <1>1, <1>2, <1>3, <1>4, SMT DEF TypeInv
<1>6. OneOwner /\ VaultInv
  BY <1>1, <1>2, <1>3 DEF OneOwner, VaultInv, Owner, Settled
<1>7. ShownInv
  BY <1>1, <1>2, <1>3 DEF ShownInv, Viewer, Own, Alone
<1> QED
  BY <1>4, <1>5, <1>6, <1>7 DEF BrowserInv, AnswerInv

(* A tab moves on, and the other tabs stay where they are. *)
Moves(i, r) == tabs' = [tabs EXCEPT ![i] = r]

LEMMA TypeMove ==
  ASSUME TypeInv, NEW i \in Tab, NEW r \in TabRecord, Moves(i, r),
         LocalOK(r), creates' \in Nat, creates <= creates', r.key[2] <= creates',
         disk' \in DiskRecord, \A salt \in disk'.params : salt <= creates',
         \A h \in handlers' : h.account \in Nat
  PROVE  TypeInv'
<1>1. tabs' \in [Tab -> TabRecord]
  BY DEF Moves, TypeInv
<1>2. ASSUME NEW j \in Tab PROVE LocalOK(tabs'[j]) /\ tabs'[j].key[2] <= creates'
  <2>1. CASE j = i
    BY <2>1 DEF Moves, TypeInv
  <2>2. CASE j # i
    <3>1. tabs'[j] = tabs[j] /\ LocalOK(tabs[j]) /\ tabs[j].key[2] <= creates
      BY <2>2 DEF Moves, TypeInv
    <3>2. tabs[j].key[2] \in Nat /\ creates \in Nat
      BY DEF TypeInv, TabRecord, VaultKey
    <3>3. \A x, y, z \in Nat : x <= y /\ y <= z => x <= z
      BY SMT
    <3> QED
      BY <3>1, <3>2, <3>3
  <2> QED
    BY <2>1, <2>2
<1>3. (\A j \in Tab : LocalOK(tabs[j]) /\ tabs[j].key[2] <= creates)'
  BY <1>2 DEF LocalOK
<1> QED
  BY <1>1, <1>3 DEF TypeInv

LEMMA SettledStays ==
  ASSUME Settled, disk' = disk, causes \subseteq causes', accounts \subseteq accounts'
  PROVE  Settled'
BY DEF Settled, Opens, CanStartOver

LEMMA StoredStays ==
  ASSUME NEW t, Stored(t), disk' = disk, causes \subseteq causes', accounts \subseteq accounts'
  PROVE  Stored(t)'
<1>1. Settled => Settled'
  BY SettledStays
<1>2. (Opens => Opens') /\ (CanStartOver => CanStartOver')
  BY DEF Opens, CanStartOver
<1> QED
  BY <1>1, <1>2 DEF Stored

Calm == causes \cap {"raced", "torn"} = {}

LEMMA OwnerMove ==
  ASSUME TypeInv, OneOwner, NEW i \in Tab, NEW r \in TabRecord, Moves(i, r),
         causes \subseteq causes',
         \/ Owner(r) => Owner(tabs[i])
         \/ "raced" \in causes'
         \/ \A j \in Tab \ {i} : ~Owner(tabs[j])
  PROVE  OneOwner'
<1> SUFFICES ASSUME "raced" \notin causes', NEW j \in Tab, NEW k \in Tab,
                    Owner(tabs'[j]), Owner(tabs'[k])
             PROVE  j = k
  BY DEF OneOwner, Owner
<1>1. tabs'[i] = r /\ \A l \in Tab \ {i} : tabs'[l] = tabs[l]
  BY DEF Moves, TypeInv
<1>2. "raced" \notin causes
  OBVIOUS
<1> QED
  BY <1>1, <1>2 DEF OneOwner

(* The vault when a tab moves on and writes nothing. *)
LEMMA VaultMove ==
  ASSUME TypeInv, VaultInv, NEW i \in Tab, NEW r \in TabRecord, Moves(i, r),
         disk' = disk, causes \subseteq causes', accounts \subseteq accounts',
         Calm' /\ Owner(r) => Stored(r)',
         Calm' /\ Owner(tabs[i]) /\ ~Owner(r) => Settled'
  PROVE  VaultInv'
<1> SUFFICES ASSUME Calm'
             PROVE  /\ (\A j \in Tab : ~Owner(tabs'[j])) => Settled'
                    /\ \A j \in Tab : Owner(tabs'[j]) => Stored(tabs[j])'
  BY DEF VaultInv, Calm, Owner, Stored
<1>1. tabs'[i] = r /\ \A l \in Tab \ {i} : tabs'[l] = tabs[l]
  BY DEF Moves, TypeInv
<1>2. causes \cap {"raced", "torn"} = {}
  BY DEF Calm
<1>3. ASSUME \A j \in Tab : ~Owner(tabs'[j]) PROVE Settled'
  <2>1. CASE Owner(tabs[i])
    BY <1>1, <1>3, <2>1
  <2>2. CASE ~Owner(tabs[i])
    <3>1. \A j \in Tab : ~Owner(tabs[j])
      BY <1>1, <1>3, <2>2
    <3> QED
      BY <1>2, <3>1, SettledStays DEF VaultInv
  <2> QED
    BY <2>1, <2>2
<1>4. ASSUME NEW j \in Tab, Owner(tabs'[j]) PROVE Stored(tabs[j])'
  <2>1. CASE j = i
    BY <1>1, <1>4, <2>1 DEF Stored
  <2>2. CASE j # i
    <3>1. tabs'[j] = tabs[j] /\ Stored(tabs[j])
      BY <1>1, <1>2, <1>4, <2>2 DEF VaultInv
    <3>2. PICK t : t = tabs[j]
      OBVIOUS
    <3>3. Stored(t)'
      BY <3>1, <3>2, StoredStays
    <3>4. tabs'[j] = t
      BY <3>1, <3>2
    <3> QED
      BY <3>3, <3>4 DEF Stored
  <2> QED
    BY <2>1, <2>2
<1> QED
  BY <1>3, <1>4

(* What the tabs show when a tab moves on and writes nothing. *)
LEMMA ShownMove ==
  ASSUME TypeInv, ShownInv, NEW i \in Tab, NEW r \in TabRecord, Moves(i, r),
         disk' = disk, causes \subseteq causes',
         Undisturbed' => /\ Viewer(r) => Shows(r)
                         /\ Own(r)
                         /\ \A j \in Tab \ {i} : Alone(r, tabs[j]) /\ Alone(tabs[j], r)
  PROVE  ShownInv'
<1> SUFFICES ASSUME Undisturbed'
             PROVE  /\ disk'.identity # {} => disk'.params # {}
                    /\ \A j \in Tab : ((Viewer(tabs[j]) => Shows(tabs[j])) /\ Own(tabs[j]))'
                    /\ \A j, k \in Tab : j # k => Alone(tabs[j], tabs[k])'
  BY DEF ShownInv
<1>1. tabs'[i] = r /\ \A l \in Tab \ {i} : tabs'[l] = tabs[l]
  BY DEF Moves, TypeInv
<1>2. Undisturbed
  BY DEF Undisturbed
<1>3. ASSUME NEW j \in Tab PROVE ((Viewer(tabs[j]) => Shows(tabs[j])) /\ Own(tabs[j]))'
  <2>1. CASE j = i
    BY <1>1, <2>1 DEF Viewer, Shows, Own
  <2>2. CASE j # i
    <3>1. tabs'[j] = tabs[j]
      BY <1>1, <2>2
    <3>2. (Viewer(tabs[j]) => Shows(tabs[j])) /\ Own(tabs[j])
      BY <1>2 DEF ShownInv
    <3> QED
      BY <3>1, <3>2 DEF Viewer, Shows, Own
  <2> QED
    BY <2>1, <2>2
<1>4. ASSUME NEW j \in Tab, NEW k \in Tab, j # k PROVE Alone(tabs[j], tabs[k])'
  <2>1. Alone(tabs[j], tabs[k])
    BY <1>2, <1>4 DEF ShownInv
  <2>2. Alone(tabs'[j], tabs'[k])
    BY <1>1, <1>4, <2>1, SMT
  <2> QED
    BY <2>2 DEF Alone, Viewer
<1> QED
  BY <1>2, <1>3, <1>4 DEF ShownInv

LEMMA AnswerMove ==
  ASSUME TypeInv, NonceInv, AnswerInv, NEW i \in Tab, NEW r \in TabRecord, Moves(i, r),
         handlers' \subseteq handlers, \A h \in handlers : h.tab = i => Answers(h, r)
  PROVE  AnswerInv'
<1> SUFFICES ASSUME NEW h \in handlers' PROVE Answers(h, tabs'[h.tab])
  BY DEF AnswerInv, Answers
<1>1. tabs'[i] = r /\ \A l \in Tab \ {i} : tabs'[l] = tabs[l]
  BY DEF Moves, TypeInv
<1>2. h \in handlers /\ h.tab \in Tab /\ Answers(h, tabs[h.tab])
  BY DEF AnswerInv, NonceInv
<1> QED
  BY <1>1, <1>2

(* A tab whose call ends. *)
LEMMA RestsMove ==
  ASSUME BrowserInv, NonceInv, NEW i \in Tab, NEW phase \in {"loading", "onboarding", "unlocking"},
         Rests(i, phase), disk' = disk, creates' = creates, handlers' \subseteq handlers,
         causes \subseteq causes', accounts \subseteq accounts',
         Calm' /\ Owner(tabs[i]) => Settled'
  PROVE  BrowserInv'
<1> USE DEF BrowserInv
<1> DEFINE f == [FreshTab EXCEPT !.phase = phase]
<1>1. /\ f \in TabRecord /\ f.phase = phase /\ f.call = "none" /\ f.step = "idle"
      /\ LocalOK(f) /\ f.key[2] = 0
  BY DEF FreshTab, NoVault, TabRecord, VaultKey, LocalOK, Creating, Resetting, Unlocking
<1>2. tabs' = [tabs EXCEPT ![i] = f]
  BY DEF Rests
<1> HIDE DEF f
<1>3. PICK r \in TabRecord : r = f
  BY <1>1
<1>4. Moves(i, r)
  BY <1>2, <1>3 DEF Moves
<1>5. /\ LocalOK(r) /\ r.key[2] = 0 /\ ~Owner(r) /\ ~Viewer(r) /\ r.step = "idle" /\ r.call = "none"
  BY <1>1, <1>3 DEF Owner, Viewer
<1>6. /\ creates' \in Nat /\ creates <= creates' /\ r.key[2] <= creates'
      /\ disk' \in DiskRecord /\ \A salt \in disk'.params : salt <= creates'
      /\ \A h \in handlers' : h.account \in Nat
  BY <1>5, SMT DEF TypeInv
<1>7. TypeInv'
  BY <1>4, <1>5, <1>6, TypeMove
<1>8. OneOwner'
  BY <1>4, <1>5, OwnerMove
<1>9. VaultInv'
  BY <1>4, <1>5, VaultMove
<1>10. ShownInv'
  <2>1. Own(r) /\ \A j \in Tab \ {i} : Undisturbed => Alone(r, tabs[j]) /\ Alone(tabs[j], r)
    BY <1>5 DEF Own, Alone
  <2>2. Undisturbed' => Undisturbed
    BY DEF Undisturbed
  <2> QED
    BY <1>4, <1>5, <2>1, <2>2, ShownMove
<1>11. AnswerInv'
  <2>1. \A h \in handlers : h.tab = i => Answers(h, r)
    BY <1>5 DEF Answers
  <2> QED
    BY <1>4, <2>1, AnswerMove
<1> QED
  BY <1>7, <1>8, <1>9, <1>10, <1>11

(* A tab that goes on, writes nothing and asks for no token. *)
LEMMA CallMove ==
  ASSUME BrowserInv, NonceInv, NEW i \in Tab, NEW r \in TabRecord, Moves(i, r),
         LocalOK(r), creates' \in Nat, creates <= creates', r.key[2] <= creates',
         disk' = disk, handlers' \subseteq handlers,
         causes \subseteq causes', accounts \subseteq accounts',
         \/ Owner(r) => Owner(tabs[i])
         \/ "raced" \in causes'
         \/ \A j \in Tab \ {i} : ~Owner(tabs[j]),
         Calm' /\ Owner(r) => Stored(r)',
         Calm' /\ Owner(tabs[i]) /\ ~Owner(r) => Settled',
         Undisturbed' => /\ Viewer(r) => Shows(r)
                         /\ Own(r)
                         /\ \A j \in Tab \ {i} : Alone(r, tabs[j]) /\ Alone(tabs[j], r),
         \A h \in handlers : h.tab = i => Answers(h, r)
  PROVE  BrowserInv'
<1> USE DEF BrowserInv
<1>1. TypeInv'
  <2>1. /\ disk' \in DiskRecord /\ \A h \in handlers' : h.account \in Nat
    BY DEF TypeInv
  <2>2. ASSUME NEW salt \in disk'.params PROVE salt <= creates'
    <3>1. salt \in Nat /\ creates \in Nat /\ salt <= creates
      BY DEF TypeInv, DiskRecord
    <3> QED
      BY <3>1, SMT
  <2> QED
    BY <2>1, <2>2, TypeMove
<1>2. OneOwner'
  BY OwnerMove
<1>3. VaultInv'
  BY VaultMove
<1>4. ShownInv'
  BY ShownMove
<1>5. AnswerInv'
  BY AnswerMove
<1> QED
  BY <1>1, <1>2, <1>3, <1>4, <1>5

(* The vault when the tab that creates or resets it writes. *)
LEMMA VaultWrite ==
  ASSUME TypeInv, OneOwner, VaultInv, NEW i \in Tab, NEW r \in TabRecord, Moves(i, r),
         Owner(tabs[i]), causes' = causes,
         Calm /\ Stored(tabs[i]) => IF Owner(r) THEN Stored(r)' ELSE Settled'
  PROVE  OneOwner' /\ VaultInv'
<1>1. OneOwner'
  BY OwnerMove
<1>2. VaultInv'
  <2> SUFFICES ASSUME Calm'
               PROVE  /\ (\A j \in Tab : ~Owner(tabs'[j])) => Settled'
                      /\ \A j \in Tab : Owner(tabs'[j]) => Stored(tabs[j])'
    BY DEF VaultInv, Calm, Owner, Stored
  <2>1. tabs'[i] = r /\ \A l \in Tab \ {i} : tabs'[l] = tabs[l]
    BY DEF Moves, TypeInv
  <2>2. Calm /\ Stored(tabs[i])
    BY DEF Calm, VaultInv
  <2>3. \A j \in Tab \ {i} : ~Owner(tabs'[j])
    BY <2>1, <2>2 DEF Calm, OneOwner
  <2>4. IF Owner(r) THEN Stored(r)' ELSE Settled'
    BY <2>2
  <2>5. Owner(r) => Stored(tabs[i])'
    BY <2>1, <2>4 DEF Stored
  <2> QED
    BY <2>1, <2>3, <2>4, <2>5
<1> QED
  BY <1>1, <1>2

(* What the tabs show when a tab writes to a vault of its own. *)
LEMMA ShownWrite ==
  ASSUME TypeInv, OneOwner, ShownInv, NEW i \in Tab, NEW r \in TabRecord, Moves(i, r),
         Owner(tabs[i]), tabs[i].step # "exists", causes' = causes,
         r.call = tabs[i].call \/ r.call = "none", r.key = tabs[i].key \/ r.call = "none",
         r.step # "exists",
         Undisturbed /\ Own(tabs[i]) /\ (disk.identity # {} => disk.params # {}) =>
           /\ disk'.identity # {} => disk'.params # {}
           /\ Viewer(r) => Shows(r)'
           /\ Own(r)'
  PROVE  ShownInv'
<1> SUFFICES ASSUME Undisturbed'
             PROVE  /\ disk'.identity # {} => disk'.params # {}
                    /\ \A j \in Tab : ((Viewer(tabs[j]) => Shows(tabs[j])) /\ Own(tabs[j]))'
                    /\ \A j, k \in Tab : j # k => Alone(tabs[j], tabs[k])'
  BY DEF ShownInv
<1>1. tabs'[i] = r /\ \A l \in Tab \ {i} : tabs'[l] = tabs[l]
  BY DEF Moves, TypeInv
<1>2. Undisturbed /\ Own(tabs[i]) /\ (disk.identity # {} => disk.params # {})
  BY DEF Undisturbed, ShownInv
<1>3. /\ disk'.identity # {} => disk'.params # {}
      /\ Viewer(r) => Shows(r)'
      /\ Own(r)'
  BY <1>2
<1>4. ASSUME NEW j \in Tab \ {i} PROVE ~Owner(tabs[j]) /\ ~Viewer(tabs[j])
  <2>1. ~Owner(tabs[j])
    BY <1>2 DEF Undisturbed, OneOwner
  <2>2. CASE tabs[i].call = "create"
    BY <1>2, <2>1, <2>2 DEF ShownInv, Alone
  <2>3. CASE tabs[i].call = "reset"
    <3>1. disk.identity = {}
      BY <1>2, <2>3 DEF Own
    <3>2. Viewer(tabs[j]) => Shows(tabs[j])
      BY <1>2 DEF ShownInv
    <3> QED
      BY <2>1, <3>1, <3>2 DEF Shows
  <2> QED
    BY <2>2, <2>3 DEF Owner
<1>5. ASSUME NEW j \in Tab PROVE ((Viewer(tabs[j]) => Shows(tabs[j])) /\ Own(tabs[j]))'
  <2>1. CASE j = i
    BY <1>1, <1>3, <2>1 DEF Viewer, Shows, Own
  <2>2. CASE j # i
    <3>1. tabs'[j] = tabs[j] /\ ~Viewer(tabs[j]) /\ tabs[j].call \notin {"create", "reset"}
      BY <1>1, <1>4, <2>2 DEF Owner
    <3>2. tabs[j].step # "deleting"
      BY <3>1 DEF TypeInv, LocalOK, TabRecord, Unlocking
    <3> QED
      BY <3>1, <3>2 DEF Viewer, Own
  <2> QED
    BY <2>1, <2>2
<1>6. ASSUME NEW j \in Tab, NEW k \in Tab, j # k PROVE Alone(tabs[j], tabs[k])'
  <2>1. CASE j = i
    <3>1. Alone(tabs[i], tabs[k])
      BY <1>2, <1>6, <2>1 DEF ShownInv
    <3>2. Alone(r, tabs[k])
      BY <3>1 DEF Alone
    <3>3. Alone(tabs'[j], tabs'[k])
      BY <1>1, <1>6, <2>1, <3>2
    <3> QED
      BY <3>3 DEF Alone, Viewer
  <2>2. CASE j # i
    <3>1. tabs'[j] = tabs[j] /\ tabs[j].call # "create"
      BY <1>1, <1>4, <2>2 DEF Owner
    <3> QED
      BY <3>1 DEF Alone
  <2> QED
    BY <2>1, <2>2
<1> QED
  BY <1>3, <1>5, <1>6

(* A record that differs in its step. *)
SameBut(r, t) ==
  /\ r.phase = t.phase /\ r.call = t.call /\ r.pass = t.pass /\ r.key = t.key
  /\ r.account = t.account /\ r.nonce = t.nonce /\ r.doomed = t.doomed /\ r.recoverable = t.recoverable

LEMMA GoesRecord ==
  ASSUME TypeInv, NEW i \in Tab, NEW step \in {"idle"} \cup Creating \cup Resetting \cup Unlocking,
         Goes(i, step)
  PROVE  \E r \in TabRecord : Moves(i, r) /\ r.step = step /\ SameBut(r, tabs[i])
<1> DEFINE f == [tabs[i] EXCEPT !.step = step]
<1>1. tabs[i] \in TabRecord
  BY DEF TypeInv
<1>2. f \in TabRecord /\ f.step = step /\ SameBut(f, tabs[i])
  BY <1>1 DEF TabRecord, SameBut
<1>3. Moves(i, f)
  BY DEF Goes, Moves
<1> QED
  BY <1>2, <1>3

LEMMA MountMove ==
  ASSUME BrowserInv, NonceInv, NEW i \in Tab, Mount(i) PROVE BrowserInv'
<1>1. UNCHANGED <<disk, creates, handlers, causes, accounts>>
  BY DEF Mount, elsewhere, server
<1>2. ~Owner(tabs[i])
  BY DEF Mount, BrowserInv, TypeInv, LocalOK, Owner
<1>3. PICK phase \in {"loading", "onboarding", "unlocking"} : Rests(i, phase)
  BY DEF Mount
<1> QED
  BY <1>1, <1>2, <1>3, RestsMove

LEMMA LockMove ==
  ASSUME BrowserInv, NonceInv, NEW i \in Tab, Lock(i) PROVE BrowserInv'
<1>1. UNCHANGED <<disk, creates, handlers, causes, accounts>>
  BY DEF Lock, elsewhere, server
<1>2. ~Owner(tabs[i])
  BY DEF Lock, BrowserInv, TypeInv, LocalOK, Owner
<1>3. Rests(i, "unlocking")
  BY DEF Lock
<1> QED
  BY <1>1, <1>2, <1>3, RestsMove

(* A closed tab leaves the vault as its step has it, or torn. *)
LEMMA ReloadMove ==
  ASSUME BrowserInv, NonceInv, DiskInv, NEW i \in Tab, Reload(i) PROVE BrowserInv'
<1>1. UNCHANGED <<disk, creates, handlers, accounts>> /\ causes \subseteq causes' /\ Rests(i, "loading")
  BY DEF Reload, server
<1>2. ASSUME Calm', Owner(tabs[i]) PROVE Settled'
  <2>1. "cut" \in causes' /\ ~Torn(i) /\ Calm
    BY <1>2 DEF Reload, Owner, Calm
  <2>2. Stored(tabs[i]) /\ tabs[i] \in TabRecord /\ LocalOK(tabs[i])
    BY <1>2, <2>1 DEF BrowserInv, VaultInv, Calm, TypeInv
  <2>3. Settled \/ disk = EmptyDisk \/ Opens \/ CanStartOver
    <3>1. CASE tabs[i].call = "create"
      <4>1. tabs[i].key \in Key /\ tabs[i].step \in Creating
        BY <2>2, <3>1 DEF LocalOK
      <4>2. CASE tabs[i].step \in {"registering", "saving"}
        BY <2>2, <4>1, <4>2 DEF Stored, Vault, CanStartOver
      <4>3. CASE tabs[i].step \in {"challenging", "verifying", "waiting"}
        <5>1. disk = Vault(tabs[i].key, {[key |-> tabs[i].key, account |-> tabs[i].account]})
          BY <2>2, <4>3 DEF Stored
        <5>2. PICK key \in Key, a \in {tabs[i].account} : key = tabs[i].key /\ a = tabs[i].account
          BY <4>1
        <5>3. disk = [params |-> {key[2]}, canary |-> {key}, identity |-> {[key |-> key, account |-> a]}]
          BY <5>1, <5>2 DEF Vault
        <5>4. a \in accounts
          <6>1. [key |-> key, account |-> a] \in disk.identity
            BY <5>3
          <6>2. [key |-> key, account |-> a].account \in accounts
            BY <6>1 DEF DiskInv, IdentityRegistered
          <6> QED
            BY <6>2
        <5> QED
          BY <5>3, <5>4 DEF Opens
      <4> QED
        BY <2>1, <2>2, <4>1, <4>2, <4>3 DEF Stored, Torn, At, Creating
    <3>2. CASE tabs[i].call = "reset"
      BY <2>1, <2>2, <3>2 DEF Stored, LocalOK, Resetting, Torn, At
    <3> QED
      BY <1>2, <3>1, <3>2 DEF Owner
  <2> QED
    BY <1>1, <2>1, <2>3 DEF Settled, Opens, CanStartOver
<1> QED
  BY <1>1, <1>2, RestsMove

LEMMA CheckExistsMove ==
  ASSUME BrowserInv, NonceInv, NEW i \in Tab, CheckExists(i) PROVE BrowserInv'
<1>1. UNCHANGED <<disk, creates, handlers, causes, accounts>> /\ tabs[i].step = "exists"
  BY DEF CheckExists, elsewhere, server, At
<1>2. tabs[i] \in TabRecord /\ LocalOK(tabs[i]) /\ tabs[i].key[2] <= creates /\ creates \in Nat
  BY DEF BrowserInv, TypeInv
<1>3. tabs[i].call = "create" /\ Owner(tabs[i])
  BY <1>1, <1>2 DEF LocalOK, Resetting, Unlocking, TabRecord, Owner
<1>4. Calm => Settled
  BY <1>1, <1>3 DEF BrowserInv, VaultInv, Calm, Stored
<1>5. CASE disk.params # {}
  <2>1. Rests(i, "onboarding")
    BY <1>5 DEF CheckExists
  <2>2. Calm' => Settled'
    BY <1>1, <1>4, SettledStays DEF Calm
  <2> QED
    BY <1>1, <2>1, <2>2, RestsMove
<1>6. CASE disk.params = {}
  <2>1. Goes(i, "params")
    BY <1>6 DEF CheckExists
  <2>2. PICK r \in TabRecord : Moves(i, r) /\ r.step = "params" /\ SameBut(r, tabs[i])
    BY <2>1, GoesRecord DEF BrowserInv, Creating
  <2>3. LocalOK(r) /\ r.key[2] <= creates /\ Owner(r) /\ ~Viewer(r) /\ r.call = "create"
    BY <1>2, <1>3, <2>2 DEF LocalOK, SameBut, Creating, Owner, Viewer
  <2>4. Calm' => Stored(r)'
    <3>1. Calm => disk = EmptyDisk
      BY <1>4, <1>6, SMT DEF Settled, Opens, CanStartOver
    <3> QED
      BY <1>1, <2>2, <3>1 DEF Stored, Calm
  <2>5. ASSUME Undisturbed'
        PROVE  Own(r) /\ \A j \in Tab \ {i} : Alone(r, tabs[j]) /\ Alone(tabs[j], r)
    <3>1. Undisturbed /\ ShownInv /\ disk.identity = {}
      BY <1>1, <1>6, <2>5 DEF Undisturbed, BrowserInv, ShownInv
    <3>2. Own(r)
      BY <2>2, <3>1 DEF Own
    <3>3. ASSUME NEW j \in Tab \ {i} PROVE Alone(r, tabs[j]) /\ Alone(tabs[j], r)
      <4>1. ~Viewer(tabs[j])
        BY <3>1 DEF ShownInv, Shows
      <4>2. Alone(tabs[i], tabs[j])
        BY <3>1 DEF ShownInv
      <4> QED
        BY <1>3, <2>2, <2>3, <4>1, <4>2 DEF Alone, SameBut
    <3> QED
      BY <3>2, <3>3
  <2>6. \A h \in handlers : h.tab = i => Answers(h, r)
    BY <2>2 DEF Answers
  <2> QED
    BY <1>1, <1>2, <1>3, <2>2, <2>3, <2>4, <2>5, <2>6, CallMove, SMT
<1> QED
  BY <1>5, <1>6

(* createAccount begins with a salt nobody has. *)
LEMMA CreateMove ==
  ASSUME BrowserInv, NonceInv, NEW i \in Tab, NEW p \in Passphrase, Create(i, p) PROVE BrowserInv'
<1>1. /\ UNCHANGED <<disk, handlers, accounts>> /\ causes \subseteq causes'
      /\ tabs[i].step = "idle" /\ tabs[i].phase = "onboarding"
  BY DEF Create, Raced, elsewhere, server, At, Idle
<1>2. /\ tabs[i] \in TabRecord /\ LocalOK(tabs[i]) /\ creates \in Nat /\ tabs \in [Tab -> TabRecord]
      /\ \A j \in Tab : tabs[j].key[2] <= creates /\ tabs[j].key[2] \in Nat
  BY DEF BrowserInv, TypeInv, TabRecord, VaultKey
<1>3. PICK n \in Nat : n = creates + 1
  BY <1>2, SMT
<1>4. n \in 1 .. MaxCreates /\ creates' = n
  BY <1>2, <1>3, OnboardingAssumption, SMT DEF Create
<1> DEFINE f == [tabs[i] EXCEPT !.call = "create", !.step = "exists", !.pass = p,
                                !.key = <<p, n>>, !.account = n]
<1>5. /\ f \in TabRecord /\ f.call = "create" /\ f.step = "exists" /\ f.key = <<p, n>>
      /\ f.phase = "onboarding" /\ f.recoverable = tabs[i].recoverable
  BY <1>1, <1>2 DEF TabRecord, VaultKey, Creating
<1>6. Moves(i, f)
  BY <1>2, <1>3 DEF Moves, Create
<1> HIDE DEF f
<1>7. PICK r \in TabRecord : r = f
  BY <1>5
<1>8. Moves(i, r) /\ r.call = "create" /\ r.step = "exists" /\ r.key = <<p, n>> /\ r.phase = "onboarding"
  BY <1>5, <1>6, <1>7
<1>9. ~Owner(tabs[i]) /\ ~tabs[i].recoverable
  BY <1>1, <1>2 DEF LocalOK, Owner
<1>10. LocalOK(r) /\ r.key[2] = n
  <2>1. <<p, n>> \in Key
    BY <1>4 DEF Key, Salt
  <2> QED
    BY <1>5, <1>7, <1>8, <1>9, <2>1, SMT DEF LocalOK, Creating
<1>11. Owner(r) /\ ~Viewer(r)
  BY <1>8 DEF Owner, Viewer
<1>12. "raced" \in causes' \/ \A j \in Tab \ {i} : ~Owner(tabs[j])
  BY DEF Create, Raced, Contended, Owner
<1>13. Calm' => Stored(r)'
  <2> SUFFICES ASSUME Calm' PROVE Settled'
    BY <1>8 DEF Stored
  <2>1. Calm /\ "raced" \notin causes'
    BY <1>1 DEF Calm
  <2>2. \A j \in Tab : ~Owner(tabs[j])
    BY <1>9, <1>12, <2>1
  <2>3. Settled
    BY <2>1, <2>2 DEF BrowserInv, VaultInv, Calm
  <2> QED
    BY <1>1, <2>3, SettledStays
<1>14. Own(r) /\ \A j \in Tab \ {i} : Alone(r, tabs[j]) /\ (Undisturbed' => Alone(tabs[j], r))
  <2>1. Own(r)
    BY <1>8 DEF Own
  <2>2. ASSUME NEW j \in Tab \ {i} PROVE Alone(r, tabs[j]) /\ Alone(tabs[j], r)
    <3>1. tabs[j].key # r.key
      BY <1>2, <1>3, <1>10, SMT
    <3> QED
      BY <1>8, <1>11, <3>1 DEF Alone
  <2> QED
    BY <2>1, <2>2
<1>15. \A h \in handlers : h.tab = i => Answers(h, r)
  BY <1>8 DEF Answers
<1>16. creates' \in Nat /\ creates <= creates' /\ r.key[2] <= creates'
  BY <1>2, <1>3, <1>4, <1>10, SMT
<1> QED
  BY <1>1, <1>8, <1>9, <1>10, <1>11, <1>12, <1>13, <1>14, <1>15, <1>16, CallMove

LEMMA UnlockMove ==
  ASSUME BrowserInv, NonceInv, NEW i \in Tab, NEW p \in Passphrase, Unlock(i, p) PROVE BrowserInv'
<1>1. /\ UNCHANGED <<disk, handlers, accounts, causes, creates>>
      /\ tabs[i].step = "idle" /\ tabs[i].phase = "unlocking"
  BY DEF Unlock, elsewhere, server, At, Idle
<1>2. /\ tabs[i] \in TabRecord /\ LocalOK(tabs[i]) /\ creates \in Nat /\ tabs \in [Tab -> TabRecord]
      /\ tabs[i].key[2] <= creates
  BY DEF BrowserInv, TypeInv
<1> DEFINE f == [tabs[i] EXCEPT !.call = "unlock", !.step = "opening", !.pass = p, !.recoverable = FALSE]
<1>3. /\ f \in TabRecord /\ f.call = "unlock" /\ f.step = "opening" /\ f.key = tabs[i].key
      /\ f.phase = "unlocking"
  BY <1>1, <1>2 DEF TabRecord, Unlocking
<1>4. Moves(i, f)
  BY <1>2 DEF Moves, Unlock
<1> HIDE DEF f
<1>5. PICK r \in TabRecord : r = f
  BY <1>3
<1>6. /\ Moves(i, r) /\ r.call = "unlock" /\ r.step = "opening" /\ LocalOK(r) /\ r.key[2] <= creates
      /\ ~Owner(r) /\ ~Owner(tabs[i]) /\ ~Viewer(r)
  BY <1>1, <1>2, <1>3, <1>4, <1>5 DEF LocalOK, Unlocking, Owner, Viewer
<1>7. Own(r) /\ \A j \in Tab \ {i} : Alone(r, tabs[j]) /\ Alone(tabs[j], r)
  BY <1>6 DEF Own, Alone
<1>8. \A h \in handlers : h.tab = i => Answers(h, r)
  BY <1>6 DEF Answers
<1> QED
  BY <1>1, <1>2, <1>6, <1>7, <1>8, CallMove, SMT

(* A failed request: a tab that creates goes on to destroy. *)
LEMMA FailsMove ==
  ASSUME BrowserInv, NonceInv, DiskInv, NEW i \in Tab, Fails(i), Requesting(i) \/ At(i, "waiting"),
         disk' = disk, creates' = creates, handlers' \subseteq handlers, causes' = causes,
         accounts \subseteq accounts'
  PROVE  BrowserInv'
<1>1. /\ tabs[i] \in TabRecord /\ LocalOK(tabs[i]) /\ tabs[i].key[2] <= creates /\ creates \in Nat
      /\ tabs[i].step \in {"registering", "challenging", "verifying", "waiting"}
  BY DEF BrowserInv, TypeInv, Requesting, At
<1>2. CASE tabs[i].call # "create"
  <2>1. ~Owner(tabs[i])
    BY <1>1, <1>2 DEF LocalOK, Resetting, Owner
  <2>2. Rests(i, "unlocking")
    BY <1>2 DEF Fails, FailedTab, Rests
  <2> QED
    BY <2>1, <2>2, RestsMove
<1>3. CASE tabs[i].call = "create"
  <2>1. Goes(i, "listing")
    BY <1>3 DEF Fails, FailedTab, Goes
  <2>2. PICK r \in TabRecord : Moves(i, r) /\ r.step = "listing" /\ SameBut(r, tabs[i])
    BY <2>1, GoesRecord DEF BrowserInv, Creating
  <2>3. /\ LocalOK(r) /\ r.key[2] <= creates /\ Owner(r) /\ Owner(tabs[i]) /\ ~Viewer(r)
        /\ r.call = "create" /\ tabs[i].key \in Key
    BY <1>1, <1>3, <2>2 DEF LocalOK, SameBut, Creating, Owner, Viewer
  <2>4. Calm' => Stored(r)'
    <3> SUFFICES ASSUME Calm' PROVE (Opens \/ CanStartOver)'
      BY <2>2 DEF Stored
    <3>1. Stored(tabs[i])
      BY <2>3 DEF Calm, BrowserInv, VaultInv
    <3>2. PICK key \in Key, a \in {tabs[i].account} : key = tabs[i].key /\ a = tabs[i].account
      BY <2>3
    <3>3. CASE tabs[i].step = "registering"
      BY <3>1, <3>2, <3>3 DEF Stored, Vault, CanStartOver
    <3>4. CASE tabs[i].step \in {"challenging", "verifying", "waiting"}
      <4>1. disk = [params |-> {key[2]}, canary |-> {key}, identity |-> {[key |-> key, account |-> a]}]
        BY <3>1, <3>2, <3>4 DEF Stored, Vault
      <4>2. [key |-> key, account |-> a] \in disk.identity
        BY <4>1
      <4>3. [key |-> key, account |-> a].account \in accounts
        BY <4>2 DEF DiskInv, IdentityRegistered
      <4> QED
        BY <4>1, <4>3 DEF Opens
    <3> QED
      BY <1>1, <3>3, <3>4
  <2>5. ASSUME Undisturbed'
        PROVE  Own(r) /\ \A j \in Tab \ {i} : Alone(r, tabs[j]) /\ Alone(tabs[j], r)
    <3>1. Undisturbed /\ ShownInv
      BY <2>5 DEF Undisturbed, BrowserInv
    <3>2. Own(tabs[i])
      BY <3>1 DEF ShownInv
    <3>3. Own(r)
      BY <1>1, <1>3, <2>2, <2>3, <3>2 DEF Own, SameBut
    <3>4. \A j \in Tab \ {i} : Alone(tabs[i], tabs[j])
      BY <3>1 DEF ShownInv
    <3>5. \A j \in Tab \ {i} : Alone(r, tabs[j]) /\ Alone(tabs[j], r)
      BY <1>1, <1>3, <2>2, <2>3, <3>4 DEF Alone, SameBut
    <3> QED
      BY <3>3, <3>5
  <2>6. \A h \in handlers : h.tab = i => Answers(h, r)
    BY <2>2 DEF Answers
  <2> QED
    BY <1>1, <2>2, <2>3, <2>4, <2>5, <2>6, CallMove, SMT
<1> QED
  BY <1>2, <1>3

LEMMA RegisterMove ==
  ASSUME BrowserInv, NonceInv, NEW i \in Tab, Register(i) PROVE BrowserInv'
<1>1. /\ UNCHANGED <<disk, creates, handlers, causes>> /\ accounts \subseteq accounts'
      /\ tabs[i].step = "registering" /\ Goes(i, "saving")
  BY DEF Register, CreateAccount, At
<1>2. tabs[i] \in TabRecord /\ LocalOK(tabs[i]) /\ tabs[i].key[2] <= creates /\ creates \in Nat
  BY DEF BrowserInv, TypeInv
<1>3. tabs[i].call = "create" /\ Owner(tabs[i])
  BY <1>1, <1>2 DEF LocalOK, Resetting, Unlocking, TabRecord, Owner
<1>4. PICK r \in TabRecord : Moves(i, r) /\ r.step = "saving" /\ SameBut(r, tabs[i])
  BY <1>1, GoesRecord DEF BrowserInv, Creating
<1>5. LocalOK(r) /\ r.key[2] <= creates /\ Owner(r) /\ ~Viewer(r) /\ r.call = "create"
  BY <1>2, <1>3, <1>4 DEF LocalOK, SameBut, Creating, Owner, Viewer
<1>6. Calm' => Stored(r)'
  <2>1. Calm => Stored(tabs[i])
    BY <1>3 DEF BrowserInv, VaultInv, Calm
  <2> QED
    BY <1>1, <1>4, <2>1 DEF Stored, Calm, SameBut
<1>7. ASSUME Undisturbed'
      PROVE  Own(r) /\ \A j \in Tab \ {i} : Alone(r, tabs[j]) /\ Alone(tabs[j], r)
  <2>1. Undisturbed /\ ShownInv
    BY <1>1, <1>7 DEF Undisturbed, BrowserInv
  <2>2. Own(tabs[i]) /\ \A j \in Tab \ {i} : Alone(tabs[i], tabs[j])
    BY <2>1 DEF ShownInv
  <2> QED
    BY <1>1, <1>3, <1>4, <1>5, <2>2 DEF Own, Alone, SameBut
<1>8. \A h \in handlers : h.tab = i => Answers(h, r)
  BY <1>4 DEF Answers
<1> QED
  BY <1>1, <1>2, <1>3, <1>4, <1>5, <1>6, <1>7, <1>8, CallMove, SMT

(* A challenge has a nonce no handler has. *)
LEMMA ChallengeMove ==
  ASSUME BrowserInv, NonceInv, NEW i \in Tab, Challenge(i) PROVE BrowserInv'
<1>1. UNCHANGED <<disk, creates, handlers, causes, accounts>> /\ tabs[i].step = "challenging"
  BY DEF Challenge, CreateChallenge, At
<1>2. /\ tabs[i] \in TabRecord /\ LocalOK(tabs[i]) /\ tabs[i].key[2] <= creates /\ creates \in Nat
      /\ tabs \in [Tab -> TabRecord]
  BY DEF BrowserInv, TypeInv
<1>3. PICK n \in Nat : n = nonces + 1
  BY SMT DEF NonceInv
<1> DEFINE f == [tabs[i] EXCEPT !.step = "verifying", !.nonce = n]
<1>4. /\ f \in TabRecord /\ f.step = "verifying" /\ f.nonce = n
      /\ f.phase = tabs[i].phase /\ f.call = tabs[i].call /\ f.key = tabs[i].key
      /\ f.account = tabs[i].account /\ f.doomed = tabs[i].doomed /\ f.recoverable = tabs[i].recoverable
  BY <1>2 DEF TabRecord, Creating
<1>5. Moves(i, f)
  BY <1>2, <1>3 DEF Moves, Challenge
<1> HIDE DEF f
<1>6. PICK r \in TabRecord : r = f
  BY <1>4
<1>7. /\ Moves(i, r) /\ r.step = "verifying" /\ r.nonce = n
      /\ r.phase = tabs[i].phase /\ r.call = tabs[i].call /\ r.key = tabs[i].key
      /\ r.account = tabs[i].account /\ r.doomed = tabs[i].doomed /\ r.recoverable = tabs[i].recoverable
  BY <1>4, <1>5, <1>6
<1>8. /\ LocalOK(r) /\ r.key[2] <= creates /\ (Owner(r) <=> Owner(tabs[i]))
      /\ Viewer(tabs[i]) /\ Viewer(r)
  BY <1>1, <1>2, <1>7 DEF LocalOK, Creating, Resetting, Unlocking, Owner, Viewer
<1>9. Calm' /\ Owner(r) => Stored(r)'
  <2>1. Calm /\ Owner(tabs[i]) => Stored(tabs[i])
    BY DEF BrowserInv, VaultInv, Calm
  <2> QED
    BY <1>1, <1>7, <1>8, <2>1 DEF Stored, Calm
<1>10. ASSUME Undisturbed'
       PROVE  Shows(r) /\ Own(r) /\ \A j \in Tab \ {i} : Alone(r, tabs[j]) /\ Alone(tabs[j], r)
  <2>1. Undisturbed /\ ShownInv
    BY <1>1, <1>10 DEF Undisturbed, BrowserInv
  <2>2. Own(tabs[i]) /\ Shows(tabs[i])
    BY <1>8, <2>1 DEF ShownInv
  <2>3. \A j \in Tab \ {i} : Alone(tabs[i], tabs[j]) /\ Alone(tabs[j], tabs[i])
    BY <2>1 DEF ShownInv
  <2>4. Shows(r) /\ Own(r)
    BY <1>1, <1>7, <2>2 DEF Own, Shows
  <2>5. \A j \in Tab \ {i} : Alone(r, tabs[j]) /\ Alone(tabs[j], r)
    BY <1>1, <1>7, <1>8, <2>3 DEF Alone
  <2> QED
    BY <2>4, <2>5
<1>11. \A h \in handlers : h.tab = i => Answers(h, r)
  BY <1>3, <1>7, SMT DEF Answers, NonceInv
<1> QED
  BY <1>1, <1>2, <1>7, <1>8, <1>9, <1>10, <1>11, CallMove, SMT

(* The server starts or ends runs of handleVerify; the tabs do not move. *)
LEMMA HandlersMove ==
  ASSUME BrowserInv, UNCHANGED <<disk, creates, causes, accounts, tabs>>,
         \A h \in handlers' : h.account \in Nat /\ Answers(h, tabs[h.tab])
  PROVE  BrowserInv'
<1> USE DEF BrowserInv
<1>1. TypeInv'
  BY DEF TypeInv, LocalOK
<1>2. OneOwner' /\ VaultInv'
  BY DEF OneOwner, VaultInv, Owner, Stored, Settled, Opens, CanStartOver
<1>3. ShownInv'
  BY DEF ShownInv, Undisturbed, Viewer, Shows, Own, Alone
<1>4. AnswerInv'
  BY DEF AnswerInv, Answers
<1> QED
  BY <1>1, <1>2, <1>3, <1>4

LEMMA HandlerAnswers ==
  ASSUME BrowserInv, NEW i \in Tab, NEW copy
  PROVE  LET h == Handler(i, copy)
         IN  h.tab = i /\ h.account \in Nat /\ h.account = tabs[i].account /\ h.nonce = tabs[i].nonce
BY DEF Handler, BrowserInv, TypeInv, TabRecord

LEMMA VerifyAgainMove ==
  ASSUME BrowserInv, NonceInv, NEW i \in Tab, VerifyAgain(i) PROVE BrowserInv'
<1>1. UNCHANGED <<disk, creates, causes, accounts, tabs>> /\ handlers' = handlers \cup {Handler(i, 2)}
  BY DEF VerifyAgain, browser, server
<1>2. ASSUME NEW h \in handlers' PROVE h.account \in Nat /\ Answers(h, tabs[h.tab])
  <2>1. CASE h \in handlers
    BY <2>1 DEF BrowserInv, TypeInv, AnswerInv
  <2>2. CASE h = Handler(i, 2)
    BY <2>2, HandlerAnswers, SMT DEF Answers
  <2> QED
    BY <1>1, <2>1, <2>2
<1> QED
  BY <1>1, <1>2, HandlersMove

LEMMA VerifyMove ==
  ASSUME BrowserInv, NonceInv, NEW i \in Tab, Verify(i) PROVE BrowserInv'
<1>1. /\ UNCHANGED <<disk, creates, causes, accounts>> /\ handlers' = handlers \cup {Handler(i, 1)}
      /\ tabs[i].step = "verifying" /\ Goes(i, "waiting")
  BY DEF Verify, At, server
<1>2. /\ tabs[i] \in TabRecord /\ LocalOK(tabs[i]) /\ tabs[i].key[2] <= creates /\ creates \in Nat
      /\ disk \in DiskRecord /\ \A salt \in disk.params : salt <= creates
  BY DEF BrowserInv, TypeInv
<1>3. PICK r \in TabRecord : Moves(i, r) /\ r.step = "waiting" /\ SameBut(r, tabs[i])
  BY <1>1, GoesRecord DEF BrowserInv, Creating
<1>4. /\ LocalOK(r) /\ r.key[2] <= creates /\ (Owner(r) <=> Owner(tabs[i]))
      /\ Viewer(tabs[i]) /\ Viewer(r)
  BY <1>1, <1>2, <1>3 DEF LocalOK, SameBut, Creating, Resetting, Unlocking, Owner, Viewer
<1>5. TypeInv'
  <2>1. \A h \in handlers' : h.account \in Nat
    BY <1>1, HandlerAnswers, SMT DEF BrowserInv, TypeInv
  <2> QED
    BY <1>1, <1>2, <1>3, <1>4, <2>1, TypeMove, SMT DEF BrowserInv
<1>6. OneOwner'
  BY <1>1, <1>3, <1>4, OwnerMove DEF BrowserInv
<1>7. VaultInv'
  <2>1. Calm /\ Owner(tabs[i]) => Stored(tabs[i])
    BY DEF BrowserInv, VaultInv, Calm
  <2>2. Calm' /\ Owner(r) => Stored(r)'
    BY <1>1, <1>3, <1>4, <2>1 DEF Stored, Calm, SameBut
  <2> QED
    BY <1>1, <1>3, <1>4, <2>2, VaultMove DEF BrowserInv
<1>8. ShownInv'
  <2>1. ASSUME Undisturbed'
        PROVE  Shows(r) /\ Own(r) /\ \A j \in Tab \ {i} : Alone(r, tabs[j]) /\ Alone(tabs[j], r)
    <3>1. Undisturbed /\ ShownInv
      BY <1>1, <2>1 DEF Undisturbed, BrowserInv
    <3>2. Own(tabs[i]) /\ Shows(tabs[i])
      BY <1>4, <3>1 DEF ShownInv
    <3>3. \A j \in Tab \ {i} : Alone(tabs[i], tabs[j]) /\ Alone(tabs[j], tabs[i])
      BY <3>1 DEF ShownInv
    <3>4. Shows(r) /\ Own(r)
      BY <1>1, <1>3, <3>2 DEF Own, Shows, SameBut
    <3>5. \A j \in Tab \ {i} : Alone(r, tabs[j]) /\ Alone(tabs[j], r)
      BY <1>1, <1>3, <1>4, <3>3 DEF Alone, SameBut
    <3> QED
      BY <3>4, <3>5
  <2> QED
    BY <1>1, <1>3, <2>1, ShownMove DEF BrowserInv
<1>9. AnswerInv'
  <2> SUFFICES ASSUME NEW h \in handlers' PROVE Answers(h, tabs'[h.tab])
    BY DEF AnswerInv, Answers
  <2>1. tabs'[i] = r /\ \A l \in Tab \ {i} : tabs'[l] = tabs[l]
    BY <1>3 DEF Moves, BrowserInv, TypeInv
  <2>2. CASE h \in handlers
    <3>1. h.tab \in Tab /\ Answers(h, tabs[h.tab])
      BY <2>2 DEF BrowserInv, AnswerInv, NonceInv
    <3> QED
      BY <1>1, <1>3, <2>1, <3>1 DEF Answers, SameBut
  <2>3. CASE h = Handler(i, 1)
    BY <1>3, <2>1, <2>3, HandlerAnswers, SMT DEF Answers, SameBut
  <2> QED
    BY <1>1, <2>2, <2>3
<1> QED
  BY <1>5, <1>6, <1>7, <1>8, <1>9 DEF BrowserInv

LEMMA ConsumeMove ==
  ASSUME BrowserInv, NonceInv, DiskInv, NEW h \in handlers, Consume(h) PROVE BrowserInv'
<1>1. UNCHANGED <<disk, creates, causes, accounts>>
  BY DEF Consume, ConsumeChallenge, server
<1>2. h.tab \in Tab /\ {"tab", "nonce", "step"} \subseteq DOMAIN h
  BY DEF NonceInv
<1>3. \A g \in handlers : g.account \in Nat /\ Answers(g, tabs[g.tab])
  BY DEF BrowserInv, TypeInv, AnswerInv
<1>4. CASE handlers' = (handlers \ {h}) \cup {[h EXCEPT !.step = "issue"]} /\ UNCHANGED tabs
  <2> DEFINE g == [h EXCEPT !.step = "issue"]
  <2>1. g.tab = h.tab /\ g.nonce = h.nonce /\ g.account = h.account
    BY <1>2, SMT
  <2>2. Answers(g, tabs[g.tab]) /\ g.account \in Nat
    BY <1>3, <2>1 DEF Answers
  <2>3. \A k \in handlers' : k.account \in Nat /\ Answers(k, tabs[k.tab])
    BY <1>3, <1>4, <2>2
  <2> QED
    BY <1>1, <1>4, <2>3, HandlersMove
<1>5. CASE handlers' = handlers \ {h} /\ Awaited(h) /\ Fails(h.tab)
  BY <1>1, <1>2, <1>5, FailsMove DEF Awaited
<1>6. CASE handlers' = handlers \ {h} /\ UNCHANGED tabs
  BY <1>1, <1>3, <1>6, HandlersMove
<1> QED
  BY <1>4, <1>5, <1>6 DEF Consume

(* boot: the tab shows the account it asked a token for. *)
LEMMA IssueMove ==
  ASSUME BrowserInv, NonceInv, DiskInv, NEW h \in handlers, Issue(h) PROVE BrowserInv'
<1>1. UNCHANGED <<disk, creates, causes, accounts>> /\ handlers' = handlers \ {h}
  BY DEF Issue, CreateSessionToken
<1>2. h.tab \in Tab /\ h.account \in Nat
  BY DEF NonceInv, BrowserInv, TypeInv
<1>3. \A g \in handlers : g.account \in Nat /\ Answers(g, tabs[g.tab])
  BY DEF BrowserInv, TypeInv, AnswerInv
<1>4. CASE ~Awaited(h)
  <2>1. UNCHANGED tabs
    BY <1>4 DEF Issue
  <2> QED
    BY <1>1, <1>3, <2>1, HandlersMove
<1>5. CASE Awaited(h)
  <2>1. PICK i \in Tab, a \in Nat : i = h.tab /\ a = h.account
    BY <1>2
  <2>2. tabs[i].step = "waiting" /\ tabs[i].account = a
    BY <1>3, <1>5, <2>1 DEF Awaited, At, Answers
  <2>3. /\ tabs[i] \in TabRecord /\ LocalOK(tabs[i]) /\ creates \in Nat
    BY DEF BrowserInv, TypeInv
  <2> DEFINE f == [FreshTab EXCEPT !.phase = "ready", !.account = a]
  <2>4. /\ f \in TabRecord /\ f.phase = "ready" /\ f.call = "none" /\ f.step = "idle"
        /\ f.account = a /\ LocalOK(f) /\ f.key[2] = 0
    BY FreshTabOK
  <2>5. tabs' = [tabs EXCEPT ![i] = f]
    BY <1>5, <2>1 DEF Issue
  <2> HIDE DEF f
  <2>6. PICK r \in TabRecord : r = f
    BY <2>4
  <2>7. /\ Moves(i, r) /\ r.phase = "ready" /\ r.call = "none" /\ r.step = "idle"
        /\ r.account = a /\ LocalOK(r) /\ r.key[2] <= creates /\ ~Owner(r) /\ Viewer(tabs[i])
    BY <2>2, <2>3, <2>4, <2>5, <2>6, SMT DEF Moves, Owner, Viewer
  <2>8. ASSUME Calm', Owner(tabs[i]) PROVE Settled'
    <3>1. Stored(tabs[i]) /\ tabs[i].key \in Key
      BY <1>1, <2>2, <2>3, <2>8 DEF Calm, BrowserInv, VaultInv, LocalOK, Owner, Resetting
    <3>2. PICK key \in Key : key = tabs[i].key
      BY <3>1
    <3>3. disk = [params |-> {key[2]}, canary |-> {key}, identity |-> {[key |-> key, account |-> a]}]
      BY <2>2, <3>1, <3>2 DEF Stored, Vault
    <3>4. [key |-> key, account |-> a] \in disk.identity
      BY <3>3
    <3>5. [key |-> key, account |-> a].account \in accounts
      BY <3>4 DEF DiskInv, IdentityRegistered
    <3> QED
      BY <1>1, <3>3, <3>5 DEF Settled, Opens
  <2>9. ASSUME Undisturbed'
        PROVE  Shows(r) /\ Own(r) /\ \A j \in Tab \ {i} : Alone(r, tabs[j]) /\ Alone(tabs[j], r)
    <3>1. Undisturbed /\ ShownInv
      BY <1>1, <2>9 DEF Undisturbed, BrowserInv
    <3>2. Shows(tabs[i]) /\ \A j \in Tab \ {i} : Alone(tabs[j], tabs[i])
      BY <2>7, <3>1 DEF ShownInv
    <3>3. Shows(r) /\ Own(r)
      BY <2>2, <2>7, <3>2 DEF Own, Shows
    <3>4. \A j \in Tab \ {i} : Alone(r, tabs[j]) /\ Alone(tabs[j], r)
      BY <2>7, <3>2 DEF Alone
    <3> QED
      BY <3>3, <3>4
  <2>10. \A g \in handlers : g.tab = i => Answers(g, r)
    BY <2>7 DEF Answers
  <2> QED
    BY <1>1, <2>3, <2>7, <2>8, <2>9, <2>10, CallMove, SMT
<1> QED
  BY <1>4, <1>5

(* Vault.unlock fails in resetVault or in unlock. *)
LEMMA CannotOpenMove ==
  ASSUME BrowserInv, NonceInv, NEW i \in Tab, CannotOpen(i), tabs[i].step \in {"opening", "checking"},
         UNCHANGED <<disk, creates, handlers, accounts>>, causes \subseteq causes'
  PROVE  BrowserInv'
<1>1. tabs[i] \in TabRecord /\ LocalOK(tabs[i]) /\ tabs[i].key[2] <= creates /\ creates \in Nat
  BY DEF BrowserInv, TypeInv
<1>2. CASE tabs[i].call # "reset"
  <2>1. ~Owner(tabs[i])
    BY <1>1, <1>2 DEF LocalOK, Creating, Owner
  <2>2. Rests(i, "unlocking")
    BY <1>2 DEF CannotOpen
  <2> QED
    BY <2>1, <2>2, RestsMove
<1>3. CASE tabs[i].call = "reset"
  <2>1. Goes(i, "clearing")
    BY <1>3 DEF CannotOpen
  <2>2. PICK r \in TabRecord : Moves(i, r) /\ r.step = "clearing" /\ SameBut(r, tabs[i])
    BY <2>1, GoesRecord DEF BrowserInv, Resetting
  <2>3. LocalOK(r) /\ r.key[2] <= creates /\ Owner(r) /\ Owner(tabs[i]) /\ ~Viewer(r) /\ r.call = "reset"
    BY <1>1, <1>3, <2>2 DEF LocalOK, SameBut, Resetting, Owner, Viewer
  <2>4. Calm' => Stored(r)'
    <3>1. Calm' => Settled
      BY <2>3 DEF Calm, BrowserInv, VaultInv, Stored
    <3> QED
      BY <2>2, <3>1, SettledStays DEF Stored
  <2>5. ASSUME Undisturbed'
        PROVE  Own(r) /\ \A j \in Tab \ {i} : Alone(r, tabs[j]) /\ Alone(tabs[j], r)
    <3>1. Own(tabs[i])
      BY <2>5 DEF Undisturbed, BrowserInv, ShownInv
    <3> QED
      BY <1>3, <2>2, <2>3, <3>1 DEF Own, Alone
  <2>6. \A h \in handlers : h.tab = i => Answers(h, r)
    BY <2>2 DEF Answers
  <2> QED
    BY <1>1, <2>2, <2>3, <2>4, <2>5, <2>6, CallMove, SMT
<1> QED
  BY <1>2, <1>3

LEMMA OpenMove ==
  ASSUME BrowserInv, NonceInv, NEW i \in Tab, Open(i) PROVE BrowserInv'
<1>1. UNCHANGED <<disk, creates, handlers, accounts, causes>> /\ tabs[i].step = "opening"
  BY DEF Open, At, elsewhere, server
<1>2. CASE disk.params = {}
  BY <1>1, <1>2, CannotOpenMove DEF Open
<1>3. CASE disk.params # {}
  <2>1. PICK salt \in disk.params :
          tabs' = [tabs EXCEPT ![i].step = "checking", ![i].key = <<tabs[i].pass, salt>>]
    BY <1>3 DEF Open
  <2>2. /\ tabs[i] \in TabRecord /\ LocalOK(tabs[i]) /\ creates \in Nat /\ tabs \in [Tab -> TabRecord]
        /\ salt \in Nat /\ salt <= creates
    BY DEF BrowserInv, TypeInv, DiskRecord
  <2> DEFINE f == [tabs[i] EXCEPT !.step = "checking", !.key = <<tabs[i].pass, salt>>]
  <2>3. /\ f \in TabRecord /\ f.step = "checking" /\ f.key[2] = salt /\ f.call = tabs[i].call
        /\ f.phase = tabs[i].phase /\ f.recoverable = tabs[i].recoverable
    BY <2>2 DEF TabRecord, VaultKey, Resetting
  <2>4. Moves(i, f)
    BY <2>1, <2>2 DEF Moves
  <2> HIDE DEF f
  <2>5. PICK r \in TabRecord : r = f
    BY <2>3
  <2>6. tabs[i].call \in {"unlock", "reset"}
    BY <1>1, <2>2 DEF LocalOK, Creating, TabRecord
  <2>7. /\ Moves(i, r) /\ r.step = "checking" /\ r.key[2] <= creates /\ r.call = tabs[i].call
        /\ LocalOK(r) /\ ~Viewer(r) /\ (Owner(r) <=> Owner(tabs[i]))
    BY <2>2, <2>3, <2>4, <2>5, <2>6 DEF LocalOK, Resetting, Unlocking, Owner, Viewer
  <2>8. Calm' /\ Owner(r) => Stored(r)'
    <3>1. Calm /\ Owner(tabs[i]) => Settled
      BY <1>1 DEF Calm, BrowserInv, VaultInv, Stored
    <3> QED
      BY <1>1, <2>7, <3>1, SettledStays DEF Stored, Calm
  <2>9. ASSUME Undisturbed'
        PROVE  Own(r) /\ \A j \in Tab \ {i} : Alone(r, tabs[j]) /\ Alone(tabs[j], r)
    <3>1. Own(tabs[i])
      BY <1>1, <2>9 DEF Undisturbed, BrowserInv, ShownInv
    <3> QED
      BY <2>6, <2>7, <3>1 DEF Own, Alone
  <2>10. \A h \in handlers : h.tab = i => Answers(h, r)
    BY <2>7 DEF Answers
  <2> QED
    BY <1>1, <2>2, <2>7, <2>8, <2>9, <2>10, CallMove, SMT
<1> QED
  BY <1>2, <1>3

(* The canary opens: unlock reads on, and resetVault destroys. *)
LEMMA CheckCanaryMove ==
  ASSUME BrowserInv, NonceInv, NEW i \in Tab, CheckCanary(i) PROVE BrowserInv'
<1>1. /\ UNCHANGED <<disk, creates, handlers, accounts>> /\ causes \subseteq causes'
      /\ tabs[i].step = "checking"
  BY DEF CheckCanary, At, elsewhere, server
<1>2. CASE disk.canary # {tabs[i].key}
  BY <1>1, <1>2, CannotOpenMove DEF CheckCanary
<1>3. CASE disk.canary = {tabs[i].key}
  <2>1. tabs[i] \in TabRecord /\ LocalOK(tabs[i]) /\ tabs[i].key[2] <= creates /\ creates \in Nat
    BY DEF BrowserInv, TypeInv
  <2>2. tabs[i].call \in {"unlock", "reset"}
    BY <1>1, <2>1 DEF LocalOK, Creating, TabRecord
  <2>3. Goes(i, IF tabs[i].call = "reset" THEN "listing" ELSE "resuming")
    BY <1>3 DEF CheckCanary
  <2>4. PICK r \in TabRecord :
          /\ Moves(i, r) /\ SameBut(r, tabs[i])
          /\ r.step = IF tabs[i].call = "reset" THEN "listing" ELSE "resuming"
    BY <2>3, GoesRecord DEF BrowserInv, Resetting, Unlocking
  <2>5. LocalOK(r) /\ r.key[2] <= creates /\ (Owner(r) <=> Owner(tabs[i])) /\ ~Viewer(r)
    BY <2>1, <2>2, <2>4 DEF LocalOK, SameBut, Resetting, Unlocking, Owner, Viewer
  <2>6. Calm' /\ Owner(r) => Stored(r)'
    <3>1. Calm' /\ Owner(r) => Settled
      BY <1>1, <2>5 DEF Calm, BrowserInv, VaultInv, Stored
    <3>2. Calm' /\ Owner(r) => Opens \/ CanStartOver
      BY <1>3, <3>1, SMT DEF Settled, EmptyDisk
    <3>3. (Opens => Opens') /\ (CanStartOver => CanStartOver')
      BY <1>1 DEF Opens, CanStartOver
    <3>4. Owner(r) => r.step = "listing"
      BY <2>2, <2>4, <2>5 DEF Owner
    <3> QED
      BY <3>2, <3>3, <3>4 DEF Stored
  <2>7. ASSUME Undisturbed'
        PROVE  Own(r) /\ \A j \in Tab \ {i} : Alone(r, tabs[j]) /\ Alone(tabs[j], r)
    <3>1. Own(tabs[i])
      BY <1>1, <2>7 DEF Undisturbed, BrowserInv, ShownInv
    <3>2. Own(r)
      BY <2>2, <2>4, <3>1 DEF Own, SameBut
    <3>3. \A j \in Tab \ {i} : tabs[j].call # "create"
      BY <2>7 DEF CheckCanary, Contended, Undisturbed
    <3> QED
      BY <2>2, <2>4, <3>2, <3>3 DEF Alone, SameBut
  <2>8. \A h \in handlers : h.tab = i => Answers(h, r)
    BY <2>4 DEF Answers
  <2> QED
    BY <1>1, <2>1, <2>4, <2>5, <2>6, <2>7, <2>8, CallMove, SMT
<1> QED
  BY <1>2, <1>3

(* resume: the record read is under the key of the tab, so it is not one   *)
(* of a vault another tab is creating.                                     *)
LEMMA ResumeMove ==
  ASSUME BrowserInv, NonceInv, NEW i \in Tab, Resume(i) PROVE BrowserInv'
<1>1. UNCHANGED <<disk, creates, handlers, accounts, causes>> /\ tabs[i].step = "resuming"
  BY DEF Resume, At, elsewhere, server
<1>2. /\ tabs[i] \in TabRecord /\ LocalOK(tabs[i]) /\ tabs[i].key[2] <= creates /\ creates \in Nat
      /\ tabs \in [Tab -> TabRecord]
  BY DEF BrowserInv, TypeInv
<1>3. tabs[i].call = "unlock" /\ ~Owner(tabs[i]) /\ tabs[i].phase = "unlocking"
  BY <1>1, <1>2 DEF LocalOK, Creating, Resetting, TabRecord, Owner
<1>4. CASE tabs' = [tabs EXCEPT ![i].call = "none", ![i].step = "idle", ![i].recoverable = TRUE]
  <2> DEFINE f == [tabs[i] EXCEPT !.call = "none", !.step = "idle", !.recoverable = TRUE]
  <2>1. /\ f \in TabRecord /\ f.call = "none" /\ f.step = "idle" /\ f.phase = "unlocking"
        /\ f.key = tabs[i].key
    BY <1>2, <1>3 DEF TabRecord
  <2>2. Moves(i, f)
    BY <1>2, <1>4 DEF Moves
  <2> HIDE DEF f
  <2>3. PICK r \in TabRecord : r = f
    BY <2>1
  <2>4. /\ Moves(i, r) /\ LocalOK(r) /\ r.key[2] <= creates /\ ~Owner(r) /\ ~Viewer(r)
        /\ r.call = "none" /\ r.step = "idle"
    BY <1>2, <2>1, <2>2, <2>3 DEF LocalOK, Owner, Viewer
  <2>5. Own(r) /\ \A j \in Tab \ {i} : Alone(r, tabs[j]) /\ Alone(tabs[j], r)
    BY <2>4 DEF Own, Alone
  <2>6. \A h \in handlers : h.tab = i => Answers(h, r)
    BY <2>4 DEF Answers
  <2> QED
    BY <1>1, <1>2, <1>3, <2>4, <2>5, <2>6, CallMove, SMT
<1>5. ASSUME NEW q \in disk.identity, q.key = tabs[i].key,
             tabs' = [tabs EXCEPT ![i].step = "challenging", ![i].account = q.account]
      PROVE  BrowserInv'
  <2>1. q.account \in Nat
    BY DEF BrowserInv, TypeInv, DiskRecord, Identity
  <2> DEFINE f == [tabs[i] EXCEPT !.step = "challenging", !.account = q.account]
  <2>2. /\ f \in TabRecord /\ f.call = "unlock" /\ f.step = "challenging" /\ f.phase = "unlocking"
        /\ f.key = tabs[i].key /\ f.account = q.account
    BY <1>2, <1>3, <2>1 DEF TabRecord, Unlocking
  <2>3. Moves(i, f)
    BY <1>2, <1>5 DEF Moves
  <2> HIDE DEF f
  <2>4. PICK r \in TabRecord : r = f
    BY <2>2
  <2>5. /\ Moves(i, r) /\ LocalOK(r) /\ r.key[2] <= creates /\ ~Owner(r)
        /\ r.call = "unlock" /\ r.step = "challenging" /\ r.account = q.account
    BY <1>2, <2>2, <2>3, <2>4 DEF LocalOK, Owner, Unlocking
  <2>6. ASSUME Undisturbed'
        PROVE  Shows(r) /\ Own(r) /\ \A j \in Tab \ {i} : Alone(r, tabs[j]) /\ Alone(tabs[j], r)
    <3>1. Undisturbed /\ ShownInv
      BY <1>1, <2>6 DEF Undisturbed, BrowserInv
    <3>2. Shows(r) /\ Own(r)
      BY <2>5 DEF Shows, Own
    <3>3. ASSUME NEW j \in Tab \ {i} PROVE Alone(r, tabs[j]) /\ Alone(tabs[j], r)
      <4>1. Alone(tabs[j], tabs[i]) /\ Own(tabs[j])
        BY <3>1 DEF ShownInv
      <4>2. tabs[j].call = "create" => tabs[j].step = "exists"
        BY <1>1, <1>5, <4>1 DEF Alone, Own
      <4> QED
        BY <2>5, <4>2 DEF Alone
    <3> QED
      BY <3>2, <3>3
  <2>7. \A h \in handlers : h.tab = i => Answers(h, r)
    BY <2>5 DEF Answers
  <2> QED
    BY <1>1, <1>2, <1>3, <2>5, <2>6, <2>7, CallMove, SMT
<1>6. CASE Rests(i, "unlocking")
  BY <1>1, <1>3, <1>6, RestsMove
<1> QED
  BY <1>4, <1>5, <1>6 DEF Resume

LEMMA ResetMove ==
  ASSUME BrowserInv, NonceInv, NEW i \in Tab, Reset(i) PROVE BrowserInv'
<1>1. /\ UNCHANGED <<disk, handlers, accounts, creates>> /\ causes \subseteq causes'
      /\ tabs[i].step = "idle" /\ tabs[i].recoverable
  BY DEF Reset, elsewhere, server, At, Idle
<1>2. /\ tabs[i] \in TabRecord /\ LocalOK(tabs[i]) /\ creates \in Nat /\ tabs \in [Tab -> TabRecord]
      /\ tabs[i].key[2] <= creates
  BY DEF BrowserInv, TypeInv
<1> DEFINE f == [tabs[i] EXCEPT !.call = "reset", !.step = "opening"]
<1>3. /\ f \in TabRecord /\ f.call = "reset" /\ f.step = "opening" /\ f.key = tabs[i].key
      /\ f.phase = tabs[i].phase
  BY <1>2 DEF TabRecord, Resetting
<1>4. Moves(i, f)
  BY <1>2 DEF Moves, Reset
<1> HIDE DEF f
<1>5. PICK r \in TabRecord : r = f
  BY <1>3
<1>6. /\ Moves(i, r) /\ r.call = "reset" /\ r.step = "opening" /\ LocalOK(r) /\ r.key[2] <= creates
      /\ Owner(r) /\ ~Owner(tabs[i]) /\ ~Viewer(r)
  BY <1>1, <1>2, <1>3, <1>4, <1>5 DEF LocalOK, Resetting, Owner, Viewer
<1>7. "raced" \in causes' \/ \A j \in Tab \ {i} : ~Owner(tabs[j])
  BY DEF Reset, Contended, Owner
<1>8. Calm' => Stored(r)'
  <2> SUFFICES ASSUME Calm' PROVE Settled'
    BY <1>6 DEF Stored
  <2>1. Calm /\ "raced" \notin causes'
    BY <1>1 DEF Calm
  <2>2. \A j \in Tab : ~Owner(tabs[j])
    BY <1>6, <1>7, <2>1
  <2>3. Settled
    BY <2>1, <2>2 DEF BrowserInv, VaultInv, Calm
  <2> QED
    BY <1>1, <2>3, SettledStays
<1>9. Undisturbed' => Own(r) /\ \A j \in Tab \ {i} : Alone(r, tabs[j]) /\ Alone(tabs[j], r)
  <2>1. Undisturbed' => disk.identity = {}
    BY DEF Reset, Undisturbed
  <2> QED
    BY <1>6, <2>1 DEF Own, Alone
<1>10. \A h \in handlers : h.tab = i => Answers(h, r)
  BY <1>6 DEF Answers
<1> QED
  BY <1>1, <1>2, <1>6, <1>7, <1>8, <1>9, <1>10, CallMove, SMT

LEMMA ListRecordsMove ==
  ASSUME BrowserInv, NonceInv, NEW i \in Tab, ListRecords(i) PROVE BrowserInv'
<1>1. UNCHANGED <<disk, creates, handlers, accounts, causes>> /\ tabs[i].step = "listing"
  BY DEF ListRecords, At, elsewhere, server
<1>2. /\ tabs[i] \in TabRecord /\ LocalOK(tabs[i]) /\ tabs[i].key[2] <= creates /\ creates \in Nat
      /\ tabs \in [Tab -> TabRecord]
  BY DEF BrowserInv, TypeInv
<1>3. PICK doomed \in SUBSET {"canary", "identity"} :
        doomed = {x \in {"canary", "identity"} : disk[x] # {}}
  OBVIOUS
<1> DEFINE f == [tabs[i] EXCEPT !.step = "deleting", !.doomed = doomed]
<1>4. /\ f \in TabRecord /\ f.call = tabs[i].call /\ f.step = "deleting" /\ f.key = tabs[i].key
      /\ f.phase = tabs[i].phase /\ f.recoverable = tabs[i].recoverable /\ f.doomed = doomed
  BY <1>2 DEF TabRecord, Creating
<1>5. Moves(i, f)
  BY <1>2, <1>3 DEF Moves, ListRecords
<1> HIDE DEF f
<1>6. PICK r \in TabRecord : r = f
  BY <1>4
<1>7. /\ Moves(i, r) /\ LocalOK(r) /\ r.key[2] <= creates /\ Owner(r) /\ Owner(tabs[i]) /\ ~Viewer(r)
      /\ r.call = tabs[i].call /\ r.step = "deleting" /\ r.key = tabs[i].key /\ r.doomed = doomed
  BY <1>1, <1>2, <1>4, <1>5, <1>6 DEF LocalOK, Creating, Resetting, Unlocking, TabRecord, Owner, Viewer
<1>8. Calm' => Stored(r)'
  <2>1. Calm' => Opens \/ CanStartOver
    BY <1>1, <1>7 DEF Calm, BrowserInv, VaultInv, Stored
  <2>2. (Opens => Opens') /\ (CanStartOver => CanStartOver')
    BY <1>1 DEF Opens, CanStartOver
  <2>3. \A x \in {"canary", "identity"} \ doomed : disk'[x] = {}
    BY <1>1, <1>3
  <2> QED
    BY <1>7, <2>1, <2>2, <2>3 DEF Stored
<1>9. ASSUME Undisturbed'
      PROVE  Own(r) /\ \A j \in Tab \ {i} : Alone(r, tabs[j]) /\ Alone(tabs[j], r)
  <2>1. Undisturbed /\ ShownInv
    BY <1>1, <1>9 DEF Undisturbed, BrowserInv
  <2>2. Own(tabs[i]) /\ \A j \in Tab \ {i} : Alone(tabs[i], tabs[j])
    BY <2>1 DEF ShownInv
  <2>3. Own(r)
    BY <1>1, <1>3, <1>7, <2>2 DEF Own
  <2>4. \A j \in Tab \ {i} : Alone(r, tabs[j]) /\ Alone(tabs[j], r)
    BY <1>1, <1>7, <2>2 DEF Alone
  <2> QED
    BY <2>3, <2>4
<1>10. \A h \in handlers : h.tab = i => Answers(h, r)
  BY <1>7 DEF Answers
<1> QED
  BY <1>1, <1>2, <1>7, <1>8, <1>9, <1>10, CallMove, SMT

(* A tab writes to the vault it creates or resets. *)
LEMMA WriteMove ==
  ASSUME BrowserInv, NonceInv, NEW i \in Tab, NEW r \in TabRecord, Moves(i, r), LocalOK(r),
         UNCHANGED <<creates, handlers, causes>>, r.key[2] <= creates,
         disk' \in DiskRecord, \A salt \in disk'.params : salt <= creates,
         Owner(tabs[i]), tabs[i].step # "exists", r.step # "exists",
         r.call = tabs[i].call \/ r.call = "none", r.key = tabs[i].key \/ r.call = "none",
         r.step \notin {"verifying", "waiting"},
         Calm /\ Stored(tabs[i]) => IF Owner(r) THEN Stored(r)' ELSE Settled',
         Undisturbed /\ Own(tabs[i]) /\ (disk.identity # {} => disk.params # {}) =>
           /\ disk'.identity # {} => disk'.params # {}
           /\ Viewer(r) => Shows(r)'
           /\ Own(r)'
  PROVE  BrowserInv'
<1> USE DEF BrowserInv
<1>1. TypeInv'
  BY TypeMove, SMT DEF TypeInv
<1>2. OneOwner' /\ VaultInv'
  BY VaultWrite
<1>3. ShownInv'
  BY ShownWrite
<1>4. AnswerInv'
  BY AnswerMove DEF Answers
<1> QED
  BY <1>1, <1>2, <1>3, <1>4

LEMMA WriteParamsMove ==
  ASSUME BrowserInv, NonceInv, NEW i \in Tab, WriteParams(i) PROVE BrowserInv'
<1>1. /\ UNCHANGED <<creates, handlers, causes>> /\ tabs[i].step = "params" /\ Goes(i, "canary")
      /\ disk' = [disk EXCEPT !.params = {tabs[i].key[2]}]
  BY DEF WriteParams, At, elsewhere
<1>2. /\ tabs[i] \in TabRecord /\ LocalOK(tabs[i]) /\ tabs[i].key[2] <= creates /\ creates \in Nat
      /\ disk \in DiskRecord /\ tabs[i].key[2] \in Nat
  BY DEF BrowserInv, TypeInv, TabRecord, VaultKey
<1>3. tabs[i].call = "create" /\ Owner(tabs[i])
  BY <1>1, <1>2 DEF LocalOK, Resetting, Unlocking, TabRecord, Owner
<1>4. PICK r \in TabRecord : Moves(i, r) /\ r.step = "canary" /\ SameBut(r, tabs[i])
  BY <1>1, GoesRecord DEF BrowserInv, Creating
<1>5. /\ LocalOK(r) /\ r.key[2] <= creates /\ Owner(r) /\ ~Viewer(r) /\ r.call = "create"
      /\ r.key = tabs[i].key
  BY <1>2, <1>3, <1>4 DEF LocalOK, SameBut, Creating, Owner, Viewer
<1>6. /\ disk' \in DiskRecord /\ \A salt \in disk'.params : salt <= creates
      /\ disk'.identity = disk.identity /\ disk'.params # {}
  BY <1>1, <1>2 DEF DiskRecord
<1>7. Stored(tabs[i]) => Stored(r)'
  <2> SUFFICES ASSUME disk = EmptyDisk
               PROVE  disk' = [params |-> {r.key[2]}, canary |-> {}, identity |-> {}]
    BY <1>1, <1>4 DEF Stored
  <2> QED
    BY <1>1, <1>5 DEF EmptyDisk
<1>8. Own(tabs[i]) => Own(r)'
  BY <1>1, <1>3, <1>4, <1>5, <1>6 DEF Own
<1> QED
  BY <1>1, <1>3, <1>4, <1>5, <1>6, <1>7, <1>8, WriteMove

LEMMA WriteCanaryMove ==
  ASSUME BrowserInv, NonceInv, NEW i \in Tab, WriteCanary(i) PROVE BrowserInv'
<1>1. /\ UNCHANGED <<creates, handlers, causes>> /\ tabs[i].step = "canary" /\ Goes(i, "registering")
      /\ disk' = [disk EXCEPT !.canary = {tabs[i].key}]
  BY DEF WriteCanary, At, elsewhere
<1>2. /\ tabs[i] \in TabRecord /\ LocalOK(tabs[i]) /\ tabs[i].key[2] <= creates /\ creates \in Nat
      /\ disk \in DiskRecord /\ tabs[i].key \in VaultKey
      /\ \A salt \in disk.params : salt <= creates
  BY DEF BrowserInv, TypeInv, TabRecord
<1>3. tabs[i].call = "create" /\ Owner(tabs[i])
  BY <1>1, <1>2 DEF LocalOK, Resetting, Unlocking, TabRecord, Owner
<1>4. PICK r \in TabRecord : Moves(i, r) /\ r.step = "registering" /\ SameBut(r, tabs[i])
  BY <1>1, GoesRecord DEF BrowserInv, Creating
<1>5. /\ LocalOK(r) /\ r.key[2] <= creates /\ Owner(r) /\ ~Viewer(r) /\ r.call = "create"
      /\ r.key = tabs[i].key
  BY <1>2, <1>3, <1>4 DEF LocalOK, SameBut, Creating, Owner, Viewer
<1>6. disk' \in DiskRecord /\ disk'.identity = disk.identity /\ disk'.params = disk.params
  BY <1>1, <1>2 DEF DiskRecord
<1>7. Stored(tabs[i]) => Stored(r)'
  <2> SUFFICES ASSUME disk = [params |-> {tabs[i].key[2]}, canary |-> {}, identity |-> {}]
               PROVE  disk' = Vault(r.key, {})
    BY <1>1, <1>4 DEF Stored
  <2> QED
    BY <1>1, <1>5 DEF Vault
<1>8. Own(tabs[i]) => Own(r)'
  BY <1>1, <1>3, <1>4, <1>5, <1>6 DEF Own
<1> QED
  BY <1>1, <1>2, <1>3, <1>4, <1>5, <1>6, <1>7, <1>8, WriteMove

LEMMA SaveIdentityMove ==
  ASSUME BrowserInv, NonceInv, NEW i \in Tab, SaveIdentity(i) PROVE BrowserInv'
<1>1. /\ UNCHANGED <<creates, handlers, causes>> /\ tabs[i].step = "saving" /\ Goes(i, "challenging")
      /\ disk' = [disk EXCEPT !.identity = {[key |-> tabs[i].key, account |-> tabs[i].account]}]
  BY DEF SaveIdentity, At, elsewhere
<1>2. /\ tabs[i] \in TabRecord /\ LocalOK(tabs[i]) /\ tabs[i].key[2] <= creates /\ creates \in Nat
      /\ disk \in DiskRecord /\ tabs[i].key \in VaultKey /\ tabs[i].account \in Nat
      /\ \A salt \in disk.params : salt <= creates
  BY DEF BrowserInv, TypeInv, TabRecord
<1>3. tabs[i].call = "create" /\ Owner(tabs[i])
  BY <1>1, <1>2 DEF LocalOK, Resetting, Unlocking, TabRecord, Owner
<1>4. PICK r \in TabRecord : Moves(i, r) /\ r.step = "challenging" /\ SameBut(r, tabs[i])
  BY <1>1, GoesRecord DEF BrowserInv, Creating
<1>5. /\ LocalOK(r) /\ r.key[2] <= creates /\ Owner(r) /\ r.call = "create"
      /\ r.key = tabs[i].key /\ r.account = tabs[i].account
  BY <1>2, <1>3, <1>4 DEF LocalOK, SameBut, Creating, Owner
<1>6. PICK record \in Identity : record = [key |-> r.key, account |-> r.account]
  BY <1>2, <1>5 DEF Identity
<1>7. /\ disk' \in DiskRecord /\ disk'.identity = {record} /\ disk'.params = disk.params
      /\ record.key = r.key /\ record.account = r.account
  BY <1>1, <1>2, <1>5, <1>6 DEF DiskRecord
<1>8. Stored(tabs[i]) => Stored(r)'
  <2> SUFFICES ASSUME disk = Vault(tabs[i].key, {})
               PROVE  disk' = Vault(r.key, {[key |-> r.key, account |-> r.account]})
    BY <1>1, <1>4 DEF Stored
  <2> QED
    BY <1>1, <1>5 DEF Vault
<1>9. Own(r)' /\ Shows(r)'
  BY <1>4, <1>5, <1>7 DEF Own, Shows
<1>10. Own(tabs[i]) => disk'.params # {}
  BY <1>1, <1>3, <1>7 DEF Own
<1> QED
  BY <1>1, <1>2, <1>3, <1>4, <1>5, <1>7, <1>8, <1>9, <1>10, WriteMove

(* Vault.destroy deletes the canary before the identity. *)
LEMMA DeleteRecordMove ==
  ASSUME BrowserInv, NonceInv, NEW i \in Tab, DeleteRecord(i) PROVE BrowserInv'
<1>1. PICK x \in {"canary", "identity"} :
        /\ x = IF "canary" \in tabs[i].doomed THEN "canary" ELSE "identity"
        /\ disk' = [disk EXCEPT ![x] = {}]
        /\ tabs' = [tabs EXCEPT ![i].doomed = @ \ {x}]
  BY DEF DeleteRecord
<1>2. UNCHANGED <<creates, handlers, causes>> /\ tabs[i].step = "deleting"
  BY DEF DeleteRecord, At, elsewhere
<1>3. /\ tabs[i] \in TabRecord /\ LocalOK(tabs[i]) /\ tabs[i].key[2] <= creates /\ creates \in Nat
      /\ disk \in DiskRecord /\ tabs \in [Tab -> TabRecord]
      /\ \A salt \in disk.params : salt <= creates
  BY DEF BrowserInv, TypeInv
<1> DEFINE f == [tabs[i] EXCEPT !.doomed = tabs[i].doomed \ {x}]
<1>4. /\ f \in TabRecord /\ f.call = tabs[i].call /\ f.step = "deleting" /\ f.key = tabs[i].key
      /\ f.phase = tabs[i].phase /\ f.recoverable = tabs[i].recoverable
      /\ f.doomed = tabs[i].doomed \ {x}
  BY <1>2, <1>3 DEF TabRecord
<1>5. Moves(i, f)
  BY <1>1, <1>3 DEF Moves
<1> HIDE DEF f
<1>6. PICK r \in TabRecord : r = f
  BY <1>4
<1>7. /\ Moves(i, r) /\ LocalOK(r) /\ r.key[2] <= creates /\ Owner(r) /\ Owner(tabs[i]) /\ ~Viewer(r)
      /\ r.call = tabs[i].call /\ r.step = "deleting" /\ r.key = tabs[i].key
      /\ r.doomed = tabs[i].doomed \ {x}
  BY <1>2, <1>3, <1>4, <1>5, <1>6 DEF LocalOK, Creating, Resetting, Unlocking, TabRecord, Owner, Viewer
<1>8. /\ disk' \in DiskRecord /\ disk'.params = disk.params /\ disk'[x] = {}
      /\ \A y \in {"canary", "identity"} \ {x} : disk'[y] = disk[y]
      /\ disk'.identity \subseteq disk.identity
  BY <1>1, <1>3 DEF DiskRecord
<1>9. Stored(tabs[i]) => Stored(r)'
  <2>1. "canary" \notin r.doomed
    BY <1>1, <1>7
  <2>2. Stored(tabs[i]) => \A y \in {"canary", "identity"} \ r.doomed : disk'[y] = {}
    BY <1>2, <1>7, <1>8 DEF Stored
  <2> QED
    BY <1>7, <2>1, <2>2 DEF Stored
<1>10. Own(tabs[i]) => Own(r)'
  <2>1. Own(tabs[i]) /\ "identity" \notin r.doomed => disk'.identity = {}
    BY <1>1, <1>2, <1>7, <1>8 DEF Own
  <2> QED
    BY <1>2, <1>7, <1>8, <2>1 DEF Own
<1> QED
  BY <1>2, <1>3, <1>7, <1>8, <1>9, <1>10, WriteMove

LEMMA DeleteParamsMove ==
  ASSUME BrowserInv, NonceInv, NEW i \in Tab, DeleteParams(i) \/ ClearStorage(i) PROVE BrowserInv'
<1>1. /\ UNCHANGED <<creates, handlers, causes>> /\ Rests(i, "onboarding")
      /\ tabs[i].step \in {"deleting", "clearing"}
  BY DEF DeleteParams, ClearStorage, At, elsewhere
<1>2. /\ tabs[i] \in TabRecord /\ LocalOK(tabs[i]) /\ creates \in Nat /\ disk \in DiskRecord
  BY DEF BrowserInv, TypeInv
<1>3. Owner(tabs[i])
  BY <1>1, <1>2 DEF LocalOK, Creating, Resetting, Unlocking, TabRecord, Owner
<1> DEFINE f == [FreshTab EXCEPT !.phase = "onboarding"]
<1>4. /\ f \in TabRecord /\ f.phase = "onboarding" /\ f.call = "none" /\ f.step = "idle"
      /\ LocalOK(f) /\ f.key[2] = 0
  BY DEF FreshTab, NoVault, TabRecord, VaultKey, LocalOK, Creating, Resetting, Unlocking
<1>5. tabs' = [tabs EXCEPT ![i] = f]
  BY <1>1 DEF Rests
<1> HIDE DEF f
<1>6. PICK r \in TabRecord : r = f
  BY <1>4
<1>7. /\ Moves(i, r) /\ LocalOK(r) /\ r.key[2] <= creates /\ ~Owner(r) /\ ~Viewer(r)
      /\ r.call = "none" /\ r.step = "idle"
  BY <1>2, <1>4, <1>5, <1>6, SMT DEF Moves, Owner, Viewer
<1>8. disk' \in DiskRecord /\ disk'.params = {}
  BY <1>2, SMT DEF DeleteParams, ClearStorage, EmptyDisk, DiskRecord
<1>9. Stored(tabs[i]) => Settled'
  <2>1. CASE DeleteParams(i)
    <3>1. Stored(tabs[i]) => disk.canary = {} /\ disk.identity = {}
      BY <2>1 DEF DeleteParams, At, Stored
    <3>2. disk = [params |-> disk.params, canary |-> disk.canary, identity |-> disk.identity]
      BY <1>2 DEF DiskRecord
    <3>3. disk' = [params |-> {}, canary |-> disk.canary, identity |-> disk.identity]
      BY <2>1, <3>2 DEF DeleteParams
    <3> QED
      BY <3>1, <3>3 DEF Settled, EmptyDisk
  <2>2. CASE ClearStorage(i)
    BY <2>2 DEF ClearStorage, Settled
  <2> QED
    BY <2>1, <2>2
<1>10. Own(tabs[i]) => disk'.identity = {}
  <2>1. CASE DeleteParams(i)
    BY <1>2, <2>1 DEF DeleteParams, At, Own, DiskRecord
  <2>2. CASE ClearStorage(i)
    BY <2>2 DEF ClearStorage, EmptyDisk
  <2> QED
    BY <2>1, <2>2
<1>11. Own(r)'
  BY <1>7 DEF Own
<1> QED
  BY <1>1, <1>3, <1>7, <1>8, <1>9, <1>10, <1>11, WriteMove

LEMMA BrowserStep == OnboardingInv /\ BrowserInv /\ [Next]_vars => BrowserInv'
<1> SUFFICES ASSUME NonceInv, DiskInv, BrowserInv, [Next]_vars PROVE BrowserInv'
  BY DEF OnboardingInv
<1>1. CASE LetTimePass \/ UNCHANGED vars
  <2>1. UNCHANGED <<disk, creates, causes, accounts, tabs, handlers>>
    BY <1>1 DEF LetTimePass, vars, browser, server
  <2>2. \A h \in handlers' : h.account \in Nat /\ Answers(h, tabs[h.tab])
    BY <2>1 DEF BrowserInv, TypeInv, AnswerInv
  <2> QED
    BY <2>1, <2>2, HandlersMove
<1>2. ASSUME NEW h \in handlers, Consume(h) \/ Issue(h) PROVE BrowserInv'
  BY <1>2, ConsumeMove, IssueMove
<1>3. ASSUME NEW i \in Tab,
             \/ Limited(i) \/ Register(i) \/ Challenge(i) \/ Verify(i)
             \/ VerifyAgain(i) \/ RequestFails(i)
      PROVE  BrowserInv'
  <2>1. CASE Limited(i)
    BY <2>1, FailsMove DEF Limited, server
  <2>2. CASE RequestFails(i)
    BY <2>2, FailsMove DEF RequestFails, server, CreateAccount, CreateChallenge
  <2> QED
    BY <1>3, <2>1, <2>2, RegisterMove, ChallengeMove, VerifyMove, VerifyAgainMove
<1>4. ASSUME NEW i \in Tab, NEW p \in Passphrase, Create(i, p) \/ Unlock(i, p) PROVE BrowserInv'
  BY <1>4, CreateMove, UnlockMove
<1>5. ASSUME NEW i \in Tab,
             \/ Mount(i) \/ CheckExists(i) \/ WriteParams(i) \/ WriteCanary(i) \/ SaveIdentity(i)
             \/ Open(i) \/ CheckCanary(i) \/ Resume(i) \/ Reset(i)
             \/ ListRecords(i) \/ DeleteRecord(i) \/ DeleteParams(i) \/ ClearStorage(i)
             \/ Lock(i) \/ Reload(i)
      PROVE  BrowserInv'
  BY <1>5, MountMove, CheckExistsMove, WriteParamsMove, WriteCanaryMove, SaveIdentityMove, OpenMove,
     CheckCanaryMove, ResumeMove, ResetMove, ListRecordsMove, DeleteRecordMove, DeleteParamsMove,
     LockMove, ReloadMove
<1> QED
  BY <1>1, <1>2, <1>3, <1>4, <1>5 DEF Next

(* When no call is running storage holds no vault, one whose account       *)
(* opens, or one left by a closed tab that can be started over, for any    *)
(* number of tabs, passphrases and faults (Vault.create, Vault.destroy).   *)
THEOREM VaultIsNeverStranded == Spec => []VaultAtRest
<1>1. OnboardingInv /\ BrowserInv => VaultAtRest
  <2> SUFFICES ASSUME BrowserInv, \A i \in Tab : Idle(i), causes \cap {"raced", "torn"} = {}
               PROVE  Settled
    BY DEF VaultAtRest, Settled
  <2>1. \A i \in Tab : ~Owner(tabs[i])
    BY DEF BrowserInv, TypeInv, LocalOK, Owner, Idle, At
  <2> QED
    BY <2>1 DEF BrowserInv, VaultInv
<1> QED
  BY <1>1, OnboardingInit, OnboardingStep, BrowserInit, BrowserStep, PTL DEF Spec

(* The account a tab shows stays in storage, however many other tabs       *)
(* create, unlock, reset and reload (createAccount, resetVault).           *)
THEOREM ShownAccountIsStored == Spec => []ShownAccountKept
<1>1. OnboardingInv /\ BrowserInv => ShownAccountKept
  BY DEF BrowserInv, ShownInv, ShownAccountKept, Undisturbed, Viewer, Shows
<1> QED
  BY <1>1, OnboardingInit, OnboardingStep, BrowserInit, BrowserStep, PTL DEF Spec

LEMMA ChargedIsAddress == Charged = {AddressOf}
<1>1. ASSUME NEW header \in {<<>>} \cup {<<a>> : a \in Address} PROVE header \in Seq(Address)
  <2>1. CASE header = <<>>
    BY <2>1, SMT
  <2>2. ASSUME NEW a \in Address, header = <<a>> PROVE header \in Seq(Address)
    BY <2>2, SMT
  <2> QED
    BY <2>1, <2>2
<1>2. AddressOf \in Address
  BY OnboardingAssumption
<1>3. \A header \in {<<>>} \cup {<<a>> : a \in Address} :
        ClientIP(PeerAddress(AddressOf), Forwarded(AddressOf, header)) = AddressOf
  BY <1>1, <1>2, OwnBucket
<1> QED
  BY <1>3, SMT DEF Charged

LEMMA RequestsAreLimited == [Next]_vars => [LimiterNext]_limiter
<1> SUFFICES ASSUME [Next]_vars PROVE LimiterNext \/ UNCHANGED limiter
  OBVIOUS
<1>1. CASE LetTimePass
  BY <1>1 DEF LetTimePass, LimiterNext
<1>2. CASE UNCHANGED vars
  BY <1>2 DEF vars
<1>3. ASSUME NEW i \in Tab, Limited(i) \/ Register(i) \/ Challenge(i) \/ Verify(i) \/ VerifyAgain(i)
      PROVE  LimiterNext
  <2>1. AddressOf \in Address
    BY OnboardingAssumption
  <2>2. Allow(AddressOf) \/ Deny(AddressOf)
    BY <1>3, ChargedIsAddress DEF Limited, Register, Challenge, Verify, VerifyAgain
  <2> QED
    BY <2>1, <2>2 DEF LimiterNext
<1>4. ASSUME NEW i \in Tab, NEW p,
             \/ Mount(i) \/ Create(i, p) \/ Unlock(i, p) \/ CheckExists(i)
             \/ WriteParams(i) \/ WriteCanary(i) \/ SaveIdentity(i)
             \/ Open(i) \/ CheckCanary(i) \/ Resume(i) \/ Reset(i)
             \/ ListRecords(i) \/ DeleteRecord(i) \/ DeleteParams(i) \/ ClearStorage(i)
             \/ Lock(i) \/ Reload(i)
      PROVE  UNCHANGED limiter
  BY <1>4 DEF Mount, Create, Unlock, CheckExists, WriteParams, WriteCanary, SaveIdentity, Open, CheckCanary,
              Resume, Reset, ListRecords, DeleteRecord, DeleteParams, ClearStorage, Lock, Reload,
              elsewhere
<1>5. ASSUME NEW i \in Tab, RequestFails(i) PROVE LimiterNext \/ UNCHANGED limiter
  BY <1>5, ChargedIsAddress, OnboardingAssumption DEF RequestFails, LimiterNext
<1>6. ASSUME NEW h \in handlers, Consume(h) \/ Issue(h) PROVE UNCHANGED limiter
  BY <1>6 DEF Consume, Issue
<1> QED
  BY <1>1, <1>2, <1>3, <1>4, <1>5, <1>6 DEF Next

(* The requests of the tabs are charged to the browser's own address and   *)
(* bounded in every window, whatever header they bring (rateLimit).        *)
THEOREM RequestsStayInWindow == Spec => []WindowBounded
<1>1. LimiterInv => WindowBounded
  BY BalancedBoundsWindow
<1>2. Init => LimiterInv
  BY LimiterInitInv DEF Init
<1>3. LimiterInv /\ [Next]_vars => LimiterInv'
  BY RequestsAreLimited, LimiterStepInv
<1> QED
  BY <1>1, <1>2, <1>3, PTL DEF Spec
=============================================================================
