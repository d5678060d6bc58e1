------------------------------ MODULE Ratchet ------------------------------
(***************************************************************************)
(* The Double Ratchet of web/src/lib/crypto/ratchet.ts as functions on     *)
(* session states, with symbolic keys.                                     *)
(*                                                                         *)
(* A ratchet public key is <<party, k>>, the k-th key pair of the party.   *)
(* A root key is the sequence of Diffie-Hellman outputs mixed into it, and *)
(* the chain started together with it goes by the same sequence.  The code *)
(* advances a chain key and its counter together, so chain and counter     *)
(* stand for the chain key, and a message key is the chain and the number. *)
(* Two keys are equal exactly when both sides mixed in the same outputs.   *)
(***************************************************************************)
EXTENDS Naturals, Sequences, FiniteSets

CONSTANTS
  MaxSkippedKeys,  \* ratchet.ts: MAX_SKIPPED_KEYS, 2000
  MaxSkipChains    \* ratchet.ts: MAX_SKIP_CHAINS, 64

ASSUME RatchetAssumption ==
  /\ MaxSkippedKeys \in Nat \ {0}
  /\ MaxSkipChains \in Nat \ {0}

NoChain == <<>>     \* an absent chain key
NoKey == <<>>       \* an absent ratchet key

(* A Diffie-Hellman output: the same from either side. *)
DH(a, b) == {a, b}

(* advanceRootKey *)
AdvanceRootKey(root, dh) == Append(root, dh)

(* initializeInitiator, against the peer's signed prekey. *)
InitializeInitiator(secret, ours, theirSignedPrekey) ==
  LET root == AdvanceRootKey(secret, DH(ours, theirSignedPrekey))
  IN  [root |-> root, ours |-> ours, theirs |-> theirSignedPrekey,
       sending |-> root, receiving |-> NoChain,
       sendCount |-> 0, receiveCount |-> 0, previous |-> 0, skipped |-> <<>>]

(* initializeResponder: the signed prekey pair is the first ratchet key.   *)
InitializeResponder(secret, ourSignedPrekey) ==
  [root |-> secret, ours |-> ourSignedPrekey, theirs |-> NoKey,
   sending |-> NoChain, receiving |-> NoChain,
   sendCount |-> 0, receiveCount |-> 0, previous |-> 0, skipped |-> <<>>]

-----------------------------------------------------------------------------
CanEncrypt(s) == s.sending # NoChain

(* What encryptMessage returns for plaintext id; chain and n are the key   *)
(* it is sealed with.                                                      *)
Sealed(s, id) ==
  [id |-> id, dh |-> s.ours, pn |-> s.previous, n |-> s.sendCount, chain |-> s.sending]

(* Mutant: the sending chain does not advance. *)
EncryptedRepeats(s) == s

(* The state encryptMessage leaves. *)
Encrypted(s) == [s EXCEPT !.sendCount = @ + 1]

-----------------------------------------------------------------------------
(* Mutant: no bound on the number of chains. *)
EvictKeysOnly(skipped) ==
  IF Len(skipped) > MaxSkippedKeys
    THEN SubSeq(skipped, Len(skipped) - MaxSkippedKeys + 1, Len(skipped)) ELSE skipped

(* The entries of a cache that are not in D, in their order. *)
Without(cache, D) ==
  LET kept[i \in 0 .. Len(cache)] ==
        IF i = 0 THEN <<>>
        ELSE IF cache[i] \in D THEN kept[i - 1] ELSE Append(kept[i - 1], cache[i])
  IN  kept[Len(cache)]

Chains(cache) == {cache[i].dh : i \in DOMAIN cache}

(* Where a chain starts in the cache. *)
First(cache, c) ==
  CHOOSE i \in DOMAIN cache : cache[i].dh = c /\ \A j \in 1 .. i - 1 : cache[j].dh # c

(* The chains in excess of the bound, oldest first. *)
Doomed(cache) ==
  {c \in Chains(cache) :
     Cardinality({d \in Chains(cache) : First(cache, d) >= First(cache, c)}) > MaxSkipChains}

(* evictSkippedKeys: the oldest keys go first, then whole chains, oldest   *)
(* first.                                                                  *)
EvictSkippedKeys(skipped) ==
  LET surplus == IF Len(skipped) > MaxSkippedKeys THEN Len(skipped) - MaxSkippedKeys ELSE 0
      recent == SubSeq(skipped, surplus + 1, Len(skipped))
  IN  Without(recent, {recent[i] : i \in {j \in DOMAIN recent : recent[j].dh \in Doomed(recent)}})

TooFar(s, until) ==
  s.receiving # NoChain /\ until > s.receiveCount + MaxSkippedKeys

(* The cache with the keys up to until, trimmed after each of them. *)
CacheKeys(s, until) ==
  LET cache[n \in s.receiveCount .. until] ==
        IF n = s.receiveCount THEN s.skipped
        ELSE EvictSkippedKeys(
               Append(cache[n - 1], [dh |-> s.theirs, n |-> n - 1, chain |-> s.receiving]))
  IN  cache[until]

(* skipMessageKeys, when the gap is not TooFar. *)
SkipMessageKeys(s, until) ==
  IF s.receiving = NoChain \/ until <= s.receiveCount THEN s
  ELSE [s EXCEPT !.skipped = CacheKeys(s, until), !.receiveCount = until]

(* dhRatchet: a receiving chain from our key, then a fresh key pair and a  *)
(* sending chain from it.                                                  *)
DhRatchet(s, dh, fresh) ==
  LET receiving == AdvanceRootKey(s.root, DH(s.ours, dh))
      sending == AdvanceRootKey(receiving, DH(fresh, dh))
  IN  [s EXCEPT !.previous = s.sendCount, !.sendCount = 0, !.receiveCount = 0,
                !.theirs = dh, !.receiving = receiving, !.ours = fresh,
                !.sending = sending, !.root = sending]

-----------------------------------------------------------------------------
IsCachedFor(x, m) == x.dh = m.dh /\ x.n = m.n

Cached(s, m) == \E i \in DOMAIN s.skipped : IsCachedFor(s.skipped[i], m)

(* The AEAD opens exactly under the key the message was sealed with. *)
Authentic(chain, n, m) == chain = m.chain /\ n = m.n

(* The key pair that follows. *)
Fresh(key) == <<key[1], key[2] + 1>>

(* The working copy decryptMessage prepares before it tries the key. *)
IsNewRatchetKey(s, m) == s.theirs # m.dh

(* Mutant: the rest of the previous chain is not cached. *)
RatchetedForgets(s, m) == IF IsNewRatchetKey(s, m) THEN DhRatchet(s, m.dh, Fresh(s.ours)) ELSE s

Ratcheted(s, m) ==
  IF IsNewRatchetKey(s, m)
    THEN DhRatchet(SkipMessageKeys(s, m.pn), m.dh, Fresh(s.ours))
    ELSE s

Working(s, m) == SkipMessageKeys(Ratcheted(s, m), m.n)

(* decryptMessage succeeds. *)
Opens(s, m) ==
  IF Cached(s, m)
    THEN \E i \in DOMAIN s.skipped :
           IsCachedFor(s.skipped[i], m) /\ Authentic(s.skipped[i].chain, s.skipped[i].n, m)
    ELSE LET w == Working(s, m)
         IN  /\ ~(IsNewRatchetKey(s, m) /\ TooFar(s, m.pn))
             /\ ~TooFar(Ratcheted(s, m), m.n)
             /\ w.receiving # NoChain
             /\ Authentic(w.receiving, w.receiveCount, m)

Uncached(s, m) ==
  Without(s.skipped, {s.skipped[i] : i \in {j \in DOMAIN s.skipped : IsCachedFor(s.skipped[j], m)}})

(* Mutant: a cached key stays after use. *)
DecryptedKeepsKey(s, m) ==
  IF Cached(s, m) THEN s ELSE [Working(s, m) EXCEPT !.receiveCount = @ + 1]

(* The state it commits when it does; when it throws the state is the old  *)
(* one.                                                                    *)
Decrypted(s, m) ==
  IF Cached(s, m)
    THEN [s EXCEPT !.skipped = Uncached(s, m)]
    ELSE [Working(s, m) EXCEPT !.receiveCount = @ + 1]
=============================================================================
