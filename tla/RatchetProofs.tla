--------------------------- MODULE RatchetProofs ---------------------------
(***************************************************************************)
(* No message key of a session is used twice, no message opens twice, and  *)
(* the cache of skipped keys stays within its bounds, for any number of    *)
(* messages and any bounds of the cache.                                   *)
(*                                                                         *)
(* Why: the sending chain is the one started with the current root key,    *)
(* its counter is past every message sealed with it, and a ratchet step    *)
(* mixes two more Diffie-Hellman outputs into the root, so a new chain is  *)
(* longer than every earlier one.  The two parties' chains differ in the   *)
(* parity of their length.  On the receiving side a message that was       *)
(* opened is behind: its chain is no longer than the root, on the current  *)
(* chain its number is below the counter, and no cached key is for it.     *)
(***************************************************************************)
EXTENDS RatchetChannel, FiniteSetTheorems, TLAPS

(* Every step is tried with Zenon, except those that name another prover. *)
USE Zenon

RatchetKey == Party \X Nat
Chain == Seq(SUBSET RatchetKey)

Fields == {"root", "ours", "theirs", "sending", "receiving",
           "sendCount", "receiveCount", "previous", "skipped"}

(* The initiator's chains have odd length, the responder's even. *)
OfParity(p, len) == \E k \in Nat : len = 2 * k + (IF p = Initiator THEN 1 ELSE 0)

(* A session state as far as the sending side goes. *)
SendingOK(p, s) ==
  /\ DOMAIN s = Fields
  /\ s.ours \in RatchetKey
  /\ s.sendCount \in Nat
  /\ s.root \in Chain
  /\ OfParity(p, Len(s.root))
  /\ s.sending # NoChain => s.sending = s.root

(* Every message is from the current chain, below its counter, or from a   *)
(* shorter chain.                                                          *)
SentBefore(p, s, m) ==
  /\ m.dh \in RatchetKey
  /\ m.n \in Nat
  /\ m.chain \in Chain
  /\ OfParity(p, Len(m.chain))
  /\ Len(m.chain) <= Len(s.root)
  /\ m.chain = s.root => m.n < s.sendCount

Distinct(S) == \A m, k \in S : m.chain = k.chain /\ m.n = k.n => m = k

Inv ==
  /\ DOMAIN st = Party
  /\ DOMAIN sent = Party
  /\ \A p \in Party : SendingOK(p, st[p])
  /\ \A p \in Party : \A m \in sent[p] : SentBefore(p, st[p], m)
  /\ \A p \in Party : Distinct(sent[p])

-----------------------------------------------------------------------------
(* Mixing an output into a root key lengthens it by one. *)
LEMMA RootGrows ==
  ASSUME NEW root \in Chain, NEW a \in RatchetKey, NEW b \in RatchetKey
  PROVE  /\ AdvanceRootKey(root, DH(a, b)) \in Chain
         /\ Len(AdvanceRootKey(root, DH(a, b))) = Len(root) + 1
  BY SMT DEF AdvanceRootKey, DH, Chain

(* skipMessageKeys touches only the cache and the receive counter. *)
LEMMA SkipKeepsSending ==
  ASSUME NEW s, NEW until, DOMAIN s = Fields
  PROVE  LET w == SkipMessageKeys(s, until)
         IN  /\ DOMAIN w = Fields
             /\ w.root = s.root
             /\ w.ours = s.ours
             /\ w.sending = s.sending
             /\ w.sendCount = s.sendCount
  BY DEF SkipMessageKeys, Fields

(* dhRatchet starts a sending chain that is two outputs longer. *)
LEMMA RatchetLengthens ==
  ASSUME NEW p \in Party, NEW s, SendingOK(p, s), NEW dh \in RatchetKey
  PROVE  LET w == DhRatchet(s, dh, Fresh(s.ours))
         IN  SendingOK(p, w) /\ Len(w.root) = Len(s.root) + 2
<1> DEFINE fresh == Fresh(s.ours)
           receiving == AdvanceRootKey(s.root, DH(s.ours, dh))
           sending == AdvanceRootKey(receiving, DH(fresh, dh))
           w == DhRatchet(s, dh, fresh)
<1>1. fresh \in RatchetKey
  BY SMT DEF SendingOK, RatchetKey, Fresh
<1>2. receiving \in Chain /\ Len(receiving) = Len(s.root) + 1
  BY RootGrows DEF SendingOK
<1>3. sending \in Chain /\ Len(sending) = Len(s.root) + 2
  <2> HIDE DEF receiving, fresh
  <2> QED BY RootGrows, <1>1, <1>2, SMT DEF SendingOK, Chain
<1>4. /\ DOMAIN w = Fields
      /\ w.ours = fresh
      /\ w.sendCount = 0
      /\ w.root = sending
      /\ w.sending = sending
  BY DEF DhRatchet, SendingOK, Fields
<1>5. OfParity(p, Len(sending))
  <2>1. PICK k \in Nat : Len(s.root) = 2 * k + (IF p = Initiator THEN 1 ELSE 0)
    BY DEF SendingOK, OfParity
  <2>2. Len(sending) = 2 * (k + 1) + (IF p = Initiator THEN 1 ELSE 0)
    <3> HIDE DEF sending
    <3> QED BY <2>1, <1>3, SMT
  <2> HIDE DEF sending
  <2> QED BY <2>2, SMT DEF OfParity
<1>6. SendingOK(p, w)
  <2> HIDE DEF w, sending, fresh
  <2> QED BY <1>1, <1>3, <1>4, <1>5, SMT DEF SendingOK
<1>7. Len(w.root) = Len(s.root) + 2
  <2> HIDE DEF w, sending, fresh
  <2> QED BY <1>3, <1>4
<1> QED BY <1>6, <1>7

(* decryptMessage leaves the sending side as it was, or on a longer chain. *)
LEMMA DecryptKeepsOrLengthens ==
  ASSUME NEW p \in Party, NEW s, SendingOK(p, s), NEW m, m.dh \in RatchetKey
  PROVE  LET t == Decrypted(s, m)
         IN  /\ SendingOK(p, t)
             /\ \/ t.root = s.root /\ t.sendCount = s.sendCount
                \/ Len(t.root) = Len(s.root) + 2
<1> DEFINE t == Decrypted(s, m)
           w == Working(s, m)
           r == Ratcheted(s, m)
           Kept(x) == x.root = s.root /\ x.sendCount = s.sendCount
           Good(x) == SendingOK(p, x) /\ (Kept(x) \/ Len(x.root) = Len(s.root) + 2)
<1>1. Good(s)
  OBVIOUS
<1>2. ASSUME NEW x, NEW until, SendingOK(p, x)
      PROVE  LET y == SkipMessageKeys(x, until)
             IN SendingOK(p, y) /\ y.root = x.root /\ y.sendCount = x.sendCount
  BY <1>2, SkipKeepsSending DEF SendingOK
<1>3. Good(r)
  <2>1. CASE ~IsNewRatchetKey(s, m)
    BY <2>1, <1>1 DEF Ratcheted
  <2>2. CASE IsNewRatchetKey(s, m)
    <3> DEFINE x == SkipMessageKeys(s, m.pn)
    <3>1. SendingOK(p, x) /\ x.root = s.root /\ x.ours = s.ours
      BY <1>2, SkipKeepsSending DEF SendingOK
    <3> HIDE DEF x
    <3>2. LET y == DhRatchet(x, m.dh, Fresh(x.ours))
          IN  SendingOK(p, y) /\ Len(y.root) = Len(x.root) + 2
      BY <3>1, RatchetLengthens
    <3>3. r = DhRatchet(x, m.dh, Fresh(x.ours))
      BY <2>2, <3>1 DEF Ratcheted, x
    <3> QED BY <3>1, <3>2, <3>3
  <2> QED BY <2>1, <2>2
<1>4. Good(w)
  <2> HIDE DEF r
  <2>1. w = SkipMessageKeys(r, m.n)
    BY DEF Working, r
  <2>2. SendingOK(p, w) /\ w.root = r.root /\ w.sendCount = r.sendCount
    BY <1>2, <1>3, <2>1, SMT
  <2> QED BY <2>2, <1>3
<1>5. CASE Cached(s, m)
  <2>1. t = [s EXCEPT !.skipped = Uncached(s, m)]
    BY <1>5 DEF Decrypted
  <2> HIDE DEF t
  <2> QED BY <2>1, <1>1 DEF SendingOK, Fields, t
<1>6. CASE ~Cached(s, m)
  <2>1. t = [w EXCEPT !.receiveCount = @ + 1]
    BY <1>6 DEF Decrypted
  <2> HIDE DEF t, w
  <2>2. Good(t)
    BY <2>1, <1>4 DEF SendingOK, Fields
  <2> QED BY <2>2 DEF t
<1> QED BY <1>5, <1>6

-----------------------------------------------------------------------------
(* initializeInitiator starts the first sending chain with the root key. *)
LEMMA InitiatorStarts ==
  ASSUME NEW secret \in Chain, Len(secret) = 0, NEW a \in RatchetKey, NEW b \in RatchetKey
  PROVE  SendingOK(Initiator, InitializeInitiator(secret, a, b))
<1> DEFINE root == AdvanceRootKey(secret, DH(a, b))
           s == InitializeInitiator(secret, a, b)
<1>1. root \in Chain /\ Len(root) = Len(secret) + 1
  BY RootGrows
<1>2. Len(root) = 1
  BY <1>1, SMT
<1>3. /\ DOMAIN s = Fields
      /\ s.ours = a /\ s.sendCount = 0 /\ s.root = root /\ s.sending = root
  BY DEF InitializeInitiator, Fields
<1>4. OfParity(Initiator, Len(root))
  <2>1. Len(root) = 2 * 0 + (IF Initiator = Initiator THEN 1 ELSE 0)
    BY <1>2, SMT
  <2> QED BY <2>1, SMT DEF OfParity
<1> HIDE DEF root, s
<1>5. OfParity(Initiator, Len(s.root))
  BY <1>3, <1>4
<1>6. s.root \in Chain /\ s.ours \in RatchetKey /\ s.sendCount \in Nat
  BY <1>1, <1>3, SMT
<1>7. s.sending = s.root
  BY <1>3
<1>8. SendingOK(Initiator, s)
  BY <1>3, <1>5, <1>6, <1>7 DEF SendingOK
<1> QED BY <1>8 DEF s

LEMMA InvInit == Init => Inv
<1> SUFFICES ASSUME Init PROVE Inv
  OBVIOUS
<1>1. SendingOK(Initiator, st[Initiator])
  <2>1. <<Initiator, 1>> \in RatchetKey /\ <<Responder, 1>> \in RatchetKey
    BY DEF RatchetKey, Party
  <2>2. <<>> \in Chain /\ Len(<<>>) = 0
    BY SMT DEF Chain
  <2>3. st[Initiator] = InitializeInitiator(<<>>, <<Initiator, 1>>, <<Responder, 1>>)
    BY DEF Init, Party
  <2> QED BY <2>1, <2>2, <2>3, InitiatorStarts
<1>2. SendingOK(Responder, st[Responder])
  <2>1. st[Responder] = InitializeResponder(<<>>, <<Responder, 1>>)
    BY ChannelAssumption DEF Init, Party
  <2>2. <<Responder, 1>> \in RatchetKey /\ <<>> \in Chain /\ Len(<<>>) = 0
    BY SMT DEF RatchetKey, Party, Chain
  <2>3. OfParity(Responder, 0)
    <3>1. 0 = 2 * 0 + (IF Responder = Initiator THEN 1 ELSE 0)
      BY ChannelAssumption, SMT
    <3> QED BY <3>1 DEF OfParity
  <2> QED BY <2>1, <2>2, <2>3, SMT DEF InitializeResponder, SendingOK, Fields, NoChain
<1>3. DOMAIN st = Party /\ sent = [p \in Party |-> {}]
  BY DEF Init
<1> QED BY <1>1, <1>2, <1>3 DEF Inv, Party, Distinct

LEMMA InvStep == Inv /\ [NextStep]_vars => Inv'
<1> SUFFICES ASSUME Inv, [NextStep]_vars PROVE Inv'
  OBVIOUS
<1>1. CASE UNCHANGED vars
  BY <1>1 DEF Inv, vars, SendingOK, SentBefore, Distinct
<1>2. ASSUME NEW p \in Party, Send(p) PROVE Inv'
  <2> DEFINE s == st[p]
             m == Sealed(s, Cardinality(sent[p]) + 1)
             t == Encrypted(s)
  <2>1. SendingOK(p, s) /\ CanEncrypt(s)
    BY <1>2 DEF Inv, Send
  <2>2. m.n = s.sendCount /\ m.chain = s.root /\ m.dh = s.ours
    BY <2>1 DEF Sealed, CanEncrypt, SendingOK
  <2>3. SendingOK(p, t) /\ t.root = s.root /\ t.sendCount = s.sendCount + 1
    BY <2>1, SMT DEF Encrypted, SendingOK, Fields
  <2>4. st' = [st EXCEPT ![p] = t] /\ sent' = [sent EXCEPT ![p] = @ \cup {m}]
    BY <1>2 DEF Send
  <2> HIDE DEF m, t
  <2>5. SentBefore(p, t, m)
    BY <2>1, <2>2, <2>3, SMT DEF SentBefore, SendingOK
  <2>6. \A k \in sent[p] : SentBefore(p, t, k) /\ (k.chain = m.chain => k.n < m.n)
    BY <2>1, <2>2, <2>3, SMT DEF Inv, SentBefore, SendingOK
  <2>7. Distinct(sent[p] \cup {m})
    BY <2>1, <2>2, <2>6, SMT DEF Inv, Distinct, SentBefore, SendingOK
  <2> QED BY <2>3, <2>4, <2>5, <2>6, <2>7 DEF Inv
<1>3. ASSUME NEW p \in Party, NEW m \in sent[Peer(p)], Receive(p, m) PROVE Inv'
  <2> DEFINE s == st[p]
             t == Decrypted(s, m)
  <2>1. SendingOK(p, s) /\ m.dh \in RatchetKey
    BY DEF Inv, Peer, Party, SentBefore
  <2>2. /\ SendingOK(p, t)
        /\ \/ t.root = s.root /\ t.sendCount = s.sendCount
           \/ Len(t.root) = Len(s.root) + 2
    BY <2>1, DecryptKeepsOrLengthens
  <2>3. st' = [st EXCEPT ![p] = t] /\ sent' = sent
    BY <1>3 DEF Receive
  <2> HIDE DEF t
  <2>4. ASSUME NEW k \in sent[p] PROVE SentBefore(p, t, k)
    <3>1. SentBefore(p, s, k)
      BY DEF Inv
    <3>2. Len(s.root) \in Nat /\ Len(k.chain) \in Nat
      BY <2>1, <3>1, SMT DEF SendingOK, SentBefore, Chain
    <3> QED BY <2>2, <3>1, <3>2, SMT DEF SentBefore
  <2> QED BY <2>2, <2>3, <2>4 DEF Inv
<1>4. ASSUME NEW p \in Party, NEW m \in sent[Peer(p)], Reject(p, m) PROVE Inv'
  BY <1>1, <1>4 DEF Reject
<1> QED BY <1>1, <1>2, <1>3, <1>4 DEF NextStep

LEMMA InvImplies == Inv => KeyUsedOnce
<1> SUFFICES ASSUME Inv, NEW p \in Party, NEW q \in Party, NEW m \in sent[p], NEW k \in sent[q],
                    m.chain = k.chain, m.n = k.n
             PROVE  p = q /\ m = k
  BY DEF KeyUsedOnce
<1>1. OfParity(p, Len(m.chain)) /\ OfParity(q, Len(m.chain))
  BY DEF Inv, SentBefore
<1>2. PICK i \in Nat : Len(m.chain) = 2 * i + (IF p = Initiator THEN 1 ELSE 0)
  BY <1>1 DEF OfParity
<1>3. PICK j \in Nat : Len(m.chain) = 2 * j + (IF q = Initiator THEN 1 ELSE 0)
  BY <1>1 DEF OfParity
<1>4. p = q
  BY <1>2, <1>3, ChannelAssumption, SMT DEF Party
<1> QED BY <1>4 DEF Inv, Distinct

(* No two messages of a session are sealed with the same key, whatever is  *)
(* lost, repeated or reordered: encryptMessage advances the chain, and     *)
(* every ratchet step starts a chain that was never used.                  *)
THEOREM KeysAreFresh == Spec => []KeyUsedOnce
<1>1. Init => Inv
  BY InvInit
<1>2. Inv /\ [NextStep]_vars => Inv'
  BY InvStep
<1>3. Inv => KeyUsedOnce
  BY InvImplies
<1> QED BY <1>1, <1>2, <1>3, PTL DEF Spec

-----------------------------------------------------------------------------
NatLess == {p \in Nat \X Nat : p[1] < p[2]}

LEMMA NatLessWellFounded == IsWellFoundedOn(NatLess, Nat)
<1>1. NatLess = OpToRel(<, Nat)
  BY DEF NatLess, OpToRel
<1> QED BY <1>1, NatLessThanWellFounded

(* A set of naturals has a least element. *)
LEMMA LeastOf ==
  ASSUME NEW S, S \subseteq Nat, S # {}
  PROVE  \E m \in S : \A x \in S : m <= x
<1>1. PICK m \in S : \A x \in S : <<x, m>> \notin NatLess
  BY WFMin, NatLessWellFounded
<1>2. \A x \in S : ~(x < m)
  BY <1>1 DEF NatLess
<1> QED BY <1>1, <1>2, SMT

(* A key of the cache. *)
Entry == [dh : RatchetKey, n : Nat, chain : Chain]

Kept(cache, D, n, f) ==
  f = [i \in 0 .. n |->
         IF i = 0 THEN <<>>
         ELSE IF cache[i] \in D THEN f[i - 1] ELSE Append(f[i - 1], cache[i])]

(* The recursion of Without has a solution. *)
LEMMA KeptExists ==
  ASSUME NEW cache, NEW D, NEW n \in Nat
  PROVE  \E f : Kept(cache, D, n, f)
<1> SUFFICES ASSUME ~\E f : Kept(cache, D, n, f) PROVE FALSE
  OBVIOUS
<1> DEFINE S == {k \in Nat : ~\E f : Kept(cache, D, k, f)}
<1>1. PICK m \in S : \A k \in S : m <= k
  <2>1. S \subseteq Nat /\ n \in S
    OBVIOUS
  <2> HIDE DEF S
  <2> QED BY <2>1, LeastOf
<1>2. m # 0
  <2> DEFINE f == [i \in 0 .. 0 |-> <<>>]
  <2>1. Kept(cache, D, 0, f)
    BY SMT DEF Kept
  <2> QED BY <1>1, <2>1
<1>3. m - 1 \in Nat /\ m - 1 \notin S
  BY <1>1, <1>2, SMT
<1>4. PICK f : Kept(cache, D, m - 1, f)
  BY <1>3
<1> DEFINE last == IF cache[m] \in D THEN f[m - 1] ELSE Append(f[m - 1], cache[m])
           g == [i \in 0 .. m |-> IF i < m THEN f[i] ELSE last]
<1>5. \A i \in 0 .. m - 1 : f[i] = IF i = 0 THEN <<>>
                                   ELSE IF cache[i] \in D THEN f[i - 1] ELSE Append(f[i - 1], cache[i])
  BY <1>4 DEF Kept
<1>6. g[m] = last /\ \A i \in 0 .. m - 1 : g[i] = f[i]
  BY <1>1, <1>3, SMT
<1>7. \A i \in 0 .. m : g[i] = IF i = 0 THEN <<>>
                               ELSE IF cache[i] \in D THEN g[i - 1] ELSE Append(g[i - 1], cache[i])
  <2> SUFFICES ASSUME NEW i \in 0 .. m
               PROVE  g[i] = IF i = 0 THEN <<>>
                             ELSE IF cache[i] \in D THEN g[i - 1] ELSE Append(g[i - 1], cache[i])
    OBVIOUS
  <2>1. CASE i < m
    <3>1. i \in 0 .. m - 1 /\ (i # 0 => i - 1 \in 0 .. m - 1)
      BY <1>3, <2>1, SMT
    <3> HIDE DEF g
    <3> QED BY <1>5, <1>6, <3>1
  <2>2. CASE i = m
    <3>1. m - 1 \in 0 .. m - 1
      BY <1>3, SMT
    <3> HIDE DEF g
    <3> QED BY <1>2, <1>6, <2>2, <3>1
  <2> QED BY <2>1, <2>2, <1>3, SMT
<1>8. Kept(cache, D, m, g)
  <2>1. DOMAIN g = 0 .. m /\ g = [i \in 0 .. m |-> g[i]]
    OBVIOUS
  <2> HIDE DEF g
  <2> QED BY <1>7, <2>1 DEF Kept
<1> QED BY <1>1, <1>8

LEMMA WithoutFolds ==
  ASSUME NEW cache, NEW D, Len(cache) \in Nat
  PROVE  \E f : Kept(cache, D, Len(cache), f) /\ Without(cache, D) = f[Len(cache)]
<1> DEFINE f == CHOOSE f : Kept(cache, D, Len(cache), f)
<1>1. Kept(cache, D, Len(cache), f)
  BY KeptExists
<1>2. Without(cache, D) = f[Len(cache)]
  BY DEF Without, Kept
<1> QED BY <1>1, <1>2

(* Without keeps only entries of the cache that are not in D. *)
LEMMA WithoutSelects ==
  ASSUME NEW cache \in Seq(Entry), NEW D
  PROVE  LET r == Without(cache, D)
         IN  /\ r \in Seq(Entry)
             /\ Len(r) <= Len(cache)
             /\ \A i \in DOMAIN r : r[i] \notin D /\ \E j \in DOMAIN cache : r[i] = cache[j]
<1>1. PICK f : Kept(cache, D, Len(cache), f) /\ Without(cache, D) = f[Len(cache)]
  BY WithoutFolds, SMT
<1> DEFINE Good(k) == /\ f[k] \in Seq(Entry)
                      /\ Len(f[k]) <= k
                      /\ \A i \in DOMAIN f[k] : f[k][i] \notin D /\ \E j \in DOMAIN cache : f[k][i] = cache[j]
           S == {k \in 0 .. Len(cache) : ~Good(k)}
<1>2. /\ f[0] = <<>>
      /\ \A k \in 1 .. Len(cache) : f[k] = IF cache[k] \in D THEN f[k - 1] ELSE Append(f[k - 1], cache[k])
  <2>1. f = [i \in 0 .. Len(cache) |->
               IF i = 0 THEN <<>>
               ELSE IF cache[i] \in D THEN f[i - 1] ELSE Append(f[i - 1], cache[i])]
    BY <1>1 DEF Kept
  <2>2. Len(cache) \in Nat /\ 0 \in 0 .. Len(cache)
        /\ \A k \in 1 .. Len(cache) : k \in 0 .. Len(cache) /\ k # 0
    BY SMT
  <2> QED BY <2>1, <2>2
<1>3. ASSUME S # {} PROVE FALSE
  <2>1. PICK m \in S : \A k \in S : m <= k
    <3>1. S \subseteq Nat
      BY SMT
    <3> HIDE DEF S
    <3> QED BY <1>3, <3>1, LeastOf
  <2>2. m # 0
    <3>1. f[0] \in Seq(Entry) /\ Len(f[0]) = 0 /\ DOMAIN f[0] = {}
      BY <1>2, SMT
    <3>2. Good(0)
      BY <3>1, SMT
    <3> QED BY <2>1, <3>2
  <2>3. m \in 1 .. Len(cache) /\ m - 1 \in 0 .. Len(cache) /\ m - 1 \notin S
    BY <2>1, <2>2, SMT
  <2>4. Good(m - 1)
    BY <2>3
  <2>5. CASE cache[m] \in D
    <3>1. f[m] = f[m - 1]
      BY <1>2, <2>3, <2>5
    <3>2. Good(m)
      BY <2>3, <2>4, <3>1, SMT
    <3> QED BY <2>1, <3>2
  <2>6. CASE cache[m] \notin D
    <3> DEFINE q == f[m - 1]
    <3>1. f[m] = Append(q, cache[m]) /\ cache[m] \in Entry /\ m \in DOMAIN cache
      <4>1. cache[m] \in Entry /\ m \in DOMAIN cache
        BY <2>3, SMT
      <4> QED BY <1>2, <2>3, <2>6, <4>1
    <3>2. /\ q \in Seq(Entry) /\ Len(q) <= m - 1
          /\ \A i \in DOMAIN q : q[i] \notin D /\ \E j \in DOMAIN cache : q[i] = cache[j]
      BY <2>4
    <3> HIDE DEF q
    <3>3. f[m] \in Seq(Entry) /\ Len(f[m]) <= m
      BY <2>3, <3>1, <3>2, SMT
    <3>4. ASSUME NEW i \in DOMAIN f[m] PROVE f[m][i] \notin D /\ \E j \in DOMAIN cache : f[m][i] = cache[j]
      <4>1. (i \in DOMAIN q /\ f[m][i] = q[i]) \/ f[m][i] = cache[m]
        BY <3>1, <3>2, SMT
      <4> QED BY <2>6, <3>1, <3>2, <4>1
    <3>5. Good(m)
      BY <3>3, <3>4
    <3> QED BY <2>1, <3>5
  <2> QED BY <2>5, <2>6
<1>4. Good(Len(cache))
  BY <1>3, SMT
<1> QED BY <1>1, <1>4

-----------------------------------------------------------------------------
Bounded(cache) == Len(cache) <= MaxSkippedKeys /\ Cardinality(Chains(cache)) <= MaxSkipChains

LEMMA ChainsFinite ==
  ASSUME NEW cache \in Seq(Entry)
  PROVE  IsFiniteSet(Chains(cache))
<1> DEFINE S == DOMAIN cache
           f == [i \in S |-> cache[i].dh]
<1>1. IsFiniteSet(S)
  BY FS_Interval, SMT
<1>2. f \in Surjection(S, Chains(cache))
  BY DEF Chains, Surjection
<1> HIDE DEF S, f
<1> QED BY <1>1, <1>2, FS_Surjection

(* A chain of the cache starts somewhere in it. *)
LEMMA FirstIsIndex ==
  ASSUME NEW cache \in Seq(Entry), NEW c \in Chains(cache)
  PROVE  First(cache, c) \in Nat
<1> DEFINE S == {i \in DOMAIN cache : cache[i].dh = c}
<1>1. S \subseteq Nat /\ S # {}
  BY SMT DEF Chains
<1>2. PICK i \in S : \A j \in S : i <= j
  <2> HIDE DEF S
  <2> QED BY <1>1, LeastOf
<1>3. i \in DOMAIN cache /\ cache[i].dh = c /\ \A j \in 1 .. i - 1 : cache[j].dh # c
  BY <1>2, SMT
<1> QED BY <1>3, SMT DEF First

(* Not more than MAX_SKIP_CHAINS chains are spared. *)
LEMMA SparedChains ==
  ASSUME NEW cache \in Seq(Entry)
  PROVE  /\ IsFiniteSet(Chains(cache) \ Doomed(cache))
         /\ Cardinality(Chains(cache) \ Doomed(cache)) <= MaxSkipChains
<1> DEFINE C == Chains(cache)
           K == C \ Doomed(cache)
           S == {First(cache, c) : c \in K}
<1>1. IsFiniteSet(C) /\ IsFiniteSet(K)
  BY ChainsFinite, FS_Subset
<1>2. CASE K = {}
  BY <1>1, <1>2, FS_EmptySet, RatchetAssumption, SMT
<1>3. CASE K # {}
  <2>1. S \subseteq Nat /\ S # {}
    BY <1>3, FirstIsIndex
  <2>2. PICK i \in S : \A j \in S : i <= j
    <3> HIDE DEF S
    <3> QED BY <2>1, LeastOf
  <2>3. PICK c \in K : i = First(cache, c)
    BY <2>2
  <2> DEFINE U == {d \in C : First(cache, d) >= First(cache, c)}
  <2>4. K \subseteq U
    BY <2>1, <2>2, <2>3
  <2>5. IsFiniteSet(U) /\ Cardinality(U) \in Nat
    BY <1>1, FS_Subset, FS_CardinalityType
  <2>6. ~(Cardinality(U) > MaxSkipChains)
    BY <2>3 DEF Doomed
  <2>7. Cardinality(K) \in Nat /\ Cardinality(K) <= Cardinality(U)
    <3> HIDE DEF K, U
    <3> QED BY <1>1, <2>4, <2>5, FS_Subset, FS_CardinalityType
  <2> HIDE DEF K, U
  <2> QED BY <1>1, <2>5, <2>6, <2>7, RatchetAssumption, SMT DEF K
<1> QED BY <1>2, <1>3

(* evictSkippedKeys only removes, and leaves the cache within both bounds. *)
LEMMA EvictBounds ==
  ASSUME NEW skipped \in Seq(Entry)
  PROVE  LET r == EvictSkippedKeys(skipped)
         IN  /\ r \in Seq(Entry)
             /\ Bounded(r)
             /\ \A i \in DOMAIN r : \E j \in DOMAIN skipped : r[i] = skipped[j]
<1> DEFINE surplus == IF Len(skipped) > MaxSkippedKeys THEN Len(skipped) - MaxSkippedKeys ELSE 0
           recent == SubSeq(skipped, surplus + 1, Len(skipped))
           D == {recent[i] : i \in {j \in DOMAIN recent : recent[j].dh \in Doomed(recent)}}
           r == EvictSkippedKeys(skipped)
<1>1. surplus \in Nat /\ surplus <= Len(skipped) /\ Len(skipped) - surplus <= MaxSkippedKeys
  BY RatchetAssumption, SMT
<1>2. /\ recent \in Seq(Entry)
      /\ Len(recent) = Len(skipped) - surplus
      /\ \A i \in 1 .. Len(recent) : recent[i] = skipped[surplus + i] /\ surplus + i \in DOMAIN skipped
  <2> HIDE DEF surplus
  <2>1. Len(recent) = Len(skipped) - surplus
    BY <1>1, SMT
  <2>2. \A i \in 1 .. Len(skipped) - surplus :
           recent[i] = skipped[surplus + i] /\ surplus + i \in DOMAIN skipped
    BY <1>1, SMT
  <2>3. recent \in Seq(Entry)
    BY <1>1, SMT
  <2> HIDE DEF recent
  <2> QED BY <2>1, <2>2, <2>3
<1>3. r = Without(recent, D)
  BY DEF EvictSkippedKeys
<1> HIDE DEF surplus, recent, r
<1>4. /\ r \in Seq(Entry)
      /\ Len(r) <= Len(recent)
      /\ \A i \in DOMAIN r : r[i] \notin D /\ \E j \in DOMAIN recent : r[i] = recent[j]
  <2> HIDE DEF D
  <2>1. LET q == Without(recent, D)
        IN  /\ q \in Seq(Entry)
            /\ Len(q) <= Len(recent)
            /\ \A i \in DOMAIN q : q[i] \notin D /\ \E j \in DOMAIN recent : q[i] = recent[j]
    <3>1. recent \in Seq(Entry)
      BY <1>2
    <3> QED BY <3>1, WithoutSelects, SMT
  <2> QED BY <1>3, <2>1
<1>5. Chains(r) \subseteq Chains(recent) \ Doomed(recent)
  BY <1>4, SMT DEF Chains
<1> HIDE DEF D
<1>6. Cardinality(Chains(r)) <= MaxSkipChains
  <2> DEFINE K == Chains(recent) \ Doomed(recent)
  <2>1. IsFiniteSet(K) /\ Cardinality(K) <= MaxSkipChains /\ Cardinality(K) \in Nat
    BY <1>2, SparedChains, FS_CardinalityType
  <2> HIDE DEF K
  <2>2. IsFiniteSet(Chains(r)) /\ Cardinality(Chains(r)) <= Cardinality(K) /\ Cardinality(Chains(r)) \in Nat
    BY <1>5, <2>1, FS_Subset, FS_CardinalityType DEF K
  <2> QED BY <2>1, <2>2, RatchetAssumption, SMT
<1>7. Len(r) <= MaxSkippedKeys
  BY <1>1, <1>2, <1>4, RatchetAssumption, SMT
<1>8. \A i \in DOMAIN r : \E j \in DOMAIN skipped : r[i] = skipped[j]
  <2>1. DOMAIN recent = 1 .. Len(recent)
    BY <1>2, SMT
  <2> QED BY <1>2, <1>4, <2>1
<1> QED BY <1>4, <1>6, <1>7, <1>8 DEF Bounded, r

KeyAt(s, n) == [dh |-> s.theirs, n |-> n, chain |-> s.receiving]

CachedUpTo(s, until, f) ==
  f = [n \in s.receiveCount .. until |->
         IF n = s.receiveCount THEN s.skipped
         ELSE EvictSkippedKeys(Append(f[n - 1], KeyAt(s, n - 1)))]

(* The recursion of CacheKeys has a solution. *)
LEMMA CachedExists ==
  ASSUME NEW s, s.receiveCount \in Nat, NEW until \in Nat, until >= s.receiveCount
  PROVE  \E f : CachedUpTo(s, until, f)
<1> DEFINE c == s.receiveCount
           S == {k \in Nat : k >= c /\ ~\E f : CachedUpTo(s, k, f)}
<1> SUFFICES ASSUME until \in S PROVE FALSE
  OBVIOUS
<1>1. PICK m \in S : \A k \in S : m <= k
  <2>1. S \subseteq Nat
    OBVIOUS
  <2> HIDE DEF S
  <2> QED BY <2>1, LeastOf
<1>2. m # c
  <2> DEFINE f == [i \in c .. c |-> s.skipped]
  <2>1. CachedUpTo(s, c, f)
    BY SMT DEF CachedUpTo
  <2> QED BY <1>1, <2>1
<1>3. m - 1 \in Nat /\ m - 1 >= c /\ m - 1 \notin S /\ m \in Nat /\ m > c
  BY <1>1, <1>2, SMT
<1>4. PICK f : CachedUpTo(s, m - 1, f)
  BY <1>3
<1> DEFINE Step(q, n) == EvictSkippedKeys(Append(q, KeyAt(s, n - 1)))
           g == [i \in c .. m |-> IF i < m THEN f[i] ELSE Step(f[m - 1], m)]
<1>5. \A i \in c .. m - 1 : f[i] = IF i = c THEN s.skipped ELSE Step(f[i - 1], i)
  BY <1>4 DEF CachedUpTo
<1> HIDE DEF Step
<1>6. g[m] = Step(f[m - 1], m) /\ \A i \in c .. m - 1 : g[i] = f[i]
  BY <1>3, SMT
<1>7. \A i \in c .. m : g[i] = IF i = c THEN s.skipped ELSE Step(g[i - 1], i)
  <2> SUFFICES ASSUME NEW i \in c .. m
               PROVE  g[i] = IF i = c THEN s.skipped ELSE Step(g[i - 1], i)
    OBVIOUS
  <2>1. CASE i < m
    <3>1. i \in c .. m - 1 /\ (i # c => i - 1 \in c .. m - 1)
      BY <1>3, <2>1, SMT
    <3> HIDE DEF g
    <3> QED BY <1>5, <1>6, <3>1
  <2>2. CASE i = m
    <3>1. m - 1 \in c .. m - 1
      BY <1>3, SMT
    <3> HIDE DEF g
    <3> QED BY <1>2, <1>6, <2>2, <3>1
  <2> QED BY <2>1, <2>2, <1>3, SMT
<1>8. CachedUpTo(s, m, g)
  <2>1. g = [i \in c .. m |-> g[i]]
    OBVIOUS
  <2> HIDE DEF g
  <2>2. g = [i \in c .. m |-> IF i = c THEN s.skipped ELSE Step(g[i - 1], i)]
    BY <1>7, <2>1
  <2> QED BY <2>2 DEF CachedUpTo, Step
<1> QED BY <1>1, <1>8

LEMMA CacheKeysFolds ==
  ASSUME NEW s, s.receiveCount \in Nat, NEW until \in Nat, until >= s.receiveCount
  PROVE  \E f : CachedUpTo(s, until, f) /\ CacheKeys(s, until) = f[until]
<1> DEFINE f == CHOOSE f : CachedUpTo(s, until, f)
<1>1. CachedUpTo(s, until, f)
  BY CachedExists
<1>2. CacheKeys(s, until) = f[until]
  BY DEF CacheKeys, CachedUpTo, KeyAt
<1> QED BY <1>1, <1>2

(* skipMessageKeys caches only keys of the receiving chain from the        *)
(* counter on, and leaves the cache within its bounds.                     *)
LEMMA CacheKeysBounds ==
  ASSUME NEW s, s.skipped \in Seq(Entry), s.theirs \in RatchetKey, s.receiving \in Chain,
         s.receiveCount \in Nat, NEW until \in Nat, until > s.receiveCount
  PROVE  LET r == CacheKeys(s, until)
         IN  /\ r \in Seq(Entry)
             /\ Bounded(r)
             /\ \A i \in DOMAIN r :
                  \/ \E j \in DOMAIN s.skipped : r[i] = s.skipped[j]
                  \/ \E n \in s.receiveCount .. until - 1 : r[i] = KeyAt(s, n)
<1> DEFINE c == s.receiveCount
           From(q, k) == \A i \in DOMAIN q :
                           \/ \E j \in DOMAIN s.skipped : q[i] = s.skipped[j]
                           \/ \E n \in c .. k - 1 : q[i] = KeyAt(s, n)
<1>1. PICK f : CachedUpTo(s, until, f) /\ CacheKeys(s, until) = f[until]
  BY CacheKeysFolds, SMT
<1>2. /\ f[c] = s.skipped
      /\ \A k \in c + 1 .. until : f[k] = EvictSkippedKeys(Append(f[k - 1], KeyAt(s, k - 1)))
  <2>1. c \in c .. until /\ \A k \in c + 1 .. until : k \in c .. until /\ k # c
    BY SMT
  <2>2. \A k \in c .. until : f[k] = IF k = c THEN s.skipped
                                     ELSE EvictSkippedKeys(Append(f[k - 1], KeyAt(s, k - 1)))
    BY <1>1 DEF CachedUpTo
  <2> QED BY <2>1, <2>2
<1> DEFINE Good(k) == f[k] \in Seq(Entry) /\ From(f[k], k) /\ (k > c => Bounded(f[k]))
           S == {k \in c .. until : ~Good(k)}
<1>3. Good(c)
  BY <1>2, SMT
<1>4. ASSUME NEW k \in c + 1 .. until, Good(k - 1) PROVE Good(k)
  <2> DEFINE q == f[k - 1]
             e == KeyAt(s, k - 1)
  <2>1. e \in Entry /\ k - 1 \in c .. k - 1
    BY <1>4, SMT DEF KeyAt, Entry
  <2>2. q \in Seq(Entry) /\ From(q, k - 1)
    BY <1>4
  <2> HIDE DEF q, e
  <2>3. Append(q, e) \in Seq(Entry) /\ \A i \in DOMAIN Append(q, e) :
           Append(q, e)[i] = e \/ (i \in DOMAIN q /\ Append(q, e)[i] = q[i])
    BY <2>1, <2>2, SMT
  <2>4. From(Append(q, e), k)
    <3> SUFFICES ASSUME NEW i \in DOMAIN Append(q, e)
                 PROVE  \/ \E j \in DOMAIN s.skipped : Append(q, e)[i] = s.skipped[j]
                        \/ \E n \in c .. k - 1 : Append(q, e)[i] = KeyAt(s, n)
      OBVIOUS
    <3>1. CASE Append(q, e)[i] = e
      BY <2>1, <3>1 DEF e
    <3>2. CASE i \in DOMAIN q /\ Append(q, e)[i] = q[i]
      <4>1. \A n \in c .. (k - 1) - 1 : n \in c .. k - 1
        BY SMT
      <4> QED BY <2>2, <3>2, <4>1
    <3> QED BY <2>3, <3>1, <3>2
  <2>5. f[k] = EvictSkippedKeys(Append(q, e))
    BY <1>2 DEF q, e
  <2> DEFINE a == Append(q, e)
  <2> HIDE DEF a
  <2>6. a \in Seq(Entry) /\ From(a, k) /\ f[k] = EvictSkippedKeys(a)
    BY <2>3, <2>4, <2>5 DEF a
  <2>7. /\ f[k] \in Seq(Entry)
        /\ Bounded(f[k])
        /\ \A i \in DOMAIN f[k] : \E j \in DOMAIN a : f[k][i] = a[j]
    BY <2>6, EvictBounds, SMT
  <2>8. From(f[k], k)
    BY <2>6, <2>7
  <2> QED BY <2>7, <2>8
<1>5. ASSUME S # {} PROVE FALSE
  <2>1. PICK m \in S : \A k \in S : m <= k
    <3>1. S \subseteq Nat
      BY SMT
    <3> HIDE DEF S
    <3> QED BY <1>5, <3>1, LeastOf
  <2>2. m # c /\ m \in c .. until /\ ~Good(m)
    BY <1>3, <2>1
  <2>3. m \in c + 1 .. until /\ m - 1 \in c .. until /\ ~(m <= m - 1)
    BY <2>2, SMT
  <2>4. Good(m - 1)
    BY <2>1, <2>3
  <2> HIDE DEF Good, S
  <2> QED BY <1>4, <2>2, <2>3, <2>4
<1>6. Good(until)
  BY <1>5, SMT
<1> QED BY <1>1, <1>6

-----------------------------------------------------------------------------
(* A session state as far as the receiving side goes: cached keys are of   *)
(* chains already started, below the counter on the current one.           *)
ReceivingOK(s) ==
  /\ s \in State
  /\ Bounded(s.skipped)
  /\ s.receiving # NoChain => s.theirs \in RatchetKey
  /\ Len(s.receiving) <= Len(s.root)
  /\ \A i \in DOMAIN s.skipped :
       /\ Len(s.skipped[i].chain) <= Len(s.root)
       /\ s.skipped[i].chain = s.receiving => s.skipped[i].n < s.receiveCount

(* The key of m cannot be derived again: its chain has been started, the   *)
(* counter is past it, and it is not in the cache.                         *)
OpenedBefore(s, m) ==
  /\ Len(m.chain) <= Len(s.root)
  /\ m.chain = s.receiving => m.n < s.receiveCount
  /\ \A i \in DOMAIN s.skipped : ~(IsCachedFor(s.skipped[i], m) /\ s.skipped[i].chain = m.chain)

LEMMA StateFields ==
  ASSUME NEW s \in State
  PROVE  /\ s.root \in Chain /\ s.ours \in RatchetKey /\ s.theirs \in RatchetKey \cup {NoKey}
         /\ s.sending \in Chain /\ s.receiving \in Chain
         /\ s.sendCount \in Nat /\ s.receiveCount \in Nat /\ s.previous \in Nat
         /\ s.skipped \in Seq(Entry)
         /\ Len(s.root) \in Nat /\ Len(s.receiving) \in Nat
  BY SMT DEF State, Chain, RatchetKey, Entry

(* skipMessageKeys moves the counter forward and disturbs nothing else. *)
LEMMA SkipReceives ==
  ASSUME NEW s, ReceivingOK(s), NEW until \in Nat
  PROVE  LET t == SkipMessageKeys(s, until)
         IN  /\ ReceivingOK(t)
             /\ t.root = s.root /\ t.receiving = s.receiving /\ t.theirs = s.theirs /\ t.ours = s.ours
             /\ t.receiveCount >= s.receiveCount
             /\ \A m \in Message : OpenedBefore(s, m) => OpenedBefore(t, m)
<1> DEFINE t == SkipMessageKeys(s, until)
<1>1. s \in State
  BY DEF ReceivingOK
<1>2. CASE t = s
  BY <1>1, <1>2, StateFields, SMT
<1>3. CASE s.receiving # NoChain /\ until > s.receiveCount
  <2> DEFINE q == CacheKeys(s, until)
  <2>1. t = [s EXCEPT !.skipped = q, !.receiveCount = until]
    BY <1>1, <1>3, StateFields, SMT DEF SkipMessageKeys
  <2>2. s.theirs \in RatchetKey
    BY <1>3 DEF ReceivingOK
  <2>3. /\ q \in Seq(Entry)
        /\ Bounded(q)
        /\ \A i \in DOMAIN q :
             \/ \E j \in DOMAIN s.skipped : q[i] = s.skipped[j]
             \/ \E n \in s.receiveCount .. until - 1 : q[i] = KeyAt(s, n)
    BY <1>1, <1>3, <2>2, StateFields, CacheKeysBounds
  <2> HIDE DEF q
  <2>4. /\ t.skipped = q /\ t.receiveCount = until /\ t.root = s.root /\ t.receiving = s.receiving
        /\ t.theirs = s.theirs /\ t.ours = s.ours
    BY <1>1, <2>1 DEF State
  <2>5. t \in State
    BY <1>1, <2>1, <2>3 DEF State, Entry, Chain, RatchetKey
  <2> HIDE DEF t
  <2>6. ASSUME NEW i \in DOMAIN q
        PROVE  /\ Len(q[i].chain) <= Len(s.root)
               /\ q[i].chain = s.receiving => q[i].n < until
    <3>1. ASSUME NEW j \in DOMAIN s.skipped, q[i] = s.skipped[j]
          PROVE  /\ Len(q[i].chain) <= Len(s.root)
                 /\ q[i].chain = s.receiving => q[i].n < until
      <4>1. s.skipped[j] \in Entry
        BY <1>1, StateFields, SMT
      <4>2. q[i].n \in Nat
        BY <3>1, <4>1 DEF Entry
      <4>3. /\ Len(q[i].chain) <= Len(s.root)
            /\ q[i].chain = s.receiving => q[i].n < s.receiveCount
        BY <3>1 DEF ReceivingOK
      <4> QED BY <1>1, <1>3, <4>2, <4>3, StateFields, SMT
    <3>2. ASSUME NEW n \in s.receiveCount .. until - 1, q[i] = KeyAt(s, n)
          PROVE  /\ Len(q[i].chain) <= Len(s.root)
                 /\ q[i].chain = s.receiving => q[i].n < until
      <4>1. q[i].chain = s.receiving /\ q[i].n = n
        BY <3>2, SMT DEF KeyAt
      <4> QED BY <1>1, <4>1, StateFields, SMT DEF ReceivingOK
    <3> QED BY <2>3, <3>1, <3>2
  <2>7. ReceivingOK(t)
    BY <2>2, <2>3, <2>4, <2>5, <2>6 DEF ReceivingOK
  <2>8. ASSUME NEW m \in Message, OpenedBefore(s, m)
        PROVE  OpenedBefore(t, m)
    <3>1. m.n \in Nat
      BY DEF Message
    <3>2. m.chain = t.receiving => m.n < t.receiveCount
      BY <1>1, <1>3, <2>4, <2>8, <3>1, StateFields, SMT DEF OpenedBefore
    <3>3. ASSUME NEW i \in DOMAIN q PROVE ~(IsCachedFor(q[i], m) /\ q[i].chain = m.chain)
      <4>1. CASE \E j \in DOMAIN s.skipped : q[i] = s.skipped[j]
        BY <2>8, <4>1 DEF OpenedBefore
      <4>2. ASSUME NEW n \in s.receiveCount .. until - 1, q[i] = KeyAt(s, n)
            PROVE  ~(IsCachedFor(q[i], m) /\ q[i].chain = m.chain)
        <5>1. q[i].chain = s.receiving /\ q[i].n = n /\ n >= s.receiveCount
          BY <1>1, <4>2, StateFields, SMT DEF KeyAt
        <5> QED BY <1>1, <2>8, <3>1, <5>1, StateFields, SMT DEF OpenedBefore, IsCachedFor
      <4> QED BY <2>3, <4>1, <4>2
    <3> QED BY <2>4, <2>8, <3>2, <3>3 DEF OpenedBefore
  <2> QED BY <1>1, <1>3, <2>4, <2>7, <2>8, StateFields, SMT DEF t
<1> QED BY <1>1, <1>2, <1>3, StateFields, SMT DEF SkipMessageKeys

(* dhRatchet starts a receiving chain that is longer than every earlier    *)
(* one.                                                                    *)
LEMMA RatchetReceives ==
  ASSUME NEW s, ReceivingOK(s), NEW dh \in RatchetKey, NEW fresh \in RatchetKey
  PROVE  LET t == DhRatchet(s, dh, fresh)
         IN  /\ ReceivingOK(t)
             /\ Len(t.receiving) = Len(s.root) + 1
             /\ \A m \in Message : OpenedBefore(s, m) => OpenedBefore(t, m)
<1> DEFINE t == DhRatchet(s, dh, fresh)
           receiving == AdvanceRootKey(s.root, DH(s.ours, dh))
           sending == AdvanceRootKey(receiving, DH(fresh, dh))
<1>1. s \in State /\ s.root \in Chain /\ s.ours \in RatchetKey /\ Len(s.root) \in Nat
  BY StateFields DEF ReceivingOK
<1>2. receiving \in Chain /\ Len(receiving) = Len(s.root) + 1
  BY <1>1, RootGrows
<1>3. sending \in Chain /\ Len(sending) = Len(s.root) + 2
  <2> HIDE DEF receiving
  <2> QED BY <1>1, <1>2, RootGrows, SMT
<1>4. t = [s EXCEPT !.previous = s.sendCount, !.sendCount = 0, !.receiveCount = 0,
                    !.theirs = dh, !.receiving = receiving, !.ours = fresh,
                    !.sending = sending, !.root = sending]
  BY DEF DhRatchet
<1> HIDE DEF t, receiving, sending
<1>5. t \in State
  BY <1>1, <1>2, <1>3, <1>4 DEF State, Chain, RatchetKey
<1>6. /\ t.skipped = s.skipped /\ t.receiveCount = 0 /\ t.root = sending /\ t.receiving = receiving
      /\ t.theirs = dh
  BY <1>1, <1>4 DEF State
<1>7. ASSUME NEW i \in DOMAIN s.skipped
      PROVE  Len(s.skipped[i].chain) \in Nat /\ Len(s.skipped[i].chain) <= Len(s.root)
  <2>1. s.skipped[i] \in Entry
    BY <1>1, StateFields, SMT
  <2> QED BY <2>1, SMT DEF Entry, Chain, ReceivingOK
<1>8. \A i \in DOMAIN s.skipped :
        Len(s.skipped[i].chain) <= Len(sending) /\ s.skipped[i].chain # receiving
  BY <1>1, <1>2, <1>3, <1>7, SMT
<1>9. ReceivingOK(t)
  BY <1>1, <1>2, <1>3, <1>5, <1>6, <1>8, SMT DEF ReceivingOK
<1>10. ASSUME NEW m \in Message, OpenedBefore(s, m) PROVE OpenedBefore(t, m)
  <2>1. Len(m.chain) \in Nat /\ Len(m.chain) <= Len(s.root)
    BY <1>10, SMT DEF Message, OpenedBefore
  <2>2. Len(m.chain) <= Len(sending) /\ m.chain # receiving
    BY <1>1, <1>2, <1>3, <2>1, SMT
  <2> QED BY <1>6, <1>10, <2>2 DEF OpenedBefore
<1> QED BY <1>2, <1>6, <1>9, <1>10 DEF t

(* The working copy of decryptMessage. *)
LEMMA WorkingReceives ==
  ASSUME NEW s, ReceivingOK(s), NEW m \in Message
  PROVE  LET w == Working(s, m)
         IN  /\ ReceivingOK(w)
             /\ \/ w.receiving = s.receiving /\ w.receiveCount >= s.receiveCount
                \/ Len(w.receiving) = Len(s.root) + 1
             /\ \A k \in Message : OpenedBefore(s, k) => OpenedBefore(w, k)
<1> DEFINE r == Ratcheted(s, m)
           w == Working(s, m)
<1>1. m.pn \in Nat /\ m.n \in Nat /\ m.dh \in RatchetKey
  BY DEF Message, RatchetKey
<1>2. s \in State /\ s.receiveCount \in Nat
  BY StateFields DEF ReceivingOK
<1>3. /\ ReceivingOK(r)
      /\ \/ r.receiving = s.receiving /\ r.receiveCount = s.receiveCount
         \/ Len(r.receiving) = Len(s.root) + 1
      /\ \A k \in Message : OpenedBefore(s, k) => OpenedBefore(r, k)
  <2>1. CASE IsNewRatchetKey(s, m)
    <3> DEFINE x == SkipMessageKeys(s, m.pn)
    <3>1. /\ ReceivingOK(x) /\ x.root = s.root
          /\ \A k \in Message : OpenedBefore(s, k) => OpenedBefore(x, k)
      BY <1>1, SkipReceives
    <3>2. Fresh(s.ours) \in RatchetKey
      BY <1>2, StateFields, SMT DEF Fresh, RatchetKey
    <3>3. r = DhRatchet(x, m.dh, Fresh(s.ours))
      BY <2>1 DEF Ratcheted
    <3> HIDE DEF x, r
    <3>4. /\ ReceivingOK(r) /\ Len(r.receiving) = Len(x.root) + 1
          /\ \A k \in Message : OpenedBefore(x, k) => OpenedBefore(r, k)
      BY <1>1, <3>1, <3>2, <3>3, RatchetReceives
    <3> QED BY <3>1, <3>4
  <2>2. CASE ~IsNewRatchetKey(s, m)
    <3>1. r = s
      BY <2>2 DEF Ratcheted
    <3> QED BY <3>1
  <2> QED BY <2>1, <2>2
<1>4. w = SkipMessageKeys(r, m.n)
  BY DEF Working
<1> HIDE DEF r, w
<1>5. /\ ReceivingOK(w) /\ w.receiving = r.receiving /\ w.receiveCount >= r.receiveCount
      /\ \A k \in Message : OpenedBefore(r, k) => OpenedBefore(w, k)
  BY <1>1, <1>3, <1>4, SkipReceives
<1> QED BY <1>3, <1>5 DEF w

(* A message that was opened before does not open again. *)
LEMMA NoSecondOpening ==
  ASSUME NEW s, ReceivingOK(s), NEW m \in Message, OpenedBefore(s, m)
  PROVE  ~Opens(s, m)
<1> SUFFICES ASSUME Opens(s, m) PROVE FALSE
  OBVIOUS
<1>1. CASE Cached(s, m)
  BY <1>1 DEF Opens, Authentic, OpenedBefore
<1>2. CASE ~Cached(s, m)
  <2> DEFINE w == Working(s, m)
  <2>1. w.receiving = m.chain /\ w.receiveCount = m.n
    BY <1>2 DEF Opens, Authentic
  <2>2. \/ w.receiving = s.receiving /\ w.receiveCount >= s.receiveCount
        \/ Len(w.receiving) = Len(s.root) + 1
    BY WorkingReceives
  <2> HIDE DEF w
  <2>3. Len(m.chain) \in Nat /\ m.n \in Nat /\ s.receiveCount \in Nat /\ Len(s.root) \in Nat
    BY StateFields, SMT DEF Message, ReceivingOK
  <2> QED BY <2>1, <2>2, <2>3, SMT DEF OpenedBefore
<1> QED BY <1>1, <1>2

(* decryptMessage uses the key up, and no other opened message's comes     *)
(* back.                                                                   *)
LEMMA DecryptUsesUp ==
  ASSUME NEW s, ReceivingOK(s), NEW m \in Message, Opens(s, m)
  PROVE  LET t == Decrypted(s, m)
         IN  /\ ReceivingOK(t)
             /\ OpenedBefore(t, m)
             /\ \A k \in Message : OpenedBefore(s, k) => OpenedBefore(t, k)
<1> DEFINE t == Decrypted(s, m)
<1>1. s \in State /\ m.n \in Nat /\ m.chain \in Chain
  BY DEF ReceivingOK, Message, Chain, RatchetKey
<1>2. CASE Cached(s, m)
  <2> DEFINE q == Uncached(s, m)
             D == {s.skipped[i] : i \in {j \in DOMAIN s.skipped : IsCachedFor(s.skipped[j], m)}}
             c == s.skipped
  <2>1. q = Without(c, D)
    BY DEF Uncached
  <2>2. c \in Seq(Entry)
    BY <1>1, StateFields
  <2>3. /\ q \in Seq(Entry)
        /\ Len(q) <= Len(c)
        /\ \A i \in DOMAIN q : q[i] \notin D /\ \E j \in DOMAIN c : q[i] = c[j]
    <3> HIDE DEF D, c, q
    <3>1. LET r == Without(c, D)
          IN  /\ r \in Seq(Entry)
              /\ Len(r) <= Len(c)
              /\ \A i \in DOMAIN r : r[i] \notin D /\ \E j \in DOMAIN c : r[i] = c[j]
      BY <2>2, WithoutSelects, SMT
    <3> QED BY <2>1, <3>1
  <2> HIDE DEF q
  <2>4. t = [s EXCEPT !.skipped = q]
    BY <1>2 DEF Decrypted, q
  <2>5. /\ t.skipped = q /\ t.receiveCount = s.receiveCount /\ t.root = s.root
        /\ t.receiving = s.receiving /\ t.theirs = s.theirs
    BY <1>1, <2>4 DEF State
  <2>6. t \in State
    BY <1>1, <2>3, <2>4 DEF State, Entry, Chain, RatchetKey
  <2> HIDE DEF t
  <2>7. \A i \in DOMAIN q : \E j \in DOMAIN c : q[i] = c[j] /\ ~IsCachedFor(c[j], m)
    BY <2>3
  <2>8. Bounded(q)
    <3>1. Chains(q) \subseteq Chains(c)
      BY <2>3 DEF Chains
    <3>2. IsFiniteSet(Chains(c)) /\ Bounded(c)
      BY <2>2, ChainsFinite DEF ReceivingOK
    <3> HIDE DEF c
    <3>3. /\ Cardinality(Chains(q)) <= Cardinality(Chains(c))
          /\ Cardinality(Chains(q)) \in Nat /\ Cardinality(Chains(c)) \in Nat
      BY <3>1, <3>2, FS_Subset, FS_CardinalityType
    <3> QED BY <2>2, <2>3, <3>2, <3>3, RatchetAssumption, SMT DEF Bounded
  <2>9. ReceivingOK(t)
    BY <2>5, <2>6, <2>7, <2>8 DEF ReceivingOK
  <2>10. PICK i \in DOMAIN c : IsCachedFor(c[i], m) /\ c[i].chain = m.chain
    BY <1>2 DEF Opens, Authentic
  <2>11. Len(m.chain) <= Len(s.root) /\ (m.chain = s.receiving => m.n < s.receiveCount)
    BY <2>10 DEF ReceivingOK, IsCachedFor
  <2>12. OpenedBefore(t, m)
    BY <2>5, <2>7, <2>11 DEF OpenedBefore
  <2>13. \A k \in Message : OpenedBefore(s, k) => OpenedBefore(t, k)
    BY <2>5, <2>7 DEF OpenedBefore
  <2> QED BY <2>9, <2>12, <2>13 DEF t
<1>3. CASE ~Cached(s, m)
  <2> DEFINE w == Working(s, m)
  <2>1. w.receiving = m.chain /\ w.receiveCount = m.n
    BY <1>3 DEF Opens, Authentic
  <2>2. ReceivingOK(w) /\ \A k \in Message : OpenedBefore(s, k) => OpenedBefore(w, k)
    BY WorkingReceives
  <2>3. t = [w EXCEPT !.receiveCount = @ + 1]
    BY <1>3 DEF Decrypted
  <2> HIDE DEF w, t
  <2>4. w \in State /\ w.receiveCount \in Nat
    BY <2>2, StateFields DEF ReceivingOK
  <2>5. /\ t.skipped = w.skipped /\ t.receiveCount = w.receiveCount + 1 /\ t.root = w.root
        /\ t.receiving = w.receiving /\ t.theirs = w.theirs
    BY <2>3, <2>4 DEF State
  <2>6. t \in State
    <3>1. PICK n \in Nat : n = w.receiveCount + 1
      BY <2>4, SMT
    <3>2. t = [w EXCEPT !.receiveCount = n]
      BY <2>3, <2>4, <3>1 DEF State
    <3> QED BY <2>4, <3>2 DEF State
  <2>7. ASSUME NEW i \in DOMAIN w.skipped
        PROVE  w.skipped[i].n \in Nat
    <3>1. w.skipped[i] \in Entry
      BY <2>4, StateFields, SMT
    <3> QED BY <3>1 DEF Entry
  <2>8. ReceivingOK(t)
    BY <2>2, <2>4, <2>5, <2>6, <2>7, SMT DEF ReceivingOK
  <2>9. OpenedBefore(t, m)
    <3>1. Len(m.chain) <= Len(t.root)
      BY <2>1, <2>2, <2>5 DEF ReceivingOK
    <3>2. m.n < t.receiveCount
      BY <1>1, <2>1, <2>5, SMT
    <3>3. \A i \in DOMAIN w.skipped : w.skipped[i].chain = m.chain => w.skipped[i].n # m.n
      BY <1>1, <2>1, <2>2, <2>7, SMT DEF ReceivingOK
    <3> QED BY <2>5, <3>1, <3>2, <3>3 DEF OpenedBefore, IsCachedFor
  <2>10. ASSUME NEW k \in Message, OpenedBefore(s, k) PROVE OpenedBefore(t, k)
    <3>1. OpenedBefore(w, k) /\ k.n \in Nat
      BY <2>2, <2>10 DEF Message
    <3> QED BY <2>4, <2>5, <3>1, SMT DEF OpenedBefore
  <2> QED BY <2>8, <2>9, <2>10 DEF t
<1> QED BY <1>2, <1>3

ReceiveInv ==
  /\ st \in [Party -> State]
  /\ sent \in [Party -> SUBSET Message]
  /\ opened \in [Party -> SUBSET Message]
  /\ replayed = {}
  /\ within \subseteq Party
  /\ \A p \in Party :
       /\ ReceivingOK(st[p])
       /\ IsFiniteSet(sent[p])
       /\ \A m \in opened[p] : OpenedBefore(st[p], m)

LEMMA ReceiveInvInit == Init => ReceiveInv
<1> SUFFICES ASSUME Init PROVE ReceiveInv
  OBVIOUS
<1>1. <<Initiator, 1>> \in RatchetKey /\ <<Responder, 1>> \in RatchetKey /\ <<>> \in Chain
  BY SMT DEF RatchetKey, Party, Chain
<1>2. Bounded(<<>>)
  <2>1. Chains(<<>>) = {} /\ Len(<<>>) = 0
    BY SMT DEF Chains
  <2> QED BY <2>1, FS_EmptySet, RatchetAssumption, SMT DEF Bounded
<1>3. ReceivingOK(st[Initiator])
  <2> DEFINE root == AdvanceRootKey(<<>>, DH(<<Initiator, 1>>, <<Responder, 1>>))
             s == st[Initiator]
  <2>1. root \in Chain /\ Len(root) = 1
    <3>1. PICK e : e = <<>> /\ e \in Chain /\ Len(e) = 0
      BY <1>1, SMT
    <3>2. PICK a \in RatchetKey, b \in RatchetKey : a = <<Initiator, 1>> /\ b = <<Responder, 1>>
      BY <1>1
    <3>3. AdvanceRootKey(e, DH(a, b)) \in Chain /\ Len(AdvanceRootKey(e, DH(a, b))) = Len(e) + 1
      BY <3>1, RootGrows
    <3> QED BY <3>1, <3>2, <3>3, SMT
  <2>2. s = InitializeInitiator(<<>>, <<Initiator, 1>>, <<Responder, 1>>)
    BY DEF Init, Party
  <2>3. s = [root |-> root, ours |-> <<Initiator, 1>>, theirs |-> <<Responder, 1>>,
             sending |-> root, receiving |-> <<>>,
             sendCount |-> 0, receiveCount |-> 0, previous |-> 0, skipped |-> <<>>]
    BY <2>2 DEF InitializeInitiator, NoChain
  <2> HIDE DEF root, s
  <2>4. s \in State
    BY <1>1, <2>1, <2>3, SMT DEF State, Chain, RatchetKey
  <2> QED BY <1>2, <2>1, <2>3, <2>4, SMT DEF ReceivingOK, NoChain, s
<1>4. ReceivingOK(st[Responder])
  <2> DEFINE s == st[Responder]
  <2>1. s = InitializeResponder(<<>>, <<Responder, 1>>)
    BY ChannelAssumption DEF Init, Party
  <2>2. s = [root |-> <<>>, ours |-> <<Responder, 1>>, theirs |-> <<>>,
             sending |-> <<>>, receiving |-> <<>>,
             sendCount |-> 0, receiveCount |-> 0, previous |-> 0, skipped |-> <<>>]
    BY <2>1 DEF InitializeResponder, NoChain, NoKey
  <2> HIDE DEF s
  <2>3. s \in State
    BY <1>1, <2>2, SMT DEF State, Chain, RatchetKey, NoKey
  <2> QED BY <1>2, <2>2, <2>3, SMT DEF ReceivingOK, NoChain, s
<1>5. /\ DOMAIN st = Party /\ sent = [p \in Party |-> {}] /\ opened = [p \in Party |-> {}]
      /\ replayed = {} /\ within = Party
  BY DEF Init
<1>6. IsFiniteSet({})
  BY FS_EmptySet
<1>7. st \in [Party -> State]
  BY <1>3, <1>4 DEF Init, Party, ReceivingOK
<1> QED BY <1>3, <1>4, <1>5, <1>6, <1>7 DEF ReceiveInv, Party

LEMMA SendReceives ==
  ASSUME ReceiveInv, NEW p \in Party, Send(p)
  PROVE  ReceiveInv'
<1> DEFINE s == st[p]
           id == Cardinality(sent[p]) + 1
           m == Sealed(s, id)
           t == Encrypted(s)
<1>1. s \in State /\ ReceivingOK(s)
  BY DEF ReceiveInv, ReceivingOK
<1>2. id \in Nat
  BY FS_CardinalityType, SMT DEF ReceiveInv
<1>3. m \in Message
  <2> HIDE DEF id
  <2>1. /\ s.ours \in RatchetKey /\ s.previous \in Nat /\ s.sendCount \in Nat /\ s.sending \in Chain
    BY <1>1, StateFields
  <2> QED BY <1>2, <2>1 DEF Sealed, Message, Chain, RatchetKey
<1>4. /\ t \in State
      /\ t.root = s.root /\ t.receiving = s.receiving /\ t.theirs = s.theirs
      /\ t.skipped = s.skipped /\ t.receiveCount = s.receiveCount
  <2>1. PICK n \in Nat : n = s.sendCount + 1
    BY <1>1, StateFields, SMT
  <2>2. t = [s EXCEPT !.sendCount = n]
    BY <1>1, <2>1 DEF Encrypted, State
  <2> QED BY <1>1, <2>2 DEF State
<1>5. /\ st' = [st EXCEPT ![p] = t] /\ sent' = [sent EXCEPT ![p] = @ \cup {m}]
      /\ opened' = opened /\ replayed' = replayed /\ within' \subseteq within
  BY DEF Send
<1> HIDE DEF m, t
<1>6. ReceivingOK(t) /\ \A k \in Message : OpenedBefore(s, k) => OpenedBefore(t, k)
  BY <1>1, <1>4 DEF ReceivingOK, OpenedBefore
<1>7. IsFiniteSet(sent[p] \cup {m})
  BY FS_AddElement DEF ReceiveInv
<1>8. sent' \in [Party -> SUBSET Message] /\ \A q \in Party : IsFiniteSet(sent'[q])
  BY <1>3, <1>5, <1>7 DEF ReceiveInv
<1>9. ASSUME NEW q \in Party
      PROVE  ReceivingOK(st'[q]) /\ \A k \in opened[q] : OpenedBefore(st'[q], k)
  BY <1>5, <1>6 DEF ReceiveInv
<1>10. st' \in [Party -> State]
  BY <1>4, <1>5 DEF ReceiveInv
<1> QED BY <1>5, <1>8, <1>9, <1>10 DEF ReceiveInv

LEMMA ReceiveReceives ==
  ASSUME ReceiveInv, NEW p \in Party, NEW m \in sent[Peer(p)], Receive(p, m)
  PROVE  ReceiveInv'
<1> DEFINE s == st[p]
           t == Decrypted(s, m)
<1>1. ReceivingOK(s) /\ m \in Message /\ Opens(s, m)
  BY DEF ReceiveInv, Receive, Peer, Party
<1>2. m \notin opened[p]
  BY <1>1, NoSecondOpening DEF ReceiveInv
<1>3. /\ ReceivingOK(t)
      /\ OpenedBefore(t, m)
      /\ \A k \in Message : OpenedBefore(s, k) => OpenedBefore(t, k)
  BY <1>1, DecryptUsesUp
<1>4. /\ st' = [st EXCEPT ![p] = t] /\ opened' = [opened EXCEPT ![p] = @ \cup {m}]
      /\ replayed' = replayed \cup (opened[p] \cap {m}) /\ sent' = sent /\ within' = within
  BY DEF Receive
<1> HIDE DEF t
<1>5. replayed' = {} /\ opened' \in [Party -> SUBSET Message]
  BY <1>1, <1>2, <1>4 DEF ReceiveInv
<1>6. ASSUME NEW q \in Party
      PROVE  ReceivingOK(st'[q]) /\ \A k \in opened'[q] : OpenedBefore(st'[q], k)
  BY <1>3, <1>4 DEF ReceiveInv
<1>7. st' \in [Party -> State]
  BY <1>3, <1>4 DEF ReceiveInv, ReceivingOK
<1> QED BY <1>4, <1>5, <1>6, <1>7 DEF ReceiveInv

LEMMA ReceiveInvStep == ReceiveInv /\ [NextStep]_vars => ReceiveInv'
<1> SUFFICES ASSUME ReceiveInv, [NextStep]_vars PROVE ReceiveInv'
  OBVIOUS
<1>1. CASE UNCHANGED vars
  BY <1>1 DEF ReceiveInv, vars, ReceivingOK, OpenedBefore
<1>2. ASSUME NEW p \in Party, NEW m \in sent[Peer(p)], Reject(p, m) PROVE ReceiveInv'
  BY <1>1, <1>2 DEF Reject
<1> QED BY <1>1, <1>2, SendReceives, ReceiveReceives DEF NextStep

(* A message is decrypted at most once, however often it is delivered:     *)
(* decryptMessage deletes a cached key or moves the counter past it, and a *)
(* ratchet step leads to a chain that is longer than any chain used.       *)
THEOREM NoMessageOpensTwice == Spec => []OpenedOnce
<1>1. ReceiveInv => OpenedOnce
  BY DEF ReceiveInv, OpenedOnce
<1> QED BY <1>1, ReceiveInvInit, ReceiveInvStep, PTL DEF Spec

(* The cache of skipped keys never exceeds MAX_SKIPPED_KEYS keys of        *)
(* MAX_SKIP_CHAINS chains: evictSkippedKeys runs after every key.          *)
THEOREM CacheIsBounded == Spec => []ChannelTypeOK
<1>1. ReceiveInv => ChannelTypeOK
  <2> SUFFICES ASSUME ReceiveInv PROVE ChannelTypeOK
    OBVIOUS
  <2>1. st \in [Party -> State]
    BY DEF ReceiveInv, ReceivingOK
  <2>2. \A p \in Party : /\ Len(st[p].skipped) <= MaxSkippedKeys
                         /\ Cardinality({st[p].skipped[i].dh : i \in DOMAIN st[p].skipped}) <= MaxSkipChains
    BY DEF ReceiveInv, ReceivingOK, Bounded, Chains
  <2> QED BY <2>1, <2>2 DEF ReceiveInv, ChannelTypeOK
<1> QED BY <1>1, ReceiveInvInit, ReceiveInvStep, PTL DEF Spec
=============================================================================
