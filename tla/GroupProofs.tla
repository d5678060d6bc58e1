---------------------------- MODULE GroupProofs ----------------------------
(***************************************************************************)
(* What the replicated group state converges to, for any accounts, clocks  *)
(* and numbers of changes: the members of a copy are determined by the set *)
(* of its updates, a change decides over what its author saw, and merging  *)
(* two copies gives the members of all their updates.                      *)
(*                                                                         *)
(* Why: each stamp of a copy is the latest of the times at which an update *)
(* in its log, or the creation, adds or removes the account.  That is kept *)
(* by every update, whatever the order, and by lost writes, because a copy *)
(* travels with its log.  All copies have one creation time T, all updates *)
(* are later than T, and later than every update their author had seen.    *)
(***************************************************************************)
EXTENDS GroupSync, WellFoundedInduction, TLAPS

(* Every step is tried with Zenon, except those that name another prover. *)
USE Zenon

NatLess == {p \in Nat \X Nat : p[1] < p[2]}

LEMMA NatLessWellFounded == IsWellFoundedOn(NatLess, Nat)
<1>1. NatLess = OpToRel(<, Nat)
  BY DEF NatLess, OpToRel
<1> QED BY <1>1, NatLessThanWellFounded

(* The naturals below a bound have a maximum. *)
LEMMA MaxExists ==
  ASSUME NEW S, S \subseteq Nat, S # {}, NEW bound \in Nat, \A x \in S : x <= bound
  PROVE  Max(S) \in S /\ \A x \in S : x <= Max(S)
<1> DEFINE D == {n \in Nat : \E x \in S : x + n = bound}
<1>1. D \subseteq Nat
  OBVIOUS
<1>2. D # {}
  <2>1. PICK x \in S : TRUE
    OBVIOUS
  <2>2. x \in Nat /\ bound - x \in Nat /\ x + (bound - x) = bound
    BY <2>1, SMT
  <2>3. bound - x \in D
    BY <2>1, <2>2
  <2> QED BY <2>3
<1>3. PICK m \in D : \A y \in D : <<y, m>> \notin NatLess
  <2> HIDE DEF D
  <2> QED BY <1>1, <1>2, WFMin, NatLessWellFounded
<1>4. PICK x \in S : x + m = bound
  BY <1>3
<1>5. ASSUME NEW y \in S PROVE x >= y
  <2>1. bound - y \in D
    <3>1. y \in Nat /\ bound - y \in Nat /\ y + (bound - y) = bound
      BY SMT
    <3> QED BY <3>1
  <2>2. bound - y \in Nat /\ m \in Nat /\ <<bound - y, m>> \notin NatLess
    BY <1>3, <2>1
  <2>3. ~(bound - y < m)
    BY <2>2 DEF NatLess
  <2> QED BY <1>4, <2>2, <2>3, SMT
<1> QED BY <1>4, <1>5 DEF Max

LEMMA MaxOfTwo ==
  ASSUME NEW a \in Nat, NEW b \in Nat
  PROVE  LET m == Max({a, b}) IN m \in {a, b} /\ m >= a /\ m >= b
<1> DEFINE S == {a, b}
<1>1. S \subseteq Nat /\ S # {} /\ a + b \in Nat /\ \A x \in S : x <= a + b
  BY SMT
<1>2. Max(S) \in S /\ \A x \in S : x <= Max(S)
  <2> HIDE DEF S
  <2> QED BY <1>1, MaxExists
<1> QED BY <1>2

-----------------------------------------------------------------------------
(* t is the latest of the times T, or 0 when there are none. *)
Latest(t, T) == t \in T \cup {0} /\ \A x \in T : x <= t

(* An update made after the creation at time T. *)
GoodUpdate(T) == {u \in Update : u.at > T}

(* A copy of the group created at time T whose stamps are the latest times *)
(* of its log.                                                             *)
Good(T, g) ==
  /\ g.state.createdAt = T
  /\ g.log \subseteq GoodUpdate(T)
  /\ \E bound \in Nat : \A t \in Stamps(g.state) : t <= bound
  /\ \A a \in Account :
       /\ Latest(g.state.members[a].added.at, AddTimes(g.log, g.state.createdAt, a))
       /\ Latest(g.state.members[a].removed.at, RemoveTimes(g.log, a))

GoodCopy(T) == {g \in Copy : Good(T, g)}

GoodWrite(T) == [copy : GoodCopy(T), announce : SUBSET GoodUpdate(T), to : SUBSET Account]

CopiesGood(T) ==
  /\ copy \in [Account -> GoodCopy(T) \cup {NoGroup}]
  /\ writes \in [Account -> Seq(GoodWrite(T))]
  /\ leaving \in [Account -> SUBSET GoodCopy(T)]
  /\ inbox \in [Account -> SUBSET GoodUpdate(T)]
  /\ invited \subseteq Account \X {T}

-----------------------------------------------------------------------------
(* Membership by stamps is membership by the log. *)
LEMMA MembersOfGood ==
  ASSUME NEW T \in Nat \ {0}, NEW g \in GoodCopy(T)
  PROVE  CurrentMembers(g.state) = MembersFrom(g.log, g.state.createdAt)
<1> DEFINE A(a) == AddTimes(g.log, g.state.createdAt, a)
           R(a) == RemoveTimes(g.log, a)
<1> SUFFICES ASSUME NEW a \in Account
             PROVE  IsMember(g.state, a) <=> \E at \in A(a) : \A r \in R(a) : at > r
  BY DEF CurrentMembers, MembersFrom
<1> DEFINE x == g.state.members[a].added.at
           y == g.state.members[a].removed.at
<1>1. x \in Nat /\ y \in Nat
  BY DEF GoodCopy, Copy, GroupState, Stamp
<1>2. A(a) \subseteq Nat \ {0} /\ R(a) \subseteq Nat \ {0}
  BY SMT DEF GoodCopy, Good, GoodUpdate, Update, Copy, GroupState, AddTimes, RemoveTimes
<1>3. Latest(x, A(a)) /\ Latest(y, R(a))
  BY DEF GoodCopy, Good
<1>4. IsMember(g.state, a) <=> x > y
  BY DEF IsMember
<1> HIDE DEF A, R, x, y
<1> QED BY <1>1, <1>2, <1>3, <1>4, SMT DEF Latest

(* What a device's clock reads is a time after 0, which means never. *)
LEMMA ReadingsAreTimes == \A c \in Account : Clock[c] \subseteq Nat \ {0}
  BY SyncAssumption

LEMMA CreationIsGood ==
  ASSUME NEW now \in Nat \ {0}
  PROVE  [state |-> Creation(now), log |-> {}] \in GoodCopy(now)
<1> DEFINE s == Creation(now)
           g == [state |-> s, log |-> {}]
<1>1. now \in Nat /\ now > 0 /\ Creator \in Nat
  BY SyncAssumption, GroupAssumption, SMT
<1>2. s \in GroupState /\ s.createdAt = now
  BY <1>1, SyncAssumption DEF Creation, CreateGroup, GroupState, Stamp, NoRecord, Never
<1>3. \A t \in Stamps(s) : t <= now
  BY <1>1, SMT DEF Creation, CreateGroup, Stamps, NoRecord, Never
<1>4. ASSUME NEW a \in Account
      PROVE  /\ Latest(s.members[a].added.at, AddTimes({}, now, a))
             /\ Latest(s.members[a].removed.at, RemoveTimes({}, a))
  BY <1>1, SMT DEF Creation, CreateGroup, NoRecord, Never, Latest, AddTimes, RemoveTimes
<1>5. g \in Copy /\ g.state = s /\ g.log = {}
  BY <1>2 DEF Copy
<1> HIDE DEF s, g
<1>6. Good(now, g)
  BY <1>1, <1>2, <1>3, <1>4, <1>5 DEF Good
<1> QED BY <1>5, <1>6 DEF GoodCopy, g, s

LEMMA StampsAreTimes ==
  ASSUME NEW s \in GroupState
  PROVE  Stamps(s) \subseteq Nat /\ Stamps(s) # {}
<1>1. s.named.at \in Nat /\ s.createdAt \in Nat
  BY DEF GroupState, Stamp
<1>2. \A a \in Account : s.members[a].added.at \in Nat /\ s.members[a].removed.at \in Nat
  BY DEF GroupState, Stamp
<1>3. s.createdAt \in Stamps(s)
  BY DEF Stamps
<1>4. ASSUME NEW t \in Stamps(s) PROVE t \in Nat
  BY <1>1, <1>2, SMT DEF Stamps
<1> QED BY <1>3, <1>4

LEMMA StampsOfMember ==
  ASSUME NEW s, NEW a \in Account
  PROVE  s.members[a].added.at \in Stamps(s) /\ s.members[a].removed.at \in Stamps(s)
<1> DEFINE times(b) == {s.members[b].added.at, s.members[b].removed.at}
<1>1. UNION {times(b) : b \in Account} \subseteq Stamps(s)
  BY DEF Stamps
<1>2. s.members[a].added.at \in times(a) /\ s.members[a].removed.at \in times(a)
  OBVIOUS
<1> HIDE DEF times
<1> QED BY <1>1, <1>2

(* nextTimestamp is past everything in the copy. *)
LEMMA StampIsAhead ==
  ASSUME NEW T \in Nat \ {0}, NEW g \in GoodCopy(T), NEW now \in Nat \ {0}
  PROVE  LET t == NextTimestamp(g.state, now)
         IN  t \in Nat /\ t > T /\ \A x \in Stamps(g.state) : t > x
<1>1. Stamps(g.state) \subseteq Nat /\ Stamps(g.state) # {}
  BY StampsAreTimes DEF GoodCopy, Copy
<1>2. PICK bound \in Nat : \A x \in Stamps(g.state) : x <= bound
  BY DEF GoodCopy, Good
<1>3. LatestTimestamp(g.state) \in Nat /\ \A x \in Stamps(g.state) : x <= LatestTimestamp(g.state)
  BY <1>1, <1>2, MaxExists DEF LatestTimestamp
<1>4. now \in Nat /\ now > 0
  BY SMT
<1>5. T \in Stamps(g.state)
  BY DEF GoodCopy, Good, Stamps
<1> QED BY <1>1, <1>3, <1>4, <1>5, MaxOfTwo, SMT DEF NextTimestamp

LEMMA NewerIsStamp ==
  ASSUME NEW x \in Stamp, NEW y \in Stamp
  PROVE  /\ Newer(x, y) \in {x, y}
         /\ Newer(x, y) \in Stamp
         /\ Newer(x, y).at >= x.at
         /\ Newer(x, y).at >= y.at
  BY SMT DEF Newer, Wins, Stamp

(* An update leaves the stamps of others alone, and its own account's are  *)
(* the newer ones.                                                         *)
LEMMA UpdatedRecord ==
  ASSUME NEW members \in [Account -> [added : Stamp, removed : Stamp]],
         NEW u \in Update, NEW a \in Account
  PROVE  LET stamp == [at |-> u.at, by |-> u.by]
             r == UpdateMembers(members, u)[a]
         IN  /\ r.added = IF a \in u.add THEN Newer(stamp, members[a].added) ELSE members[a].added
             /\ r.removed = IF a \in u.remove THEN Newer(stamp, members[a].removed)
                                              ELSE members[a].removed
             /\ r \in [added : Stamp, removed : Stamp]
<1> DEFINE stamp == [at |-> u.at, by |-> u.by]
<1>1. stamp \in Stamp
  BY GroupAssumption DEF Stamp, Update
<1>2. members[a] \in [added : Stamp, removed : Stamp]
  OBVIOUS
<1>3. Newer(stamp, members[a].added) \in Stamp /\ Newer(stamp, members[a].removed) \in Stamp
  BY <1>1, <1>2, NewerIsStamp
<1> HIDE DEF stamp
<1> QED BY <1>2, <1>3 DEF UpdateMembers, AddMembers, RemoveMembers, stamp

(* The latest time of a set is kept by adding an update's time to both. *)
LEMMA LatestKept ==
  ASSUME NEW x \in Stamp, NEW y \in Stamp, NEW T, T \subseteq Nat, Latest(x.at, T)
  PROVE  Latest(Newer(y, x).at, T \cup {y.at})
  BY SMT DEF Newer, Wins, Stamp, Latest

LEMMA UpdateIsGood ==
  ASSUME NEW T \in Nat \ {0}, NEW g \in GoodCopy(T), NEW u \in GoodUpdate(T)
  PROVE  WithUpdate(g, u) \in GoodCopy(T)
<1> DEFINE stamp == [at |-> u.at, by |-> u.by]
           old == g.state
           new == ApplyUpdate(g.state, u)
           log == g.log \cup {u}
           h == WithUpdate(g, u)
<1>1. u \in Update /\ u.at \in Nat /\ u.names \subseteq Name /\ stamp \in Stamp
  BY GroupAssumption DEF GoodUpdate, Update, Stamp
<1>2. old \in GroupState /\ g.log \subseteq GoodUpdate(T) /\ g.log \subseteq Update
  BY DEF GoodCopy, Copy, Good
<1>3. /\ old.members \in [Account -> [added : Stamp, removed : Stamp]]
      /\ old.name \in Name /\ old.named \in Stamp /\ old.createdAt \in Nat
  BY <1>2 DEF GroupState
<1>4. /\ new.createdAt = old.createdAt
      /\ new.members = UpdateMembers(old.members, u)
      /\ new.named \in {old.named, stamp}
      /\ new.name \in Name
  <2>1. u.names # {} => (CHOOSE name \in u.names : TRUE) \in Name
    BY <1>1
  <2> QED BY <1>3, <2>1 DEF ApplyUpdate, ApplyRename
<1>5. new.members \in [Account -> [added : Stamp, removed : Stamp]]
  <2>1. DOMAIN UpdateMembers(old.members, u) = Account
    BY DEF UpdateMembers, RemoveMembers
  <2>2. \A a \in Account : UpdateMembers(old.members, u)[a] \in [added : Stamp, removed : Stamp]
    BY <1>1, <1>3, UpdatedRecord
  <2>3. UpdateMembers(old.members, u) =
          [a \in Account |-> UpdateMembers(old.members, u)[a]]
    BY DEF UpdateMembers, RemoveMembers
  <2> QED BY <1>4, <2>2, <2>3
<1>6. new \in GroupState
  <2>1. new = [name |-> new.name, named |-> new.named,
               createdAt |-> new.createdAt, members |-> new.members]
    BY DEF ApplyUpdate, ApplyRename
  <2>2. new.named \in Stamp /\ new.createdAt \in Nat
    BY <1>1, <1>3, <1>4
  <2> HIDE DEF new
  <2> QED BY <1>4, <1>5, <2>1, <2>2 DEF GroupState
<1>7. h \in Copy /\ h.state = new /\ h.log = log
  BY <1>1, <1>2, <1>6 DEF WithUpdate, Copy
<1>8. \E bound \in Nat : \A t \in Stamps(new) : t <= bound
  <2>1. PICK bound \in Nat : \A t \in Stamps(old) : t <= bound
    BY DEF GoodCopy, Good
  <2>2. \A a \in Account : old.members[a].added.at \in Stamps(old) /\ old.members[a].removed.at \in Stamps(old)
    BY StampsOfMember
  <2>3. old.named.at \in Stamps(old) /\ old.createdAt \in Stamps(old) /\ Stamps(old) \subseteq Nat
    BY <1>2, StampsAreTimes DEF Stamps
  <2>4. ASSUME NEW a \in Account
        PROVE  /\ new.members[a].added.at \in Stamps(old) \cup {u.at}
               /\ new.members[a].removed.at \in Stamps(old) \cup {u.at}
    <3>1. old.members[a].added \in Stamp /\ old.members[a].removed \in Stamp
      BY <1>3
    <3>2. /\ new.members[a].added \in {stamp, old.members[a].added}
          /\ new.members[a].removed \in {stamp, old.members[a].removed}
      <4> HIDE DEF new, old
      <4> QED BY <1>1, <1>3, <1>4, <3>1, UpdatedRecord, NewerIsStamp, SMT
    <3>3. stamp.at = u.at
      OBVIOUS
    <3> HIDE DEF new, old, stamp
    <3> QED BY <2>2, <3>2, <3>3
  <2>5. \A t \in Stamps(new) : t \in Stamps(old) \cup {u.at}
    <3>1. new.named.at \in Stamps(old) \cup {u.at} /\ new.createdAt \in Stamps(old)
      BY <1>4, <2>3, SMT
    <3> HIDE DEF new, old, stamp
    <3> SUFFICES ASSUME NEW t \in Stamps(new) PROVE t \in Stamps(old) \cup {u.at}
      OBVIOUS
    <3>2. \/ t \in {new.named.at, new.createdAt}
          \/ \E a \in Account : t \in {new.members[a].added.at, new.members[a].removed.at}
      BY DEF Stamps
    <3>3. CASE t \in {new.named.at, new.createdAt}
      BY <3>1, <3>3
    <3>4. ASSUME NEW a \in Account, t \in {new.members[a].added.at, new.members[a].removed.at}
          PROVE  t \in Stamps(old) \cup {u.at}
      BY <2>4, <3>4
    <3> QED BY <3>2, <3>3, <3>4
  <2>6. bound + u.at \in Nat /\ \A t \in Stamps(new) : t <= bound + u.at
    <3> HIDE DEF new, old, stamp
    <3> QED BY <1>1, <2>1, <2>3, <2>5, SMT
  <2> QED BY <2>6
<1>9. ASSUME NEW a \in Account
      PROVE  /\ Latest(new.members[a].added.at, AddTimes(log, new.createdAt, a))
             /\ Latest(new.members[a].removed.at, RemoveTimes(log, a))
  <2> DEFINE A == AddTimes(g.log, old.createdAt, a)
             R == RemoveTimes(g.log, a)
             r == old.members[a]
  <2>1. AddTimes(log, old.createdAt, a) = IF a \in u.add THEN A \cup {u.at} ELSE A
    BY DEF AddTimes
  <2>2. RemoveTimes(log, a) = IF a \in u.remove THEN R \cup {u.at} ELSE R
    BY DEF RemoveTimes
  <2>3. A \subseteq Nat /\ R \subseteq Nat
    BY <1>2, <1>3, SMT DEF AddTimes, RemoveTimes, Update
  <2>4. Latest(r.added.at, A) /\ Latest(r.removed.at, R)
    BY DEF GoodCopy, Good
  <2>5. r.added \in Stamp /\ r.removed \in Stamp
    BY <1>3
  <2>6. /\ new.members[a].added = IF a \in u.add THEN Newer(stamp, r.added) ELSE r.added
        /\ new.members[a].removed = IF a \in u.remove THEN Newer(stamp, r.removed) ELSE r.removed
    <3> HIDE DEF new, old
    <3> QED BY <1>1, <1>3, <1>4, UpdatedRecord, SMT
  <2>7. stamp.at = u.at
    OBVIOUS
  <2> HIDE DEF A, R, r, new, stamp, old, log
  <2>8. Latest(new.members[a].added.at, AddTimes(log, new.createdAt, a))
    <3>1. Latest(new.members[a].added.at, AddTimes(log, old.createdAt, a))
      <4>1. CASE a \in u.add
        <5>1. Latest(Newer(stamp, r.added).at, A \cup {u.at})
          BY <1>1, <2>3, <2>4, <2>5, <2>7, LatestKept
        <5> QED BY <2>1, <2>6, <4>1, <5>1
      <4>2. CASE a \notin u.add
        BY <2>1, <2>4, <2>6, <4>2
      <4> QED BY <4>1, <4>2
    <3> QED BY <1>4, <3>1
  <2>9. Latest(new.members[a].removed.at, RemoveTimes(log, a))
    <3>1. CASE a \in u.remove
      <4>1. Latest(Newer(stamp, r.removed).at, R \cup {u.at})
        BY <1>1, <2>3, <2>4, <2>5, <2>7, LatestKept
      <4> QED BY <2>2, <2>6, <3>1, <4>1
    <3>2. CASE a \notin u.remove
      BY <2>2, <2>4, <2>6, <3>2
    <3> QED BY <3>1, <3>2
  <2> QED BY <2>8, <2>9
<1>10. old.createdAt = T /\ log \subseteq GoodUpdate(T)
  BY DEF GoodCopy, Good
<1> HIDE DEF new, old, stamp, log, h
<1>11. Good(T, h)
  BY <1>4, <1>7, <1>8, <1>9, <1>10 DEF Good
<1> QED BY <1>7, <1>11 DEF GoodCopy, h

-----------------------------------------------------------------------------
LEMMA CopiesGoodInit == Init => CopiesGood(1)
  BY SMT DEF Init, CopiesGood

(* A write that is queued, and the update of an author. *)
LEMMA QueuedIsGood ==
  ASSUME NEW T \in Nat \ {0}, CopiesGood(T), NEW c \in Account, NEW w \in GoodWrite(T)
  PROVE  [writes EXCEPT ![c] = Append(@, w)] \in [Account -> Seq(GoodWrite(T))]
  BY SMT DEF CopiesGood

LEMMA AuthoredIsGood ==
  ASSUME NEW T \in Nat \ {0}, CopiesGood(T), NEW c \in Account, MayAct(c), NEW now \in Clock[c],
         NEW add \in SUBSET Account, NEW remove \in SUBSET Account, NEW names \in SUBSET Name
  PROVE  [at |-> NextTimestamp(copy[c].state, now), by |-> c,
          add |-> add, remove |-> remove, names |-> names] \in GoodUpdate(T)
<1>1. copy[c] \in GoodCopy(T)
  BY DEF CopiesGood, MayAct
<1>2. NextTimestamp(copy[c].state, now) \in Nat /\ NextTimestamp(copy[c].state, now) > T
  BY <1>1, StampIsAhead, ReadingsAreTimes
<1> QED BY <1>2 DEF GoodUpdate, Update

(* Nothing exists before the creator's copy does. *)
Uncreated ==
  /\ \A c \in Account : copy[c] = NoGroup /\ writes[c] = <<>> /\ leaving[c] = {} /\ inbox[c] = {}
  /\ invited = {}

(* Every step but the creation keeps the copies good. *)
LEMMA CopiesGoodStep ==
  ASSUME NEW T \in Nat \ {0}, CopiesGood(T), [Next]_vars
  PROVE  CopiesGood(T)' \/ Create
<1>t. /\ copy \in [Account -> GoodCopy(T) \cup {NoGroup}]
      /\ writes \in [Account -> Seq(GoodWrite(T))]
      /\ leaving \in [Account -> SUBSET GoodCopy(T)]
      /\ inbox \in [Account -> SUBSET GoodUpdate(T)]
      /\ invited \subseteq Account \X {T}
  BY DEF CopiesGood
<1>2. ASSUME NEW c \in Account, ReceiveCreate(c) PROVE CopiesGood(T)'
  <2>1. PICK now \in Clock[Creator] :
          /\ <<c, now>> \in invited
          /\ invited' = invited \ {<<c, now>>}
          /\ writes' = [writes EXCEPT ![c] =
                          Append(@, [copy |-> [state |-> Creation(now), log |-> {}],
                                     announce |-> {}, to |-> {}])]
          /\ UNCHANGED <<copy, leaving, inbox>>
    BY <1>2 DEF ReceiveCreate
  <2>2. [copy |-> [state |-> Creation(now), log |-> {}], announce |-> {}, to |-> {}] \in GoodWrite(T)
    <3>1. now = T
      BY <1>t, <2>1
    <3> QED BY <3>1, CreationIsGood DEF GoodWrite
  <2> QED BY <1>t, <2>1, <2>2, QueuedIsGood DEF CopiesGood
<1>3. ASSUME NEW c \in Account, BeginUpdate(c) PROVE CopiesGood(T)'
  <2>1. PICK ch \in Changes, now \in Clock[c] :
          LET u == [at |-> NextTimestamp(copy[c].state, now), by |-> c,
                    add |-> ch.add, remove |-> ch.remove, names |-> ch.names]
              g == WithUpdate(copy[c], u)
          IN  writes' = [writes EXCEPT ![c] =
                 Append(@, [copy |-> g, announce |-> {u},
                            to |-> (CurrentMembers(g.state) \cup ch.remove) \ {c}])]
    BY <1>3 DEF BeginUpdate
  <2> DEFINE u == [at |-> NextTimestamp(copy[c].state, now), by |-> c,
                   add |-> ch.add, remove |-> ch.remove, names |-> ch.names]
             g == WithUpdate(copy[c], u)
             w == [copy |-> g, announce |-> {u},
                   to |-> (CurrentMembers(g.state) \cup ch.remove) \ {c}]
  <2>2. MayAct(c) /\ UNCHANGED <<copy, leaving, invited, inbox>>
    BY <1>3 DEF BeginUpdate
  <2>3. ch.add \in SUBSET Account /\ ch.remove \in SUBSET Account /\ ch.names \in SUBSET Name
    BY SyncAssumption
  <2>4. u \in GoodUpdate(T)
    BY <2>2, <2>3, AuthoredIsGood
  <2>5. copy[c] \in GoodCopy(T)
    BY <1>t, <2>2 DEF MayAct
  <2>6. g \in GoodCopy(T)
    <3> HIDE DEF u
    <3> QED BY <2>4, <2>5, UpdateIsGood
  <2>7. w \in GoodWrite(T)
    <3> HIDE DEF u, g
    <3> QED BY <2>3, <2>4, <2>6 DEF GoodWrite, CurrentMembers
  <2>8. writes' = [writes EXCEPT ![c] = Append(@, w)]
    BY <2>1
  <2> HIDE DEF w
  <2> QED BY <1>t, <2>2, <2>7, <2>8, QueuedIsGood DEF CopiesGood
<1>4. ASSUME NEW c \in Account, Commit(c) PROVE CopiesGood(T)'
  <2> DEFINE w == Head(writes[c])
  <2>1. writes[c] \in Seq(GoodWrite(T)) /\ writes[c] # <<>>
    BY <1>4, <1>t DEF Commit
  <2>2. w \in GoodWrite(T) /\ Tail(writes[c]) \in Seq(GoodWrite(T))
    BY <2>1, SMT
  <2>3. /\ copy' = [copy EXCEPT ![c] = w.copy]
        /\ inbox' = [d \in Account |-> IF d \in w.to THEN inbox[d] \cup w.announce ELSE inbox[d]]
        /\ writes' = [writes EXCEPT ![c] = Tail(@)]
        /\ UNCHANGED <<leaving, invited>>
    BY <1>4 DEF Commit, FanOut
  <2>4. w.copy \in GoodCopy(T) /\ w.announce \subseteq GoodUpdate(T)
    BY <2>2 DEF GoodWrite
  <2> HIDE DEF w
  <2> QED BY <1>t, <2>2, <2>3, <2>4 DEF CopiesGood
<1>5. ASSUME NEW c \in Account, BeginLeave(c) PROVE CopiesGood(T)'
  <2>1. PICK now \in Clock[c] :
          LET u == [at |-> NextTimestamp(copy[c].state, now), by |-> c,
                    add |-> {}, remove |-> {c}, names |-> {}]
          IN  /\ FanOut({u}, CurrentMembers(copy[c].state) \ {c})
              /\ leaving' = [leaving EXCEPT ![c] = @ \cup {WithUpdate(copy[c], u)}]
    BY <1>5 DEF BeginLeave
  <2> DEFINE u == [at |-> NextTimestamp(copy[c].state, now), by |-> c,
                   add |-> {}, remove |-> {c}, names |-> {}]
             g == WithUpdate(copy[c], u)
             to == CurrentMembers(copy[c].state) \ {c}
  <2>2. MayAct(c) /\ UNCHANGED <<copy, writes, invited>>
    BY <1>5 DEF BeginLeave
  <2>3. u \in GoodUpdate(T)
    BY <2>2, AuthoredIsGood
  <2>4. copy[c] \in GoodCopy(T)
    BY <1>t, <2>2 DEF MayAct
  <2>5. g \in GoodCopy(T)
    <3> HIDE DEF u
    <3> QED BY <2>3, <2>4, UpdateIsGood
  <2>6. /\ inbox' = [d \in Account |-> IF d \in to THEN inbox[d] \cup {u} ELSE inbox[d]]
        /\ leaving' = [leaving EXCEPT ![c] = @ \cup {g}]
    BY <2>1 DEF FanOut
  <2> HIDE DEF u, g, to
  <2> QED BY <1>t, <2>2, <2>3, <2>5, <2>6 DEF CopiesGood
<1>6. ASSUME NEW c \in Account, EndLeave(c) PROVE CopiesGood(T)'
  <2>1. PICK g \in leaving[c] :
          /\ leaving' = [leaving EXCEPT ![c] = @ \ {g}]
          /\ writes' = [writes EXCEPT ![c] = Append(@, [copy |-> g, announce |-> {}, to |-> {}])]
    BY <1>6 DEF EndLeave
  <2>2. [copy |-> g, announce |-> {}, to |-> {}] \in GoodWrite(T)
    BY <1>t DEF GoodWrite
  <2>3. UNCHANGED <<copy, invited, inbox>>
    BY <1>6 DEF EndLeave
  <2> QED BY <1>t, <2>1, <2>2, <2>3, QueuedIsGood DEF CopiesGood
<1>7. ASSUME NEW c \in Account, NEW u \in inbox[c], ReceiveUpdate(c, u) PROVE CopiesGood(T)'
  <2> DEFINE w == [copy |-> WithUpdate(copy[c], u), announce |-> {}, to |-> {}]
  <2>1. /\ inbox' = [inbox EXCEPT ![c] = @ \ {u}]
        /\ \/ copy[c] # NoGroup /\ writes' = [writes EXCEPT ![c] = Append(@, w)]
           \/ writes' = writes
        /\ UNCHANGED <<copy, leaving, invited>>
    BY <1>7 DEF ReceiveUpdate
  <2>2. copy[c] # NoGroup => WithUpdate(copy[c], u) \in GoodCopy(T)
    BY <1>t, UpdateIsGood
  <2>3. copy[c] # NoGroup => w \in GoodWrite(T)
    BY <2>2 DEF GoodWrite
  <2> HIDE DEF w
  <2>4. writes' \in [Account -> Seq(GoodWrite(T))]
    <3>1. CASE copy[c] # NoGroup /\ writes' = [writes EXCEPT ![c] = Append(@, w)]
      BY <2>3, <3>1, QueuedIsGood
    <3>2. CASE writes' = writes
      BY <1>t, <3>2
    <3> QED BY <2>1, <3>1, <3>2
  <2> QED BY <1>t, <2>1, <2>4 DEF CopiesGood
<1>8. CASE UNCHANGED vars
  BY <1>8, <1>t DEF vars, CopiesGood
<1> QED BY <1>2, <1>3, <1>4, <1>5, <1>6, <1>7, <1>8 DEF Next

-----------------------------------------------------------------------------
(* A change that bears on an account was made later than the changes in    *)
(* its sight that bear on one.                                             *)
SawInv ==
  \A v, u : <<v, u>> \in saw /\ v.add \cup v.remove # {} => v.at < u.at

GroupInv ==
  /\ \E T \in Nat \ {0} : CopiesGood(T)
  /\ copy[Creator] = NoGroup => Uncreated
  /\ SawInv

LEMMA CreateStep ==
  ASSUME Uncreated, NEW T, CopiesGood(T), Create
  PROVE  (\E t \in Nat \ {0} : CopiesGood(t)') /\ copy'[Creator] # NoGroup
<1>1. PICK now \in Clock[Creator] :
        /\ copy' = [copy EXCEPT ![Creator] = [state |-> Creation(now), log |-> {}]]
        /\ invited' = (InitialMembers \ {Creator}) \X {now}
  BY DEF Create
<1>2. now \in Nat \ {0} /\ Creator \in Account /\ InitialMembers \subseteq Account
  BY ReadingsAreTimes, SyncAssumption
<1>3. [state |-> Creation(now), log |-> {}] \in GoodCopy(now)
  BY <1>2, CreationIsGood
<1>4. /\ copy \in [Account -> {NoGroup}]
      /\ writes \in [Account -> {<<>>}]
      /\ leaving \in [Account -> {{}}]
      /\ inbox \in [Account -> {{}}]
  BY DEF Uncreated, CopiesGood
<1>5. copy' \in [Account -> GoodCopy(now) \cup {NoGroup}]
  BY <1>1, <1>3, <1>4
<1>6. <<>> \in Seq(GoodWrite(now))
  BY SMT
<1>7. writes' \in [Account -> Seq(GoodWrite(now))]
  BY <1>4, <1>6 DEF Create
<1>8. leaving' \in [Account -> SUBSET GoodCopy(now)] /\ inbox' \in [Account -> SUBSET GoodUpdate(now)]
  BY <1>4 DEF Create
<1>9. CopiesGood(now)'
  BY <1>1, <1>2, <1>5, <1>7, <1>8 DEF CopiesGood
<1>10. copy'[Creator] # NoGroup
  BY <1>1, <1>2, <1>3, <1>4, AbsentAssumption DEF GoodCopy
<1> QED BY <1>2, <1>9, <1>10

(* The creator's copy is never lost again, and without it nothing happens. *)
LEMMA UncreatedStep ==
  ASSUME NEW T, CopiesGood(T), copy[Creator] = NoGroup => Uncreated, [Next]_vars, ~Create
  PROVE  (copy[Creator] = NoGroup => Uncreated)'
<1>1. Creator \in Account /\ NoGroup \notin GoodCopy(T)
  BY SyncAssumption, AbsentAssumption DEF GoodCopy
<1>2. CASE copy[Creator] # NoGroup
  <2>1. ASSUME NEW c \in Account, Commit(c) PROVE copy'[Creator] # NoGroup
    <3>1. writes[c] \in Seq(GoodWrite(T)) /\ writes[c] # <<>>
      BY <2>1 DEF CopiesGood, Commit
    <3>2. Head(writes[c]) \in GoodWrite(T)
      BY <3>1, SMT
    <3>3. copy' = [copy EXCEPT ![c] = Head(writes[c]).copy]
      BY <2>1 DEF Commit
    <3> QED BY <1>1, <1>2, <3>2, <3>3 DEF CopiesGood, GoodWrite
  <2>2. copy' = copy \/ \E c \in Account : Commit(c)
    BY DEF Next, vars, ReceiveCreate, BeginUpdate, BeginLeave, EndLeave, ReceiveUpdate
  <2> QED BY <1>2, <2>1, <2>2
<1>3. CASE Uncreated
  <2>1. UNCHANGED vars
    BY <1>3 DEF Next, Uncreated, ReceiveCreate, BeginUpdate, Commit, BeginLeave, EndLeave, MayAct
  <2> QED BY <1>3, <2>1 DEF vars, Uncreated
<1> QED BY <1>2, <1>3

(* Every change of a copy that adds or removes somebody is older than the  *)
(* next one made against it.                                               *)
LEMMA NextIsLater ==
  ASSUME NEW T \in Nat \ {0}, NEW g \in GoodCopy(T), NEW now \in Nat \ {0},
         NEW v \in g.log, v.add \cup v.remove # {}
  PROVE  v.at < NextTimestamp(g.state, now)
<1>1. v \in Update /\ g \in Copy
  BY DEF GoodCopy, Good, GoodUpdate
<1>2. PICK a \in Account : a \in v.add \/ a \in v.remove
  BY <1>1 DEF Update
<1> DEFINE r == g.state.members[a]
<1>3. Latest(r.added.at, AddTimes(g.log, g.state.createdAt, a)) /\ Latest(r.removed.at, RemoveTimes(g.log, a))
  BY DEF GoodCopy, Good
<1>4. r.added.at \in Stamps(g.state) /\ r.removed.at \in Stamps(g.state)
  BY StampsOfMember
<1>5. NextTimestamp(g.state, now) \in Nat /\ \A x \in Stamps(g.state) : NextTimestamp(g.state, now) > x
  BY StampIsAhead
<1>6. /\ a \in v.add => v.at \in AddTimes(g.log, g.state.createdAt, a)
      /\ a \in v.remove => v.at \in RemoveTimes(g.log, a)
  BY DEF AddTimes, RemoveTimes
<1>7. v.at \in Nat /\ r.added.at \in Nat /\ r.removed.at \in Nat
  BY <1>1 DEF Update, Copy, GroupState, Stamp
<1> HIDE DEF r
<1> QED BY <1>2, <1>3, <1>4, <1>5, <1>6, <1>7, SMT DEF Latest

LEMMA SawStep ==
  ASSUME NEW T \in Nat \ {0}, CopiesGood(T), SawInv, [Next]_vars
  PROVE  SawInv'
<1>1. ASSUME NEW c \in Account, MayAct(c), NEW now \in Clock[c], NEW u,
             u.at = NextTimestamp(copy[c].state, now), Authors(c, u)
      PROVE  SawInv'
  <2>1. copy[c] \in GoodCopy(T) /\ now \in Nat \ {0}
    BY <1>1, ReadingsAreTimes DEF CopiesGood, MayAct
  <2>2. saw' = saw \cup (copy[c].log \X {u})
    BY <1>1 DEF Authors
  <2>3. ASSUME NEW v, NEW x, <<v, x>> \in saw', v.add \cup v.remove # {}
        PROVE  v.at < x.at
    <3>1. CASE <<v, x>> \in saw
      BY <2>3, <3>1 DEF SawInv
    <3>2. CASE v \in copy[c].log /\ x = u
      BY <1>1, <2>1, <2>3, <3>2, NextIsLater
    <3> QED BY <2>2, <2>3, <3>1, <3>2
  <2> QED BY <2>3 DEF SawInv
<1>2. ASSUME NEW c \in Account, BeginUpdate(c) PROVE SawInv'
  BY <1>1, <1>2 DEF BeginUpdate
<1>3. ASSUME NEW c \in Account, BeginLeave(c) PROVE SawInv'
  BY <1>1, <1>3 DEF BeginLeave
<1>4. CASE saw' = saw
  BY <1>4 DEF SawInv
<1> QED BY <1>2, <1>3, <1>4
  DEF Next, vars, Create, ReceiveCreate, Commit, EndLeave, ReceiveUpdate

LEMMA GroupInvInit == Init => GroupInv
<1> SUFFICES ASSUME Init PROVE GroupInv
  OBVIOUS
<1>1. 1 \in Nat \ {0} /\ CopiesGood(1)
  BY CopiesGoodInit, SMT
<1>2. Uncreated /\ SawInv
  BY DEF Init, Uncreated, SawInv
<1> QED BY <1>1, <1>2 DEF GroupInv

LEMMA GroupInvStep == GroupInv /\ [Next]_vars => GroupInv'
<1> SUFFICES ASSUME GroupInv, [Next]_vars PROVE GroupInv'
  OBVIOUS
<1>1. PICK T \in Nat \ {0} : CopiesGood(T)
  BY DEF GroupInv
<1>2. SawInv'
  BY <1>1, SawStep DEF GroupInv
<1>3. CASE Create
  BY <1>1, <1>2, <1>3, CreateStep DEF GroupInv, Create
<1>4. CASE ~Create
  <2>1. CopiesGood(T)'
    BY <1>1, <1>4, CopiesGoodStep
  <2>2. (copy[Creator] = NoGroup => Uncreated)'
    BY <1>1, <1>4, UncreatedStep DEF GroupInv
  <2> QED BY <1>2, <2>1, <2>2 DEF GroupInv
<1> QED BY <1>3, <1>4

LEMMA GroupInvariant == Spec => []GroupInv
  BY GroupInvInit, GroupInvStep, PTL DEF Spec

-----------------------------------------------------------------------------
(* Two members that have applied the same changes, in whatever order and   *)
(* with whatever clocks, have the same members: applyMembershipChange      *)
(* commutes and is idempotent, and lost writes lose whole updates.         *)
THEOREM MembershipIsOrderFree == Spec => []MembersFollowChanges
<1>1. GroupInv => MembersFollowChanges
  BY MembersOfGood DEF GroupInv, CopiesGood, MembersFollowChanges, Keepers
<1> QED BY <1>1, GroupInvariant, PTL

LEMMA SupersedesInCopy ==
  ASSUME NEW T \in Nat \ {0}, NEW g \in GoodCopy(T), SawInv, NEW u \in g.log, NEW a \in Account
  PROVE  /\ /\ a \in u.add \ u.remove
            /\ \A v \in g.log \ {u} : a \in v.remove => <<v, u>> \in saw
            => IsMember(g.state, a)
         /\ /\ a \in u.remove
            /\ \A v \in g.log \ {u} : a \in v.add => <<v, u>> \in saw
            => ~IsMember(g.state, a)
<1> DEFINE x == g.state.members[a].added.at
           y == g.state.members[a].removed.at
           A == AddTimes(g.log, g.state.createdAt, a)
           R == RemoveTimes(g.log, a)
<1>1. x \in Nat /\ y \in Nat
  BY DEF GoodCopy, Copy, GroupState, Stamp
<1>2. Latest(x, A) /\ Latest(y, R)
  BY DEF GoodCopy, Good
<1>3. \A v \in g.log : v.at \in Nat /\ v.at > T
  BY DEF GoodCopy, Good, GoodUpdate, Update
<1>4. \A t \in A : t = T \/ \E v \in g.log : a \in v.add /\ t = v.at
  BY DEF AddTimes, GoodCopy, Good
<1>5. \A t \in R : \E v \in g.log : a \in v.remove /\ t = v.at
  BY DEF RemoveTimes
<1>6. (a \in u.add => u.at \in A) /\ (a \in u.remove => u.at \in R)
  BY DEF AddTimes, RemoveTimes
<1>7. \A v : <<v, u>> \in saw /\ (a \in v.add \/ a \in v.remove) => v.at < u.at
  BY DEF SawInv
<1>8. IsMember(g.state, a) <=> x > y
  BY DEF IsMember
<1> HIDE DEF x, y, A, R
<1>9. ASSUME a \in u.add \ u.remove, \A v \in g.log \ {u} : a \in v.remove => <<v, u>> \in saw
      PROVE  x > y
  <2>1. \A t \in R : t < u.at
    <3> SUFFICES ASSUME NEW v \in g.log, a \in v.remove PROVE v.at < u.at
      BY <1>5
    <3>1. v # u
      BY <1>9
    <3> QED BY <1>7, <1>9, <3>1
  <2>2. x >= u.at /\ u.at \in Nat /\ u.at > T
    BY <1>1, <1>2, <1>3, <1>6, <1>9 DEF Latest
  <2>3. y \in R \cup {0}
    BY <1>2 DEF Latest
  <2> QED BY <1>1, <2>1, <2>2, <2>3, SMT
<1>10. ASSUME a \in u.remove, \A v \in g.log \ {u} : a \in v.add => <<v, u>> \in saw
       PROVE  ~(x > y)
  <2>1. \A t \in A : t <= u.at
    <3> SUFFICES ASSUME NEW t \in A PROVE t <= u.at
      OBVIOUS
    <3>1. u.at \in Nat /\ u.at > T
      BY <1>3
    <3>2. CASE t = T
      BY <3>1, <3>2, SMT
    <3>3. ASSUME NEW v \in g.log, a \in v.add, t = v.at PROVE t <= u.at
      <4>1. CASE v = u
        BY <3>1, <3>3, <4>1, SMT
      <4>2. CASE v # u
        <5>1. <<v, u>> \in saw
          BY <1>10, <3>3, <4>2
        <5>2. v.at < u.at
          BY <1>7, <3>3, <5>1
        <5> QED BY <1>3, <3>1, <3>3, <5>2, SMT
      <4> QED BY <4>1, <4>2
    <3> QED BY <1>4, <3>2, <3>3
  <2>2. y >= u.at /\ u.at \in Nat
    BY <1>1, <1>2, <1>3, <1>6, <1>10 DEF Latest
  <2>3. x \in A \cup {0}
    BY <1>2 DEF Latest
  <2> QED BY <1>1, <2>1, <2>2, <2>3, SMT
<1> QED BY <1>8, <1>9, <1>10

(* nextTimestamp puts a change after everything in the copy it was made    *)
(* against, so on every device that applies it the change decides over     *)
(* what its author saw, however far the devices' clocks are apart.         *)
THEOREM LaterChangeDecides == Spec => []ChangeSupersedes
<1>1. GroupInv => ChangeSupersedes
  <2> SUFFICES ASSUME GroupInv, NEW c \in Keepers, NEW u \in copy[c].log
               PROVE  /\ \A a \in u.add \ u.remove :
                           (\A v \in copy[c].log \ {u} : a \in v.remove => <<v, u>> \in saw)
                             => IsMember(copy[c].state, a)
                      /\ \A a \in u.remove :
                           (\A v \in copy[c].log \ {u} : a \in v.add => <<v, u>> \in saw)
                             => ~IsMember(copy[c].state, a)
    BY DEF ChangeSupersedes
  <2>1. PICK T \in Nat \ {0} : CopiesGood(T)
    BY DEF GroupInv
  <2>2. copy[c] \in GoodCopy(T)
    BY <2>1 DEF CopiesGood, Keepers
  <2>3. u.add \subseteq Account /\ u.remove \subseteq Account
    BY <2>2 DEF GoodCopy, Good, GoodUpdate, Update
  <2>4. SawInv
    BY DEF GroupInv
  <2> QED BY <2>2, <2>3, <2>4, SupersedesInCopy
<1> QED BY <1>1, GroupInvariant, PTL

-----------------------------------------------------------------------------
(* The later of two stamps is the latest of the times of both. *)
LEMMA LaterIsLatest ==
  ASSUME NEW x \in Stamp, NEW y \in Stamp, NEW S \in SUBSET Nat, NEW U \in SUBSET Nat,
         Latest(x.at, S), Latest(y.at, U)
  PROVE  Later(x, y) \in Stamp /\ Latest(Later(x, y).at, S \cup U)
  BY SMT DEF Later, Stamp, Latest

(* Stamps are totally ordered. *)
LEMMA WinsIsTotal ==
  ASSUME NEW x \in Stamp, NEW y \in Stamp, ~Wins(x, y), ~Wins(y, x)
  PROVE  x = y
  BY SMT DEF Wins, Stamp

LEMMA MinOfSame ==
  ASSUME NEW T \in Nat
  PROVE  Min({T, T}) = T
  BY SMT DEF Min

LEMMA MergedMembers ==
  ASSUME NEW T \in Nat \ {0}, NEW g \in GoodCopy(T), NEW h \in GoodCopy(T)
  PROVE  LET merged == MergeGroups(g.state, h.state)
         IN  CurrentMembers(merged) = MembersFrom(g.log \cup h.log, merged.createdAt)
<1> DEFINE merged == MergeGroups(g.state, h.state)
           log == g.log \cup h.log
<1>1. g.state \in GroupState /\ h.state \in GroupState /\ g.state.createdAt = T /\ h.state.createdAt = T
  BY DEF GoodCopy, Good, Copy
<1>2. merged.createdAt = T
  <2>1. merged.createdAt = Min({g.state.createdAt, h.state.createdAt})
    BY DEF MergeGroups
  <2> QED BY <1>1, <2>1, MinOfSame
<1> SUFFICES ASSUME NEW a \in Account
             PROVE  IsMember(merged, a) <=>
                      \E at \in AddTimes(log, T, a) : \A r \in RemoveTimes(log, a) : at > r
  BY <1>2 DEF CurrentMembers, MembersFrom
<1> DEFINE p == g.state.members[a]
           q == h.state.members[a]
           A == AddTimes(log, T, a)
           R == RemoveTimes(log, a)
           x == Later(p.added, q.added)
           y == Later(p.removed, q.removed)
<1>3. /\ p.added \in Stamp /\ p.removed \in Stamp
      /\ q.added \in Stamp /\ q.removed \in Stamp
  BY <1>1 DEF GroupState
<1>4. IsMember(merged, a) <=> x.at > y.at
  BY DEF IsMember, MergeGroups
<1>5. /\ Latest(p.added.at, AddTimes(g.log, T, a)) /\ Latest(p.removed.at, RemoveTimes(g.log, a))
      /\ Latest(q.added.at, AddTimes(h.log, T, a)) /\ Latest(q.removed.at, RemoveTimes(h.log, a))
  BY <1>1 DEF GoodCopy, Good
<1>6. /\ A = AddTimes(g.log, T, a) \cup AddTimes(h.log, T, a)
      /\ R = RemoveTimes(g.log, a) \cup RemoveTimes(h.log, a)
  BY DEF AddTimes, RemoveTimes
<1>7. A \subseteq Nat \ {0} /\ R \subseteq Nat \ {0}
  <2>1. \A u \in log : u.at \in Nat \ {0}
    BY SMT DEF GoodCopy, Good, GoodUpdate, Update
  <2> HIDE DEF log
  <2> QED BY <2>1 DEF AddTimes, RemoveTimes
<1>8. /\ AddTimes(g.log, T, a) \in SUBSET Nat /\ AddTimes(h.log, T, a) \in SUBSET Nat
      /\ RemoveTimes(g.log, a) \in SUBSET Nat /\ RemoveTimes(h.log, a) \in SUBSET Nat
  <2> HIDE DEF A, R
  <2> QED BY <1>6, <1>7
<1>9. x \in Stamp /\ Latest(x.at, A) /\ y \in Stamp /\ Latest(y.at, R)
  <2> HIDE DEF p, q, A, R
  <2> QED BY <1>3, <1>5, <1>6, <1>8, LaterIsLatest
<1>10. x.at \in Nat /\ y.at \in Nat
  <2> HIDE DEF x, y
  <2> QED BY <1>9 DEF Stamp
<1> HIDE DEF A, R, x, y, merged, log
<1>11. (x.at > y.at) <=> \E at \in A : \A r \in R : at > r
  <2>1. PICK i \in Nat, j \in Nat : i = x.at /\ j = y.at
    BY <1>10
  <2>2. Latest(i, A) /\ Latest(j, R)
    BY <1>9, <2>1
  <2>3. (i > j) <=> \E at \in A : \A r \in R : at > r
    BY <1>7, <2>2, SMT DEF Latest
  <2> QED BY <2>1, <2>3
<1> QED BY <1>4, <1>11 DEF A, R

(* mergeGroups "converges two divergent views": whichever side merges, the *)
(* members are those of all the changes that went into the two copies, and *)
(* both take the name of the same author and time.                         *)
THEOREM MergeIsUnion == Spec => []MergeConverges
<1>1. GroupInv => MergeConverges
  <2> SUFFICES ASSUME GroupInv, NEW c \in Keepers, NEW d \in Keepers
               PROVE  LET merged == MergeGroups(copy[c].state, copy[d].state)
                      IN  /\ CurrentMembers(merged) = MembersFrom(copy[c].log \cup copy[d].log, merged.createdAt)
                          /\ merged.named = MergeGroups(copy[d].state, copy[c].state).named
    BY DEF MergeConverges
  <2>1. PICK T \in Nat \ {0} : CopiesGood(T)
    BY DEF GroupInv
  <2>2. copy[c] \in GoodCopy(T) /\ copy[d] \in GoodCopy(T)
    BY <2>1 DEF CopiesGood, Keepers
  <2>3. copy[c].state.named \in Stamp /\ copy[d].state.named \in Stamp
    BY <2>2 DEF GoodCopy, Copy, GroupState
  <2>4. MergeGroups(copy[c].state, copy[d].state).named = MergeGroups(copy[d].state, copy[c].state).named
    <3> DEFINE x == copy[c].state.named
               y == copy[d].state.named
    <3>1. /\ MergeGroups(copy[c].state, copy[d].state).named = IF Wins(y, x) THEN y ELSE x
          /\ MergeGroups(copy[d].state, copy[c].state).named = IF Wins(x, y) THEN x ELSE y
      BY DEF MergeGroups
    <3>2. ~(Wins(x, y) /\ Wins(y, x))
      BY <2>3, SMT DEF Wins, Stamp
    <3> HIDE DEF x, y
    <3> QED BY <2>3, <3>1, <3>2, WinsIsTotal DEF x, y
  <2> QED BY <2>2, <2>4, MergedMembers
<1> QED BY <1>1, GroupInvariant, PTL
=============================================================================
