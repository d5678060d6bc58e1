----------------------------- MODULE RateLimit -----------------------------
(***************************************************************************)
(* The token bucket of server/internal/ratelimit/ratelimit.go and the      *)
(* address middleware.go charges a request to.                             *)
(*                                                                         *)
(* Amounts are in units: a bucket gains one unit in a unit of time and a   *)
(* request costs Cost of them, so the limiter's rate is 1 / Cost and its   *)
(* burst Capacity / Cost.  Tokens are exact here; the code's are floating- *)
(* point numbers.                                                          *)
(***************************************************************************)
EXTENDS Integers, Sequences

CONSTANTS
  Address,         \* the addresses requests come from
  Cost, Capacity,
  TrustedProxies,  \* config: how many proxies append to X-Forwarded-For
  MaxTime          \* bound: the clock stops there

ASSUME RateLimitAssumption ==
  /\ Cost \in Nat \ {0}
  /\ Capacity \in Nat
  /\ TrustedProxies \in Nat
  /\ MaxTime \in Nat

VARIABLES
  now,      \* the clock
  buckets,  \* Limiter.buckets
  spent     \* history: units each address has spent since each instant

limiter == <<now, buckets, spent>>

Time == 0 .. MaxTime

(* NewLimiter.  An address not seen yet has a full bucket, and so has one  *)
(* that is full since the start.                                           *)
LimiterInit ==
  /\ now = 0
  /\ buckets = [a \in Address |-> [units |-> Capacity, last |-> 0]]
  /\ spent = [a \in Address |-> [s \in Time |-> 0]]

Tick ==
  /\ now < MaxTime
  /\ now' = now + 1
  /\ UNCHANGED <<buckets, spent>>

(* Mutant: the refill is not cut off at the burst. *)
RefilledUncut(b) == b.units + (now - b.last)

(* The refill at the start of Allow. *)
Refilled(b) ==
  LET units == b.units + (now - b.last)
  IN  IF units > Capacity THEN Capacity ELSE units

(* Allow returns true. *)
Allow(a) ==
  /\ Refilled(buckets[a]) >= Cost
  /\ buckets' = [buckets EXCEPT ![a] = [units |-> Refilled(buckets[a]) - Cost, last |-> now]]
  /\ spent' = [spent EXCEPT ![a] = [s \in Time |-> IF s <= now THEN spent[a][s] + Cost ELSE spent[a][s]]]
  /\ UNCHANGED now

(* Allow returns false. *)
Deny(a) ==
  /\ Refilled(buckets[a]) < Cost
  /\ buckets' = [buckets EXCEPT ![a] = [units |-> Refilled(buckets[a]), last |-> now]]
  /\ UNCHANGED <<now, spent>>

LimiterNext == Tick \/ \E a \in Address : Allow(a) \/ Deny(a)

LimiterSpec == LimiterInit /\ [][LimiterNext]_limiter

-----------------------------------------------------------------------------
(* clientIP, when every entry is an address: TrustedProxies entries from   *)
(* the right, or the peer when the chain is shorter.                       *)
ClientIP(peer, chain) ==
  IF TrustedProxies = 0 \/ Len(chain) < TrustedProxies THEN peer
  ELSE chain[Len(chain) - TrustedProxies + 1]

(* The proxies between a client and the server, which are not under src/:  *)
(* each appends the address it was called from to the header the client    *)
(* sent.                                                                   *)
Proxy(i) == <<"proxy", i>>
Forwarded(a, header) ==
  IF TrustedProxies = 0 THEN header
  ELSE header \o <<a>> \o [i \in 1 .. TrustedProxies - 1 |-> Proxy(i)]
PeerAddress(a) == IF TrustedProxies = 0 THEN a ELSE Proxy(TrustedProxies)

-----------------------------------------------------------------------------
(* The limiter's promise: between any instant and now an address is let    *)
(* through for no more than a burst and what was refilled meanwhile.       *)
WindowBounded ==
  \A a \in Address : \A s \in Time : s <= now => spent[a][s] <= Capacity + (now - s)
=============================================================================
