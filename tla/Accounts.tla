------------------------------ MODULE Accounts ------------------------------
(***************************************************************************)
(* Accounts, challenges and session tokens at the server: the statements   *)
(* of server/internal/db/accounts.go and auth.go that the handlers of      *)
(* module Onboarding run.  Each is one transaction.                        *)
(***************************************************************************)
EXTENDS RateLimit, FiniteSets

CONSTANT ChallengeTTL  \* auth.go: ChallengeTTL, in units of the clock

ASSUME AccountsAssumption == ChallengeTTL \in Nat

VARIABLES
  accounts,    \* registered accounts
  challenges,  \* auth_challenges
  tokens,      \* session_tokens, with the nonce each was issued for
  nonces       \* nonces drawn so far

server == <<accounts, challenges, tokens, nonces>>

AccountsInit ==
  /\ accounts = {}
  /\ challenges = {}
  /\ tokens = {}
  /\ nonces = 0

(* handleRegister and CreateAccount: idempotent on the identity key. *)
CreateAccount(a) ==
  /\ accounts' = accounts \cup {a}
  /\ UNCHANGED <<challenges, tokens, nonces>>

(* handleChallenge, for an account that exists. *)
CreateChallenge(a) ==
  /\ a \in accounts
  /\ nonces' = nonces + 1
  /\ challenges' = challenges \cup {[nonce |-> nonces + 1, account |-> a, expires |-> now + ChallengeTTL]}
  /\ UNCHANGED <<accounts, tokens>>

Unexpired(a, nonce) ==
  {c \in challenges : c.nonce = nonce /\ c.account = a /\ c.expires > now}

(* Mutant: the nonce is looked up and left there. *)
ConsumeChallengeKeeps(a, nonce) ==
  /\ Unexpired(a, nonce) # {}
  /\ UNCHANGED server

(* ConsumeChallenge returns true: the row is gone with the check. *)
ConsumeChallenge(a, nonce) ==
  /\ Unexpired(a, nonce) # {}
  /\ challenges' = challenges \ Unexpired(a, nonce)
  /\ UNCHANGED <<accounts, tokens, nonces>>

(* CreateSessionToken; serial tells the tokens apart. *)
CreateSessionToken(a, nonce) ==
  /\ tokens' = tokens \cup
       {[account |-> a, nonce |-> nonce, serial |-> Cardinality(tokens) + 1]}
  /\ UNCHANGED <<accounts, challenges, nonces>>

(* A challenge buys one token: the nonce a client signed cannot be used    *)
(* again, however the handlers of a repeated request interleave            *)
(* (ConsumeChallenge: "Deletion makes replay impossible").                 *)
NonceBuysOneToken ==
  \A t, u \in tokens : t.nonce = u.nonce => t = u
=============================================================================
