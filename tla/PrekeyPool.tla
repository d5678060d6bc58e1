----------------------------- MODULE PrekeyPool -----------------------------
(***************************************************************************)
(* The one-time prekeys the server keeps for ONE account                   *)
(* (server/internal/db/prekeys.go), with the transactions that consume and *)
(* add them.  A transaction is split where another one can come between:   *)
(* at its row locks and at its commit.  PostgreSQL runs it under READ      *)
(* COMMITTED: a statement sees the rows committed when it starts.          *)
(***************************************************************************)
EXTENDS Integers, FiniteSets

CONSTANTS
  Peer,                       \* accounts that ask for this account's bundle
  MaxStoredPrekeysPerAccount  \* prekeys.go: 200

ASSUME PoolAssumption == MaxStoredPrekeysPerAccount \in Nat \ {0}

(* A key pair and the id it is published under.  The server only has the   *)
(* public half; key names the pair.                                        *)
Prekey == [id : Nat \ {0}, key : Nat \ {0}]

(* A bundle without a one-time prekey: the three-DH handshake. *)
NoKey == [id |-> 0, key |-> 0]

VARIABLES
  rows,      \* one_time_prekeys, the rows of this account
  fetches,   \* FetchBundle transactions: [peer, row], row locked or NoKey
  uploads    \* AddOneTimePrekeys transactions: [keys, seen, step]

poolVars == <<rows, fetches, uploads>>

UploadStep == {"waiting", "counted", "added", "failed"}

PoolTypeOK ==
  /\ rows \subseteq Prekey
  /\ fetches \subseteq [peer : Peer, row : Prekey \cup {NoKey}]
  /\ \A u \in uploads :
       u.keys \subseteq Prekey /\ u.seen \subseteq Prekey /\ u.step \in UploadStep

(* Rows an open transaction has locked: the one a FetchBundle is deleting, *)
(* and every row an AddOneTimePrekeys has counted.                         *)
LockedByFetch == {f.row : f \in fetches}
LockedByUpload == UNION {u.seen : u \in {v \in uploads : v.step = "counted"}}

PoolInit(published) ==
  /\ rows = published
  /\ fetches = {}
  /\ uploads = {}

-----------------------------------------------------------------------------
(* Mutant: the row is read without FOR UPDATE SKIP LOCKED. *)
BeginFetchBundleUnlocked(p) ==
  /\ \E r \in IF rows = {} THEN {NoKey} ELSE rows :
       fetches' = fetches \cup {[peer |-> p, row |-> r]}
  /\ UNCHANGED <<rows, uploads>>

(* DELETE ... FOR UPDATE SKIP LOCKED LIMIT 1: one row nobody has locked,   *)
(* no row if there is none.  ORDER BY ctid is the physical order, in which *)
(* freed space is reused, so it may be any of them.                        *)
BeginFetchBundle(p) ==
  LET free == rows \ (LockedByFetch \cup LockedByUpload)
  IN /\ \E r \in IF free = {} THEN {NoKey} ELSE free :
          fetches' = fetches \cup {[peer |-> p, row |-> r]}
     /\ UNCHANGED <<rows, uploads>>

(* The commit: the row is gone and the caller has it. *)
CommitFetchBundle(f) ==
  /\ rows' = rows \ {f.row}
  /\ fetches' = fetches \ {f}
  /\ UNCHANGED uploads

(* The transaction is rolled back (the request was cancelled, or the       *)
(* commit failed): the row is unlocked and stays.                          *)
AbortFetchBundle(f) ==
  /\ fetches' = fetches \ {f}
  /\ UNCHANGED <<rows, uploads>>

-----------------------------------------------------------------------------
(* An upload starts SELECT ... FOR UPDATE over the rows it sees now. *)
BeginAddOneTimePrekeys(keys) ==
  /\ uploads' = uploads \cup {[keys |-> keys, seen |-> rows, step |-> "waiting"]}
  /\ UNCHANGED <<rows, fetches>>

(* It waits for the locks on those rows.  The ones deleted meanwhile are   *)
(* not counted, and neither are the ones inserted meanwhile.               *)
CountPrekeys(u) ==
  LET counted == u.seen \cap rows
  IN /\ u.step = "waiting"
     /\ counted \cap (LockedByFetch \cup LockedByUpload) = {}
     /\ uploads' = (uploads \ {u}) \cup
          {IF Cardinality(counted) + Cardinality(u.keys) > MaxStoredPrekeysPerAccount
           THEN [u EXCEPT !.seen = {}, !.step = "failed"]
           ELSE [u EXCEPT !.seen = counted, !.step = "counted"]}
     /\ UNCHANGED <<rows, fetches>>

(* INSERT ... ON CONFLICT DO NOTHING for each key, and the commit.  The    *)
(* primary key is (account_id, id): a key under an id the table holds is   *)
(* dropped in silence.                                                     *)
CommitAddOneTimePrekeys(u) ==
  /\ u.step = "counted"
  /\ rows' = rows \cup {k \in u.keys : \A r \in rows : r.id # k.id /\ r.key # k.key}
  /\ uploads' = (uploads \ {u}) \cup {[u EXCEPT !.seen = {}, !.step = "added"]}
  /\ UNCHANGED fetches

(* The transaction fails: nothing is inserted. *)
AbortAddOneTimePrekeys(u) ==
  /\ u.step \in {"waiting", "counted"}
  /\ uploads' = (uploads \ {u}) \cup {[u EXCEPT !.seen = {}, !.step = "failed"]}
  /\ UNCHANGED <<rows, fetches>>

=============================================================================
