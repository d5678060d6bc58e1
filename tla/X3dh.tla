-------------------------------- MODULE X3dh --------------------------------
(***************************************************************************)
(* The X3DH handshake of web/src/lib/crypto/x3dh.ts with symbolic keys, as *)
(* in module Ratchet: a key pair is <<party, k>>, a Diffie-Hellman output  *)
(* the set of the two keys, and the HKDF of several outputs their          *)
(* sequence, so that two secrets are equal exactly when both sides         *)
(* computed the same outputs in the same order.                            *)
(***************************************************************************)
EXTENDS Ratchet

IdentityKey(p) == <<p, 0>>
SignedPrekey(p) == <<p, 1>>
OneTimePrekey(p, i) == <<p, 1 + i>>

(* deriveSecret; the associated data binds the two identities. *)
DeriveSecret(initiator, responder, dhs) == <<<<initiator, responder>> \o dhs>>

(* The header of an initial message; otk holds at most one prekey id. *)
InitialHeader(p, ephemeral, otk) == [from |-> p, ephemeral |-> ephemeral, otk |-> otk]

(* DH4, when there is a one-time prekey. *)
FourthDH(ephemeral, p, otk) ==
  IF otk = {} THEN <<>>
  ELSE <<DH(ephemeral, OneTimePrekey(p, CHOOSE i \in otk : TRUE))>>

(* initiateX3DH, for a bundle whose signatures verify. *)
InitiateX3DH(p, peer, ephemeral, otk) ==
  DeriveSecret(p, peer,
    <<DH(IdentityKey(p), SignedPrekey(peer)),
      DH(ephemeral, IdentityKey(peer)),
      DH(ephemeral, SignedPrekey(peer))>> \o FourthDH(ephemeral, peer, otk))

(* respondX3DH, with the prekeys the header names. *)
RespondX3DH(p, header) ==
  DeriveSecret(header.from, p,
    <<DH(SignedPrekey(p), IdentityKey(header.from)),
      DH(IdentityKey(p), header.ephemeral),
      DH(SignedPrekey(p), header.ephemeral)>> \o FourthDH(header.ephemeral, p, header.otk))
=============================================================================
