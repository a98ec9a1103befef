---------------------------- MODULE MCEkIdentity ----------------------------
(* Instances of EkIdentity for TLC. *)
EXTENDS EkIdentity, TLC

CONSTANTS e1, e2

\* Windows has not provisioned the TPM yet, or holds an entry without a
\* certificate, or the EK certificate is cached, behind such an entry or before
\* another certificate.
AnyStores == {<<>>, <<JUNK>>, <<JUNK, e1>>, <<e1, e2>>}

EmptyStores == {<<>>}

CaSymmetry == Permutations(CaCerts)
=============================================================================
