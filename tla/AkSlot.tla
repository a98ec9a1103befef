------------------------------- MODULE AkSlot -------------------------------
(***************************************************************************)
(* What enrollment promises to everything that only reads the TPM: the     *)
(* life of the owner-persistent NV slot TBS_AK_PERSISTENT_HANDLE that      *)
(* holds the attestation key (AK).                                         *)
(*                                                                         *)
(* The slot is filled only while it is empty, and only with a key for      *)
(* which TPM2_ActivateCredential has succeeded; it changes from one key to *)
(* another only by way of empty.  Evidence collection relies on nothing    *)
(* else, and Enrollment is shown to implement this module.                 *)
(***************************************************************************)
CONSTANTS Keys,   \* attestation keys the TPM can mint
          NONE    \* an empty slot

ASSUME NoneIsNoKey == NONE \notin Keys

VARIABLES slot,   \* the key in the persistent slot, or NONE
          proved  \* keys for which credential activation has succeeded

slotVars == <<slot, proved>>

SlotTypeOK ==
  /\ slot \in Keys \cup {NONE}
  /\ proved \subseteq Keys

SlotInit ==
  /\ slot = NONE
  /\ proved = {}

\* TPM2_ActivateCredential recovers the secret bound to key k.
Prove(k) ==
  /\ proved' = proved \cup {k}
  /\ UNCHANGED slot

\* TPM2_EvictControl of a loaded key into the free slot.
Persist(k) ==
  /\ slot = NONE
  /\ k \in proved
  /\ slot' = k
  /\ UNCHANGED proved

\* TPM2_EvictControl of the slot itself, an administrator's eviction, or a
\* TPM2_Clear of the owner hierarchy.
Vacate ==
  /\ slot # NONE
  /\ slot' = NONE
  /\ UNCHANGED proved

SlotNext ==
  \/ \E k \in Keys : Prove(k) \/ Persist(k)
  \/ Vacate

SlotSpec == SlotInit /\ [][SlotNext]_slotVars
=============================================================================
