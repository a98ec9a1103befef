------------------------------ MODULE Evidence ------------------------------
(***************************************************************************)
(* Attestation and the local posture snapshot: what                        *)
(* RootHeraldClient_CollectEvidence and RootHeraldClient_CollectPosture do *)
(* with the TPM while enrollment, here the environment AkSlot, and the     *)
(* firmware act around them.                                               *)
(*                                                                         *)
(* CollectEvidence takes no handle, no lock, and keeps no state between    *)
(* calls: every call opens its own TBS contexts and sends one command      *)
(* after another, so the slot and the PCRs can change between any two of   *)
(* them.  CollectPosture holds the mutex of its client handle.  The        *)
(* certificates and the device id that go into the evidence after the      *)
(* event log are the subject of OdcaChain and EkIdentity.  The digests     *)
(* of a boot are abstracted to the number of that boot.  A hibernated      *)
(* machine resumes through its firmware, which measures again into reset   *)
(* PCRs and starts a new event log under a call that is still running.     *)
(***************************************************************************)
EXTENDS AkSlot, Naturals, Sequences

CONSTANTS Threads,   \* threads that call the ABI
          Clients,   \* RootHeraldClient handles
          ClientOf,  \* the handle a thread passes to CollectPosture
          Nonces,    \* nonces that decode to at least one byte
          BADNONCE,  \* a nonce that Base64Decode turns into nothing
          NumPcrs,   \* how many PCRs are read and quoted
          MaxBoots   \* bound: boots and resumes of the machine

ASSUME EvidenceAssumption ==
  /\ NONE \notin Nonces \cup {BADNONCE} \cup Threads
  /\ BADNONCE \notin Nonces
  /\ ClientOf \in [Threads -> Clients]
  /\ NumPcrs \in Nat \ {0}
  /\ MaxBoots \in Nat

VARIABLES
  boot,       \* the boot whose digests the PCRs hold
  lock,       \* per client: the thread that owns client->lock
  pc,         \* per thread: where it is in the ABI call
  nonce,      \* per thread: the nonce argument
  began,      \* per thread: the boot during which the call began
  pcrValues,  \* per thread: the PCR digests read so far
  quote,      \* per thread: what TPM2_Quote returned, or NONE
  status,     \* per thread: what the last call returned
  slots,      \* per thread: what the slot has held during the call
  posture,    \* per thread: the snapshot being filled in
  evidence    \* per thread: the object its last call handed out, or NONE

threadVars == <<pc, nonce, began, pcrValues, quote, status, slots, posture>>
vars == <<slotVars, boot, lock, threadVars, evidence>>

Boots == 0..MaxBoots

EvidencePcs == {"e_load", "e_open", "e_pcr", "e_quote", "e_log"}
PosturePcs == {"p_lock", "p_tpm", "p_ak", "p_log"}

Statuses == {"OK", "INVALID_ARG", "NOT_ENROLLED", "TPM_UNAVAILABLE",
             "QUOTE_FAILED", "INTERNAL"}

\* What TPM2_Quote returned: who signed, over which nonce and digests.  There
\* is no nonce and no digest in a TPM2B_ATTEST of length zero.
Quotes == [key: Keys \cup {NONE}, nonce: Nonces \cup {NONE},
           pcrs: Boots \cup {NONE}]

\* An evidence object, with the nonce asked for and the boots during which the
\* call began and ended.
Evidences == [quote: Quotes, pcrValues: Seq(Boots), log: Boots \cup {NONE},
              asked: Nonces, began: Boots, ended: Boots]

\* -1 of the C struct is NONE.
Unexamined == [has_tpm |-> 0, is_enrolled |-> 0, log |-> NONE]

Postures == [has_tpm: {0, 1}, is_enrolled: {0, 1}, log: Boots \cup {NONE}]

TypeOK ==
  /\ SlotTypeOK
  /\ boot \in Boots
  /\ lock \in [Clients -> Threads \cup {NONE}]
  /\ pc \in [Threads -> EvidencePcs \cup PosturePcs \cup {"idle"}]
  /\ nonce \in [Threads -> Nonces \cup {BADNONCE, NONE}]
  /\ began \in [Threads -> Boots]
  /\ pcrValues \in [Threads -> Seq(Boots)]
  /\ quote \in [Threads -> Quotes \cup {NONE}]
  /\ status \in [Threads -> Statuses \cup {NONE}]
  /\ slots \in [Threads -> SUBSET (Keys \cup {NONE})]
  /\ posture \in [Threads -> Postures]
  /\ evidence \in [Threads -> Evidences \cup {NONE}]

Init ==
  /\ SlotInit
  /\ boot = 0
  /\ lock = [c \in Clients |-> NONE]
  /\ pc = [t \in Threads |-> "idle"]
  /\ nonce = [t \in Threads |-> NONE]
  /\ began = [t \in Threads |-> 0]
  /\ pcrValues = [t \in Threads |-> <<>>]
  /\ quote = [t \in Threads |-> NONE]
  /\ status = [t \in Threads |-> NONE]
  /\ slots = [t \in Threads |-> {}]
  /\ posture = [t \in Threads |-> Unexamined]
  /\ evidence = [t \in Threads |-> NONE]

-----------------------------------------------------------------------------
(* Building blocks *)

Goto(t, from, to) ==
  /\ pc[t] = from
  /\ pc' = [pc EXCEPT ![t] = to]

\* A call begins at step `at'.
Enter(t, at, n) ==
  /\ Goto(t, "idle", at)
  /\ nonce' = [nonce EXCEPT ![t] = n]
  /\ began' = [began EXCEPT ![t] = boot]
  /\ status' = [status EXCEPT ![t] = NONE]
  /\ slots' = [slots EXCEPT ![t] = {slot}]
  /\ posture' = [posture EXCEPT ![t] = Unexamined]
  /\ evidence' = [evidence EXCEPT ![t] = NONE]
  /\ UNCHANGED <<slotVars, boot, lock, pcrValues, quote>>

\* The call returns s; its locals go.
Return(t, s) ==
  /\ pc' = [pc EXCEPT ![t] = "idle"]
  /\ nonce' = [nonce EXCEPT ![t] = NONE]
  /\ pcrValues' = [pcrValues EXCEPT ![t] = <<>>]
  /\ quote' = [quote EXCEPT ![t] = NONE]
  /\ status' = [status EXCEPT ![t] = s]
  /\ UNCHANGED <<slotVars, boot, lock, began, slots, posture>>

\* A command that only moves thread t on.
Pass(t, from, to) ==
  /\ Goto(t, from, to)
  /\ UNCHANGED <<slotVars, boot, lock, nonce, began, pcrValues, quote, status,
                 slots, posture, evidence>>

-----------------------------------------------------------------------------
(* CollectEvidence *)

RootHeraldClient_CollectEvidence(t, n) == Enter(t, "e_load", n)

\* A null or empty argument of either call.
RejectArguments(t) ==
  /\ pc[t] = "idle"
  /\ status' = [status EXCEPT ![t] = "INVALID_ARG"]
  /\ evidence' = [evidence EXCEPT ![t] = NONE]
  /\ UNCHANGED <<slotVars, boot, lock, pc, nonce, began, pcrValues, quote,
                 slots, posture>>

\* SelectEnrolledProvider: TBS opens and ReadPublic finds a key in the slot.
SelectEnrolledProvider(t) == slot # NONE /\ Pass(t, "e_load", "e_open")

\* TBS does not open, ReadPublic is not answered, or the slot is empty: all
\* three come back as a null provider.
NotEnrolled(t) ==
  /\ pc[t] = "e_load"
  /\ Return(t, "NOT_ENROLLED")
  /\ UNCHANGED evidence

\* Mutant: a nonce that decodes to nothing is not refused.
OpenTpmAnyNonce(t) == Pass(t, "e_open", "e_pcr")

\* The second TBS context, then the nonce.
OpenTpm(t) == nonce[t] # BADNONCE /\ Pass(t, "e_open", "e_pcr")

TpmUnavailable(t) ==
  /\ pc[t] = "e_open"
  /\ Return(t, "TPM_UNAVAILABLE")
  /\ UNCHANGED evidence

RejectNonce(t) ==
  /\ pc[t] = "e_open"
  /\ nonce[t] = BADNONCE
  /\ Return(t, "INVALID_ARG")
  /\ UNCHANGED evidence

\* One TPM2_PCR_Read.
PcrRead(t) ==
  /\ pc[t] = "e_pcr"
  /\ Len(pcrValues[t]) < NumPcrs
  /\ pcrValues' = [pcrValues EXCEPT ![t] = Append(@, boot)]
  /\ pc' = [pc EXCEPT ![t] = IF Len(pcrValues[t]) + 1 = NumPcrs
                             THEN "e_quote" ELSE "e_pcr"]
  /\ UNCHANGED <<slotVars, boot, lock, nonce, began, quote, status, slots,
                 posture, evidence>>

\* Mutant: the quote is taken over some other nonce.
QuoteOverOtherNonce(t) ==
  /\ Goto(t, "e_quote", "e_log")
  /\ slot # NONE
  /\ \E n \in Nonces :
       quote' = [quote EXCEPT ![t] =
                   [key |-> slot, nonce |-> n, pcrs |-> boot]]
  /\ UNCHANGED <<slotVars, boot, lock, nonce, began, pcrValues, status,
                 slots, posture, evidence>>

\* TPM2_Quote with the persistent handle signs with whatever key is there by
\* now.  Neither the TPM2B_ATTEST of the reply nor the signature behind it has
\* to be there: a length of zero and a reply that ends early both pass.
Quote(t) ==
  /\ Goto(t, "e_quote", "e_log")
  /\ slot # NONE
  /\ \E signer \in {slot, NONE},
        attest \in {<<nonce[t], boot>>, <<NONE, NONE>>} :
       quote' = [quote EXCEPT ![t] =
                   [key |-> signer, nonce |-> attest[1], pcrs |-> attest[2]]]
  /\ UNCHANGED <<slotVars, boot, lock, nonce, began, pcrValues, status,
                 slots, posture, evidence>>

\* A PCR cannot be read, or the quote fails; so it does when the slot has been
\* emptied since SelectEnrolledProvider looked.
QuoteFails(t) ==
  /\ pc[t] \in {"e_pcr", "e_quote"}
  /\ Return(t, "QUOTE_FAILED")
  /\ UNCHANGED evidence

\* Mutant: the log was read when the call began.
EmitEarlyLog(t) ==
  /\ pc[t] = "e_log"
  /\ evidence' = [evidence EXCEPT ![t] =
       [quote |-> quote[t], pcrValues |-> pcrValues[t], log |-> began[t],
        asked |-> nonce[t], began |-> began[t], ended |-> boot]]
  /\ Return(t, "OK")

\* The log of the boot that is current now, unless it cannot be read; then the
\* object is emitted.
EmitEvidence(t) ==
  /\ pc[t] = "e_log"
  /\ \E log \in {boot, NONE} :
       evidence' = [evidence EXCEPT ![t] =
         [quote |-> quote[t], pcrValues |-> pcrValues[t], log |-> log,
          asked |-> nonce[t], began |-> began[t], ended |-> boot]]
  /\ Return(t, "OK")

\* malloc fails.
EmitFails(t) ==
  /\ pc[t] = "e_log"
  /\ Return(t, "INTERNAL")
  /\ UNCHANGED evidence

-----------------------------------------------------------------------------
(* CollectPosture *)

RootHeraldClient_CollectPosture(t) == Enter(t, "p_lock", NONE)

\* std::lock_guard on the mutex of the handle.  Enrollment calls through the
\* same handle hold it too, for as long as LockReleased of Enrollment says.
PostureLocked(t) ==
  /\ Goto(t, "p_lock", "p_tpm")
  /\ lock[ClientOf[t]] = NONE
  /\ lock' = [lock EXCEPT ![ClientOf[t]] = t]
  /\ UNCHANGED <<slotVars, boot, nonce, began, pcrValues, quote, status,
                 slots, posture, evidence>>

PostureTpm(t) ==
  /\ Goto(t, "p_tpm", "p_ak")
  /\ \E available \in {0, 1} :
       posture' = [posture EXCEPT ![t].has_tpm = available]
  /\ UNCHANGED <<slotVars, boot, lock, nonce, began, pcrValues, quote, status,
                 slots, evidence>>

\* Mutant: a probe that is not answered reads as an occupied slot.
IsAkPersistedUnlessDenied(t) ==
  /\ Goto(t, "p_ak", "p_log")
  /\ posture' = [posture EXCEPT ![t].is_enrolled = 1]
  /\ UNCHANGED <<slotVars, boot, lock, nonce, began, pcrValues, quote, status,
                 slots, evidence>>

\* IsAkPersisted; a probe that fails reads as an empty slot.
IsAkPersisted(t) ==
  /\ Goto(t, "p_ak", "p_log")
  /\ \E found \in {0, 1} :
       /\ found = 1 => slot # NONE
       /\ posture' = [posture EXCEPT ![t].is_enrolled = found]
  /\ UNCHANGED <<slotVars, boot, lock, nonce, began, pcrValues, quote, status,
                 slots, evidence>>

\* Mutant: a return path that leaves the mutex locked.
PostureKeepsLock(t) ==
  /\ pc[t] = "p_log"
  /\ pc' = [pc EXCEPT ![t] = "idle"]
  /\ status' = [status EXCEPT ![t] = "OK"]
  /\ UNCHANGED <<slotVars, boot, lock, nonce, began, pcrValues, quote, slots,
                 posture, evidence>>

\* The fields that come from the event log stay at -1 when it cannot be read.
\* The lock is released on the way out.
PostureLog(t) ==
  /\ pc[t] = "p_log"
  /\ pc' = [pc EXCEPT ![t] = "idle"]
  /\ status' = [status EXCEPT ![t] = "OK"]
  /\ \E log \in {boot, NONE} : posture' = [posture EXCEPT ![t].log = log]
  /\ lock' = [lock EXCEPT ![ClientOf[t]] = NONE]
  /\ UNCHANGED <<slotVars, boot, nonce, began, pcrValues, quote, slots,
                 evidence>>

-----------------------------------------------------------------------------
(* The machine *)

\* Enrollment, an administrator or a TPM2_Clear changes the slot.
SlotChanges ==
  /\ SlotNext
  /\ slots' = [t \in Threads |-> slots[t] \cup
                                   (IF pc[t] = "idle" THEN {} ELSE {slot'})]
  /\ UNCHANGED <<boot, lock, pc, nonce, began, pcrValues, quote, status,
                 posture, evidence>>

\* The machine hibernates and resumes.
Resume ==
  /\ boot < MaxBoots
  /\ boot' = boot + 1
  /\ UNCHANGED <<slotVars, lock, threadVars, evidence>>

Step(t) ==
  \/ SelectEnrolledProvider(t) \/ NotEnrolled(t)
  \/ OpenTpm(t) \/ TpmUnavailable(t) \/ RejectNonce(t)
  \/ PcrRead(t) \/ Quote(t) \/ QuoteFails(t)
  \/ EmitEvidence(t) \/ EmitFails(t)
  \/ PostureLocked(t) \/ PostureTpm(t) \/ IsAkPersisted(t) \/ PostureLog(t)

Call(t) ==
  \/ RejectArguments(t)
  \/ \E n \in Nonces \cup {BADNONCE} : RootHeraldClient_CollectEvidence(t, n)
  \/ RootHeraldClient_CollectPosture(t)

Next ==
  \/ \E t \in Threads : Call(t) \/ Step(t)
  \/ SlotChanges
  \/ Resume

Spec == Init /\ [][Next]_vars

\* A call keeps running; TBS answers every command, if only with an error.
FairSpec == Spec /\ \A t \in Threads : WF_vars(Step(t))

-----------------------------------------------------------------------------
(* Properties *)

\* Evidence is bound to its caller and to enrollment: what the quote attests, if
\* it is not empty, is the nonce this very call was given, and if it carries a
\* signature, the signer is a key whose credential was activated and that was in
\* the slot during the call, although the slot may be emptied and refilled
\* between the probe of SelectEnrolledProvider and TPM2_Quote.
EvidenceBound ==
  \A t \in Threads : evidence[t] # NONE =>
    /\ evidence[t].quote.nonce \in {evidence[t].asked, NONE}
    /\ evidence[t].quote.key \in (proved \cap slots[t]) \cup {NONE}

\* The parts of one evidence object are collected in the order PCRs, quote,
\* event log, so that the log is never older than the digests and the quote it
\* has to replay to, and the whole is consistent unless the machine resumed
\* during the call.
CollectedInOrder ==
  \A t \in Threads : evidence[t] # NONE =>
    LET e   == evidence[t]
        log == IF e.log = NONE THEN e.ended ELSE e.log
    IN /\ Len(e.pcrValues) = NumPcrs
       /\ \A i \in 1..NumPcrs : e.began <= e.pcrValues[i]
       /\ \A i, j \in 1..NumPcrs : i < j => e.pcrValues[i] <= e.pcrValues[j]
       /\ \A i \in 1..NumPcrs : e.pcrValues[i] <= log
       /\ e.quote.pcrs # NONE =>
            /\ \A i \in 1..NumPcrs : e.pcrValues[i] <= e.quote.pcrs
            /\ e.quote.pcrs <= log
       /\ log <= e.ended

\* What a posture claims was so at some moment of the call that returned it:
\* is_enrolled = 1 only if a key was in the slot during the call, and the log
\* the boot fields come from is that of a boot the call ran in.
PostureClaims ==
  \A t \in Threads :
    /\ posture[t].is_enrolled = 1 => slots[t] \cap Keys # {}
    /\ posture[t].log # NONE => began[t] <= posture[t].log

\* Every call returns, whatever the slot and the TPM do meanwhile, and none
\* leaves a client's mutex locked.  With one thread: std::mutex promises no
\* fairness between threads that share a handle.
CollectReturns == \A t \in Threads : pc[t] # "idle" ~> pc[t] = "idle"
=============================================================================
