--------------------------- MODULE EvidenceProofs ---------------------------
(***************************************************************************)
(* Theorems about Evidence for every set of threads, handles, keys and     *)
(* nonces, and for any number of PCRs, boots and changes of the slot.      *)
(***************************************************************************)
EXTENDS Evidence, TLAPS

\* The steps before the first PCR is read, and those after the nonce has been
\* accepted.
UnreadPcs == {"idle", "e_load", "e_open"} \cup PosturePcs
AcceptedPcs == {"e_pcr", "e_quote", "e_log"}

-----------------------------------------------------------------------------
(* The inductive invariant *)

\* AkSlot fills the slot with activated keys only.
SlotHoldsProved == slot \in proved \cup {NONE}

\* What a thread has set up at each step of its call.
CallInv ==
  \A t \in Threads :
    /\ began[t] <= boot
    /\ pc[t] # "idle" => slot \in slots[t]
    /\ pc[t] \in {"e_load", "e_open"} => nonce[t] \in Nonces \cup {BADNONCE}
    /\ pc[t] \in AcceptedPcs => nonce[t] \in Nonces
    /\ pc[t] \in UnreadPcs => pcrValues[t] = <<>>
    /\ pc[t] = "e_pcr" => Len(pcrValues[t]) < NumPcrs
    /\ pc[t] \in {"e_quote", "e_log"} => Len(pcrValues[t]) = NumPcrs

\* The digests read so far are those of boots the call ran in, in order.
ReadInOrder ==
  \A t \in Threads :
    /\ \A i \in 1..Len(pcrValues[t]) :
         began[t] <= pcrValues[t][i] /\ pcrValues[t][i] <= boot
    /\ \A i, j \in 1..Len(pcrValues[t]) :
         i < j => pcrValues[t][i] <= pcrValues[t][j]

\* A quote that was taken is empty or bound to the call and no older than the
\* digests.
QuoteInv ==
  \A t \in Threads : pc[t] = "e_log" =>
    /\ quote[t] \in Quotes
    /\ quote[t].nonce \in {nonce[t], NONE}
    /\ quote[t].key \in (proved \cap slots[t]) \cup {NONE}
    /\ quote[t].pcrs # NONE =>
         /\ \A i \in 1..Len(pcrValues[t]) : pcrValues[t][i] <= quote[t].pcrs
         /\ quote[t].pcrs <= boot

IInv == /\ TypeOK /\ SlotHoldsProved /\ CallInv /\ ReadInOrder /\ QuoteInv
        /\ EvidenceBound /\ CollectedInOrder /\ PostureClaims

-----------------------------------------------------------------------------

USE NoneIsNoKey, EvidenceAssumption
USE DEF slotVars, threadVars, Boots, EvidencePcs, PosturePcs, Statuses,
        UnreadPcs, AcceptedPcs, Goto

\* A call that begins.
LEMMA EnterKeeps ==
  ASSUME IInv, NEW t \in Threads, NEW at \in {"e_load", "p_lock"},
         NEW n \in Nonces \cup {BADNONCE, NONE},
         at = "e_load" => n # NONE,
         Enter(t, at, n)
  PROVE  IInv'
<1>. USE DEF IInv, Enter
<1>1. TypeOK'
  BY DEF TypeOK, SlotTypeOK, Unexamined, Postures
<1>2. SlotHoldsProved' BY DEF SlotHoldsProved
<1>3. CallInv' BY DEF TypeOK, CallInv
<1>4. ReadInOrder'
  <2>1. Len(pcrValues'[t]) = 0 BY DEF CallInv
  <2>2. \A u \in Threads \ {t} : began'[u] = began[u] BY DEF TypeOK
  <2>3. ASSUME NEW u \in Threads
        PROVE  /\ \A i \in 1..Len(pcrValues'[u]) :
                    began'[u] <= pcrValues'[u][i] /\ pcrValues'[u][i] <= boot'
               /\ \A i, j \in 1..Len(pcrValues'[u]) :
                    i < j => pcrValues'[u][i] <= pcrValues'[u][j]
    <3>1. CASE u = t BY <2>1, <3>1
    <3>2. CASE u # t BY <2>2, <3>2 DEF ReadInOrder
    <3>. QED BY <3>1, <3>2
  <2>. QED BY <2>3 DEF ReadInOrder
<1>5. QuoteInv' BY DEF TypeOK, QuoteInv
<1>6. EvidenceBound' BY DEF TypeOK, EvidenceBound
<1>7. CollectedInOrder' BY DEF TypeOK, CollectedInOrder
<1>8. PostureClaims' BY DEF TypeOK, PostureClaims, Unexamined
<1>. QED BY <1>1, <1>2, <1>3, <1>4, <1>5, <1>6, <1>7, <1>8

\* A call that returns without evidence.
LEMMA ReturnKeeps ==
  ASSUME IInv, NEW t \in Threads, NEW s \in Statuses, pc[t] # "idle",
         Return(t, s), UNCHANGED evidence
  PROVE  IInv'
<1>. USE DEF IInv, Return
<1>1. TypeOK' BY DEF TypeOK, SlotTypeOK
<1>2. SlotHoldsProved' BY DEF SlotHoldsProved
<1>3. CallInv' BY DEF TypeOK, CallInv
<1>4. ReadInOrder' BY DEF TypeOK, ReadInOrder
<1>5. QuoteInv' BY DEF TypeOK, QuoteInv
<1>6. EvidenceBound' BY DEF EvidenceBound
<1>7. CollectedInOrder' BY DEF CollectedInOrder
<1>8. PostureClaims' BY DEF PostureClaims
<1>. QED BY <1>1, <1>2, <1>3, <1>4, <1>5, <1>6, <1>7, <1>8

\* Every step of a thread, of the slot and of the firmware keeps the invariant.
LEMMA IInvNext ==
  ASSUME IInv, [Next]_vars
  PROVE  IInv'
<1>. USE DEF IInv
<1>1. ASSUME NEW t \in Threads, RejectArguments(t) PROVE IInv'
  <2>. USE <1>1 DEF RejectArguments
  <2>1. TypeOK' BY DEF TypeOK, SlotTypeOK
  <2>2. SlotHoldsProved' BY DEF SlotHoldsProved
  <2>3. CallInv' BY DEF CallInv
  <2>4. ReadInOrder' BY DEF ReadInOrder
  <2>5. QuoteInv' BY DEF QuoteInv
  <2>6. EvidenceBound' BY DEF TypeOK, EvidenceBound
  <2>7. CollectedInOrder' BY DEF TypeOK, CollectedInOrder
  <2>8. PostureClaims' BY DEF PostureClaims
  <2>. QED BY <2>1, <2>2, <2>3, <2>4, <2>5, <2>6, <2>7, <2>8
<1>2. ASSUME NEW t \in Threads, NEW n \in Nonces \cup {BADNONCE},
             RootHeraldClient_CollectEvidence(t, n)
      PROVE  IInv'
  BY <1>2, EnterKeeps DEF RootHeraldClient_CollectEvidence
<1>3. ASSUME NEW t \in Threads, RootHeraldClient_CollectPosture(t) PROVE IInv'
  BY <1>3, EnterKeeps DEF RootHeraldClient_CollectPosture
<1>4. ASSUME NEW t \in Threads,
             SelectEnrolledProvider(t) \/ OpenTpm(t)
      PROVE  IInv'
  <2>. USE <1>4 DEF SelectEnrolledProvider, OpenTpm, Pass
  <2>1. TypeOK' BY DEF TypeOK, SlotTypeOK
  <2>2. SlotHoldsProved' BY DEF SlotHoldsProved
  <2>3. CallInv' BY DEF TypeOK, CallInv
  <2>4. ReadInOrder' BY DEF ReadInOrder
  <2>5. QuoteInv' BY DEF TypeOK, QuoteInv
  <2>6. EvidenceBound' BY DEF EvidenceBound
  <2>7. CollectedInOrder' BY DEF CollectedInOrder
  <2>8. PostureClaims' BY DEF PostureClaims
  <2>. QED BY <2>1, <2>2, <2>3, <2>4, <2>5, <2>6, <2>7, <2>8
<1>5. ASSUME NEW t \in Threads,
             \/ NotEnrolled(t) \/ TpmUnavailable(t) \/ RejectNonce(t)
             \/ QuoteFails(t) \/ EmitFails(t)
      PROVE  IInv'
  BY <1>5, ReturnKeeps DEF NotEnrolled, TpmUnavailable, RejectNonce, QuoteFails,
     EmitFails
<1>6. ASSUME NEW t \in Threads, PcrRead(t) PROVE IInv'
  <2>. USE <1>6 DEF PcrRead
  <2>1. TypeOK' BY DEF TypeOK, SlotTypeOK
  <2>2. SlotHoldsProved' BY DEF SlotHoldsProved
  <2>3. CallInv' BY DEF TypeOK, CallInv
  <2>4. ReadInOrder' BY DEF TypeOK, CallInv, ReadInOrder
  <2>5. QuoteInv' BY DEF TypeOK, QuoteInv
  <2>6. EvidenceBound' BY DEF EvidenceBound
  <2>7. CollectedInOrder' BY DEF CollectedInOrder
  <2>8. PostureClaims' BY DEF PostureClaims
  <2>. QED BY <2>1, <2>2, <2>3, <2>4, <2>5, <2>6, <2>7, <2>8
<1>7. ASSUME NEW t \in Threads, Quote(t) PROVE IInv'
  <2>. USE <1>7 DEF Quote
  <2>1. TypeOK' BY DEF TypeOK, SlotTypeOK, Quotes, CallInv
  <2>2. SlotHoldsProved' BY DEF SlotHoldsProved
  <2>3. CallInv' BY DEF TypeOK, CallInv
  <2>4. ReadInOrder' BY DEF ReadInOrder
  <2>5. QuoteInv'
    BY DEF TypeOK, SlotTypeOK, SlotHoldsProved, CallInv, ReadInOrder, QuoteInv,
           Quotes
  <2>6. EvidenceBound' BY DEF EvidenceBound
  <2>7. CollectedInOrder' BY DEF CollectedInOrder
  <2>8. PostureClaims' BY DEF PostureClaims
  <2>. QED BY <2>1, <2>2, <2>3, <2>4, <2>5, <2>6, <2>7, <2>8
<1>8. ASSUME NEW t \in Threads, EmitEvidence(t) PROVE IInv'
  <2>. USE <1>8 DEF EmitEvidence, Return
  <2>1. TypeOK' BY DEF TypeOK, SlotTypeOK, Evidences, QuoteInv, CallInv
  <2>2. SlotHoldsProved' BY DEF SlotHoldsProved
  <2>3. CallInv' BY DEF TypeOK, CallInv
  <2>4. ReadInOrder' BY DEF TypeOK, ReadInOrder
  <2>5. QuoteInv' BY DEF TypeOK, QuoteInv
  <2>6. EvidenceBound' BY DEF TypeOK, QuoteInv, EvidenceBound
  <2>7. CollectedInOrder'
    <3>1. PICK log \in {boot, NONE} : evidence' = [evidence EXCEPT ![t] =
            [quote |-> quote[t], pcrValues |-> pcrValues[t], log |-> log,
             asked |-> nonce[t], began |-> began[t], ended |-> boot]]
      OBVIOUS
    <3>2. /\ Len(pcrValues[t]) = NumPcrs
          /\ quote[t].pcrs \in Boots \cup {NONE}
          /\ quote[t].pcrs # NONE => quote[t].pcrs <= boot
          /\ \A i \in 1..NumPcrs :
               /\ began[t] <= pcrValues[t][i] /\ pcrValues[t][i] <= boot
               /\ quote[t].pcrs # NONE => pcrValues[t][i] <= quote[t].pcrs
          /\ \A i, j \in 1..NumPcrs :
               i < j => pcrValues[t][i] <= pcrValues[t][j]
      BY DEF CallInv, ReadInOrder, QuoteInv, Quotes
    <3>3. \A u \in Threads \ {t} : evidence'[u] = evidence[u]
      BY <3>1 DEF TypeOK
    <3>4. /\ evidence'[t].pcrValues = pcrValues[t]
          /\ evidence'[t].quote = quote[t] /\ evidence'[t].log = log
          /\ evidence'[t].began = began[t] /\ evidence'[t].ended = boot
      BY <3>1 DEF TypeOK
    <3>5. boot \in Nat BY DEF TypeOK
    <3>. QED BY <3>1, <3>2, <3>3, <3>4, <3>5 DEF CollectedInOrder
  <2>8. PostureClaims' BY DEF PostureClaims
  <2>. QED BY <2>1, <2>2, <2>3, <2>4, <2>5, <2>6, <2>7, <2>8
<1>9. ASSUME NEW t \in Threads, PostureLocked(t) PROVE IInv'
  <2>. USE <1>9 DEF PostureLocked
  <2>1. TypeOK' BY DEF TypeOK, SlotTypeOK
  <2>2. SlotHoldsProved' BY DEF SlotHoldsProved
  <2>3. CallInv' BY DEF TypeOK, CallInv
  <2>4. ReadInOrder' BY DEF ReadInOrder
  <2>5. QuoteInv' BY DEF TypeOK, QuoteInv
  <2>6. EvidenceBound' BY DEF EvidenceBound
  <2>7. CollectedInOrder' BY DEF CollectedInOrder
  <2>8. PostureClaims' BY DEF PostureClaims
  <2>. QED BY <2>1, <2>2, <2>3, <2>4, <2>5, <2>6, <2>7, <2>8
<1>10. ASSUME NEW t \in Threads, PostureTpm(t) PROVE IInv'
  <2>. USE <1>10 DEF PostureTpm
  <2>0. PICK v \in {0, 1} :
          /\ posture' =
               [posture EXCEPT ![t] = [posture[t] EXCEPT !.has_tpm = v]]
    OBVIOUS
  <2>1. TypeOK'
    <3>1. posture[t] \in Postures BY DEF TypeOK
    <3>2. \A w \in {0, 1} : [posture[t] EXCEPT !.has_tpm = w] \in Postures
      BY <3>1 DEF Postures
    <3>3. posture' \in [Threads -> Postures] BY <2>0, <3>2 DEF TypeOK
    <3>. QED BY <3>3 DEF TypeOK, SlotTypeOK
  <2>2. SlotHoldsProved' BY DEF SlotHoldsProved
  <2>3. CallInv' BY DEF TypeOK, CallInv
  <2>4. ReadInOrder' BY DEF ReadInOrder
  <2>5. QuoteInv' BY DEF TypeOK, QuoteInv
  <2>6. EvidenceBound' BY DEF EvidenceBound
  <2>7. CollectedInOrder' BY DEF CollectedInOrder
  <2>8. PostureClaims'
    <3>1. posture[t] \in Postures BY DEF TypeOK
    <3>2. posture'[t] = [posture[t] EXCEPT !.has_tpm = v] BY <2>0 DEF TypeOK
    <3>3. \A u \in Threads \ {t} : posture'[u] = posture[u]
      BY <2>0 DEF TypeOK
    <3>. QED
      BY <2>0, <3>1, <3>2, <3>3
         DEF TypeOK, SlotTypeOK, Postures, CallInv, PostureClaims
  <2>. QED BY <2>1, <2>2, <2>3, <2>4, <2>5, <2>6, <2>7, <2>8
<1>11. ASSUME NEW t \in Threads, IsAkPersisted(t) PROVE IInv'
  <2>. USE <1>11 DEF IsAkPersisted
  <2>0. PICK v \in {0, 1} :
          /\ posture' =
               [posture EXCEPT ![t] = [posture[t] EXCEPT !.is_enrolled = v]]
          /\ v = 1 => slot # NONE
    OBVIOUS
  <2>1. TypeOK'
    <3>1. posture[t] \in Postures BY DEF TypeOK
    <3>2. \A w \in {0, 1} : [posture[t] EXCEPT !.is_enrolled = w] \in Postures
      BY <3>1 DEF Postures
    <3>3. posture' \in [Threads -> Postures] BY <2>0, <3>2 DEF TypeOK
    <3>. QED BY <3>3 DEF TypeOK, SlotTypeOK
  <2>2. SlotHoldsProved' BY DEF SlotHoldsProved
  <2>3. CallInv' BY DEF TypeOK, CallInv
  <2>4. ReadInOrder' BY DEF ReadInOrder
  <2>5. QuoteInv' BY DEF TypeOK, QuoteInv
  <2>6. EvidenceBound' BY DEF EvidenceBound
  <2>7. CollectedInOrder' BY DEF CollectedInOrder
  <2>8. PostureClaims'
    <3>1. posture[t] \in Postures BY DEF TypeOK
    <3>2. posture'[t] = [posture[t] EXCEPT !.is_enrolled = v] BY <2>0 DEF TypeOK
    <3>3. \A u \in Threads \ {t} : posture'[u] = posture[u]
      BY <2>0 DEF TypeOK
    <3>. QED
      BY <2>0, <3>1, <3>2, <3>3
         DEF TypeOK, SlotTypeOK, Postures, CallInv, PostureClaims
  <2>. QED BY <2>1, <2>2, <2>3, <2>4, <2>5, <2>6, <2>7, <2>8
<1>12. ASSUME NEW t \in Threads, PostureLog(t) PROVE IInv'
  <2>. USE <1>12 DEF PostureLog
  <2>0. PICK v \in {boot, NONE} :
          /\ posture' =
               [posture EXCEPT ![t] = [posture[t] EXCEPT !.log = v]]
    OBVIOUS
  <2>1. TypeOK'
    <3>1. posture[t] \in Postures BY DEF TypeOK
    <3>2. \A w \in Boots \cup {NONE} : [posture[t] EXCEPT !.log = w] \in Postures
      BY <3>1 DEF Postures
    <3>3. posture' \in [Threads -> Postures] BY <2>0, <3>2 DEF TypeOK
    <3>. QED BY <3>3 DEF TypeOK, SlotTypeOK
  <2>2. SlotHoldsProved' BY DEF SlotHoldsProved
  <2>3. CallInv' BY DEF TypeOK, CallInv
  <2>4. ReadInOrder' BY DEF ReadInOrder
  <2>5. QuoteInv' BY DEF TypeOK, QuoteInv
  <2>6. EvidenceBound' BY DEF EvidenceBound
  <2>7. CollectedInOrder' BY DEF CollectedInOrder
  <2>8. PostureClaims'
    <3>1. posture[t] \in Postures BY DEF TypeOK
    <3>2. posture'[t] = [posture[t] EXCEPT !.log = v] BY <2>0 DEF TypeOK
    <3>3. \A u \in Threads \ {t} : posture'[u] = posture[u]
      BY <2>0 DEF TypeOK
    <3>. QED
      BY <2>0, <3>1, <3>2, <3>3
         DEF TypeOK, SlotTypeOK, Postures, CallInv, PostureClaims
  <2>. QED BY <2>1, <2>2, <2>3, <2>4, <2>5, <2>6, <2>7, <2>8
<1>13. ASSUME SlotChanges PROVE IInv'
  <2>. USE <1>13 DEF SlotChanges, SlotNext, Prove, Persist, Vacate
  <2>1. TypeOK' BY DEF TypeOK, SlotTypeOK
  <2>2. SlotHoldsProved' BY DEF SlotHoldsProved
  <2>3. CallInv' BY DEF TypeOK, CallInv
  <2>4. ReadInOrder' BY DEF ReadInOrder
  <2>5. QuoteInv' BY DEF TypeOK, QuoteInv
  <2>6. EvidenceBound' BY DEF TypeOK, EvidenceBound
  <2>7. CollectedInOrder' BY DEF CollectedInOrder
  <2>8. PostureClaims' BY DEF TypeOK, CallInv, PostureClaims
  <2>. QED BY <2>1, <2>2, <2>3, <2>4, <2>5, <2>6, <2>7, <2>8
<1>14. ASSUME Resume PROVE IInv'
  <2>. USE <1>14 DEF Resume
  <2>1. TypeOK' BY DEF TypeOK, SlotTypeOK
  <2>2. SlotHoldsProved' BY DEF SlotHoldsProved
  <2>3. CallInv' BY DEF TypeOK, CallInv
  <2>4. ReadInOrder' BY DEF TypeOK, ReadInOrder
  <2>5. QuoteInv' BY DEF TypeOK, QuoteInv, Quotes
  <2>6. EvidenceBound' BY DEF EvidenceBound
  <2>7. CollectedInOrder' BY DEF CollectedInOrder
  <2>8. PostureClaims' BY DEF PostureClaims
  <2>. QED BY <2>1, <2>2, <2>3, <2>4, <2>5, <2>6, <2>7, <2>8
<1>15. ASSUME UNCHANGED vars PROVE IInv'
  <2>. USE <1>15 DEF vars
  <2>1. TypeOK' BY DEF TypeOK, SlotTypeOK
  <2>2. SlotHoldsProved' BY DEF SlotHoldsProved
  <2>3. CallInv' BY DEF CallInv
  <2>4. ReadInOrder' BY DEF ReadInOrder
  <2>5. QuoteInv' BY DEF QuoteInv
  <2>6. EvidenceBound' BY DEF EvidenceBound
  <2>7. CollectedInOrder' BY DEF CollectedInOrder
  <2>8. PostureClaims' BY DEF PostureClaims
  <2>. QED BY <2>1, <2>2, <2>3, <2>4, <2>5, <2>6, <2>7, <2>8
<1>. QED
  BY <1>1, <1>2, <1>3, <1>4, <1>5, <1>6, <1>7, <1>8, <1>9, <1>10, <1>11, <1>12,
     <1>13, <1>14, <1>15 DEF Next, Call, Step

\* The invariant holds when the machine starts.
LEMMA IInvInit == Init => IInv
BY DEF Init, SlotInit, IInv, TypeOK, SlotTypeOK, SlotHoldsProved, CallInv,
       ReadInOrder, QuoteInv, EvidenceBound, CollectedInOrder, PostureClaims,
       Unexamined, Postures

-----------------------------------------------------------------------------

\* The invariant holds in every reachable state.
THEOREM Invariance == Spec => []IInv
BY IInvInit, IInvNext, PTL DEF Spec

\* No call leaves a thread, a handle or an evidence object ill-typed; in
\* particular no object is emitted without a reply to TPM2_Quote or for a
\* refused nonce.
THEOREM TypeCorrect == Spec => []TypeOK
<1>1. IInv => TypeOK
  BY DEF IInv
<1>. QED BY <1>1, Invariance, PTL

\* What the quote in an evidence object attests, if anything, is the nonce of its
\* own call, signed, if at all, by an activated key that was in the slot during the call, whatever
\* enrollment does to the slot between the probe and TPM2_Quote.
THEOREM EvidenceIsBound == Spec => []EvidenceBound
<1>1. IInv => EvidenceBound
  BY DEF IInv
<1>. QED BY <1>1, Invariance, PTL

\* The log in an evidence object is never older than its quote, nor the quote
\* older than its PCR values, however often the machine resumes during the call.
THEOREM EvidenceIsOrdered == Spec => []CollectedInOrder
<1>1. IInv => CollectedInOrder
  BY DEF IInv
<1>. QED BY <1>1, Invariance, PTL

\* What CollectPosture reports was true at some moment of the call.
THEOREM PostureIsWitnessed == Spec => []PostureClaims
<1>1. IInv => PostureClaims
  BY DEF IInv
<1>. QED BY <1>1, Invariance, PTL
=============================================================================
