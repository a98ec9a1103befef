-------------------------- MODULE EnrollmentProofs --------------------------
(***************************************************************************)
(* Theorems about Enrollment for every set of processes, clients, threads, *)
(* providers and keys.                                                     *)
(***************************************************************************)
EXTENDS Enrollment, TLAPS

\* The steps of EnrollBegin that own a provider through a local unique_ptr.
OwningPcs == {"b_ek", "b_ak", "b_commit"}

\* The steps taken inside a method of *g_enrollProvider.
MethodPcs == {"c_session", "c_policy", "c_activate", "c_clear", "c_evict",
              "c_emit"}

\* The steps after a successful TPM2_ActivateCredential.
ProvedPcs == {"c_persist", "c_clear", "c_evict", "c_emit"}

-----------------------------------------------------------------------------
(* The inductive invariant *)

\* What a thread in a call has set up.
CallInv ==
  \A t \in Threads :
    /\ pc[t] # "idle" => /\ client[t] \in Clients
                         /\ ClientProc[client[t]] = ThreadProc[t]
    /\ pc[t] \in LockedPcs => lock[client[t]] = t
    /\ pc[t] \in CompletePcs => chal[t] \in enrollBodies
    /\ pc[t] = "c_lock" => chal[t] \in enrollBodies \cup {MALFORMED}
    /\ pc[t] \in MethodPcs => self[t] \in Providers
    /\ pc[t] \notin MethodPcs => self[t] = NONE
    /\ pc[t] \in OwningPcs => local[t] \in Providers
    /\ pc[t] \notin OwningPcs => local[t] = NONE

\* Every provider has an owner, and only one.
SomeOwner ==
  \A q \in Providers : prov[q] # "free" =>
    \/ \E p \in Procs : inFlight[p] = q
    \/ \E t \in Threads : local[t] = q

OneOwner ==
  /\ \A t, u \in Threads : t # u /\ local[t] # NONE => local[t] # local[u]
  /\ \A t \in Threads, p \in Procs : local[t] # NONE => inFlight[p] # local[t]
  /\ \A p, r \in Procs : p # r /\ inFlight[p] # NONE => inFlight[p] # inFlight[r]

\* What a provider has loaded by the time it is owned.
ProviderInv ==
  /\ \A t \in Threads : local[t] # NONE => prov[local[t]] # "free"
  /\ \A t \in Threads : pc[t] = "b_commit" =>
       prov[local[t]] = "ready" /\ akPub[local[t]] \in Keys
  /\ \A p \in Procs : inFlight[p] # NONE =>
       prov[inFlight[p]] = "ready" /\ akPub[inFlight[p]] \in enrollBodies
  /\ \A q \in Providers : ctx[q].ak # NONE => ctx[q].ak = akPub[q]

\* Inductive for every use of the library.
IInv == TypeOK /\ CallInv /\ SomeOwner /\ OneOwner /\ ProviderInv

\* What the mutex adds when all threads of a process use one client.
MutexInv ==
  \A t \in Threads :
    /\ pc[t] \in CompletePcs => InFlightOf(t) # NONE
    /\ pc[t] \in MethodPcs => self[t] = InFlightOf(t)
    /\ pc[t] \in ProvedPcs => /\ chal[t] \in proved
                              /\ akPub[InFlightOf(t)] = chal[t]
    /\ pc[t] = "c_emit" => chal[t] \in persisted

\* Inductive, relative to IInv, with one client per process.
SafeInv == MutexInv /\ KeyChain

-----------------------------------------------------------------------------

\* The assumptions on the constants, and the abbreviations every action is
\* written with: expanded everywhere.
USE ConstantsTyped, SentinelsDistinct
USE DEF EmptyContext, InFlightOf, Goto, Leave, Unlock, Return, Destroy, KeepTpm,
        KeepAllButCtx, SelfReady, tpmVars, heapVars, threadVars, logVars,
        Statuses, BeginPcs, CompletePcs, LockedPcs, Pcs, MethodPcs, OwningPcs,
        Contexts

\* Every step keeps the inductive invariant, without any assumption on how
\* clients are shared.
LEMMA IInvNext ==
  ASSUME IInv, [Next]_vars
  PROVE  IInv'
<1>. USE DEF IInv
<1>1. ASSUME NEW t \in Threads, BeginLocked(t) PROVE IInv'
  <2>1. TypeOK' BY <1>1 DEF BeginLocked, TypeOK, CallInv, ProviderInv
  <2>2. CallInv' BY <1>1 DEF BeginLocked, TypeOK, CallInv
  <2>3. SomeOwner' BY <1>1 DEF BeginLocked, TypeOK, CallInv, SomeOwner
  <2>4. OneOwner'
    BY <1>1 DEF BeginLocked, TypeOK, CallInv, OneOwner, ProviderInv
  <2>5. ProviderInv'
    BY <1>1 DEF BeginLocked, TypeOK, CallInv, OneOwner, ProviderInv
  <2>. QED BY <2>1, <2>2, <2>3, <2>4, <2>5
<1>2. ASSUME NEW t \in Threads, BeginNotElevated(t) PROVE IInv'
  <2>1. TypeOK' BY <1>2 DEF BeginNotElevated, TypeOK, CallInv, ProviderInv
  <2>2. CallInv' BY <1>2 DEF BeginNotElevated, TypeOK, CallInv
  <2>3. SomeOwner' BY <1>2 DEF BeginNotElevated, TypeOK, CallInv, SomeOwner
  <2>4. OneOwner'
    BY <1>2 DEF BeginNotElevated, TypeOK, CallInv, OneOwner, ProviderInv
  <2>5. ProviderInv'
    BY <1>2 DEF BeginNotElevated, TypeOK, CallInv, OneOwner, ProviderInv
  <2>. QED BY <2>1, <2>2, <2>3, <2>4, <2>5
<1>3. ASSUME NEW t \in Threads, GatherEk(t) PROVE IInv'
  <2>1. TypeOK' BY <1>3 DEF GatherEk, TypeOK, CallInv, ProviderInv
  <2>2. CallInv' BY <1>3 DEF GatherEk, TypeOK, CallInv
  <2>3. SomeOwner' BY <1>3 DEF GatherEk, TypeOK, CallInv, SomeOwner
  <2>4. OneOwner' BY <1>3 DEF GatherEk, TypeOK, CallInv, OneOwner, ProviderInv
  <2>5. ProviderInv'
    BY <1>3 DEF GatherEk, TypeOK, CallInv, OneOwner, ProviderInv
  <2>. QED BY <2>1, <2>2, <2>3, <2>4, <2>5
<1>4. ASSUME NEW t \in Threads, GatherEkFails(t) PROVE IInv'
  <2>1. TypeOK' BY <1>4 DEF GatherEkFails, TypeOK, CallInv, ProviderInv
  <2>2. CallInv' BY <1>4 DEF GatherEkFails, TypeOK, CallInv
  <2>3. SomeOwner' BY <1>4 DEF GatherEkFails, TypeOK, CallInv, SomeOwner
  <2>4. OneOwner'
    BY <1>4 DEF GatherEkFails, TypeOK, CallInv, OneOwner, ProviderInv
  <2>5. ProviderInv'
    BY <1>4 DEF GatherEkFails, TypeOK, CallInv, OneOwner, ProviderInv
  <2>. QED BY <2>1, <2>2, <2>3, <2>4, <2>5
<1>5. ASSUME NEW t \in Threads, OpenProvider(t) PROVE IInv'
  <2>1. TypeOK' BY <1>5 DEF OpenProvider, TypeOK, CallInv, ProviderInv
  <2>2. CallInv' BY <1>5 DEF OpenProvider, TypeOK, CallInv
  <2>3. SomeOwner'
    <3>1. PICK q \in Providers : /\ prov' = [prov EXCEPT ![q] = "open"]
                                 /\ local' = [local EXCEPT ![t] = q]
      BY <1>5 DEF OpenProvider
    <3>2. local[t] = NONE BY <1>5 DEF OpenProvider, CallInv
    <3>3. inFlight' = inFlight BY <1>5 DEF OpenProvider
    <3>. QED BY <3>1, <3>2, <3>3 DEF TypeOK, SomeOwner
  <2>4. OneOwner'
    BY <1>5 DEF OpenProvider, TypeOK, CallInv, OneOwner, ProviderInv
  <2>5. ProviderInv'
    BY <1>5 DEF OpenProvider, TypeOK, CallInv, OneOwner, ProviderInv
  <2>. QED BY <2>1, <2>2, <2>3, <2>4, <2>5
<1>6. ASSUME NEW t \in Threads, OpenProviderFails(t) PROVE IInv'
  <2>1. TypeOK' BY <1>6 DEF OpenProviderFails, TypeOK, CallInv, ProviderInv
  <2>2. CallInv' BY <1>6 DEF OpenProviderFails, TypeOK, CallInv
  <2>3. SomeOwner' BY <1>6 DEF OpenProviderFails, TypeOK, CallInv, SomeOwner
  <2>4. OneOwner'
    BY <1>6 DEF OpenProviderFails, TypeOK, CallInv, OneOwner, ProviderInv
  <2>5. ProviderInv'
    BY <1>6 DEF OpenProviderFails, TypeOK, CallInv, OneOwner, ProviderInv
  <2>. QED BY <2>1, <2>2, <2>3, <2>4, <2>5
<1>7. ASSUME NEW t \in Threads, CreateEk(t) PROVE IInv'
  <2>1. TypeOK'
    <3>1. ctx[local[t]] \in Contexts
      BY <1>7 DEF CreateEk, TypeOK, CallInv
    <3>2. [ctx[local[t]] EXCEPT !.ek = TRUE] \in Contexts
      BY <3>1 DEF Contexts
    <3>3. ctx' \in [Providers -> Contexts]
      BY <1>7, <3>2 DEF CreateEk, TypeOK
    <3>. HIDE DEF Contexts
    <3>. QED BY <1>7, <3>3 DEF CreateEk, TypeOK, CallInv
  <2>2. CallInv' BY <1>7 DEF CreateEk, TypeOK, CallInv
  <2>3. SomeOwner' BY <1>7 DEF CreateEk, TypeOK, CallInv, SomeOwner
  <2>4. OneOwner' BY <1>7 DEF CreateEk, TypeOK, CallInv, OneOwner, ProviderInv
  <2>5. ProviderInv'
    BY <1>7 DEF CreateEk, TypeOK, CallInv, OneOwner, ProviderInv
  <2>. QED BY <2>1, <2>2, <2>3, <2>4, <2>5
<1>8. ASSUME NEW t \in Threads, CreateAndLoadAk(t) PROVE IInv'
  <2>1. TypeOK' BY <1>8 DEF CreateAndLoadAk, TypeOK, CallInv, ProviderInv
  <2>2. CallInv' BY <1>8 DEF CreateAndLoadAk, TypeOK, CallInv
  <2>3. SomeOwner' BY <1>8 DEF CreateAndLoadAk, TypeOK, CallInv, SomeOwner
  <2>4. OneOwner'
    BY <1>8 DEF CreateAndLoadAk, TypeOK, CallInv, OneOwner, ProviderInv
  <2>5. ProviderInv'
    BY <1>8 DEF CreateAndLoadAk, TypeOK, CallInv, OneOwner, ProviderInv
  <2>. QED BY <2>1, <2>2, <2>3, <2>4, <2>5
<1>9. ASSUME NEW t \in Threads, CreateAkFails(t) PROVE IInv'
  <2>1. TypeOK' BY <1>9 DEF CreateAkFails, TypeOK, CallInv, ProviderInv
  <2>2. CallInv' BY <1>9 DEF CreateAkFails, TypeOK, CallInv
  <2>3. SomeOwner' BY <1>9 DEF CreateAkFails, TypeOK, CallInv, SomeOwner
  <2>4. OneOwner'
    BY <1>9 DEF CreateAkFails, TypeOK, CallInv, OneOwner, ProviderInv
  <2>5. ProviderInv'
    BY <1>9 DEF CreateAkFails, TypeOK, CallInv, OneOwner, ProviderInv
  <2>. QED BY <2>1, <2>2, <2>3, <2>4, <2>5
<1>10. ASSUME NEW t \in Threads, CommitBegin(t) PROVE IInv'
  <2>1. TypeOK' BY <1>10 DEF CommitBegin, TypeOK, CallInv, ProviderInv
  <2>2. CallInv' BY <1>10 DEF CommitBegin, TypeOK, CallInv
  <2>3. SomeOwner' BY <1>10 DEF CommitBegin, TypeOK, CallInv, SomeOwner
  <2>4. OneOwner'
    BY <1>10 DEF CommitBegin, TypeOK, CallInv, OneOwner, ProviderInv
  <2>5. ProviderInv'
    BY <1>10 DEF CommitBegin, TypeOK, CallInv, OneOwner, ProviderInv
  <2>. QED BY <2>1, <2>2, <2>3, <2>4, <2>5
<1>11. ASSUME NEW t \in Threads, CommitBeginFails(t) PROVE IInv'
  <2>1. TypeOK' BY <1>11 DEF CommitBeginFails, TypeOK, CallInv, ProviderInv
  <2>2. CallInv' BY <1>11 DEF CommitBeginFails, TypeOK, CallInv
  <2>3. SomeOwner' BY <1>11 DEF CommitBeginFails, TypeOK, CallInv, SomeOwner
  <2>4. OneOwner'
    BY <1>11 DEF CommitBeginFails, TypeOK, CallInv, OneOwner, ProviderInv
  <2>5. ProviderInv'
    BY <1>11 DEF CommitBeginFails, TypeOK, CallInv, OneOwner, ProviderInv
  <2>. QED BY <2>1, <2>2, <2>3, <2>4, <2>5
<1>12. ASSUME NEW t \in Threads, CompleteLocked(t) PROVE IInv'
  <2>1. TypeOK' BY <1>12 DEF CompleteLocked, TypeOK, CallInv, ProviderInv
  <2>2. CallInv' BY <1>12 DEF CompleteLocked, TypeOK, CallInv
  <2>3. SomeOwner' BY <1>12 DEF CompleteLocked, TypeOK, CallInv, SomeOwner
  <2>4. OneOwner'
    BY <1>12 DEF CompleteLocked, TypeOK, CallInv, OneOwner, ProviderInv
  <2>5. ProviderInv'
    BY <1>12 DEF CompleteLocked, TypeOK, CallInv, OneOwner, ProviderInv
  <2>. QED BY <2>1, <2>2, <2>3, <2>4, <2>5
<1>13. ASSUME NEW t \in Threads, CompleteNotInFlight(t) PROVE IInv'
  <2>1. TypeOK' BY <1>13 DEF CompleteNotInFlight, TypeOK, CallInv, ProviderInv
  <2>2. CallInv' BY <1>13 DEF CompleteNotInFlight, TypeOK, CallInv
  <2>3. SomeOwner' BY <1>13 DEF CompleteNotInFlight, TypeOK, CallInv, SomeOwner
  <2>4. OneOwner'
    BY <1>13 DEF CompleteNotInFlight, TypeOK, CallInv, OneOwner, ProviderInv
  <2>5. ProviderInv'
    BY <1>13 DEF CompleteNotInFlight, TypeOK, CallInv, OneOwner, ProviderInv
  <2>. QED BY <2>1, <2>2, <2>3, <2>4, <2>5
<1>14. ASSUME NEW t \in Threads, CompleteMalformed(t) PROVE IInv'
  <2>1. TypeOK' BY <1>14 DEF CompleteMalformed, TypeOK, CallInv, ProviderInv
  <2>2. CallInv' BY <1>14 DEF CompleteMalformed, TypeOK, CallInv
  <2>3. SomeOwner' BY <1>14 DEF CompleteMalformed, TypeOK, CallInv, SomeOwner
  <2>4. OneOwner'
    BY <1>14 DEF CompleteMalformed, TypeOK, CallInv, OneOwner, ProviderInv
  <2>5. ProviderInv'
    BY <1>14 DEF CompleteMalformed, TypeOK, CallInv, OneOwner, ProviderInv
  <2>. QED BY <2>1, <2>2, <2>3, <2>4, <2>5
<1>15. ASSUME NEW t \in Threads, StartAuthSession(t) PROVE IInv'
  <2>1. TypeOK'
    <3>1. ctx[self[t]] \in Contexts
      BY <1>15 DEF StartAuthSession, TypeOK, CallInv
    <3>2. [ctx[self[t]] EXCEPT !.session = TRUE] \in Contexts
      BY <3>1 DEF Contexts
    <3>3. ctx' \in [Providers -> Contexts]
      BY <1>15, <3>2 DEF StartAuthSession, TypeOK
    <3>. HIDE DEF Contexts
    <3>. QED BY <1>15, <3>3 DEF StartAuthSession, TypeOK, CallInv
  <2>2. CallInv' BY <1>15 DEF StartAuthSession, TypeOK, CallInv
  <2>3. SomeOwner' BY <1>15 DEF StartAuthSession, TypeOK, CallInv, SomeOwner
  <2>4. OneOwner'
    BY <1>15 DEF StartAuthSession, TypeOK, CallInv, OneOwner, ProviderInv
  <2>5. ProviderInv'
    BY <1>15 DEF StartAuthSession, TypeOK, CallInv, OneOwner, ProviderInv
  <2>. QED BY <2>1, <2>2, <2>3, <2>4, <2>5
<1>16. ASSUME NEW t \in Threads, PolicySecret(t) PROVE IInv'
  <2>1. TypeOK' BY <1>16 DEF PolicySecret, TypeOK, CallInv, ProviderInv
  <2>2. CallInv' BY <1>16 DEF PolicySecret, TypeOK, CallInv
  <2>3. SomeOwner' BY <1>16 DEF PolicySecret, TypeOK, CallInv, SomeOwner
  <2>4. OneOwner'
    BY <1>16 DEF PolicySecret, TypeOK, CallInv, OneOwner, ProviderInv
  <2>5. ProviderInv'
    BY <1>16 DEF PolicySecret, TypeOK, CallInv, OneOwner, ProviderInv
  <2>. QED BY <2>1, <2>2, <2>3, <2>4, <2>5
<1>17. ASSUME NEW t \in Threads, ActivateCredential(t) PROVE IInv'
  <2>1. TypeOK'
    <3>1. ctx[self[t]] \in Contexts
      BY <1>17 DEF ActivateCredential, TypeOK, CallInv
    <3>2. \A b \in BOOLEAN : [ctx[self[t]] EXCEPT !.session = b] \in Contexts
      BY <3>1 DEF Contexts
    <3>3. PICK b \in BOOLEAN : ctx' = [ctx EXCEPT ![self[t]].session = b]
      BY <1>17 DEF ActivateCredential
    <3>. HIDE DEF Contexts
    <3>4. ctx' \in [Providers -> Contexts] BY <3>2, <3>3 DEF TypeOK
    <3>. QED BY <1>17, <3>4 DEF ActivateCredential, TypeOK, CallInv
  <2>2. CallInv' BY <1>17 DEF ActivateCredential, TypeOK, CallInv
  <2>3. SomeOwner' BY <1>17 DEF ActivateCredential, TypeOK, CallInv, SomeOwner
  <2>4. OneOwner'
    BY <1>17 DEF ActivateCredential, TypeOK, CallInv, OneOwner, ProviderInv
  <2>5. ProviderInv'
    BY <1>17 DEF ActivateCredential, TypeOK, CallInv, OneOwner, ProviderInv
  <2>. QED BY <2>1, <2>2, <2>3, <2>4, <2>5
<1>18. ASSUME NEW t \in Threads, ActivationFails(t) PROVE IInv'
  <2>1. TypeOK' BY <1>18 DEF ActivationFails, TypeOK, CallInv, ProviderInv
  <2>2. CallInv' BY <1>18 DEF ActivationFails, TypeOK, CallInv
  <2>3. SomeOwner' BY <1>18 DEF ActivationFails, TypeOK, CallInv, SomeOwner
  <2>4. OneOwner'
    BY <1>18 DEF ActivationFails, TypeOK, CallInv, OneOwner, ProviderInv
  <2>5. ProviderInv'
    <3>1. \A q \in Providers : ctx'[q].ak = ctx[q].ak
      BY <1>18 DEF ActivationFails, TypeOK, CallInv
    <3>2. \A u \in Threads : pc'[u] = "b_commit" => pc[u] = "b_commit"
      BY <1>18 DEF ActivationFails, TypeOK
    <3>3. UNCHANGED <<local, prov, akPub, inFlight, enrollBodies>>
      BY <1>18 DEF ActivationFails
    <3>. QED BY <3>1, <3>2, <3>3 DEF ProviderInv
  <2>. QED BY <2>1, <2>2, <2>3, <2>4, <2>5
<1>19. ASSUME NEW t \in Threads, AbandonActivation(t) PROVE IInv'
  <2>1. TypeOK' BY <1>19 DEF AbandonActivation, TypeOK, CallInv, ProviderInv
  <2>2. CallInv' BY <1>19 DEF AbandonActivation, TypeOK, CallInv
  <2>3. SomeOwner' BY <1>19 DEF AbandonActivation, TypeOK, CallInv, SomeOwner
  <2>4. OneOwner'
    BY <1>19 DEF AbandonActivation, TypeOK, CallInv, OneOwner, ProviderInv
  <2>5. ProviderInv'
    BY <1>19 DEF AbandonActivation, TypeOK, CallInv, OneOwner, ProviderInv
  <2>. QED BY <2>1, <2>2, <2>3, <2>4, <2>5
<1>20. ASSUME NEW t \in Threads, ProbeSlot(t) PROVE IInv'
  <2>1. TypeOK' BY <1>20 DEF ProbeSlot, TypeOK, CallInv, ProviderInv
  <2>2. CallInv' BY <1>20 DEF ProbeSlot, TypeOK, CallInv
  <2>3. SomeOwner' BY <1>20 DEF ProbeSlot, TypeOK, CallInv, SomeOwner
  <2>4. OneOwner'
    BY <1>20 DEF ProbeSlot, TypeOK, CallInv, OneOwner, ProviderInv
  <2>5. ProviderInv'
    BY <1>20 DEF ProbeSlot, TypeOK, CallInv, OneOwner, ProviderInv
  <2>. QED BY <2>1, <2>2, <2>3, <2>4, <2>5
<1>21. ASSUME NEW t \in Threads, ClearSlot(t) PROVE IInv'
  <2>1. TypeOK'
    <3>1. CASE UNCHANGED self
      BY <1>21, <3>1 DEF ClearSlot, TypeOK, CallInv, ProviderInv
    <3>2. CASE Goto(t, "c_clear", "c_unpersisted") /\ Leave(t)
      BY <1>21, <3>2 DEF ClearSlot, TypeOK, CallInv, ProviderInv
    <3>. QED BY <1>21, <3>1, <3>2 DEF ClearSlot
  <2>2. CallInv' BY <1>21 DEF ClearSlot, TypeOK, CallInv
  <2>3. SomeOwner' BY <1>21 DEF ClearSlot, TypeOK, CallInv, SomeOwner
  <2>4. OneOwner'
    BY <1>21 DEF ClearSlot, TypeOK, CallInv, OneOwner, ProviderInv
  <2>5. ProviderInv'
    BY <1>21 DEF ClearSlot, TypeOK, CallInv, OneOwner, ProviderInv
  <2>. QED BY <2>1, <2>2, <2>3, <2>4, <2>5
<1>22. ASSUME NEW t \in Threads, EvictControl(t) PROVE IInv'
  <2>1. TypeOK'
    <3>1. ctx[self[t]].ak \in Keys
      BY <1>22 DEF EvictControl, TypeOK, CallInv
    <3>2. slot' \in Keys \cup {NONE} /\ persisted' \subseteq Keys
      BY <1>22, <3>1 DEF EvictControl, TypeOK
    <3>3. /\ pc' \in [Threads -> Pcs]
          /\ self' \in [Threads -> Providers \cup {NONE}]
          /\ status' \in [Threads -> Statuses \cup {NONE}]
          /\ lock' \in [Clients -> Threads \cup {NONE}]
      BY <1>22 DEF EvictControl, TypeOK
    <3>. HIDE DEF Contexts, Pcs, Statuses
    <3>. QED BY <1>22, <3>2, <3>3 DEF EvictControl, TypeOK
  <2>2. CallInv' BY <1>22 DEF EvictControl, TypeOK, CallInv
  <2>3. SomeOwner' BY <1>22 DEF EvictControl, TypeOK, CallInv, SomeOwner
  <2>4. OneOwner'
    BY <1>22 DEF EvictControl, TypeOK, CallInv, OneOwner, ProviderInv
  <2>5. ProviderInv'
    BY <1>22 DEF EvictControl, TypeOK, CallInv, OneOwner, ProviderInv
  <2>. QED BY <2>1, <2>2, <2>3, <2>4, <2>5
<1>23. ASSUME NEW t \in Threads, PersistFails(t) PROVE IInv'
  <2>1. TypeOK' BY <1>23 DEF PersistFails, TypeOK, CallInv, ProviderInv
  <2>2. CallInv' BY <1>23 DEF PersistFails, TypeOK, CallInv
  <2>3. SomeOwner' BY <1>23 DEF PersistFails, TypeOK, CallInv, SomeOwner
  <2>4. OneOwner'
    BY <1>23 DEF PersistFails, TypeOK, CallInv, OneOwner, ProviderInv
  <2>5. ProviderInv'
    BY <1>23 DEF PersistFails, TypeOK, CallInv, OneOwner, ProviderInv
  <2>. QED BY <2>1, <2>2, <2>3, <2>4, <2>5
<1>24. ASSUME NEW t \in Threads, AbandonPersist(t) PROVE IInv'
  <2>1. TypeOK' BY <1>24 DEF AbandonPersist, TypeOK, CallInv, ProviderInv
  <2>2. CallInv' BY <1>24 DEF AbandonPersist, TypeOK, CallInv
  <2>3. SomeOwner' BY <1>24 DEF AbandonPersist, TypeOK, CallInv, SomeOwner
  <2>4. OneOwner'
    BY <1>24 DEF AbandonPersist, TypeOK, CallInv, OneOwner, ProviderInv
  <2>5. ProviderInv'
    BY <1>24 DEF AbandonPersist, TypeOK, CallInv, OneOwner, ProviderInv
  <2>. QED BY <2>1, <2>2, <2>3, <2>4, <2>5
<1>25. ASSUME NEW t \in Threads, EmitActivation(t) PROVE IInv'
  <2>1. TypeOK' BY <1>25 DEF EmitActivation, TypeOK, CallInv, ProviderInv
  <2>2. CallInv' BY <1>25 DEF EmitActivation, TypeOK, CallInv
  <2>3. SomeOwner'
    <3>1. local' = [local EXCEPT ![t] = NONE] /\ local[t] = NONE
      BY <1>25 DEF EmitActivation, CallInv
    <3>. QED BY <1>25, <3>1 DEF EmitActivation, TypeOK, SomeOwner
  <2>4. OneOwner'
    BY <1>25 DEF EmitActivation, TypeOK, CallInv, OneOwner, ProviderInv
  <2>5. ProviderInv'
    BY <1>25 DEF EmitActivation, TypeOK, CallInv, OneOwner, ProviderInv
  <2>. QED BY <2>1, <2>2, <2>3, <2>4, <2>5
<1>26. ASSUME NEW t \in Threads, RejectArguments(t) PROVE IInv'
  <2>1. TypeOK' BY <1>26 DEF RejectArguments, TypeOK, CallInv, ProviderInv
  <2>2. CallInv' BY <1>26 DEF RejectArguments, TypeOK, CallInv
  <2>3. SomeOwner' BY <1>26 DEF RejectArguments, TypeOK, CallInv, SomeOwner
  <2>4. OneOwner'
    BY <1>26 DEF RejectArguments, TypeOK, CallInv, OneOwner, ProviderInv
  <2>5. ProviderInv'
    BY <1>26 DEF RejectArguments, TypeOK, CallInv, OneOwner, ProviderInv
  <2>. QED BY <2>1, <2>2, <2>3, <2>4, <2>5
<1>27. ASSUME NEW t \in Threads, NEW c \in Clients,
              RootHeraldClient_EnrollBegin(t, c)
       PROVE  IInv'
  <2>1. TypeOK'
    BY <1>27 DEF RootHeraldClient_EnrollBegin, Enter, TypeOK, CallInv,
       ProviderInv
  <2>2. CallInv'
    BY <1>27 DEF RootHeraldClient_EnrollBegin, Enter, TypeOK, CallInv
  <2>3. SomeOwner'
    BY <1>27 DEF RootHeraldClient_EnrollBegin, Enter, TypeOK, CallInv,
       SomeOwner
  <2>4. OneOwner'
    BY <1>27 DEF RootHeraldClient_EnrollBegin, Enter, TypeOK, CallInv,
       OneOwner, ProviderInv
  <2>5. ProviderInv'
    BY <1>27 DEF RootHeraldClient_EnrollBegin, Enter, TypeOK, CallInv,
       OneOwner, ProviderInv
  <2>. QED BY <2>1, <2>2, <2>3, <2>4, <2>5
<1>28. ASSUME NEW t \in Threads, NEW c \in Clients, NEW ch,
              RootHeraldClient_EnrollComplete(t, c, ch)
       PROVE  IInv'
  <2>1. TypeOK'
    BY <1>28 DEF RootHeraldClient_EnrollComplete, Enter, TypeOK, CallInv,
       ProviderInv
  <2>2. CallInv'
    BY <1>28 DEF RootHeraldClient_EnrollComplete, Enter, TypeOK, CallInv
  <2>3. SomeOwner'
    BY <1>28 DEF RootHeraldClient_EnrollComplete, Enter, TypeOK, CallInv,
       SomeOwner
  <2>4. OneOwner'
    BY <1>28 DEF RootHeraldClient_EnrollComplete, Enter, TypeOK, CallInv,
       OneOwner, ProviderInv
  <2>5. ProviderInv'
    BY <1>28 DEF RootHeraldClient_EnrollComplete, Enter, TypeOK, CallInv,
       OneOwner, ProviderInv
  <2>. QED BY <2>1, <2>2, <2>3, <2>4, <2>5
<1>29. ASSUME NEW c \in Clients, RootHeraldClient_Create(c) PROVE IInv'
  <2>1. TypeOK'
    BY <1>29 DEF RootHeraldClient_Create, TypeOK, CallInv, ProviderInv
  <2>2. CallInv' BY <1>29 DEF RootHeraldClient_Create, TypeOK, CallInv
  <2>3. SomeOwner'
    BY <1>29 DEF RootHeraldClient_Create, TypeOK, CallInv, SomeOwner
  <2>4. OneOwner'
    BY <1>29 DEF RootHeraldClient_Create, TypeOK, CallInv, OneOwner,
       ProviderInv
  <2>5. ProviderInv'
    BY <1>29 DEF RootHeraldClient_Create, TypeOK, CallInv, OneOwner,
       ProviderInv
  <2>. QED BY <2>1, <2>2, <2>3, <2>4, <2>5
<1>30. ASSUME NEW c \in Clients, RootHeraldClient_Destroy(c) PROVE IInv'
  <2>1. TypeOK'
    BY <1>30 DEF RootHeraldClient_Destroy, TypeOK, CallInv, ProviderInv
  <2>2. CallInv' BY <1>30 DEF RootHeraldClient_Destroy, TypeOK, CallInv
  <2>3. SomeOwner'
    BY <1>30 DEF RootHeraldClient_Destroy, TypeOK, CallInv, SomeOwner
  <2>4. OneOwner'
    BY <1>30 DEF RootHeraldClient_Destroy, TypeOK, CallInv, OneOwner,
       ProviderInv
  <2>5. ProviderInv'
    BY <1>30 DEF RootHeraldClient_Destroy, TypeOK, CallInv, OneOwner,
       ProviderInv
  <2>. QED BY <2>1, <2>2, <2>3, <2>4, <2>5
<1>31. ASSUME NEW p \in Procs, Crash(p) PROVE IInv'
  <2>1. TypeOK'
    <3>1. /\ prov' \in [Providers -> {"free", "open", "ek", "ready"}]
          /\ akPub' \in [Providers -> Keys \cup {NONE}]
          /\ ctx' \in [Providers -> Contexts]
      BY <1>31 DEF Crash, TypeOK
    <3>2. /\ inFlight' \in [Procs -> Providers \cup {NONE}]
          /\ clients' \subseteq Clients
          /\ lock' \in [Clients -> Threads \cup {NONE}]
      BY <1>31 DEF Crash, TypeOK
    <3>3. /\ pc' \in [Threads -> Pcs]
          /\ client' \in [Threads -> Clients \cup {NONE}]
          /\ self' \in [Threads -> Providers \cup {NONE}]
          /\ local' \in [Threads -> Providers \cup {NONE}]
      BY <1>31 DEF Crash, TypeOK
    <3>4. /\ chal' \in [Threads -> Keys \cup {MALFORMED, NONE}]
          /\ status' \in [Threads -> Statuses \cup {NONE}]
          /\ emptied' \in [Threads -> BOOLEAN]
      BY <1>31 DEF Crash, TypeOK
    <3>5. UNCHANGED <<ownerKey, spent, slot, enrollBodies, activateBodies,
                      proved, persisted>>
      BY <1>31 DEF Crash
    <3>. QED BY <3>1, <3>2, <3>3, <3>4, <3>5 DEF TypeOK
  <2>2. CallInv' BY <1>31 DEF Crash, TypeOK, CallInv
  <2>3. SomeOwner' BY <1>31 DEF Crash, TypeOK, CallInv, SomeOwner
  <2>4. OneOwner' BY <1>31 DEF Crash, TypeOK, CallInv, OneOwner, ProviderInv
  <2>5. ProviderInv'
    <3>. DEFINE D == {inFlight[p]} \cup
                     {local[t] : t \in {u \in Threads : ThreadProc[u] = p}}
    <3>1. \A t \in Threads : local'[t] # NONE =>
            local'[t] = local[t] /\ local[t] \in Providers \ D
      BY <1>31 DEF Crash, TypeOK, CallInv, OneOwner
    <3>2. \A r \in Procs : inFlight'[r] # NONE =>
            inFlight'[r] = inFlight[r] /\ inFlight[r] \in Providers \ D
      BY <1>31 DEF Crash, TypeOK, CallInv, OneOwner
    <3>3. \A q \in Providers \ D :
            prov'[q] = prov[q] /\ akPub'[q] = akPub[q] /\ ctx'[q] = ctx[q]
      BY <1>31 DEF Crash
    <3>4. \A q \in Providers \cap D : ctx'[q].ak = NONE
      BY <1>31 DEF Crash
    <3>5. \A t \in Threads :
            pc'[t] = "b_commit" => pc[t] = "b_commit" /\ local'[t] # NONE
      BY <1>31 DEF Crash, TypeOK, CallInv
    <3>6. enrollBodies' = enrollBodies
      BY <1>31 DEF Crash
    <3>. HIDE DEF D
    <3>. QED BY <3>1, <3>2, <3>3, <3>4, <3>5, <3>6 DEF ProviderInv
  <2>. QED BY <2>1, <2>2, <2>3, <2>4, <2>5
<1>32. ASSUME OwnerClear PROVE IInv'
  <2>1. TypeOK' BY <1>32 DEF OwnerClear, TypeOK, CallInv, ProviderInv
  <2>2. CallInv' BY <1>32 DEF OwnerClear, TypeOK, CallInv
  <2>3. SomeOwner' BY <1>32 DEF OwnerClear, TypeOK, CallInv, SomeOwner
  <2>4. OneOwner'
    BY <1>32 DEF OwnerClear, TypeOK, CallInv, OneOwner, ProviderInv
  <2>5. ProviderInv'
    BY <1>32 DEF OwnerClear, TypeOK, CallInv, OneOwner, ProviderInv
  <2>. QED BY <2>1, <2>2, <2>3, <2>4, <2>5
<1>33. ASSUME ForeignEvict PROVE IInv'
  <2>1. TypeOK' BY <1>33 DEF ForeignEvict, TypeOK, CallInv, ProviderInv
  <2>2. CallInv' BY <1>33 DEF ForeignEvict, TypeOK, CallInv
  <2>3. SomeOwner' BY <1>33 DEF ForeignEvict, TypeOK, CallInv, SomeOwner
  <2>4. OneOwner'
    BY <1>33 DEF ForeignEvict, TypeOK, CallInv, OneOwner, ProviderInv
  <2>5. ProviderInv'
    BY <1>33 DEF ForeignEvict, TypeOK, CallInv, OneOwner, ProviderInv
  <2>. QED BY <2>1, <2>2, <2>3, <2>4, <2>5
<1>34. ASSUME UNCHANGED vars PROVE IInv'
  <2>1. TypeOK' BY <1>34 DEF vars, TypeOK, CallInv, ProviderInv
  <2>2. CallInv' BY <1>34 DEF vars, TypeOK, CallInv
  <2>3. SomeOwner' BY <1>34 DEF vars, TypeOK, CallInv, SomeOwner
  <2>4. OneOwner' BY <1>34 DEF vars, TypeOK, CallInv, OneOwner, ProviderInv
  <2>5. ProviderInv' BY <1>34 DEF vars, TypeOK, CallInv, OneOwner, ProviderInv
  <2>. QED BY <2>1, <2>2, <2>3, <2>4, <2>5
<1>. QED
  BY <1>1, <1>2, <1>3, <1>4, <1>5, <1>6, <1>7, <1>8, <1>9, <1>10, <1>11,
     <1>12, <1>13, <1>14, <1>15, <1>16, <1>17, <1>18, <1>19, <1>20, <1>21,
     <1>22, <1>23, <1>24, <1>25, <1>26, <1>27, <1>28, <1>29, <1>30, <1>31,
     <1>32, <1>33, <1>34 DEF Next, Call, Step, BeginStep, CompleteStep

\* The invariant holds when the machine starts.
LEMMA IInvInit == Init => IInv
BY DEF Init, IInv, TypeOK, CallInv, SomeOwner, OneOwner, ProviderInv

\* The inductive invariant holds in every reachable state.
THEOREM IInvAlways == Spec => []IInv
BY IInvInit, IInvNext, PTL DEF Spec

\* Every step of every thread, process and administrator keeps the state well
\* typed: in particular no enroll body is emitted without a public area.
THEOREM TypeCorrect == Spec => []TypeOK
<1>1. IInv => TypeOK
  BY DEF IInv
<1>. QED BY <1>1, IInvAlways, PTL

\* A provider, and with it a TBS context, has exactly one owner.
THEOREM ProvidersHaveOneOwner == Spec => []ProvidersOwned
<1>1. IInv => ProvidersOwned
  BY DEF IInv, SomeOwner, OneOwner, ProvidersOwned
<1>. QED BY <1>1, IInvAlways, PTL

-----------------------------------------------------------------------------
(* One client per process *)

\* Two threads of a process are never both past the lock.
LEMMA MutexExcludes ==
  ASSUME OneClientPerProcess, IInv,
         NEW t \in Threads, NEW u \in Threads, t # u,
         ThreadProc[t] = ThreadProc[u],
         pc[t] \in LockedPcs
  PROVE  pc[u] \notin LockedPcs
BY DEF OneClientPerProcess, IInv, CallInv

\* The part of the invariant that rests on the mutex is kept by every step.  An
\* action of another thread of the process cannot touch g_enrollProvider while
\* this one is past the lock.
LEMMA SafeInvNext ==
  ASSUME OneClientPerProcess, IInv, SafeInv, [Next]_vars
  PROVE  SafeInv'
<1>. USE DEF IInv, SafeInv, ProvedPcs
<1>0. \A t, u \in Threads : t # u /\ ThreadProc[t] = ThreadProc[u]
                              /\ pc[t] \in LockedPcs => pc[u] \notin LockedPcs
  BY MutexExcludes
<1>1. ASSUME NEW t \in Threads, BeginLocked(t) PROVE SafeInv'
  <2>1. MutexInv'
    BY <1>0, <1>1 DEF BeginLocked, TypeOK, CallInv, OneOwner, ProviderInv,
       MutexInv
  <2>2. KeyChain'
    BY <1>1 DEF BeginLocked, TypeOK, CallInv, ProviderInv, MutexInv, KeyChain
  <2>. QED BY <2>1, <2>2
<1>2. ASSUME NEW t \in Threads, BeginNotElevated(t) PROVE SafeInv'
  <2>1. MutexInv'
    BY <1>0, <1>2 DEF BeginNotElevated, TypeOK, CallInv, OneOwner,
       ProviderInv, MutexInv
  <2>2. KeyChain'
    BY <1>2 DEF BeginNotElevated, TypeOK, CallInv, ProviderInv, MutexInv,
       KeyChain
  <2>. QED BY <2>1, <2>2
<1>3. ASSUME NEW t \in Threads, GatherEk(t) PROVE SafeInv'
  <2>1. MutexInv'
    BY <1>0, <1>3 DEF GatherEk, TypeOK, CallInv, OneOwner, ProviderInv,
       MutexInv
  <2>2. KeyChain'
    BY <1>3 DEF GatherEk, TypeOK, CallInv, ProviderInv, MutexInv, KeyChain
  <2>. QED BY <2>1, <2>2
<1>4. ASSUME NEW t \in Threads, GatherEkFails(t) PROVE SafeInv'
  <2>1. MutexInv'
    BY <1>0, <1>4 DEF GatherEkFails, TypeOK, CallInv, OneOwner, ProviderInv,
       MutexInv
  <2>2. KeyChain'
    BY <1>4 DEF GatherEkFails, TypeOK, CallInv, ProviderInv, MutexInv,
       KeyChain
  <2>. QED BY <2>1, <2>2
<1>5. ASSUME NEW t \in Threads, OpenProvider(t) PROVE SafeInv'
  <2>1. MutexInv'
    BY <1>0, <1>5 DEF OpenProvider, TypeOK, CallInv, OneOwner, ProviderInv,
       MutexInv
  <2>2. KeyChain'
    BY <1>5 DEF OpenProvider, TypeOK, CallInv, ProviderInv, MutexInv, KeyChain
  <2>. QED BY <2>1, <2>2
<1>6. ASSUME NEW t \in Threads, OpenProviderFails(t) PROVE SafeInv'
  <2>1. MutexInv'
    BY <1>0, <1>6 DEF OpenProviderFails, TypeOK, CallInv, OneOwner,
       ProviderInv, MutexInv
  <2>2. KeyChain'
    BY <1>6 DEF OpenProviderFails, TypeOK, CallInv, ProviderInv, MutexInv,
       KeyChain
  <2>. QED BY <2>1, <2>2
<1>7. ASSUME NEW t \in Threads, CreateEk(t) PROVE SafeInv'
  <2>1. MutexInv'
    BY <1>0, <1>7 DEF CreateEk, TypeOK, CallInv, OneOwner, ProviderInv,
       MutexInv
  <2>2. KeyChain'
    BY <1>7 DEF CreateEk, TypeOK, CallInv, ProviderInv, MutexInv, KeyChain
  <2>. QED BY <2>1, <2>2
<1>8. ASSUME NEW t \in Threads, CreateAndLoadAk(t) PROVE SafeInv'
  <2>1. MutexInv'
    BY <1>0, <1>8 DEF CreateAndLoadAk, TypeOK, CallInv, OneOwner, ProviderInv,
       MutexInv
  <2>2. KeyChain'
    BY <1>8 DEF CreateAndLoadAk, TypeOK, CallInv, ProviderInv, MutexInv,
       KeyChain
  <2>. QED BY <2>1, <2>2
<1>9. ASSUME NEW t \in Threads, CreateAkFails(t) PROVE SafeInv'
  <2>1. MutexInv'
    BY <1>0, <1>9 DEF CreateAkFails, TypeOK, CallInv, OneOwner, ProviderInv,
       MutexInv
  <2>2. KeyChain'
    BY <1>9 DEF CreateAkFails, TypeOK, CallInv, ProviderInv, MutexInv,
       KeyChain
  <2>. QED BY <2>1, <2>2
<1>10. ASSUME NEW t \in Threads, CommitBegin(t) PROVE SafeInv'
  <2>1. MutexInv'
    BY <1>0, <1>10 DEF CommitBegin, TypeOK, CallInv, OneOwner, ProviderInv,
       MutexInv
  <2>2. KeyChain'
    BY <1>10 DEF CommitBegin, TypeOK, CallInv, ProviderInv, MutexInv, KeyChain
  <2>. QED BY <2>1, <2>2
<1>11. ASSUME NEW t \in Threads, CommitBeginFails(t) PROVE SafeInv'
  <2>1. MutexInv'
    BY <1>0, <1>11 DEF CommitBeginFails, TypeOK, CallInv, OneOwner,
       ProviderInv, MutexInv
  <2>2. KeyChain'
    BY <1>11 DEF CommitBeginFails, TypeOK, CallInv, ProviderInv, MutexInv,
       KeyChain
  <2>. QED BY <2>1, <2>2
<1>12. ASSUME NEW t \in Threads, CompleteLocked(t) PROVE SafeInv'
  <2>1. MutexInv'
    BY <1>0, <1>12 DEF CompleteLocked, TypeOK, CallInv, OneOwner, ProviderInv,
       MutexInv
  <2>2. KeyChain'
    BY <1>12 DEF CompleteLocked, TypeOK, CallInv, ProviderInv, MutexInv,
       KeyChain
  <2>. QED BY <2>1, <2>2
<1>13. ASSUME NEW t \in Threads, CompleteNotInFlight(t) PROVE SafeInv'
  <2>1. MutexInv'
    BY <1>0, <1>13 DEF CompleteNotInFlight, TypeOK, CallInv, OneOwner,
       ProviderInv, MutexInv
  <2>2. KeyChain'
    BY <1>13 DEF CompleteNotInFlight, TypeOK, CallInv, ProviderInv, MutexInv,
       KeyChain
  <2>. QED BY <2>1, <2>2
<1>14. ASSUME NEW t \in Threads, CompleteMalformed(t) PROVE SafeInv'
  <2>1. MutexInv'
    BY <1>0, <1>14 DEF CompleteMalformed, TypeOK, CallInv, OneOwner,
       ProviderInv, MutexInv
  <2>2. KeyChain'
    BY <1>14 DEF CompleteMalformed, TypeOK, CallInv, ProviderInv, MutexInv,
       KeyChain
  <2>. QED BY <2>1, <2>2
<1>15. ASSUME NEW t \in Threads, StartAuthSession(t) PROVE SafeInv'
  <2>1. MutexInv'
    BY <1>0, <1>15 DEF StartAuthSession, TypeOK, CallInv, OneOwner,
       ProviderInv, MutexInv
  <2>2. KeyChain'
    BY <1>15 DEF StartAuthSession, TypeOK, CallInv, ProviderInv, MutexInv,
       KeyChain
  <2>. QED BY <2>1, <2>2
<1>16. ASSUME NEW t \in Threads, PolicySecret(t) PROVE SafeInv'
  <2>1. MutexInv'
    BY <1>0, <1>16 DEF PolicySecret, TypeOK, CallInv, OneOwner, ProviderInv,
       MutexInv
  <2>2. KeyChain'
    BY <1>16 DEF PolicySecret, TypeOK, CallInv, ProviderInv, MutexInv,
       KeyChain
  <2>. QED BY <2>1, <2>2
<1>17. ASSUME NEW t \in Threads, ActivateCredential(t) PROVE SafeInv'
  <2>1. MutexInv'
    BY <1>0, <1>17 DEF ActivateCredential, TypeOK, CallInv, OneOwner,
       ProviderInv, MutexInv
  <2>2. KeyChain'
    BY <1>17 DEF ActivateCredential, TypeOK, CallInv, ProviderInv, MutexInv,
       KeyChain
  <2>. QED BY <2>1, <2>2
<1>18. ASSUME NEW t \in Threads, ActivationFails(t) PROVE SafeInv'
  <2>1. MutexInv'
    BY <1>0, <1>18 DEF ActivationFails, TypeOK, CallInv, OneOwner,
       ProviderInv, MutexInv
  <2>2. KeyChain'
    BY <1>18 DEF ActivationFails, TypeOK, CallInv, ProviderInv, MutexInv,
       KeyChain
  <2>. QED BY <2>1, <2>2
<1>19. ASSUME NEW t \in Threads, AbandonActivation(t) PROVE SafeInv'
  <2>1. MutexInv'
    BY <1>0, <1>19 DEF AbandonActivation, TypeOK, CallInv, OneOwner,
       ProviderInv, MutexInv
  <2>2. KeyChain'
    BY <1>19 DEF AbandonActivation, TypeOK, CallInv, ProviderInv, MutexInv,
       KeyChain
  <2>. QED BY <2>1, <2>2
<1>20. ASSUME NEW t \in Threads, ProbeSlot(t) PROVE SafeInv'
  <2>1. MutexInv'
    BY <1>0, <1>20 DEF ProbeSlot, TypeOK, CallInv, OneOwner, ProviderInv,
       MutexInv
  <2>2. KeyChain'
    BY <1>20 DEF ProbeSlot, TypeOK, CallInv, ProviderInv, MutexInv, KeyChain
  <2>. QED BY <2>1, <2>2
<1>21. ASSUME NEW t \in Threads, ClearSlot(t) PROVE SafeInv'
  <2>1. MutexInv'
    BY <1>0, <1>21 DEF ClearSlot, TypeOK, CallInv, OneOwner, ProviderInv,
       MutexInv
  <2>2. KeyChain'
    BY <1>21 DEF ClearSlot, TypeOK, CallInv, ProviderInv, MutexInv, KeyChain
  <2>. QED BY <2>1, <2>2
<1>22. ASSUME NEW t \in Threads, EvictControl(t) PROVE SafeInv'
  <2>1. MutexInv'
    BY <1>0, <1>22 DEF EvictControl, TypeOK, CallInv, OneOwner, ProviderInv,
       MutexInv
  <2>2. KeyChain'
    BY <1>22 DEF EvictControl, TypeOK, CallInv, ProviderInv, MutexInv,
       KeyChain
  <2>. QED BY <2>1, <2>2
<1>23. ASSUME NEW t \in Threads, PersistFails(t) PROVE SafeInv'
  <2>1. MutexInv'
    BY <1>0, <1>23 DEF PersistFails, TypeOK, CallInv, OneOwner, ProviderInv,
       MutexInv
  <2>2. KeyChain'
    BY <1>23 DEF PersistFails, TypeOK, CallInv, ProviderInv, MutexInv,
       KeyChain
  <2>. QED BY <2>1, <2>2
<1>24. ASSUME NEW t \in Threads, AbandonPersist(t) PROVE SafeInv'
  <2>1. MutexInv'
    BY <1>0, <1>24 DEF AbandonPersist, TypeOK, CallInv, OneOwner, ProviderInv,
       MutexInv
  <2>2. KeyChain'
    BY <1>24 DEF AbandonPersist, TypeOK, CallInv, ProviderInv, MutexInv,
       KeyChain
  <2>. QED BY <2>1, <2>2
<1>25. ASSUME NEW t \in Threads, EmitActivation(t) PROVE SafeInv'
  <2>1. MutexInv'
    BY <1>0, <1>25 DEF EmitActivation, TypeOK, CallInv, OneOwner, ProviderInv,
       MutexInv
  <2>2. KeyChain'
    BY <1>25 DEF EmitActivation, TypeOK, CallInv, ProviderInv, MutexInv,
       KeyChain
  <2>. QED BY <2>1, <2>2
<1>26. ASSUME NEW t \in Threads, RejectArguments(t) PROVE SafeInv'
  <2>1. MutexInv'
    BY <1>0, <1>26 DEF RejectArguments, TypeOK, CallInv, OneOwner,
       ProviderInv, MutexInv
  <2>2. KeyChain'
    BY <1>26 DEF RejectArguments, TypeOK, CallInv, ProviderInv, MutexInv,
       KeyChain
  <2>. QED BY <2>1, <2>2
<1>27. ASSUME NEW t \in Threads, NEW c \in Clients,
              RootHeraldClient_EnrollBegin(t, c)
       PROVE  SafeInv'
  <2>1. MutexInv'
    BY <1>0, <1>27 DEF RootHeraldClient_EnrollBegin, Enter, TypeOK, CallInv,
       OneOwner, ProviderInv, MutexInv
  <2>2. KeyChain'
    BY <1>27 DEF RootHeraldClient_EnrollBegin, Enter, TypeOK, CallInv,
       ProviderInv, MutexInv, KeyChain
  <2>. QED BY <2>1, <2>2
<1>28. ASSUME NEW t \in Threads, NEW c \in Clients, NEW ch,
              RootHeraldClient_EnrollComplete(t, c, ch)
       PROVE  SafeInv'
  <2>1. MutexInv'
    BY <1>0, <1>28 DEF RootHeraldClient_EnrollComplete, Enter, TypeOK,
       CallInv, OneOwner, ProviderInv, MutexInv
  <2>2. KeyChain'
    BY <1>28 DEF RootHeraldClient_EnrollComplete, Enter, TypeOK, CallInv,
       ProviderInv, MutexInv, KeyChain
  <2>. QED BY <2>1, <2>2
<1>29. ASSUME NEW c \in Clients, RootHeraldClient_Create(c) PROVE SafeInv'
  <2>1. MutexInv'
    BY <1>0, <1>29 DEF RootHeraldClient_Create, TypeOK, CallInv, OneOwner,
       ProviderInv, MutexInv
  <2>2. KeyChain'
    BY <1>29 DEF RootHeraldClient_Create, TypeOK, CallInv, ProviderInv,
       MutexInv, KeyChain
  <2>. QED BY <2>1, <2>2
<1>30. ASSUME NEW c \in Clients, RootHeraldClient_Destroy(c) PROVE SafeInv'
  <2>1. MutexInv'
    BY <1>0, <1>30 DEF RootHeraldClient_Destroy, TypeOK, CallInv, OneOwner,
       ProviderInv, MutexInv
  <2>2. KeyChain'
    BY <1>30 DEF RootHeraldClient_Destroy, TypeOK, CallInv, ProviderInv,
       MutexInv, KeyChain
  <2>. QED BY <2>1, <2>2
<1>31. ASSUME NEW p \in Procs, Crash(p) PROVE SafeInv'
  <2>1. MutexInv'
    BY <1>0, <1>31 DEF Crash, TypeOK, CallInv, OneOwner, ProviderInv, MutexInv
  <2>2. KeyChain'
    BY <1>31 DEF Crash, TypeOK, CallInv, ProviderInv, MutexInv, KeyChain
  <2>. QED BY <2>1, <2>2
<1>32. ASSUME OwnerClear PROVE SafeInv'
  <2>1. MutexInv'
    BY <1>0, <1>32 DEF OwnerClear, TypeOK, CallInv, OneOwner, ProviderInv,
       MutexInv
  <2>2. KeyChain'
    BY <1>32 DEF OwnerClear, TypeOK, CallInv, ProviderInv, MutexInv, KeyChain
  <2>. QED BY <2>1, <2>2
<1>33. ASSUME ForeignEvict PROVE SafeInv'
  <2>1. MutexInv'
    BY <1>0, <1>33 DEF ForeignEvict, TypeOK, CallInv, OneOwner, ProviderInv,
       MutexInv
  <2>2. KeyChain'
    BY <1>33 DEF ForeignEvict, TypeOK, CallInv, ProviderInv, MutexInv,
       KeyChain
  <2>. QED BY <2>1, <2>2
<1>34. ASSUME UNCHANGED vars PROVE SafeInv'
  <2>1. MutexInv'
    BY <1>0, <1>34 DEF vars, TypeOK, CallInv, OneOwner, ProviderInv, MutexInv
  <2>2. KeyChain'
    BY <1>34 DEF vars, TypeOK, CallInv, ProviderInv, MutexInv, KeyChain
  <2>. QED BY <2>1, <2>2
<1>. QED
  BY <1>1, <1>2, <1>3, <1>4, <1>5, <1>6, <1>7, <1>8, <1>9, <1>10, <1>11,
     <1>12, <1>13, <1>14, <1>15, <1>16, <1>17, <1>18, <1>19, <1>20, <1>21,
     <1>22, <1>23, <1>24, <1>25, <1>26, <1>27, <1>28, <1>29, <1>30, <1>31,
     <1>32, <1>33, <1>34 DEF Next, Call, Step, BeginStep, CompleteStep

\* It holds when the machine starts.
LEMMA SafeInvInit == Init => SafeInv
BY DEF Init, SafeInv, MutexInv, KeyChain, ProvedPcs

\* With one client per process it holds in every reachable state.
THEOREM SafeInvAlways ==
  ASSUME OneClientPerProcess
  PROVE  Spec => []SafeInv
<1>1. IInv /\ SafeInv /\ [Next]_vars => SafeInv'
  BY SafeInvNext
<1>. QED BY <1>1, SafeInvInit, IInvAlways, PTL DEF Spec

\* When all threads of a process share one client, the mutex of that client
\* protects g_enrollProvider although it is a global: no provider is destroyed
\* under a running method, and none is called through a null pointer.
THEOREM ProviderOutlivesItsMethods ==
  ASSUME OneClientPerProcess
  PROVE  Spec => []NoUseAfterFree
<1>1. IInv /\ SafeInv => NoUseAfterFree
  BY DEF IInv, SafeInv, CallInv, MutexInv, NoUseAfterFree
<1>. QED BY <1>1, IInvAlways, SafeInvAlways, PTL

\* The server is told of an activation only for a key that was stored after it
\* was proved after it was announced.
THEOREM KeysFollowTheChain ==
  ASSUME OneClientPerProcess
  PROVE  Spec => []KeyChain
<1>1. SafeInv => KeyChain
  BY DEF SafeInv
<1>. QED BY <1>1, SafeInvAlways, PTL

-----------------------------------------------------------------------------
(* Refinement *)

\* Every step of Enrollment is a step of AkSlot or leaves the slot alone.
LEMMA SlotStep ==
  ASSUME OneClientPerProcess, IInv, SafeInv, [Next]_vars
  PROVE  [Slot!SlotNext]_Slot!slotVars
<1>. USE DEF IInv, SafeInv, Slot!slotVars, Slot!SlotNext, Slot!Prove, Slot!Persist,
             Slot!Vacate
<1>1. ASSUME NEW t \in Threads, ActivateCredential(t) PROVE Slot!SlotNext
  BY <1>1 DEF ActivateCredential, TypeOK, CallInv
<1>2. ASSUME NEW t \in Threads, ClearSlot(t) PROVE Slot!SlotNext
  BY <1>2 DEF ClearSlot
<1>3. ASSUME NEW t \in Threads, EvictControl(t) PROVE Slot!SlotNext
  BY <1>3 DEF EvictControl, TypeOK, CallInv, ProviderInv, MutexInv, ProvedPcs
<1>4. ASSUME OwnerClear \/ ForeignEvict PROVE [Slot!SlotNext]_Slot!slotVars
  BY <1>4 DEF OwnerClear, ForeignEvict
<1>5. ASSUME NEW t \in Threads, BeginStep(t) PROVE UNCHANGED <<slot, proved>>
  BY <1>5 DEF BeginStep, BeginLocked, BeginNotElevated, GatherEk, GatherEkFails,
     OpenProvider, OpenProviderFails, CreateEk, CreateAndLoadAk, CreateAkFails,
     CommitBegin, CommitBeginFails
<1>6. ASSUME NEW t \in Threads, CompleteStep(t),
             ~(ActivateCredential(t) \/ ClearSlot(t) \/ EvictControl(t))
      PROVE  UNCHANGED <<slot, proved>>
  BY <1>6 DEF CompleteStep, CompleteLocked, CompleteNotInFlight,
     CompleteMalformed, StartAuthSession, PolicySecret, ActivationFails,
     AbandonActivation, ProbeSlot, PersistFails, AbandonPersist, EmitActivation
<1>7. ASSUME NEW t \in Threads, Call(t) PROVE UNCHANGED <<slot, proved>>
  BY <1>7 DEF Call, RejectArguments, RootHeraldClient_EnrollBegin,
     RootHeraldClient_EnrollComplete, Enter
<1>8. ASSUME NEW c \in Clients,
             RootHeraldClient_Create(c) \/ RootHeraldClient_Destroy(c)
      PROVE  UNCHANGED <<slot, proved>>
  BY <1>8 DEF RootHeraldClient_Create, RootHeraldClient_Destroy
<1>9. ASSUME NEW p \in Procs, Crash(p) PROVE UNCHANGED <<slot, proved>>
  BY <1>9 DEF Crash
<1>10. CASE UNCHANGED vars
  BY <1>10 DEF vars
<1>. QED
  BY <1>1, <1>2, <1>3, <1>4, <1>5, <1>6, <1>7, <1>8, <1>9, <1>10 DEF Next, Step

\* Enrollment implements AkSlot, so whatever holds of the slot there holds for
\* every interleaving of calls, processes and failures.
THEOREM EnrollmentImplementsAkSlot ==
  ASSUME OneClientPerProcess
  PROVE  Spec => ImplementsAkSlot
<1>1. Init => Slot!SlotInit
  BY DEF Init, Slot!SlotInit
<1>2. IInv /\ SafeInv /\ [Next]_vars => [Slot!SlotNext]_Slot!slotVars
  BY SlotStep
<1>. QED
  BY <1>1, <1>2, IInvAlways, SafeInvAlways, PTL
     DEF Spec, ImplementsAkSlot, Slot!SlotSpec

-----------------------------------------------------------------------------
(* What a call tells its caller *)

\* A call that has emptied the slot and not refilled it is still in PersistAk,
\* or has returned AK_FAILED.
EmptiedInv ==
  \A t \in Threads : emptied[t] =>
    \/ pc[t] \in {"c_evict", "c_unpersisted"}
    \/ pc[t] = "idle" /\ status[t] = "AK_FAILED"

\* Kept by every step, whoever shares a client or a process.
LEMMA EmptiedInvNext ==
  ASSUME IInv, EmptiedInv, [Next]_vars
  PROVE  EmptiedInv'
<1>. USE DEF IInv, EmptiedInv, TypeOK
<1>1. ASSUME NEW t \in Threads, ClearSlot(t) PROVE EmptiedInv'
  BY <1>1 DEF ClearSlot
<1>2. ASSUME NEW t \in Threads, EvictControl(t) PROVE EmptiedInv'
  BY <1>2 DEF EvictControl
<1>3. ASSUME NEW t \in Threads, PersistFails(t) PROVE EmptiedInv'
  BY <1>3 DEF PersistFails
<1>4. ASSUME NEW t \in Threads, AbandonPersist(t) PROVE EmptiedInv'
  BY <1>4 DEF AbandonPersist
<1>5. ASSUME NEW t \in Threads, Call(t) PROVE EmptiedInv'
  BY <1>5 DEF Call, RejectArguments, RootHeraldClient_EnrollBegin,
     RootHeraldClient_EnrollComplete, Enter
<1>6. ASSUME NEW t \in Threads, BeginStep(t)
      PROVE  /\ ~emptied[t] /\ emptied' = emptied
             /\ \A u \in Threads \ {t} : pc'[u] = pc[u] /\ status'[u] = status[u]
  BY <1>6 DEF BeginStep, BeginLocked, BeginNotElevated, GatherEk, GatherEkFails,
     OpenProvider, OpenProviderFails, CreateEk, CreateAndLoadAk, CreateAkFails,
     CommitBegin, CommitBeginFails
<1>7. ASSUME NEW t \in Threads,
             \/ CompleteLocked(t) \/ CompleteNotInFlight(t)
             \/ CompleteMalformed(t) \/ StartAuthSession(t) \/ PolicySecret(t)
             \/ ActivateCredential(t) \/ ActivationFails(t)
             \/ AbandonActivation(t) \/ ProbeSlot(t) \/ EmitActivation(t)
      PROVE  /\ ~emptied[t] /\ emptied' = emptied
             /\ \A u \in Threads \ {t} : pc'[u] = pc[u] /\ status'[u] = status[u]
  BY <1>7 DEF CompleteLocked, CompleteNotInFlight, CompleteMalformed,
     StartAuthSession, PolicySecret, ActivateCredential, ActivationFails,
     AbandonActivation, ProbeSlot, EmitActivation
<1>8. ASSUME NEW p \in Procs, Crash(p) PROVE EmptiedInv'
  BY <1>8 DEF Crash
<1>9. ASSUME UNCHANGED <<pc, status, emptied>> PROVE EmptiedInv'
  BY <1>9
<1>. QED
  BY <1>1, <1>2, <1>3, <1>4, <1>5, <1>6, <1>7, <1>8, <1>9
     DEF Next, Step, CompleteStep, RootHeraldClient_Create,
         RootHeraldClient_Destroy, OwnerClear, ForeignEvict, vars

\* A caller who is not told AK_FAILED has not lost the device's key to its call,
\* although PersistAk empties the slot before it fills it.
THEOREM LostKeysAreReported == Spec => []LostKeyIsReported
<1>1. Init => EmptiedInv
  BY DEF Init, EmptiedInv
<1>2. IInv /\ EmptiedInv /\ [Next]_vars => EmptiedInv'
  BY EmptiedInvNext
<1>3. EmptiedInv => LostKeyIsReported
  BY DEF EmptiedInv, LostKeyIsReported
<1>. QED BY <1>1, <1>2, <1>3, IInvAlways, PTL DEF Spec

\* A challenge that reached the TPM is used up; a call that fails before that
\* leaves the enrollment in flight as it was.
THEOREM ChallengesAreSingleUse == Spec => ChallengeSingleUse
<1>. DEFINE SingleUse(t) ==
       pc[t] # "idle" /\ pc'[t] = "idle" /\ status'[t] # NONE =>
       IF pc[t] \in CompletePcs
       THEN inFlight'[ThreadProc[t]] = NONE
       ELSE status'[t] # "OK" => inFlight' = inFlight
<1>1. ASSUME IInv, Next, NEW t \in Threads PROVE SingleUse(t)
  <2>. USE <1>1 DEF IInv, TypeOK
  <2>1. ASSUME NEW u \in Threads, Call(u) PROVE SingleUse(t)
    BY <2>1 DEF Call, RejectArguments, RootHeraldClient_EnrollBegin,
       RootHeraldClient_EnrollComplete, Enter
  <2>2. ASSUME NEW u \in Threads, BeginStep(u) PROVE SingleUse(t)
    BY <2>2 DEF BeginStep, BeginLocked, BeginNotElevated, GatherEk,
       GatherEkFails, OpenProvider, OpenProviderFails, CreateEk,
       CreateAndLoadAk, CreateAkFails, CommitBegin, CommitBeginFails
  <2>3. ASSUME NEW u \in Threads, CompleteStep(u) PROVE SingleUse(t)
    BY <2>3 DEF CompleteStep, CompleteLocked, CompleteNotInFlight,
       CompleteMalformed, StartAuthSession, PolicySecret, ActivateCredential,
       ActivationFails, AbandonActivation, ProbeSlot, ClearSlot, EvictControl,
       PersistFails, AbandonPersist, EmitActivation
  <2>4. ASSUME NEW p \in Procs, Crash(p) PROVE SingleUse(t)
    BY <2>4 DEF Crash
  <2>5. ASSUME UNCHANGED <<pc, status>> PROVE SingleUse(t)
    BY <2>5
  <2>. QED
    BY <1>1, <2>1, <2>2, <2>3, <2>4, <2>5
       DEF Next, Step, RootHeraldClient_Create, RootHeraldClient_Destroy,
           OwnerClear, ForeignEvict
<1>2. IInv /\ [Next]_vars => [\A t \in Threads : SingleUse(t)]_vars
  BY <1>1
<1>. QED BY <1>2, IInvAlways, PTL DEF Spec, ChallengeSingleUse

-----------------------------------------------------------------------------
(* Policy sessions *)

\* A step that opens no session and leaves alone who is in EnrollComplete and
\* what is in flight.
LEMMA SessionsUntouched ==
  ASSUME SessionsScoped,
         \A q \in Providers : ctx'[q].session => ctx[q].session,
         \A t \in Threads : pc[t] \in CompletePcs => pc'[t] \in CompletePcs,
         inFlight' = inFlight
  PROVE  SessionsScoped'
BY DEF SessionsScoped

\* A step that closes TBS contexts.  The sessions it leaves loaded are in flight
\* for threads that stay where they are.
LEMMA SessionsClosed ==
  ASSUME SessionsScoped,
         \A q \in Providers : ctx'[q].session =>
           /\ ctx[q].session
           /\ \A t \in Threads :
                pc[t] \in CompletePcs /\ InFlightOf(t) = q =>
                  pc'[t] \in CompletePcs /\ inFlight'[ThreadProc[t]] = q
  PROVE  SessionsScoped'
BY DEF SessionsScoped

\* Every step keeps each loaded session inside an EnrollComplete.
LEMMA SessionsScopedNext ==
  ASSUME OneClientPerProcess, IInv, SafeInv, SessionsScoped, [Next]_vars
  PROVE  SessionsScoped'
<1>. USE DEF IInv, SafeInv, TypeOK
<1>1. ASSUME NEW t \in Threads,
             \/ StartAuthSession(t) \/ ActivateCredential(t)
             \/ ActivationFails(t)
      PROVE  SessionsScoped'
  <2>1. /\ self[t] \in Providers /\ self[t] = InFlightOf(t)
        /\ pc[t] \in CompletePcs
    BY <1>1 DEF StartAuthSession, ActivateCredential, ActivationFails, CallInv,
       MutexInv
  <2>2. /\ inFlight' = inFlight
        /\ pc'[t] \in CompletePcs
        /\ \A u \in Threads : pc[u] \in CompletePcs => pc'[u] \in CompletePcs
    BY <1>1 DEF StartAuthSession, ActivateCredential, ActivationFails
  <2>3. \A q \in Providers \ {self[t]} : ctx'[q] = ctx[q]
    <3>1. CASE StartAuthSession(t)
      BY <3>1, <2>1 DEF StartAuthSession
    <3>2. CASE ActivateCredential(t)
      BY <3>2, <2>1 DEF ActivateCredential
    <3>3. CASE ActivationFails(t)
      BY <3>3, <2>1 DEF ActivationFails
    <3>. QED BY <1>1, <3>1, <3>2, <3>3
  <2>. QED BY <2>1, <2>2, <2>3 DEF SessionsScoped
<1>2. ASSUME NEW t \in Threads,
             \/ BeginLocked(t) \/ BeginNotElevated(t) \/ GatherEk(t)
             \/ GatherEkFails(t) \/ OpenProvider(t) \/ OpenProviderFails(t)
             \/ CompleteLocked(t) \/ CompleteNotInFlight(t)
             \/ CompleteMalformed(t) \/ PolicySecret(t) \/ ProbeSlot(t)
             \/ ClearSlot(t) \/ EvictControl(t) \/ PersistFails(t) \/ Call(t)
      PROVE  SessionsScoped'
  <2>1. /\ ctx' = ctx /\ inFlight' = inFlight
        /\ \A u \in Threads : pc[u] \in CompletePcs => pc'[u] \in CompletePcs
    BY <1>2 DEF BeginLocked, BeginNotElevated, GatherEk, GatherEkFails,
       OpenProvider, OpenProviderFails, CompleteLocked, CompleteNotInFlight,
       CompleteMalformed, PolicySecret, ProbeSlot, ClearSlot, EvictControl,
       PersistFails, Call, RejectArguments, RootHeraldClient_EnrollBegin,
       RootHeraldClient_EnrollComplete, Enter
  <2>. QED BY <2>1, SessionsUntouched
<1>3. ASSUME NEW t \in Threads, CreateEk(t) \/ CreateAndLoadAk(t)
      PROVE  SessionsScoped'
  <2>1. \A q \in Providers : ctx'[q].session = ctx[q].session
    <3>1. CASE CreateEk(t)
      BY <3>1 DEF CreateEk
    <3>2. CASE CreateAndLoadAk(t)
      BY <3>2 DEF CreateAndLoadAk
    <3>. QED BY <1>3, <3>1, <3>2
  <2>2. /\ inFlight' = inFlight
        /\ \A u \in Threads : pc[u] \in CompletePcs => pc'[u] \in CompletePcs
    BY <1>3 DEF CreateEk, CreateAndLoadAk
  <2>. QED BY <2>1, <2>2, SessionsUntouched
<1>4. ASSUME NEW t \in Threads, CreateAkFails(t) \/ CommitBeginFails(t)
      PROVE  SessionsScoped'
  <2>. DEFINE D == {local[t]}
  <2>1. /\ ctx' = [q \in Providers |-> IF q \in D THEN EmptyContext ELSE ctx[q]]
        /\ inFlight' = inFlight
        /\ \A u \in Threads : pc[u] \in CompletePcs => pc'[u] \in CompletePcs
    BY <1>4 DEF CreateAkFails, CommitBeginFails
  <2>2. ASSUME NEW q \in Providers \ D, NEW u \in Threads,
               pc[u] \in CompletePcs, InFlightOf(u) = q
        PROVE  pc'[u] \in CompletePcs /\ inFlight'[ThreadProc[u]] = q
    BY <2>1, <2>2
  <2>3. ASSUME NEW q \in Providers, ctx'[q].session
        PROVE  q \notin D /\ ctx[q].session
    BY <2>1, <2>3
  <2>. HIDE DEF D
  <2>. QED BY <2>2, <2>3, SessionsClosed
<1>5. ASSUME NEW t \in Threads,
             \/ CommitBegin(t) \/ AbandonActivation(t) \/ AbandonPersist(t)
             \/ EmitActivation(t)
      PROVE  SessionsScoped'
  <2>. DEFINE D == {InFlightOf(t)}
  <2>1. /\ ctx' = [q \in Providers |-> IF q \in D THEN EmptyContext ELSE ctx[q]]
        /\ \A p \in Procs \ {ThreadProc[t]} : inFlight'[p] = inFlight[p]
        /\ \A u \in Threads \ {t} : pc'[u] = pc[u]
    BY <1>5 DEF CommitBegin, AbandonActivation, AbandonPersist, EmitActivation
  <2>2. ASSUME NEW q \in Providers \ D, NEW u \in Threads,
               pc[u] \in CompletePcs, InFlightOf(u) = q
        PROVE  pc'[u] \in CompletePcs /\ inFlight'[ThreadProc[u]] = q
    BY <2>1, <2>2
  <2>3. ASSUME NEW q \in Providers, ctx'[q].session
        PROVE  q \notin D /\ ctx[q].session
    BY <2>1, <2>3
  <2>. HIDE DEF D
  <2>. QED BY <2>2, <2>3, SessionsClosed
<1>6. ASSUME NEW p \in Procs, Crash(p) PROVE SessionsScoped'
  <2>. DEFINE D == {inFlight[p]} \cup
                   {local[t] : t \in {u \in Threads : ThreadProc[u] = p}}
  <2>1. /\ ctx' = [q \in Providers |-> IF q \in D THEN EmptyContext ELSE ctx[q]]
        /\ \A r \in Procs \ {p} : inFlight'[r] = inFlight[r]
        /\ \A u \in Threads : ThreadProc[u] # p => pc'[u] = pc[u]
    BY <1>6 DEF Crash
  <2>2. ASSUME NEW q \in Providers \ D, NEW u \in Threads,
               pc[u] \in CompletePcs, InFlightOf(u) = q
        PROVE  pc'[u] \in CompletePcs /\ inFlight'[ThreadProc[u]] = q
    BY <2>1, <2>2
  <2>3. ASSUME NEW q \in Providers, ctx'[q].session
        PROVE  q \notin D /\ ctx[q].session
    BY <2>1, <2>3
  <2>. HIDE DEF D
  <2>. QED BY <2>2, <2>3, SessionsClosed
<1>7. ASSUME OwnerClear PROVE SessionsScoped'
  BY <1>7, SessionsUntouched DEF OwnerClear
<1>8. ASSUME UNCHANGED <<ctx, pc, inFlight>> PROVE SessionsScoped'
  BY <1>8, SessionsUntouched
<1>. QED
  BY <1>1, <1>2, <1>3, <1>4, <1>5, <1>6, <1>7, <1>8
     DEF Next, Step, BeginStep, CompleteStep, RootHeraldClient_Create,
         RootHeraldClient_Destroy, ForeignEvict, vars

\* A policy session never outlives the EnrollComplete that opened it.
THEOREM SessionsStayScoped ==
  ASSUME OneClientPerProcess
  PROVE  Spec => []SessionsScoped
<1>1. Init => SessionsScoped
  BY DEF Init, SessionsScoped
<1>2. IInv /\ SafeInv /\ SessionsScoped /\ [Next]_vars => SessionsScoped'
  BY SessionsScopedNext
<1>. QED BY <1>1, <1>2, IInvAlways, SafeInvAlways, PTL DEF Spec

=============================================================================
