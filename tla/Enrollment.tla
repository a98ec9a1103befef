----------------------------- MODULE Enrollment -----------------------------
(***************************************************************************)
(* The two-leg enrollment of the attestation key (AK), from the public C   *)
(* ABI down to the TPM commands: RootHeraldClient_EnrollBegin and          *)
(* RootHeraldClient_EnrollComplete with the per-client mutex, the          *)
(* process-wide g_enrollProvider they share, the TbsKeyProvider objects    *)
(* and the TPM objects loaded in their TBS contexts, and the persistent    *)
(* slot every process on the machine shares.                               *)
(*                                                                         *)
(* A call is a sequence of steps, one per TPM command, because other       *)
(* threads, other processes and a crash can act between two commands.      *)
(* Code that runs between two commands and touches only the thread's own   *)
(* memory is part of the step that follows it.                             *)
(*                                                                         *)
(* A TPM command may fail without effect, and EvictControl may also take   *)
(* effect while its reply is lost or unreadable.                           *)
(***************************************************************************)
EXTENDS FiniteSets

CONSTANTS
  Procs,       \* processes that link the library
  Clients,     \* RootHeraldClient handles
  Threads,     \* threads that call the ABI
  Providers,   \* addresses a TbsKeyProvider can be allocated at
  Keys,        \* AKs: one for each seed the owner hierarchy can have
  ThreadProc,  \* the process of a thread
  ClientProc,  \* the process of a client handle
  Elevated,    \* the processes with an elevated token
  NONE,        \* null pointer, empty slot, no status
  MALFORMED    \* a challenge lacking one of its three fields

ASSUME ConstantsTyped ==
  /\ ThreadProc \in [Threads -> Procs]
  /\ ClientProc \in [Clients -> Procs]
  /\ Elevated \subseteq Procs

ASSUME SentinelsDistinct ==
  /\ NONE \notin Keys \cup Providers \cup Clients \cup Threads
  /\ MALFORMED \notin Keys \cup {NONE}

VARIABLES
  ownerKey,       \* the AK that the current owner seed yields
  spent,          \* seeds a TPM2_Clear has discarded
  slot,           \* the key at TBS_AK_PERSISTENT_HANDLE
  ctx,            \* per provider: what is loaded in its TBS context
  prov,           \* per provider: lifetime, and which handles are nonzero
  akPub,          \* per provider: _akPublicArea
  inFlight,       \* per process: g_enrollProvider
  clients,        \* client handles created and not destroyed
  lock,           \* per client: the thread that owns client->lock
  pc,             \* per thread: where it is in the ABI call
  client,         \* per thread: the client argument of the call
  self,           \* per thread: `this' of the provider method it runs, or NONE
  local,          \* per thread: EnrollBegin's local unique_ptr
  chal,           \* per thread: the key the challenge was sealed for
  status,         \* per thread: what its last call returned
  emptied,        \* per thread: its call emptied the slot, not yet refilled
  enrollBodies,   \* AKs in the enroll bodies handed to the embedder
  activateBodies, \* AKs whose activate body was handed to the embedder
  proved,         \* AKs for which TPM2_ActivateCredential succeeded
  persisted       \* AKs that TPM2_EvictControl stored in the slot

tpmVars    == <<ownerKey, spent, slot, ctx>>
heapVars   == <<prov, akPub, inFlight, clients, lock>>
threadVars == <<pc, client, self, local, chal, status, emptied>>
logVars    == <<enrollBodies, activateBodies, proved, persisted>>
vars       == <<tpmVars, heapVars, threadVars, logVars>>

-----------------------------------------------------------------------------

Statuses == {"OK", "INVALID_ARG", "TPM_UNAVAILABLE", "NOT_ENROLLED",
             "ELEVATION_REQUIRED", "EK_READ_FAILED", "AK_FAILED",
             "ACTIVATION_FAILED", "INTERNAL"}

BeginPcs == {"b_gather", "b_open", "b_ek", "b_ak", "b_commit"}

CompletePcs == {"c_session", "c_policy", "c_activate", "c_failed",
                "c_persist", "c_clear", "c_evict", "c_unpersisted", "c_emit"}

\* The steps a thread takes while it owns its client's mutex.
LockedPcs == BeginPcs \cup CompletePcs

Pcs == LockedPcs \cup {"idle", "b_lock", "c_lock"}

\* What can be loaded in a TBS context.
Contexts == [ek: BOOLEAN, ak: Keys \cup {NONE}, session: BOOLEAN]

EmptyContext == [ek |-> FALSE, ak |-> NONE, session |-> FALSE]

TypeOK ==
  /\ ownerKey \in Keys
  /\ spent \subseteq Keys
  /\ slot \in Keys \cup {NONE}
  /\ ctx \in [Providers -> Contexts]
  /\ prov \in [Providers -> {"free", "open", "ek", "ready"}]
  /\ akPub \in [Providers -> Keys \cup {NONE}]
  /\ inFlight \in [Procs -> Providers \cup {NONE}]
  /\ clients \subseteq Clients
  /\ lock \in [Clients -> Threads \cup {NONE}]
  /\ pc \in [Threads -> Pcs]
  /\ client \in [Threads -> Clients \cup {NONE}]
  /\ self \in [Threads -> Providers \cup {NONE}]
  /\ local \in [Threads -> Providers \cup {NONE}]
  /\ chal \in [Threads -> Keys \cup {MALFORMED, NONE}]
  /\ status \in [Threads -> Statuses \cup {NONE}]
  /\ emptied \in [Threads -> BOOLEAN]
  /\ enrollBodies \subseteq Keys
  /\ activateBodies \subseteq Keys
  /\ proved \subseteq Keys
  /\ persisted \subseteq Keys

Init ==
  /\ ownerKey \in Keys
  /\ spent = {}
  /\ slot = NONE
  /\ ctx = [q \in Providers |-> EmptyContext]
  /\ prov = [q \in Providers |-> "free"]
  /\ akPub = [q \in Providers |-> NONE]
  /\ inFlight = [p \in Procs |-> NONE]
  /\ clients = {}
  /\ lock = [c \in Clients |-> NONE]
  /\ pc = [t \in Threads |-> "idle"]
  /\ client = [t \in Threads |-> NONE]
  /\ self = [t \in Threads |-> NONE]
  /\ local = [t \in Threads |-> NONE]
  /\ chal = [t \in Threads |-> NONE]
  /\ status = [t \in Threads |-> NONE]
  /\ emptied = [t \in Threads |-> FALSE]
  /\ enrollBodies = {}
  /\ activateBodies = {}
  /\ proved = {}
  /\ persisted = {}

-----------------------------------------------------------------------------
(* Building blocks *)

\* g_enrollProvider as thread t sees it.
InFlightOf(t) == inFlight[ThreadProc[t]]

\* ~TbsKeyProvider on every provider in D: the transient handles are flushed
\* and the TBS context is closed, which drops whatever a failed flush left
\* loaded.  A thread still running a method of a destroyed provider keeps its
\* address, which the allocator may hand out again.
Destroy(D) ==
  /\ prov'  = [q \in Providers |-> IF q \in D THEN "free" ELSE prov[q]]
  /\ ctx'   = [q \in Providers |-> IF q \in D THEN EmptyContext ELSE ctx[q]]
  /\ akPub' = [q \in Providers |-> IF q \in D THEN NONE ELSE akPub[q]]

\* Thread t returns from the provider method it was running.
Leave(t) == self' = [self EXCEPT ![t] = NONE]

\* Thread t goes from one step of its call to the next.
Goto(t, from, to) ==
  /\ pc[t] = from
  /\ pc' = [pc EXCEPT ![t] = to]

\* Mutant: a return path that leaves the mutex locked.
UnlockForgotten(t) == UNCHANGED lock

\* Leaving the scope of the facade's lock_guard releases the client's mutex.
Unlock(t) ==
  lock' = [c \in Clients |-> IF lock[c] = t THEN NONE ELSE lock[c]]

\* The call of thread t returns s.
Return(t, s) ==
  /\ pc' = [pc EXCEPT ![t] = "idle"]
  /\ Unlock(t)
  /\ client' = [client EXCEPT ![t] = NONE]
  /\ local' = [local EXCEPT ![t] = NONE]
  /\ chal' = [chal EXCEPT ![t] = NONE]
  /\ status' = [status EXCEPT ![t] = s]
  /\ Leave(t)

\* TPM state that only EvictControl, an administrator or a clear changes.
KeepTpm == UNCHANGED <<ownerKey, spent, slot>>

-----------------------------------------------------------------------------
(* Client handles *)

RootHeraldClient_Create(c) ==
  /\ c \notin clients
  /\ clients' = clients \cup {c}
  /\ UNCHANGED <<tpmVars, prov, akPub, inFlight, lock, threadVars, logVars>>

\* Destroying a handle another thread is calling through is a caller bug the
\* library does not guard against.  An in-flight enrollment is not touched.
RootHeraldClient_Destroy(c) ==
  /\ c \in clients
  /\ \A t \in Threads : client[t] # c
  /\ clients' = clients \ {c}
  /\ UNCHANGED <<tpmVars, prov, akPub, inFlight, lock, threadVars, logVars>>

\* A null client, a null out-parameter or an empty challenge: the facade
\* answers before it takes the lock.
RejectArguments(t) ==
  /\ pc[t] = "idle"
  /\ Return(t, "INVALID_ARG")
  /\ emptied' = [emptied EXCEPT ![t] = FALSE]
  /\ UNCHANGED <<tpmVars, prov, akPub, inFlight, clients, logVars>>

-----------------------------------------------------------------------------
(* EnrollBegin *)

Enter(t, c, at, ch) ==
  /\ pc[t] = "idle"
  /\ c \in clients
  /\ ClientProc[c] = ThreadProc[t]
  /\ pc' = [pc EXCEPT ![t] = at]
  /\ client' = [client EXCEPT ![t] = c]
  /\ chal' = [chal EXCEPT ![t] = ch]
  /\ status' = [status EXCEPT ![t] = NONE]
  /\ emptied' = [emptied EXCEPT ![t] = FALSE]
  /\ UNCHANGED <<tpmVars, heapVars, self, local, logVars>>

RootHeraldClient_EnrollBegin(t, c) == Enter(t, c, "b_lock", NONE)

\* Mutant: EnrollBegin without its lock_guard.
BeginWithoutLock(t) ==
  /\ Goto(t, "b_lock", "b_gather")
  /\ UNCHANGED <<tpmVars, heapVars, client, self, local, chal, status, emptied,
                 logVars>>

\* std::lock_guard on client->lock, then the elevation check.
BeginLocked(t) ==
  /\ Goto(t, "b_lock", "b_gather")
  /\ lock[client[t]] = NONE
  /\ ThreadProc[t] \in Elevated
  /\ lock' = [lock EXCEPT ![client[t]] = t]
  /\ UNCHANGED <<tpmVars, prov, akPub, inFlight, clients, client, self, local,
                 chal, status, emptied, logVars>>

\* The token is not elevated, or cannot be queried, which counts as not elevated.
BeginNotElevated(t) ==
  /\ pc[t] = "b_lock"
  /\ lock[client[t]] = NONE
  /\ Return(t, "ELEVATION_REQUIRED")
  /\ UNCHANGED <<tpmVars, prov, akPub, inFlight, clients, emptied,
                 logVars>>

\* GatherEkEnrollData reads the EK and its certificates through PCP, the
\* registry and NV: nothing it does changes state kept here.
GatherEk(t) ==
  /\ Goto(t, "b_gather", "b_open")
  /\ UNCHANGED <<tpmVars, heapVars, client, self, local, chal, status,
                 emptied, logVars>>

GatherEkFails(t) ==
  /\ pc[t] = "b_gather"
  /\ Return(t, "EK_READ_FAILED")
  /\ UNCHANGED <<tpmVars, prov, akPub, inFlight, clients, emptied,
                 logVars>>

\* make_unique<TbsKeyProvider> and Open.  An address that another process
\* still refers to is not the same memory.
OpenProvider(t) ==
  /\ Goto(t, "b_open", "b_ek")
  /\ \E q \in Providers :
       /\ prov[q] = "free"
       /\ \A u \in Threads : self[u] = q => ThreadProc[u] = ThreadProc[t]
       /\ prov' = [prov EXCEPT ![q] = "open"]
       /\ local' = [local EXCEPT ![t] = q]
  /\ UNCHANGED <<tpmVars, akPub, inFlight, clients, lock, client, self, chal,
                 status, emptied, logVars>>

OpenProviderFails(t) ==
  /\ pc[t] = "b_open"
  /\ Return(t, "TPM_UNAVAILABLE")
  /\ UNCHANGED <<tpmVars, prov, akPub, inFlight, clients, emptied,
                 logVars>>

\* First half of CreateAk: the transient EK.
CreateEk(t) ==
  /\ Goto(t, "b_ek", "b_ak")
  /\ prov' = [prov EXCEPT ![local[t]] = "ek"]
  /\ ctx' = [ctx EXCEPT ![local[t]].ek = TRUE]
  /\ KeepTpm
  /\ UNCHANGED <<akPub, inFlight, clients, lock, client, self, local, chal,
                 status, emptied, logVars>>

\* Mutant: the public area in the reply is not checked for being empty.
CreateAkWithoutPublicArea(t) ==
  /\ Goto(t, "b_ak", "b_commit")
  /\ prov' = [prov EXCEPT ![local[t]] = "ready"]
  /\ ctx' = [ctx EXCEPT ![local[t]].ak = ownerKey]
  /\ KeepTpm
  /\ UNCHANGED <<akPub, inFlight, clients, lock, client, self, local, chal,
                 status, emptied, logVars>>

\* Second half of CreateAk.  CreatePrimary over a fixed template is a function
\* of the owner seed, so the key minted is the one the seed yields.
CreateAndLoadAk(t) ==
  /\ Goto(t, "b_ak", "b_commit")
  /\ prov' = [prov EXCEPT ![local[t]] = "ready"]
  /\ ctx' = [ctx EXCEPT ![local[t]].ak = ownerKey]
  /\ akPub' = [akPub EXCEPT ![local[t]] = ownerKey]
  /\ KeepTpm
  /\ UNCHANGED <<inFlight, clients, lock, client, self, local, chal, status,
                 emptied, logVars>>

\* CreateEk or CreateAndLoadAk fails, or the reply carries no public area.
\* The local provider is destroyed on the way out.
CreateAkFails(t) ==
  /\ pc[t] \in {"b_ek", "b_ak"}
  /\ Destroy({local[t]})
  /\ Return(t, "AK_FAILED")
  /\ KeepTpm
  /\ UNCHANGED <<inFlight, clients, emptied, logVars>>

\* Mutant: g_enrollProvider as a raw pointer, overwritten without a delete.
CommitBeginLeaks(t) ==
  /\ pc[t] = "b_commit"
  /\ enrollBodies' = enrollBodies \cup {akPub[local[t]]}
  /\ inFlight' = [inFlight EXCEPT ![ThreadProc[t]] = local[t]]
  /\ Return(t, "OK")
  /\ UNCHANGED <<tpmVars, prov, akPub, clients, emptied, activateBodies,
                 proved, persisted>>

\* The enroll body is handed out and the provider moves into
\* g_enrollProvider; the provider of an earlier EnrollBegin is destroyed.
CommitBegin(t) ==
  /\ pc[t] = "b_commit"
  /\ enrollBodies' = enrollBodies \cup {akPub[local[t]]}
  /\ inFlight' = [inFlight EXCEPT ![ThreadProc[t]] = local[t]]
  /\ Destroy({InFlightOf(t)})
  /\ Return(t, "OK")
  /\ KeepTpm
  /\ UNCHANGED <<clients, emptied, activateBodies, proved, persisted>>

\* malloc fails: the new provider goes, an earlier in-flight one stays.
CommitBeginFails(t) ==
  /\ pc[t] = "b_commit"
  /\ Destroy({local[t]})
  /\ Return(t, "INTERNAL")
  /\ KeepTpm
  /\ UNCHANGED <<inFlight, clients, emptied, logVars>>

-----------------------------------------------------------------------------
(* EnrollComplete *)

\* The backend relays the server's answer to any enroll body it was handed,
\* any number of times and in any order, or something it cannot use.
RootHeraldClient_EnrollComplete(t, c, ch) ==
  /\ ch \in enrollBodies \cup {MALFORMED}
  /\ Enter(t, c, "c_lock", ch)

CompleteLocked(t) ==
  /\ Goto(t, "c_lock", "c_session")
  /\ lock[client[t]] = NONE
  /\ InFlightOf(t) # NONE
  /\ chal[t] # MALFORMED
  /\ lock' = [lock EXCEPT ![client[t]] = t]
  /\ self' = [self EXCEPT ![t] = InFlightOf(t)]
  /\ UNCHANGED <<tpmVars, prov, akPub, inFlight, clients, client, local, chal,
                 status, emptied, logVars>>

CompleteNotInFlight(t) ==
  /\ pc[t] = "c_lock"
  /\ lock[client[t]] = NONE
  /\ InFlightOf(t) = NONE
  /\ Return(t, "NOT_ENROLLED")
  /\ UNCHANGED <<tpmVars, prov, akPub, inFlight, clients, emptied,
                 logVars>>

\* A field of the challenge is missing: the in-flight state is kept, so the
\* caller may try again with the right challenge.
CompleteMalformed(t) ==
  /\ pc[t] = "c_lock"
  /\ lock[client[t]] = NONE
  /\ InFlightOf(t) # NONE
  /\ chal[t] = MALFORMED
  /\ Return(t, "INVALID_ARG")
  /\ UNCHANGED <<tpmVars, prov, akPub, inFlight, clients, emptied,
                 logVars>>

\* The provider thread t runs a method of still exists and has both handles.
SelfReady(t) == prov[self[t]] = "ready"

\* Provider steps that move thread t on and touch only the TPM objects in its
\* own TBS context.
KeepAllButCtx ==
  /\ KeepTpm
  /\ UNCHANGED <<heapVars, client, local, chal, status, emptied,
                 enrollBodies, activateBodies, persisted>>

\* TPM2_StartAuthSession: the policy session for the EK.
StartAuthSession(t) ==
  /\ Goto(t, "c_session", "c_policy")
  /\ SelfReady(t)
  /\ ctx' = [ctx EXCEPT ![self[t]].session = TRUE]
  /\ KeepAllButCtx
  /\ UNCHANGED <<self, proved>>

\* TPM2_PolicySecret(TPM_RH_ENDORSEMENT) on that session.
PolicySecret(t) ==
  /\ Goto(t, "c_policy", "c_activate")
  /\ SelfReady(t)
  /\ UNCHANGED ctx
  /\ KeepAllButCtx
  /\ UNCHANGED <<self, proved>>

\* TPM2_ActivateCredential recovers the secret only if the challenge was
\* sealed for the AK loaded in this context; the session is flushed after it,
\* best effort.
ActivateCredential(t) ==
  /\ Goto(t, "c_activate", "c_persist")
  /\ SelfReady(t)
  /\ ctx[self[t]].ek
  /\ ctx[self[t]].ak = chal[t]
  /\ \E flushed \in BOOLEAN :
       ctx' = [ctx EXCEPT ![self[t]].session = ~flushed]
  /\ proved' = proved \cup {chal[t]}
  /\ Leave(t)
  /\ KeepAllButCtx

\* Mutant: EnrollComplete goes on to PersistAk whatever activation returned.
ActivationFailureIgnored(t) ==
  /\ pc[t] \in {"c_session", "c_policy", "c_activate"}
  /\ pc' = [pc EXCEPT ![t] = "c_persist"]
  /\ Leave(t)
  /\ UNCHANGED ctx
  /\ KeepAllButCtx
  /\ UNCHANGED proved

\* One of the three commands fails, its reply cannot be used, the recovered
\* secret is empty, or the provider has no handles.  The session is flushed
\* when its handle is known, best effort.  A provider destroyed under the
\* thread has no context left: failure, or a crash, is all that can follow.
ActivationFails(t) ==
  /\ pc[t] \in {"c_session", "c_policy", "c_activate"}
  /\ pc' = [pc EXCEPT ![t] = "c_failed"]
  /\ \/ UNCHANGED ctx
     \/ \E leaked \in BOOLEAN :
          /\ prov[self[t]] # "free"
          /\ ctx' = [ctx EXCEPT ![self[t]].session = leaked]
  /\ Leave(t)
  /\ KeepAllButCtx
  /\ UNCHANGED proved

\* Mutant: a failed activation returns without resetting g_enrollProvider.
AbandonActivationKeepsProvider(t) ==
  /\ pc[t] = "c_failed"
  /\ Return(t, "ACTIVATION_FAILED")
  /\ UNCHANGED <<tpmVars, prov, akPub, inFlight, clients, emptied, logVars>>

\* g_enrollProvider->DeleteAk(); g_enrollProvider.reset().
AbandonActivation(t) ==
  /\ pc[t] = "c_failed"
  /\ InFlightOf(t) # NONE
  /\ inFlight' = [inFlight EXCEPT ![ThreadProc[t]] = NONE]
  /\ Destroy({InFlightOf(t)})
  /\ Return(t, "ACTIVATION_FAILED")
  /\ KeepTpm
  /\ UNCHANGED <<clients, emptied, logVars>>

\* PersistAk, on whatever g_enrollProvider points to by now, probes the slot
\* with TPM2_ReadPublic.  A probe that fails reads as an empty slot.
ProbeSlot(t) ==
  /\ pc[t] = "c_persist"
  /\ InFlightOf(t) # NONE
  /\ prov[InFlightOf(t)] = "ready"
  /\ \/ slot # NONE /\ pc' = [pc EXCEPT ![t] = "c_clear"]
     \/ pc' = [pc EXCEPT ![t] = "c_evict"]
  /\ self' = [self EXCEPT ![t] = InFlightOf(t)]
  /\ UNCHANGED ctx
  /\ KeepAllButCtx
  /\ UNCHANGED proved

\* TPM2_EvictControl on the slot itself, to clear it.
ClearSlot(t) ==
  /\ pc[t] = "c_clear"
  /\ SelfReady(t)
  /\ slot # NONE
  /\ slot' = NONE
  /\ emptied' = [emptied EXCEPT ![t] = TRUE]
  /\ \/ Goto(t, "c_clear", "c_evict") /\ UNCHANGED self
     \/ \* the reply is lost
        /\ Goto(t, "c_clear", "c_unpersisted")
        /\ Leave(t)
  /\ UNCHANGED <<ownerKey, spent, ctx, heapVars, client, local, chal, status,
                 logVars>>

\* TPM2_EvictControl of the transient AK into the slot, which must be empty.
EvictControl(t) ==
  /\ pc[t] = "c_evict"
  /\ SelfReady(t)
  /\ slot = NONE
  /\ ctx[self[t]].ak # NONE
  /\ slot' = ctx[self[t]].ak
  /\ persisted' = persisted \cup {ctx[self[t]].ak}
  /\ emptied' = [emptied EXCEPT ![t] = FALSE]
  /\ \/ Goto(t, "c_evict", "c_emit") /\ UNCHANGED self
     \/ \* the reply is lost
        /\ Goto(t, "c_evict", "c_unpersisted")
        /\ Leave(t)
  /\ UNCHANGED <<ownerKey, spent, ctx, heapVars, client, local, chal, status,
                 enrollBodies, activateBodies, proved>>

\* Mutant: the result of PersistAk is not checked.
PersistFailureIgnored(t) ==
  /\ pc[t] \in {"c_clear", "c_evict"}
  /\ pc' = [pc EXCEPT ![t] = "c_emit"]
  /\ Leave(t)
  /\ UNCHANGED ctx
  /\ KeepAllButCtx
  /\ UNCHANGED proved

\* Either EvictControl fails without effect.
PersistFails(t) ==
  /\ pc[t] \in {"c_clear", "c_evict"}
  /\ pc' = [pc EXCEPT ![t] = "c_unpersisted"]
  /\ Leave(t)
  /\ UNCHANGED ctx
  /\ KeepAllButCtx
  /\ UNCHANGED proved

\* g_enrollProvider.reset() after a failed PersistAk.
AbandonPersist(t) ==
  /\ pc[t] = "c_unpersisted"
  /\ inFlight' = [inFlight EXCEPT ![ThreadProc[t]] = NONE]
  /\ Destroy({InFlightOf(t)})
  /\ Return(t, "AK_FAILED")
  /\ KeepTpm
  /\ UNCHANGED <<clients, emptied, logVars>>

\* FlushTransients, g_enrollProvider.reset(), then the activate body, unless
\* malloc fails.
EmitActivation(t) ==
  /\ pc[t] = "c_emit"
  /\ inFlight' = [inFlight EXCEPT ![ThreadProc[t]] = NONE]
  /\ Destroy({InFlightOf(t)})
  /\ \E s \in {"OK", "INTERNAL"} :
       /\ Return(t, s)
       /\ activateBodies' =
            activateBodies \cup (IF s = "OK" THEN {chal[t]} ELSE {})
  /\ KeepTpm
  /\ UNCHANGED <<clients, emptied, enrollBodies, proved, persisted>>

-----------------------------------------------------------------------------
(* The process and its machine *)

\* Process p ends, by a fault or because its host exits: its heap, mutexes and
\* TBS contexts go, the slot stays.  A call through a null g_enrollProvider,
\* one that another thread has reset, ends here too.
Crash(p) ==
  LET Dead(f, v) == [t \in Threads |-> IF ThreadProc[t] = p THEN v ELSE f[t]]
  IN /\ \/ inFlight[p] # NONE
        \/ \E t \in Threads : ThreadProc[t] = p /\ pc[t] # "idle"
     /\ Destroy({inFlight[p]} \cup
                {local[t] : t \in {u \in Threads : ThreadProc[u] = p}})
     /\ inFlight' = [inFlight EXCEPT ![p] = NONE]
     /\ clients' = {c \in clients : ClientProc[c] # p}
     /\ lock' = [c \in Clients |-> IF ClientProc[c] = p THEN NONE ELSE lock[c]]
     /\ pc' = Dead(pc, "idle")
     /\ client' = Dead(client, NONE)
     /\ self' = Dead(self, NONE)
     /\ local' = Dead(local, NONE)
     /\ chal' = Dead(chal, NONE)
     /\ status' = Dead(status, NONE)
     /\ emptied' = Dead(emptied, FALSE)
     /\ KeepTpm
     /\ UNCHANGED logVars

\* TPM2_Clear by an administrator: a new owner seed, the slot emptied, every
\* loaded object of the owner and endorsement hierarchies flushed.
OwnerClear ==
  /\ \E k \in Keys \ (spent \cup {ownerKey}) : ownerKey' = k
  /\ spent' = spent \cup {ownerKey}
  /\ slot' = NONE
  /\ ctx' = [q \in Providers |->
               [ek |-> FALSE, ak |-> NONE, session |-> ctx[q].session]]
  /\ UNCHANGED <<heapVars, threadVars, logVars>>

\* Something other than this library evicts the persisted key.
ForeignEvict ==
  /\ slot # NONE
  /\ slot' = NONE
  /\ UNCHANGED <<ownerKey, spent, ctx, heapVars, threadVars, logVars>>

-----------------------------------------------------------------------------
(* Specification *)

BeginStep(t) ==
  \/ BeginLocked(t) \/ BeginNotElevated(t)
  \/ GatherEk(t) \/ GatherEkFails(t)
  \/ OpenProvider(t) \/ OpenProviderFails(t)
  \/ CreateEk(t) \/ CreateAndLoadAk(t) \/ CreateAkFails(t)
  \/ CommitBegin(t) \/ CommitBeginFails(t)

CompleteStep(t) ==
  \/ CompleteLocked(t) \/ CompleteNotInFlight(t) \/ CompleteMalformed(t)
  \/ StartAuthSession(t) \/ PolicySecret(t) \/ ActivateCredential(t)
  \/ ActivationFails(t) \/ AbandonActivation(t)
  \/ ProbeSlot(t) \/ ClearSlot(t) \/ EvictControl(t)
  \/ PersistFails(t) \/ AbandonPersist(t) \/ EmitActivation(t)

\* A step of the call thread t has made.
Step(t) == BeginStep(t) \/ CompleteStep(t)

Call(t) ==
  \/ RejectArguments(t)
  \/ \E c \in Clients :
       \/ RootHeraldClient_EnrollBegin(t, c)
       \/ \E ch \in Keys \cup {MALFORMED} :
            RootHeraldClient_EnrollComplete(t, c, ch)

Next ==
  \/ \E t \in Threads : Call(t) \/ Step(t)
  \/ \E c \in Clients :
       RootHeraldClient_Create(c) \/ RootHeraldClient_Destroy(c)
  \/ \E p \in Procs : Crash(p)
  \/ OwnerClear
  \/ ForeignEvict

Spec == Init /\ [][Next]_vars

\* A thread that is inside a call keeps running it; TBS answers every command,
\* if only with an error.  Nothing makes a caller call, or a mutex fair.
FairSpec == Spec /\ \A t \in Threads : WF_vars(Step(t))

-----------------------------------------------------------------------------
(* Properties *)

\* The library is used the way its lock protects: one handle per process.
OneClientPerProcess ==
  \A c, d \in Clients : ClientProc[c] = ClientProc[d] => c = d

\* A provider method runs only on the provider g_enrollProvider still owns:
\* no other thread replaces or resets g_enrollProvider between two TPM
\* commands of EnrollComplete, and the pointer is not null when the method
\* after ActivateCredential is called through it.
NoUseAfterFree ==
  \A t \in Threads :
    /\ self[t] # NONE => self[t] = InFlightOf(t)
    /\ pc[t] \in CompletePcs => InFlightOf(t) # NONE

\* The order of an enrollment as the server sees it, over every interleaving,
\* crash and replay of a challenge: an activate body is emitted only for an AK
\* that was stored in the slot, an AK is stored only after its credential was
\* activated, and a credential is activated only for an AK whose enroll body
\* was emitted.
KeyChain ==
  /\ activateBodies \subseteq persisted
  /\ persisted \subseteq proved
  /\ proved \subseteq enrollBodies

\* PersistAk clears an occupied slot before it stores the new key, in two TPM
\* commands.  A call that emptied the slot and did not refill it never returns
\* anything but AK_FAILED, so a caller who sees another status knows that the
\* call did not cost the device its key.
LostKeyIsReported ==
  \A t \in Threads : pc[t] = "idle" /\ emptied[t] => status[t] = "AK_FAILED"

\* Ownership of the TBS contexts: a provider that exists is owned by one
\* g_enrollProvider or by the EnrollBegin that is creating it, never by two
\* owners, so a process whose threads are all outside the library keeps at
\* most one open.
ProvidersOwned ==
  /\ \A q \in Providers : prov[q] # "free" =>
       \/ \E p \in Procs : inFlight[p] = q
       \/ \E t \in Threads : local[t] = q
  /\ \A p \in Procs, t \in Threads :
       local[t] # NONE => inFlight[p] # local[t]
  /\ \A t, u \in Threads : t # u /\ local[t] # NONE => local[t] # local[u]
  /\ \A p, r \in Procs :
       inFlight[p] = inFlight[r] => p = r \/ inFlight[p] = NONE

\* ActivateCredential flushes its policy session best effort.  A session that
\* stays loaded never outlives the EnrollComplete that opened it, because every
\* way out of EnrollComplete closes the provider's TBS context.
SessionsScoped ==
  \A q \in Providers : ctx[q].session =>
    \E t \in Threads : pc[t] \in CompletePcs /\ InFlightOf(t) = q

\* What one call may do to the in-flight enrollment.  An EnrollComplete that
\* sent the challenge to the TPM leaves nothing in flight, whatever it returns:
\* the challenge is single-use.  A call that fails before that point (a failed
\* EnrollBegin, a malformed challenge) leaves the enrollment in flight exactly
\* as it was, so it does not burn the challenge the server has issued.
ChallengeSingleUse ==
  [][\A t \in Threads :
       pc[t] # "idle" /\ pc'[t] = "idle" /\ status'[t] # NONE =>
       IF pc[t] \in CompletePcs
       THEN inFlight'[ThreadProc[t]] = NONE
       ELSE status'[t] # "OK" => inFlight' = inFlight]_vars

\* The abstract slot that evidence collection relies on.
Slot == INSTANCE AkSlot WITH
  Keys <- Keys, NONE <- NONE, slot <- slot, proved <- proved

\* Enrollment, with all its threads, processes and failures, changes the
\* persistent slot only as AkSlot allows: an occupied slot is never overwritten
\* and holds only keys whose credential was activated.
ImplementsAkSlot == Slot!SlotSpec

\* A client's mutex is always released again, however the call that holds it
\* ends, so no early return leaves later calls waiting for ever.  Which of the
\* waiting threads gets it next std::mutex does not say.
LockReleased ==
  \A t \in Threads, c \in Clients : lock[c] = t ~> lock[c] # t

=============================================================================
