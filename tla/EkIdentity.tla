----------------------------- MODULE EkIdentity -----------------------------
(***************************************************************************)
(* What identifies the device to the server: the endorsement key (EK), its *)
(* certificate and its intermediates.                                      *)
(*                                                                         *)
(* GatherEkEnrollData takes the EK certificate for the enroll body from    *)
(* the first of three sources that has one: the Windows store, TPM NV      *)
(* through PCP, AMD's AIA endpoint.  The server derives the device id from *)
(* what it was sent.  DeriveLocalDeviceId derives the id for the evidence  *)
(* again, at every attestation, from what the device can read then.        *)
(*                                                                         *)
(* A certificate stands for its DER bytes and for its SHA-256, a device id *)
(* for the fingerprint it is computed from.  The request to AMD is that of *)
(* HttpFetch.                                                              *)
(***************************************************************************)
EXTENDS HttpFetch

CONSTANTS
  EkCerts,            \* EK certificates
  CaCerts,            \* intermediate certificates
  Stores,             \* what EKCertStore may hold when the machine starts
  MaxStore,           \* bound: length of the Windows intermediate store
  MAX_INTERMEDIATES,  \* the cap on the chain of the enroll body
  EKPUB,              \* the fingerprint of the EK public key
  JUNK,               \* a store entry that holds no DER certificate
  CUT,                \* the leading part of a certificate
  NONE

ASSUME EkAssumption ==
  /\ Stores \subseteq Seq(EkCerts \cup {JUNK})
  /\ MaxStore \in Nat
  /\ MAX_INTERMEDIATES \in Nat \ {0}
  /\ {EKPUB, JUNK, CUT, NONE} \cap (EkCerts \cup CaCerts) = {}
  /\ NONE \notin {EKPUB, JUNK, CUT}

VARIABLES
  faulty,         \* whether registry, PCP, TBS and hash calls may fail
  store,          \* entries of EKCertStore\Certificates, in subkey order
  nvCert,         \* the certificate PCP_RSA_EKNVCERT returns, or NONE
  amdCert,        \* the certificate AMD serves for this EK, or NONE
  odca,           \* the on-die CA chain in NV
  caStore,        \* entries of the Windows TPM intermediate store
  pc,
  ekCert,         \* EkEnrollData.ekCertPem
  intermediates,  \* EkEnrollData.intermediates
  seen,           \* fingerprints of the intermediates taken so far
  next,           \* the next entry of caStore
  unhashed,       \* a fingerprint could not be computed
  enrolled,       \* device ids the server has on record
  provisioned,    \* Windows has provisioned the TPM since
  evidenceId      \* the deviceId of the last evidence, "" or NONE

machine == <<faulty, store, nvCert, amdCert, odca, caStore, provisioned>>
merge   == <<intermediates, seen, next, unhashed>>
vars    == <<machine, pc, ekCert, merge, enrolled, evidenceId, httpVars>>

DeviceIds == EkCerts \cup {EKPUB, CUT}

TypeOK ==
  /\ faulty \in BOOLEAN
  /\ store \in Seq(EkCerts \cup {JUNK})
  /\ nvCert \in EkCerts \cup {NONE}
  /\ amdCert \in EkCerts \cup {NONE}
  /\ odca \in Seq(CaCerts)
  /\ caStore \in Seq(CaCerts)
  /\ provisioned \in BOOLEAN
  /\ pc \in {"idle", "store", "nv", "amd", "fetch", "odca", "merge", "emit"}
  /\ ekCert \in EkCerts \cup {CUT, NONE}
  /\ intermediates \in Seq(CaCerts)
  /\ seen \subseteq CaCerts
  /\ next \in 1..(MaxStore + 1)
  /\ unhashed \in BOOLEAN
  /\ enrolled \subseteq DeviceIds
  /\ evidenceId \in DeviceIds \cup {"", NONE}

Init ==
  /\ faulty \in BOOLEAN
  /\ store \in Stores
  /\ nvCert \in EkCerts \cup {NONE}
  /\ amdCert \in EkCerts \cup {NONE}
  /\ odca \in BoundedSeq(CaCerts, MAX_INTERMEDIATES)
  /\ caStore \in BoundedSeq(CaCerts, MaxStore)
  /\ provisioned = FALSE
  /\ pc = "idle"
  /\ ekCert = NONE
  /\ intermediates = <<>>
  /\ seen = {}
  /\ next = 1
  /\ unhashed = FALSE
  /\ enrolled = {}
  /\ evidenceId = NONE
  /\ HttpInit

-----------------------------------------------------------------------------
(* Reading the sources *)

\* Mutant: the blob of the first entry is taken as it is.
ReadFirstBlob == {IF store = <<>> THEN NONE ELSE store[1]}

\* ReadEkCertFromWindowsStore returns the first entry it can read and extract
\* a certificate from.  A registry call that fails skips its entry, or all.
ReadEkCertFromWindowsStore ==
  LET readable == {i \in DOMAIN store : store[i] # JUNK}
  IN IF faulty THEN {store[i] : i \in readable} \cup {NONE}
     ELSE {IF readable = {} THEN NONE ELSE store[Min(readable)]}

\* A source that may or may not answer.
Try(cert, mayFail) == IF mayFail THEN {cert, NONE} ELSE {cert}

-----------------------------------------------------------------------------
(* GatherEkEnrollData *)

\* PCP opens and returns the EK public key.
ReadEkPublicKey ==
  /\ pc = "idle"
  /\ pc' = "store"
  /\ UNCHANGED <<machine, ekCert, merge, enrolled, evidenceId>>

\* The certificate source at step `from' yields r; without a certificate the
\* next source is tried.
Source(from, r, otherwise) ==
  /\ pc = from
  /\ ekCert' = r
  /\ pc' = IF r = NONE THEN otherwise ELSE "odca"
  /\ UNCHANGED <<machine, merge, enrolled, evidenceId>>

GatherFromStore ==
  \E r \in ReadEkCertFromWindowsStore : Source("store", r, "nv")

GatherFromNv == \E r \in Try(nvCert, faulty) : Source("nv", r, "amd")

\* AMD is asked for a certificate, if the EK is RSA and its hash can be taken.
AskAmd ==
  /\ pc = "amd"
  /\ \/ /\ HttpGet(IF amdCert = NONE THEN NotFound ELSE Certificate)
        /\ pc' = "fetch"
     \/ /\ pc' = "odca"
        /\ UNCHANGED httpVars
  /\ UNCHANGED <<machine, ekCert, merge, enrolled, evidenceId>>

\* Whatever came with status 200 is the certificate, if it is not empty.
GatherFromAmd ==
  /\ Source("fetch",
            IF Fetched = <<>> THEN NONE
            ELSE IF Len(Fetched) < BodySize THEN CUT ELSE amdCert,
            "odca")
  /\ HttpReturn

\* TBS opens and the on-die CA chain starts the list, as it is.  The
\* fingerprints that can be computed are remembered.
ReadOdca ==
  /\ pc = "odca"
  /\ pc' = "merge"
  /\ intermediates' = odca
  /\ \E failed \in SUBSET DOMAIN odca :
       /\ failed # {} => faulty
       /\ seen' = {odca[i] : i \in DOMAIN odca \ failed}
       /\ unhashed' = (failed # {})
  /\ UNCHANGED <<machine, ekCert, next, enrolled, evidenceId>>

\* Without TBS the body goes out with no intermediates.
OdcaUnavailable ==
  /\ pc = "odca"
  /\ faulty
  /\ pc' = "emit"
  /\ UNCHANGED <<machine, ekCert, merge, enrolled, evidenceId>>

Merging == /\ pc = "merge"
           /\ next <= Len(caStore)
           /\ Len(intermediates) < MAX_INTERMEDIATES

\* An entry that cannot be read, is no CA certificate or is a duplicate.
SkipEntry ==
  /\ Merging
  /\ next' = next + 1
  /\ UNCHANGED <<machine, pc, ekCert, intermediates, seen, unhashed, enrolled,
                 evidenceId>>

\* Mutant: the fingerprint of a merged certificate is not remembered.
MergeForgets ==
  /\ Merging
  /\ caStore[next] \notin seen
  /\ intermediates' = Append(intermediates, caStore[next])
  /\ next' = next + 1
  /\ UNCHANGED <<machine, pc, ekCert, seen, unhashed, enrolled, evidenceId>>

\* An entry whose fingerprint is new, or could not be computed.
MergeEntry ==
  /\ Merging
  /\ \E hashed \in BOOLEAN :
       /\ hashed \/ faulty
       /\ hashed => caStore[next] \notin seen
       /\ seen' = IF hashed THEN seen \cup {caStore[next]} ELSE seen
       /\ unhashed' = (unhashed \/ ~hashed)
  /\ intermediates' = Append(intermediates, caStore[next])
  /\ next' = next + 1
  /\ UNCHANGED <<machine, pc, ekCert, enrolled, evidenceId>>

MergeEnds ==
  /\ pc = "merge"
  /\ ~Merging
  /\ pc' = "emit"
  /\ UNCHANGED <<machine, ekCert, merge, enrolled, evidenceId>>

\* The enrollment completes, or does not.  The server's fingerprint is that of
\* the EK certificate when it was sent one, else of the EK public key.
EmitEnroll ==
  /\ pc = "emit"
  /\ pc' = "idle"
  /\ \/ UNCHANGED enrolled
     \/ enrolled' = enrolled \cup {IF ekCert = NONE THEN EKPUB ELSE ekCert}
  /\ ekCert' = NONE
  /\ intermediates' = <<>>
  /\ seen' = {}
  /\ next' = 1
  /\ unhashed' = FALSE
  /\ UNCHANGED <<machine, evidenceId>>

-----------------------------------------------------------------------------
(* Attestation *)

\* Mutant: the id is always derived from the EK public key.
DeriveFromEkPub ==
  /\ pc = "idle"
  /\ enrolled # {}
  /\ evidenceId' = EKPUB
  /\ UNCHANGED <<machine, pc, ekCert, merge, enrolled>>

\* For an enrolled device: from the Windows store, else from the EK public
\* key; no id at all when PCP or a hash fails.
DeriveLocalDeviceId ==
  /\ pc = "idle"
  /\ enrolled # {}
  /\ \E r \in ReadEkCertFromWindowsStore :
       evidenceId' \in {IF r = NONE THEN EKPUB ELSE r}
                       \cup (IF faulty THEN {""} ELSE {})
  /\ UNCHANGED <<machine, pc, ekCert, merge, enrolled>>

\* Windows provisions the TPM and caches the certificate it finds.
Provision ==
  /\ store = <<>>
  /\ \E c \in EkCerts : store' = <<c>>
  /\ provisioned' = TRUE
  /\ UNCHANGED <<faulty, nvCert, amdCert, odca, caStore, pc, ekCert, merge,
                 enrolled, evidenceId>>

\* The steps that leave the network alone.
LocalStep ==
  \/ ReadEkPublicKey \/ GatherFromStore \/ GatherFromNv
  \/ ReadOdca \/ OdcaUnavailable \/ SkipEntry \/ MergeEntry \/ MergeEnds
  \/ EmitEnroll
  \/ DeriveLocalDeviceId
  \/ Provision

Next ==
  \/ LocalStep /\ UNCHANGED httpVars
  \/ AskAmd \/ GatherFromAmd
  \/ HttpStep /\ UNCHANGED <<machine, pc, ekCert, merge, enrolled, evidenceId>>

Spec == Init /\ [][Next]_vars

-----------------------------------------------------------------------------
(* Properties *)

\* The device id in the evidence of an enrolled device names a device the
\* server has on record, so that an unbound session resolves to it, as long as
\* no call fails and the Windows store stays as it was at enrollment.
DeviceIdResolves ==
  ~faulty /\ ~provisioned /\ evidenceId \in DeviceIds =>
    evidenceId \in enrolled

\* It does when the Windows store holds an EK certificate, whatever else is in
\* the store and in the other sources.
CachedIdResolves == ToSet(store) \cap EkCerts # {} => DeviceIdResolves

\* What amd_aia_fetch.h promises: a certificate, or nothing.
WholeCertificateOrNone == ekCert # CUT

\* No certificate behind the on-die CA chain repeats an earlier one.
CachedAreNew(chain) ==
  \A i \in 1..Len(chain), j \in (Len(odca) + 1)..Len(chain) :
    i < j => chain[i] # chain[j]

\* The merged chain: the on-die CA certificates are never displaced by cached
\* ones, the cap holds, and unless a hash failed no cached certificate repeats
\* one that is already there.  The on-die chain goes out as it was read, with
\* the repetitions it has.
ChainMerged ==
  pc \in {"merge", "emit"} /\ intermediates # <<>> =>
    /\ IsPrefix(odca, intermediates)
    /\ Len(intermediates) <= MAX_INTERMEDIATES
    /\ unhashed \/ CachedAreNew(intermediates)
=============================================================================
