# A TLA+ model of the Root Herald Windows SDK

The SDK turns the TPM 2.0 of a Windows machine into evidence a server can
verify. An application links the library and calls a small C ABI; the library
talks to the TPM through TBS and PCP, reads certificates from the registry, TPM
NV and AMD's AIA endpoint, and hands JSON bodies back to the application, whose
backend relays them. This directory models what the library does, checks it
with TLC on small instances and proves the central results with TLAPS.

Paths below are relative to the repository: `client/...`, `tpm/...` stand for
`src/client/...`, `src/tpm/...`, `rootherald.h` for `common/rootherald.h`.

## 1. Inventory

| Component | State it keeps | Operations | Hard behaviours |
|---|---|---|---|
| Client ABI facade (`client/rootherald_client.cpp`, `client_internal.h`) | one `std::mutex` per `RootHeraldClient` | Create, Destroy, EnrollBegin, EnrollComplete, CollectPosture (locked), CollectEvidence (handle-less, not locked) | threads sharing a handle; several handles in a process |
| Enrollment flow (`client/rootherald_win.cpp:367-460`) | `g_enrollProvider`, one per **process** | two legs around a round trip through a backend | state kept between two calls; replayed, late or malformed challenges; process exit between the legs |
| `TbsKeyProvider` (`tpm/tbs_key_provider.*`) | an open TBS context, transient EK and AK handles, the AK's public area | Open, CreateAk, ActivateCredential, PersistAk, LoadAk, FlushTransients, destructor | ownership moves from a local to the global `unique_ptr`; best-effort flushes |
| TPM command layer (`tpm/tpm_commands.*`) | one TBS context | one method per TPM 2.0 command | any command can fail; a reply can be lost after the command took effect |
| Persistent slot `0x81029301` (in the TPM) | the enrolled AK | EvictControl, ReadPublic, Quote | shared by every process of the machine, with no lock; emptied by TPM2_Clear or other programs |
| Evidence collection (`rootherald_win.cpp:462-634`) | nothing between calls | probe, PCR reads, quote, event log | the slot and the PCRs change between two commands |
| Local posture (`rootherald_win.cpp:644-710`) | the caller's struct | snapshot | "not examined" must not read as "no" |
| On-die CA chain (`tpm_commands.cpp:618-776`) | locals of one call | read up to 16 NV indices in chunks, concatenate, cut | certificates straddle indices; one index fails and its neighbours do not; TPM buffer limits |
| EK certificate and device id (`rootherald_win.cpp:134-350`, `tpm/tpm_pcp.cpp`, `certs/*`) | registry, NV and remote sources outside the library | three certificate sources in order; merge of intermediates; id derived again at each attestation | sources differ between enrollment and attestation |
| AMD AIA fetch and HTTP transport (`certs/amd_aia_fetch.cpp`, `transport/*`) | locals of one call | one GET, read in pieces | the connection is lost in the middle of the body |
| Event log reader and parser (`boot/event_log*.cpp`) | locals of one call | fetch size, fetch contents, walk the records, classify | the log changes between the two fetches; records cut at any byte; formats and algorithms the walk does not know |
| Secure Boot validator, EFI variables (`boot/secureboot_validator.cpp`, `efi_variable.h`) | locals of one call | parse variables and signature lists, classify certificates, verdict | 32- and 64-bit sizes from the log at their limits; variables measured twice or elsewhere |
| JSON helpers, handle wrappers (`internal/*`) | none beyond a stack frame | format, look up, release | - |

Interactions: the facade calls the enrollment and collection functions under
(or without) the client's mutex; `EnrollBegin` leaves a `TbsKeyProvider` behind
for `EnrollComplete`; `EnrollComplete` writes the persistent slot, which
`CollectEvidence` and `CollectPosture` of any process read later; the EK reads
of `EnrollBegin` decide the device id the server records, which
`CollectEvidence` derives again.

What makes each part correct:

- *enrollment*: the provider in flight survives the call that uses it, is owned
  once and destroyed once; a key reaches the slot only after its credential was
  activated; a challenge is consumed exactly when it reached the TPM; a lost key
  is reported; the mutex is always released;
- *slot*: filled only when empty and only with an activated key;
- *evidence*: bound to the nonce of its own call and to an activated key, with
  parts collected in an order the server can check;
- *on-die CA*: exact reads for every chunking; genuine certificates in order;
- *identity*: the id in the evidence names a device the server knows; what is
  enrolled as a certificate is one;
- *boot log*: the log is that of one moment; its entries are the records of the
  log, whole, in order and once; nothing outside it is read; what is said of the
  platform's keys is backed by the log;
- *statuses*: each means what the header tells the caller to do about it.

`PROJECT.json` lists the hazards line by line.

## 2. Modules

| Module | What it is |
|---|---|
| `AkSlot` | abstract specification of the persistent slot: `Prove`, `Persist` (only into an empty slot, only an activated key), `Vacate` |
| `Enrollment` | the two legs in any number of threads, clients and processes; implements `AkSlot` |
| `EnrollmentProofs` | inductive invariants, theorems and proofs about `Enrollment` |
| `Evidence` | CollectEvidence and CollectPosture; extends `AkSlot`, which is all it knows of enrollment |
| `EvidenceProofs` | its inductive invariant, theorems and proofs |
| `Layout` | where parts that follow one another without a gap begin and end |
| `LayoutProofs` | induction over numbers and finite prefixes, and what it gives for `PartialSums` |
| `OdcaChain` | `ReadNvData` and `ReadIntelOdcaIntermediates`; extends `Layout` |
| `OdcaChainProofs` | its inductive invariants, theorems and proofs |
| `HttpFetch` | `DoRequest` and `FetchAmdAiaEkCert` |
| `EkIdentity` | `GatherEkEnrollData`, the merge of the intermediates, `DeriveLocalDeviceId`; extends `HttpFetch` |
| `EkIdentityProofs` | inductive invariant, theorems and proofs about both |
| `RecordStream` | abstract specification of a parsed log: `Open`, `Take` (the next record, whole), `End` (only when nothing is left to read) |
| `EfiVariable` | the bounds of `UEFI_VARIABLE_DATA` |
| `SignatureList` | `ParseEfiSignatureList`, over any sizes; extends `EfiVariable` |
| `SignatureListProofs` | its inductive invariant, theorems and proofs |
| `EventLog` | `ReadEventLog` and `ParseAndAnalyzeEventLog`; extends `EfiVariable` and `Layout`, implements `RecordStream` |
| `EventLogProofs` | lemmas: the layout of a log, the invariant of the walk, what each step does to the record stream |
| `SecureBootChain` | `ValidateSecureBootChain` and the posture fields that come from it; extends `EventLog` |
| `SecureBootChainProofs` | theorems about the whole call: the log, the walk, the refinement, the chain and the posture |
| `MCEnrollment`, `MCEvidence`, `MCOdcaChain`, `MCEkIdentity`, `MCSignatureList`, `MCSecureBootChain` | instances for TLC: constant functions, event logs and symmetry sets |

An operator called "Mutant: ..." in a module is a plausible slip in the code
next to it. It is not part of `Next`; the list `mutants` of `PROJECT.json` says
which property notices it.

### Enrollment

A call is a sequence of steps, one per TPM command, because threads, processes
and a crash can act between two commands. `pc` says where a thread is; steps
`b_*` belong to EnrollBegin, `c_*` to EnrollComplete.

| State | Code |
|---|---|
| `prov`, `akPub`, `ctx` | a `TbsKeyProvider`: which of its handles are set, `_akPublicArea`, what is loaded in its TBS context |
| `inFlight` | `g_enrollProvider` |
| `lock` | `client->lock` |
| `local`, `self` | EnrollBegin's local `unique_ptr`; `this` of the provider method the thread runs |
| `slot`, `ownerKey`, `spent` | the persistent slot and the owner seed. CreatePrimary over a fixed template is a function of the seed, so a seed stands for its AK |
| `enrollBodies`, `activateBodies`, `proved`, `persisted`, `emptied` | history, for the properties |

`self` keeps the address of a destroyed provider, and the allocator may hand
that address out again, as in the real heap. A TPM command fails without
effect at any time; the two EvictControls may also take effect and lose their
reply. The environment replays any challenge for any enroll body ever emitted,
in any order, or sends a malformed one; it crashes processes, clears the TPM
and evicts the slot. What GatherEkEnrollData reads is the subject of
`EkIdentity`; in `Enrollment` it succeeds or fails.

### Evidence

Each call probes the slot, opens a second TBS context, reads the PCRs one at a
time, quotes, reads the log and emits. The digests of a boot are the number of
the boot; a resume from hibernation goes through firmware and starts a new one.
`slots` records what the slot has held during the call. A reply to TPM2_Quote may
be empty in either part, attested data or signature, and is accepted so. CollectPosture
holds the mutex of its handle. The
certificates and the device id that are put in the object last are modelled in
the two modules below, which share no state with the steps here.

### OdcaChain

A byte is a certificate and a place in it; the first byte of a certificate
stands for its tag and length. `Layouts` is every split of the chain over the
indices that holds it whole, undefined indices included. `NvRead` allows
replies shorter than asked for and, because the code compares a reply only with
the response it came in, longer ones by up to `Excess` bytes. `WordSize` is the
width of the `uint16_t` offsets, scaled down with the sizes. The indices for
which a command failed or a reply was too long are `faulted`; a read that the TPM
refuses because it is larger than its buffer is neither.

### EkIdentity

A certificate stands for its bytes and its hash, a device id for the
fingerprint it is computed from. The on-die chain is any sequence, repetitions
included: the code looks for duplicates among the cached certificates only. The
server's rule (certificate if sent, else
EK public key) is the one the comment at `rootherald_win.cpp:134` states. The
request to AMD runs through the steps of `HttpFetch`: each WinHTTP call before
the response may fail, a read may be short, and the connection may be lost while
the body is read. `CUT` stands for the part of a certificate that arrived.

### SignatureList

The event data is any byte string: the sizes are chosen when they are read, and
a list that declares less than its own header makes the walk go on in the middle
of it. `WordMod` and `SizeMod` are 2^32 and 2^64; every sum is taken modulo the
width the code computes it with. `span` is what was last handed to
`ParseDerCertificate`, `walked` the count an entry-by-entry walk would give.
`CertInsideList` is an action property, because the span must be compared with
the list that the walk is in when it is parsed.

### EventLog and SecureBootChain

| State | Code |
|---|---|
| `measured`, `served` | the log in the TPM driver; all logs it has been since the call began |
| `logSize`, `rawLog` | the locals of `ReadEventLog` and its result |
| `p`, `remaining`, `entry`, `digestsLeft`, `entries`, `analysis` | the locals of `ParseAndAnalyzeEventLog` |
| `report`, `next`, `posture` | the report, the entry the validator is at, the caller's struct |

A log is laid out in bytes: `fields` is the set of its fields, each with its
offset and width, so a read at a place where no field of that width begins, or
across the end, shows. All byte counts are those of the code. The crypto-agile format has the
Spec ID event in front; the older format is all `TCG_PCR_EVENT`. The parser knows
only the first: of a log of the older format, and of one that ends inside its
Spec ID event, it reads fields and SHA-1 digests as records they are not. The
digests are therefore laid out as words that are no field (`HashWord`): zeros in
an EV_NO_ACTION event, of which entries are made that no log holds, and otherwise
a number that ends the walk. `EntriesOf` is the reference: the leading records of
a log that are whole and readable, and none of a log that is not `Headed`, that
is, does not begin with a whole Spec ID event.

The refinement `Stream` of `EventLog` maps the rest of `EntriesOf(rawLog)` to
`pending` and `entries` to `taken`; the steps inside a record stutter. Of a
log that is not `Headed` nothing is taken: the refinement says nothing of the
entries made of it. What they can do is the subject of `OwnerKeyedIsGenuine` and
`ValidChainIsMeasured`, which compare the report with `EntriesOf` for every log. The
posture parses the same bytes a second time for the count, with the same
outcome, and is modelled by one walk. `CollectEvidence` makes the same calls for
its `secureBootChain` object.

A certificate is reduced to whether it decodes, whether its thumbprint is
pinned, and which of the words that the code looks for its names contain. How
`SignatureList` finds certificates is not repeated: a variable carries them.
`CertsIn` is a function on the places of those that decode; nothing in the code
depends on the places of the others, which `ParseEfiSignatureList` drops.

## 3. Runs

State counts are those TLC reports (after symmetry reduction where a run uses
it).

| Run | Instance | Checks | Distinct states |
|---|---|---|---|
| `TwoProcesses` | 2 processes with a thread and a client each, 2 keys, 4 provider addresses | `TypeOK`, `KeyChain`, `LostKeyIsReported`, `ImplementsAkSlot` | 516,924 |
| `SharedClient` | 1 process, 2 threads on 1 client, 2 keys, 2 addresses, fair | `NoUseAfterFree`, `ProvidersOwned`, `SessionsScoped`, `ChallengeSingleUse`, `LockReleased` | 209,928 |
| `Evidence` | 1 thread, 2 keys, 2 nonces, 3 PCRs, 3 boots, fair | `TypeOK`, `EvidenceBound`, `CollectedInOrder`, `PostureClaims`, `CollectReturns` | 22,918 |
| `Odca` | 3 certificates of 3, 2, 3 bytes over 3 indices of up to 7, chunk 3, replies up to one byte too long, limit 2, fair | `TypeOK`, `NvReadExact`, `CutsGenuineChain`, `WholeChain`, `OdcaTerminates` | 294,923 |
| `Ek` | empty or filled store, every NV and AMD certificate, on-die chains that may repeat a certificate, up to 2 cached intermediates, cap 2, a body of 3 reads, with and without failures | `TypeOK`, `ChainMerged`, `CachedIdResolves`, `FetchedIsServed` | 10,393,303 |
| `SignatureLists` | event data of 2 to 14 bytes, header 3, list header 2, 32-bit sizes scaled to 16 and 64-bit ones to 64, values at both ends of each range, fair | `TypeOK`, `CertInsideList`, `CountIsWalk`, `CertsInOrder`, `WalkTerminates` | 46,621 |
| `BootLog` | 1341 logs: up to two of 18 records in both formats, boots of five and six variables, one log of each format cut after every byte; one change during the call, fair | `TypeOK`, `LogIsSnapshot`, `CursorInStep`, `OwnerKeyedIsGenuine`, `ValidChainIsMeasured`, `ImplementsRecordStream`, `CallReturns` | 58,278 |

Why the bounds are enough to be interesting: two keys allow one TPM2_Clear, so
that a challenge for an old key meets a new one; two provider addresses per
process allow an in-flight provider and the one that replaces it, and a third
never helps because under one client a process owns at most two; one thread is
enough in `Evidence` because calls write nothing another call reads but the
client's mutex, and slot and PCRs change under the call at every step; three
boots allow a resume between any two reads and another after it; three indices
of up to seven bytes allow certificates that straddle one and two boundaries,
padding and undefined indices, with indices longer than a chunk, and one byte too
many is enough for a reply to run into the next chunk or past the index; a cap of two
is reached by the on-die chain alone or in the middle of the merge, and two
cached entries can repeat each other or the on-die chain; a scaled width keeps
what matters of 2^32 and 2^64, that a header fits in a word and two words in a
`size_t`, and the theorems about `SignatureList` hold for the real ones; the
records of `BootLog` include each that ends the walk (an algorithm it does not
know, nine digests), each that a variable can fail by (name too long, contents
too long, no contents, another PCR, another event type) and every kind of
Platform Key.

Runs that end in a violation, each a disagreement between code and
documentation (quoted under `findings` in `PROJECT.json`):

| Run | What it shows |
|---|---|
| `TwoClients` | two client handles in one process lock two mutexes and share one `g_enrollProvider`: a provider is destroyed under the other thread |
| `OdcaSplice` | a chunk of 1024 is larger than the NV buffer of a TPM at the floor of 512 that the comment at `tpm_commands.cpp:654` names; the index whose read it refuses is skipped, as after any failed read, and its neighbours are joined into a certificate that does not exist |
| `EkFromNv` | a device enrolled with an NV or AMD certificate derives an id the server does not know |
| `AmdTruncated` | a connection lost in the middle of the body leaves part of a certificate, which is enrolled as one |
| `BootUnexamined` | Secure Boot and the Platform Key are reported as 0, "we looked", when the walk ended before it reached them |

More disagreements met while modelling, each a branch of the code that is plain
to see and therefore without a run of its own:

- a probe of the slot that fails in transport, or a TBS context that does not
  open, is answered with `NOT_ENROLLED` ("Run enrollment", `rootherald.h:86`)
  with the key in place (`tpm_commands.cpp:567`);
- `QUOTE_FAILED` ("the key is fine", `rootherald.h:112`) is also returned when
  the slot was emptied between the probe and the quote;
- a TPM2_NV_Read reply longer than what was asked for is taken as it is
  (`tpm_commands.cpp:697`), so the stream can hold bytes that are not the index's;
- on a machine without a TPM, EnrollBegin answers `EK_READ_FAILED` ("A TPM is
  present", `rootherald.h:95`) because GatherEkEnrollData is the first to open it;
- `is_enrolled` is 0, not -1, when the slot could not be examined
  (`rootherald.h:138`);
- a key can be in the slot although its activate body was never emitted, when
  the reply of the EvictControl is lost or malloc fails after PersistAk
  (`rootherald_win.cpp:352`);
- a log cut inside its Spec ID event yields a part of that event as an entry ("a
  partial entry is discarded", `event_log_parser.h:80`): what does not fit is not
  skipped but read as crypto-agile records (`event_log_parser.cpp:134`);
- the EV_NO_ACTION events of a log of the older format are read as several
  entries each, which the log does not hold (`event_log_parser.cpp:141`);
- the name of a variable is read up to 1024 characters, not 256
  (`event_log_parser.cpp:66`), and `CertInfo.oemName` is not empty for a default
  key (`secureboot_validator.h:26`).

### Fairness and deadlock

`FairSpec` of `Enrollment` and `Evidence` is weak fairness of `Step(t)` for each
thread: a thread inside a call keeps running, and TBS answers every command, if
only with an error. Nothing makes a caller call. `std::mutex` promises no
fairness, so with two threads on one client the property is that a mutex held is
released, and "every call returns" is checked where there is one thread
(`CollectReturns`). `OdcaChain`, `SignatureList` and `SecureBootChain` model one
call in one thread, with weak fairness of its steps; the calls they make into
TBS return. They end, so their runs do not check for deadlock; all others do.

## 4. Proofs

Every invariant, action property and refinement that a passing run checks is
also a theorem, for every value of the constants; `PROJECT.json` lists them
under `theorems`. Each component has an inductive invariant of its own, which
TLC checked on the instances of section 3 before it was proved. The assumptions
are the named `ASSUME`s of the modules, which TLC evaluates on every run, and
the two hypotheses discussed below, which are written into the theorems that
need them.

### Enrollment

`EnrollmentProofs` holds for every set of processes, clients, threads,
providers and keys. It assumes what `ConstantsTyped` and `SentinelsDistinct` of
`Enrollment` say (functions have their types, sentinels are not elements).

The argument has two layers.

1. `IInv` is inductive *however clients are shared*. It joins `TypeOK` with
   what a thread in a call has set up (`CallInv`: its client, its lock, which of
   `self` and `local` are set at which step), with ownership (`SomeOwner`, and
   `OneOwner`: neither `g_enrollProvider` and a local nor two locals share a
   provider) and with what an owned provider has loaded (`ProviderInv`:
   in flight means ready, with a public area that was emitted, and a loaded AK
   is the one of that area). Ownership is not inductive without `CallInv`: a
   step that destroys `local[t]` must know that nobody else owns it. Type
   correctness needs `ProviderInv`, because `CommitBegin` adds the public area
   to the enroll bodies. From it: `TypeCorrect`, `ProvidersHaveOneOwner` and the
   action property `ChallengesAreSingleUse`; and, with `EmptiedInv` (which
   ties `emptied` to the steps at which a call may still have the slot empty),
   `LostKeysAreReported`.
2. `SafeInv` is inductive relative to `IInv` *under the hypothesis
   `OneClientPerProcess`*. Then `MutexExcludes` says that two threads of a
   process are never both past the lock, so `g_enrollProvider` cannot change
   under EnrollComplete (`MutexInv`), and at PersistAk the key loaded is the one
   whose credential was activated. From it: `ProviderOutlivesItsMethods`,
   `KeysFollowTheChain`, `SessionsStayScoped` and, through `SlotStep`,
   `EnrollmentImplementsAkSlot`.

The hypothesis is needed: run `TwoClients` is a counterexample without it.

### Evidence

`EvidenceProofs` holds for every set of threads, handles, keys and nonces and
any number of PCRs and boots. `IInv` adds to the properties: `CallInv`, what a
call has at each step (an accepted nonce, how many PCRs, and that the present
slot is one of those the call has seen); `SlotHoldsProved`, which is the
contribution of `AkSlot`; `ReadInOrder` and `QuoteInv`, that the digests read so
far and the quote, unless it attests nothing, are in order. The properties speak of emitted objects only and
say nothing of a call half way, so none is inductive alone.

### OdcaChain

`OdcaChainProofs` holds for every chain, every layout of it over the indices,
every chunk, reply length and limit. `OdcaAssumption` bounds an index and a reply
together by the width of the offset, which nothing in the code checks. Its first invariant, `IInv`, needs no
hypothesis: `LayoutInv` says that an index holds the bytes of the stream between
two partial sums, `LoopInv` where the loop is. From it: `TypeCorrect`,
`NvReadIsExact`. The second, `ChainInv`, says that while no command has failed
and no reply was too long the stream is the part of the chain that the indices before `index` hold, and
that the cuts fall between certificates; `NextCertificate` shows that the object
`DerObjectSize` finds there is the next certificate. It is inductive under the
hypothesis `CHUNK <= NvBufferMax`, that the TPM's buffer has room for what
`ReadNvData` asks for; `CutsAreGenuine` and `ChainIsWhole` state it. Without it
an index is dropped although nothing else failed, as run `OdcaSplice` shows.

### EkIdentity and HttpFetch

`EkIdentityProofs` holds for every store, on-die chain, cap and body length.
`HttpInv`: until there is a response there is no body, and from then on the body
is a beginning of the reply, or the diagnostic without a status. `MergeInv`:
the intermediates begin with the on-die chain, whatever it repeats, and unless a
hash failed `seen` is what they contain, without which a cached entry could repeat
one before it. `CacheInv`:
with a certificate in the Windows store and no failure, the only certificate
anything is derived from is the first readable one.

### SignatureList

`SignatureListProofs` holds for every width, header length, limit and set of
sizes that `EfiVariableAssumption` and `SignatureListAssumption` allow, which
say little more than that `size_t` has room for a list header and two 32-bit
sizes. Its invariant `IInv` ties the cursor to the event data (`at` and
`remaining` add up to the contents, which end inside the data), the entry to the
list the walk is in, and the span last
parsed to the next entry; without the latter `CertsInOrder` is not inductive.
`NoWrap` says that none of the sums wraps; `DivisionCounts` that a quotient is
the number of entries a walk meets. From them: `TypeCorrect`,
`CertificatesInsideTheirList`, `CertificatesInOrder`, `DigestsCountedExactly`.

### EventLog and SecureBootChain

These hold for every set of logs in either format, with any number of records,
digests and bytes of data, cut after any byte, and for any changes of the log
during the call. `EventLogAssumption` says that a log is what firmware writes,
or a beginning of it; `SecureBootChainAssumption` that the lists of names are
lists of names.

`EventLogProofs` first shows that a log can be read back: the fields that
`FirmwareLog` lays out begin at different offsets (lemmas `PartDistinct` and
those around it), so the field found at the start of a record, of a digest or of
the data is the one that was written there. The invariant `LogInv` then has two
parts. `ReadInv` is about the two calls that fetch the log. `WalkInv` says which
record the cursor is in and how far: after the first `k` records, at the `d`-th
of its digests or at its data, with `entries` the entries of the first `k`. Logs that are
not `Headed` are apart: `OldInv` says that there the cursor is at a word of a
`TCG_PCR_EVENT`, and `WalkInv` that no entry taken is of a type that carries a
variable (`Phantoms`), so that the validator finds nothing in them.
From `LogInv`: `LogIsOneSnapshot`, `CursorStaysInStep`, and, with one lemma for
each kind of step (`TakeStep`, `EndStep`, `OpenStep`, `QuietStep`), the refinement
`WalkImplementsRecordStream`.

`SecureBootChainProofs` adds `ChainInv`, the loop invariant of the validator:
each flag of the report says what it should about the entries before `next`
(`KekInv`, `DbInv`, `OwnerInv`), the Platform Key kept is that of one of them
(`PkInv`), and the switch the parser found is that of the last entry that
measures it (`SwitchInv`). When the loop ends these are statements about all
entries. In a log that is `Headed` these are `EntriesOf(rawLog)`, in any other they
measure as little as the log holds (`AsLogged`); that gives
`OwnerKeyedIsAlwaysGenuine` and both directions of `ValidChainIsAlwaysMeasured`.

### Induction

The induction theorems of the library take an operator as a parameter, which
the provers here do not instantiate. `LayoutProofs` uses sets instead:
`LeastNat` (a non-empty set of natural numbers has a least element, from the
well-foundedness of `<`) and `SetInduction` (a set that holds 0 and with each
number its successor holds all). A fact about every number is proved as a
statement about the set of numbers it holds of. This is how `PartialSums` is
shown to satisfy its recursive equation and to be monotonic, on which everything
about the layouts of `OdcaChain` and `EventLog` rests.

### Only model-checked

The liveness properties, which need fairness and ENABLED: `LockReleased`,
`CollectReturns`, `OdcaTerminates`, `WalkTerminates`, `CallReturns`. The
properties of the violation runs do not hold and have no theorem, except
`NoUseAfterFree`, which does under `OneClientPerProcess`.

## 5. Not modelled

- Marshalling of TPM commands, offsets in replies, DER length octets, registry
  blob headers, the UUID formatting of the device id: data that no property
  here tells apart.
- JSON formatting and lookup, Base64: a challenge has its three fields or is
  `MALFORMED`; a nonce decodes to something or is `BADNONCE`.
- The descriptions of log entries, device paths and firmware versions: wording.
- Decoding of certificates by CryptoAPI, and substring matching: a certificate
  contains the words it contains.
- Handle wrappers: each releases its handle when its scope ends.
- The version strings, the ErrorString table, FreeEvidence.
- Use of a client handle after `RootHeraldClient_Destroy`, a caller error.

## 6. Plan

Done: all modules of section 2, and a theorem for every invariant, action
property and refinement that a passing run checks.

Next:

1. What can be said of the code where a violation run shows that a documented
   promise fails: the weaker promise that does hold, as a property and a theorem
   (what a log cut inside its Spec ID event can yield; which certificates `OdcaChain` can splice when an index is dropped; what a 0
   in the posture does mean).
2. That every measured record that is whole reaches the validator when the log
   has no unreadable record, from `EntriesOf`.
3. Shorter proofs: `EventLogProofs` repeats the case distinction over the
   formats in several lemmas.
