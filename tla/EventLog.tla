------------------------------ MODULE EventLog ------------------------------
(***************************************************************************)
(* ReadEventLog and ParseAndAnalyzeEventLog: the TCG event log is fetched  *)
(* from TBS with two calls, one for its size and one for its contents, and *)
(* walked field by field.                                                  *)
(*                                                                         *)
(* A log is what firmware and Windows have measured, laid out in bytes:    *)
(* its fields, each with the offset where it begins, and its size, which   *)
(* may cut the last record anywhere.  The numbers are those of the code,   *)
(* in bytes.  A digest is reduced to its algorithm, event data to the      *)
(* lengths, name and contents a UEFI variable has in it.                   *)
(***************************************************************************)
EXTENDS EfiVariable, Layout, Integers, Sequences, SequencesExt

CONSTANTS
  Logs,       \* what the firmware may have left: see FirmwareLog
  OsRecords,  \* records that Windows measures while the call runs
  MaxChanges  \* bound: how often the log changes during a call

\* Event types.  EV_EFI_EVENT_BASE is 0x80000000 in the code.
EV_EFI_EVENT_BASE == 4096
Efi(n) == EV_EFI_EVENT_BASE + n
EV_NO_ACTION == 3
EV_EFI_VARIABLE_DRIVER_CONFIG == Efi(1)
EV_EFI_VARIABLE_BOOT == Efi(2)
EV_EFI_VARIABLE_BOOT2 == Efi(12)

VariableTypes ==
  {EV_EFI_VARIABLE_DRIVER_CONFIG, EV_EFI_VARIABLE_BOOT, EV_EFI_VARIABLE_BOOT2}

\* EV_SEPARATOR, EV_EFI_ACTION, EV_EFI_VARIABLE_AUTHORITY, EV_EFI_GPT_EVENT,
\* EV_NO_ACTION, EV_EFI_HANDOFF_TABLES and 2, EV_PLATFORM_CONFIG_FLAGS.
PolicyTypes ==
  VariableTypes \cup
  {4, Efi(7), Efi(224), Efi(6), EV_NO_ACTION, Efi(9), Efi(11), 10}

\* EV_EFI_BOOT_SERVICES_APPLICATION and _DRIVER, EV_EFI_RUNTIME_SERVICES_DRIVER,
\* EV_EFI_PLATFORM_FIRMWARE_BLOB and 2, EV_S_CRTM_VERSION, EV_POST_CODE,
\* EV_S_CRTM_CONTENTS, EV_CPU_MICROCODE, EV_COMPACT_HASH.
VerifiedTypes == {Efi(3), Efi(4), Efi(5), Efi(8), Efi(10), 8, 1, 7, 9, 12}

\* PCRs 11 to 14 carry measurements of Windows.
WindowsPcrs == 11..14

Classify(entry) ==
  IF entry.eventType \in PolicyTypes THEN "policy"
  ELSE IF entry.eventType \in VerifiedTypes \/ entry.pcrIndex \in WindowsPcrs
  THEN "verified" ELSE "unknown"

-----------------------------------------------------------------------------
(* What firmware and Windows write *)

\* TPM_ALG_ID of SHA-1, SHA-256, SHA-384, SHA-512 and SM3, with their sizes.
KnownAlgorithms == {4, 11, 12, 13, 18}

SizeOf(alg) == CASE alg = 4 -> 20 [] alg \in {11, 18} -> 32 [] alg = 12 -> 48
                 [] alg = 13 -> 64 [] OTHER -> 28

NoData == [nameChars |-> 0, dataBytes |-> 0, name |-> "", on |-> FALSE,
           certs |-> <<>>, hashes |-> 0]

\* What a certificate and the event data of a variable, if any, are reduced to.
Certificates == [decodes: BOOLEAN, pinned: BOOLEAN, org: SUBSET STRING,
                 cn: SUBSET STRING, subject: SUBSET STRING]
VariableData == [nameChars: Nat, dataBytes: Nat, name: STRING, on: BOOLEAN,
                 certs: Seq(Certificates), hashes: Nat] \cup {NoData}

\* What firmware or Windows measures.  In a log of the older format each has one
\* SHA-1 digest instead of `digests'.
Measurements == [pcr: Nat, type: Nat, digests: Seq(Nat), size: Nat,
                 data: VariableData]

\* The field of four bytes at an offset, and event data, if there is any.
Word(at, n) == [at |-> at, width |-> 4, value |-> n, data |-> NoData]
DataField(at, size, data) ==
  IF size = 0 THEN {}
  ELSE {[at |-> at, width |-> size, value |-> 0, data |-> data]}

\* The digests of a record, each behind the identifier of its algorithm, and
\* the offset of the size of the event data behind them.
DigestEnds(r) ==
  PartialSums([i \in DOMAIN r.digests |-> 2 + SizeOf(r.digests[i])])
SizeAt(r) == 12 + DigestEnds(r)[Len(r.digests)]

\* A TCG_PCR_EVENT2.
RecordFields(at, r) ==
  {Word(at, r.pcr), Word(at + 4, r.type), Word(at + 8, Len(r.digests)),
   Word(at + SizeAt(r), r.size)}
  \cup {[Word(at + 12 + DigestEnds(r)[i - 1], r.digests[i])
            EXCEPT !.width = 2] : i \in DOMAIN r.digests}
  \cup DataField(at + SizeAt(r) + 4, r.size, r.data)

\* Four bytes of a SHA-1 digest, which are not a field: zeros in an EV_NO_ACTION
\* event, otherwise of a hash and thus more than any count of digests.
HashWord(at, type) ==
  [Word(at, IF type = EV_NO_ACTION THEN 0 ELSE 65535) EXCEPT !.width = 0]

\* A TCG_PCR_EVENT, with one SHA-1 digest.
LegacyFields(at, r) ==
  {Word(at, r.pcr), Word(at + 4, r.type), Word(at + 28, r.size)}
  \cup {HashWord(at + 4 * i, r.type) : i \in 2..6}
  \cup DataField(at + 32, r.size, r.data)

\* The Spec ID event, a TCG_PCR_EVENT in front of crypto-agile records.
SpecIdEvent == [pcr |-> 0, type |-> EV_NO_ACTION, digests |-> <<>>, size |-> 33,
                data |-> NoData]
SpecIdHeader == LegacyFields(0, SpecIdEvent)

RecordBytes(format, r) ==
  IF format = "agile" THEN SizeAt(r) + 4 + r.size ELSE 32 + r.size

\* RecordEnds(format, records)[n]: where the n-th record ends; where the first
\* begins for n = 0.
RecordEnds(format, records) ==
  LET sum == PartialSums([i \in DOMAIN records |->
                            RecordBytes(format, records[i])])
  IN [n \in 0..Len(records) |->
        (IF format = "agile" THEN RecordBytes("legacy", SpecIdEvent) ELSE 0)
          + sum[n]]

\* A log with a Spec ID event and crypto-agile records, or one in the older
\* format, that is all TCG_PCR_EVENT; whole.
FirmwareLog(format, records) ==
  LET end == RecordEnds(format, records)
      Fields(i) ==
        IF format = "agile" THEN RecordFields(end[i - 1], records[i])
        ELSE LegacyFields(end[i - 1], records[i])
  IN [format  |-> format,
      records |-> records,
      size    |-> end[Len(records)],
      fields  |-> (IF format = "agile" THEN SpecIdHeader ELSE {})
                    \cup UNION {Fields(i) : i \in DOMAIN records}]

\* The log has only its first n bytes.
Cut(log, n) == [log EXCEPT !.size = n]

EmptyLog == [format |-> "agile", records |-> <<>>, size |-> 0, fields |-> {}]

IsLog(log) ==
  /\ log.format \in {"agile", "legacy"}
  /\ log.records \in Seq(Measurements)
  /\ LET whole == FirmwareLog(log.format, log.records)
     IN log.size \in 0..whole.size /\ log = Cut(whole, log.size)

ASSUME EventLogAssumption ==
  /\ \A log \in Logs : IsLog(log)
  /\ OsRecords \subseteq Measurements
  /\ MaxChanges \in Nat

-----------------------------------------------------------------------------

VARIABLES
  measured,   \* the log that TBS serves
  changes,    \* how often it has changed
  served,     \* the logs TBS could have served since the call began
  pc,
  logSize,    \* ReadEventLog: what the first call returned
  rawLog,     \* what ReadEventLog returned; EmptyLog for none
  p,          \* the cursor, as an offset
  remaining,
  entry,      \* the entry being read
  digestsLeft,
  entries,
  analysis

readVars  == <<measured, changes, served, logSize, rawLog>>
walkVars  == <<p, remaining, entry, digestsLeft, entries, analysis>>
logVars   == <<readVars, pc, walkVars>>

Entries == [pcrIndex: Nat, eventType: Nat, digests: SUBSET Nat, size: Nat,
            eventData: VariableData]

NoEntry == [pcrIndex |-> 0, eventType |-> 0, digests |-> {}, size |-> 0,
            eventData |-> NoData]

NoAnalysis == [secureBootEnabled |-> FALSE, microsoftKeys |-> FALSE,
               verified |-> 0, unknown |-> 0, policy |-> 0, verdict |-> ""]

LogInit ==
  /\ measured \in Logs
  /\ changes = 0
  /\ served = {measured}
  /\ pc = "size"
  /\ logSize = 0
  /\ rawLog = EmptyLog
  /\ p = 0
  /\ remaining = 0
  /\ entry = NoEntry
  /\ digestsLeft = 0
  /\ entries = <<>>
  /\ analysis = NoAnalysis

-----------------------------------------------------------------------------
(* ReadEventLog *)

\* The first call asks for the size only.
GetLogSize ==
  /\ pc = "size"
  /\ measured.size # 0
  /\ pc' = "contents"
  /\ logSize' = measured.size
  /\ UNCHANGED <<measured, changes, served, rawLog, walkVars>>

\* Mutant: what the second call returned is neither checked nor used.
GetLogContentsUnchecked ==
  /\ pc = "contents"
  /\ pc' = "header"
  /\ rawLog' = Cut(measured, logSize)
  /\ remaining' = logSize
  /\ UNCHANGED <<measured, changes, served, logSize, p, entry, digestsLeft,
                 entries, analysis>>

\* The second call fills a buffer of that size and returns how much it wrote.
\* It fails if the log has outgrown the buffer.
GetLogContents ==
  /\ pc = "contents"
  /\ measured.size <= logSize
  /\ pc' = "header"
  /\ rawLog' = measured
  /\ remaining' = measured.size
  /\ UNCHANGED <<measured, changes, served, logSize, p, entry, digestsLeft,
                 entries, analysis>>

\* Either call fails, or there is no log.
NoEventLog ==
  /\ pc \in {"size", "contents"}
  /\ pc' = "unavailable"
  /\ UNCHANGED <<readVars, walkVars>>

-----------------------------------------------------------------------------
(* ParseAndAnalyzeEventLog *)

\* The field that begins n bytes behind the cursor.
FieldAt(n) == CHOOSE f \in rawLog.fields : f.at = p + n

Advance(n) ==
  /\ p' = p + n
  /\ remaining' = remaining - n

\* The log begins with a Spec ID event that is all there.
HasHeader ==
  /\ remaining >= 32
  /\ FieldAt(4).value = EV_NO_ACTION
  /\ 32 + FieldAt(28).value <= remaining

SkipHeader ==
  /\ pc = "header"
  /\ HasHeader
  /\ Advance(32 + FieldAt(28).value)
  /\ pc' = "entry"
  /\ UNCHANGED <<readVars, entry, digestsLeft, entries, analysis>>

KeepHeader ==
  /\ pc = "header"
  /\ ~HasHeader
  /\ pc' = "entry"
  /\ UNCHANGED <<readVars, walkVars>>

\* The cursor is at an entry: its PCR, its type and a number of digests that is
\* accepted.
EntryFits == remaining >= 12 /\ FieldAt(8).value <= 8

ReadEntry ==
  /\ pc = "entry"
  /\ EntryFits
  /\ entry' = [NoEntry EXCEPT !.pcrIndex = FieldAt(0).value,
                              !.eventType = FieldAt(4).value]
  /\ digestsLeft' = FieldAt(8).value
  /\ Advance(12)
  /\ pc' = IF digestsLeft' = 0 THEN "data" ELSE "digest"
  /\ UNCHANGED <<readVars, entries, analysis>>

\* Mutant: SM3 is taken for a digest of 20 bytes.
DigestSizeMixedUp(alg) ==
  IF alg \in {4, 18} THEN 20 ELSE IF alg = 11 THEN 32
  ELSE IF alg = 12 THEN 48 ELSE IF alg = 13 THEN 64 ELSE 0

\* The size the parser knows for an algorithm; 0 for one it does not know.
DigestSize(alg) == IF alg \in KnownAlgorithms THEN SizeOf(alg) ELSE 0

DigestFits ==
  /\ remaining >= 2
  /\ DigestSize(FieldAt(0).value) # 0
  /\ remaining - 2 >= DigestSize(FieldAt(0).value)

ReadDigest ==
  /\ pc = "digest"
  /\ DigestFits
  /\ entry' = [entry EXCEPT !.digests = @ \cup {FieldAt(0).value}]
  /\ Advance(2 + DigestSize(FieldAt(0).value))
  /\ digestsLeft' = digestsLeft - 1
  /\ pc' = IF digestsLeft' = 0 THEN "data" ELSE "digest"
  /\ UNCHANGED <<readVars, entries, analysis>>

\* ExtractEfiVariableName: "" for event data that is malformed.
VariableName(e) ==
  IF TryParseEfiVariableData(e.size, e.eventData.nameChars,
                             e.eventData.dataBytes)
  THEN e.eventData.name ELSE ""

\* IsSecureBootEnabled of a SecureBoot variable.
IsSecureBootEnabled(e) ==
  /\ e.size >= HEADER_BYTES + 1
  /\ e.eventData.dataBytes >= 1
  /\ e.eventData.on

\* What entry e adds to the analysis a.
Analyze(a, e) ==
  LET name == IF e.eventType \in VariableTypes THEN VariableName(e) ELSE ""
  IN [a EXCEPT !.secureBootEnabled = IF name = "SecureBoot"
                                     THEN IsSecureBootEnabled(e) ELSE @,
               !.microsoftKeys = @ \/ name \in {"db", "KEK"},
               ![Classify(e)] = @ + 1]

\* Mutant: the event data is not compared with what is left.
SizeWordFits == remaining >= 4

DataFits == remaining >= 4 /\ FieldAt(0).value <= remaining - 4

\* The event data completes the entry, which is classified and kept.
ReadData ==
  /\ pc = "data"
  /\ DataFits
  /\ LET size == FieldAt(0).value
         e == [entry EXCEPT !.size = size,
                            !.eventData = IF size = 0 THEN NoData
                                          ELSE FieldAt(4).data]
     IN /\ Advance(4 + size)
        /\ entries' = Append(entries, e)
        /\ analysis' = Analyze(analysis, e)
  /\ entry' = NoEntry
  /\ pc' = "entry"
  /\ UNCHANGED <<readVars, digestsLeft>>

\* The verdict of the analysis, which the report does not use.
Conclude(a) == [a EXCEPT !.verdict = IF ~a.secureBootEnabled THEN "FAIL"
                                     ELSE IF a.unknown = 0 THEN "PASS"
                                     ELSE "WARNING"]

\* Mutant: the entry under way when the log ends is kept.
KeepPartialEntry ==
  /\ \/ pc = "entry" /\ ~EntryFits
     \/ pc = "digest" /\ ~DigestFits
     \/ pc = "data" /\ ~DataFits
  /\ entries' = IF pc = "entry" THEN entries ELSE Append(entries, entry)
  /\ pc' = "parsed"
  /\ UNCHANGED <<readVars, p, remaining, entry, digestsLeft, analysis>>

\* The log ends, or cannot be read any further; an entry under way is dropped.
WalkEnds ==
  /\ \/ pc = "entry" /\ ~EntryFits
     \/ pc = "digest" /\ ~DigestFits
     \/ pc = "data" /\ ~DataFits
  /\ entry' = NoEntry
  /\ digestsLeft' = 0
  /\ analysis' = Conclude(analysis)
  /\ pc' = "parsed"
  /\ UNCHANGED <<readVars, p, remaining, entries>>

-----------------------------------------------------------------------------
(* The machine *)

\* Windows measures something, or the machine resumes from hibernation with a
\* log of its own, while ReadEventLog is between its two calls.  Later changes
\* are not seen by the call.  Nothing is added to a log that is cut short.
LogChanges ==
  /\ pc \in {"size", "contents"}
  /\ changes < MaxChanges
  /\ measured = FirmwareLog(measured.format, measured.records)
  /\ changes' = changes + 1
  /\ \/ \E r \in OsRecords :
          measured' = FirmwareLog(measured.format, Append(measured.records, r))
     \/ /\ measured.records # <<>>
        /\ measured' = FirmwareLog(measured.format, <<Head(measured.records)>>)
  /\ served' = served \cup {measured'}
  /\ UNCHANGED <<pc, logSize, rawLog, walkVars>>

LogStep ==
  \/ GetLogSize \/ GetLogContents \/ NoEventLog
  \/ SkipHeader \/ KeepHeader \/ ReadEntry \/ ReadDigest \/ ReadData \/ WalkEnds

-----------------------------------------------------------------------------
(* Properties *)

Reading == pc \in {"header", "entry", "digest", "data"}

\* The entry a record yields.
EntryOf(r) == [pcrIndex |-> r.pcr, eventType |-> r.type,
               digests |-> ToSet(r.digests), size |-> r.size,
               eventData |-> IF r.size = 0 THEN NoData ELSE r.data]

Readable(r) == Len(r.digests) <= 8 /\ ToSet(r.digests) \subseteq KnownAlgorithms

\* The first n records of the log are readable and whole.
Whole(log, n) ==
  /\ RecordEnds(log.format, log.records)[n] <= log.size
  /\ \A i \in 1..n : Readable(log.records[i])

\* The log begins with a whole Spec ID event, so that its records are the
\* crypto-agile ones that the walk expects.
Headed(log) == log.format = "agile" /\ Whole(log, 0)

\* The entries a log holds: those of its leading crypto-agile records that are
\* readable and whole.
EntriesOf(log) ==
  IF Headed(log)
  THEN [i \in 1..Max({n \in 0..Len(log.records) : Whole(log, n)}) |->
          EntryOf(log.records[i])]
  ELSE <<>>

\* ReadEventLog returns the whole log as it was at one moment, or nothing,
\* although its size and contents come from two calls.
LogIsSnapshot == rawLog \in served \cup {EmptyLog}

\* The cursor and the rest of the log add up to the log.  In a log that begins
\* with its whole Spec ID event every read is of a field of that width that
\* begins there, and ends inside the log; so is the look at the header in any.
CursorInStep ==
  LET Begins(n, width) ==
        \E f \in rawLog.fields : f.at = p + n /\ f.width = width
  IN /\ Reading => p + remaining = rawLog.size /\ remaining >= 0
     /\ pc = "header" /\ remaining >= 32 => Begins(4, 4) /\ Begins(28, 4)
     /\ Headed(rawLog) =>
          /\ pc = "entry" /\ remaining >= 12 => \A n \in {0, 4, 8} : Begins(n, 4)
          /\ pc = "digest" /\ remaining >= 2 => Begins(0, 2)
          /\ pc = "data" /\ remaining >= 4 =>
               /\ Begins(0, 4)
               /\ FieldAt(0).value \in 1..(remaining - 4) =>
                    Begins(4, FieldAt(0).value)

\* The records a stream of entries may consist of.
Records ==
  {EntryOf(r) : r \in OsRecords \cup UNION {ToSet(l.records) : l \in Logs}}

Stream == INSTANCE RecordStream WITH
  Records <- Records,
  stage   <- IF pc \in {"size", "contents"} THEN "closed"
             ELSE IF Reading THEN "open" ELSE "ended",
  pending <- IF Reading
             THEN SubSeq(EntriesOf(rawLog), Len(entries) + 1,
                         Len(EntriesOf(rawLog)))
             ELSE <<>>,
  taken   <- IF Headed(rawLog) THEN entries ELSE <<>>

\* Of a log that begins with its whole Spec ID event the byte-level walk yields
\* exactly the records, in order, each whole and once, and stops only where
\* nothing more can be read.  Nothing is said here of the entries of other logs:
\* a Spec ID event that is cut short, which event_log_parser.h:80 says is
\* discarded, and an EV_NO_ACTION event of the older format are read as entries
\* they do not hold.
ImplementsRecordStream == Stream!StreamSpec
=============================================================================
