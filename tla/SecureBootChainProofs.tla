------------------------ MODULE SecureBootChainProofs ------------------------
(***************************************************************************)
(* What the event log reader, its parser and the Secure Boot validator     *)
(* guarantee for every log, every list of names and any number of changes  *)
(* of the log during the call.                                             *)
(***************************************************************************)
EXTENDS SecureBootChain, EventLogProofs, TLAPS

-----------------------------------------------------------------------------
(* The walk inside the call *)

\* The validator and the posture leave the log and the entries alone.
LEMMA ChainIsQuiet ==
  ASSUME ChainStep
  PROVE  /\ UNCHANGED <<readVars, walkVars>>
         /\ pc \in {"parsed", "validate", "report", "unavailable"}
         /\ pc' \in {"validate", "report", "done"}
BY DEF ChainStep, BeginValidation, SkipEntry, ValidatePk, ValidateKek, ValidateDb,
       ValidateDbx, GiveVerdict, FillPosture, LeaveUndetermined, AtVariable

\* The validator and the posture leave the log and the entries alone.
LEMMA ChainKeepsLog ==
  ASSUME LogInv, ChainStep PROVE LogInv'
<1>1. /\ UNCHANGED <<readVars, walkVars>>
      /\ pc \in {"parsed", "validate", "report", "unavailable"}
      /\ pc' \in {"validate", "report", "done"}
  BY ChainIsQuiet
<1>2. ReadInv'
  BY <1>1 DEF LogInv, ReadInv, readVars, Reading
<1>3. WalkInv'
  BY <1>1 DEF LogInv, WalkInv, readVars, walkVars, Reading
<1>. QED BY <1>2, <1>3 DEF LogInv

\* Nothing happens.
LEMMA LogInvStutters ==
  ASSUME LogInv, UNCHANGED vars PROVE LogInv'
BY DEF vars, logVars, readVars, walkVars, LogInv, ReadInv, WalkInv, Reading,
       AgileInv, OldInv

\* Every step of the call and every change of the log keeps LogInv.
LEMMA LogInvNext ==
  ASSUME LogInv, [Next]_vars PROVE LogInv'
BY LogStepNext, LogChangesNext, ChainKeepsLog, LogInvStutters
   DEF Next, CallStep

\* The cursor, what is read and what was served stay in step during the whole
\* call, also while the log changes under it.
THEOREM LogInvariance == Spec => []LogInv
<1>1. Init => LogInv
  BY LogInvInit DEF Init
<1>2. LogInv /\ [Next]_vars => LogInv'
  BY LogInvNext
<1>. QED BY <1>1, <1>2, PTL DEF Spec

\* ReadEventLog returns a log that TBS served at one moment of the call, never
\* the contents of one with the size of another.
THEOREM LogIsOneSnapshot == Spec => []LogIsSnapshot
<1>1. LogInv => LogIsSnapshot
  BY DEF LogInv, ReadInv, LogIsSnapshot
<1>. QED BY <1>1, LogInvariance, PTL

\* Whatever the log, wherever it is cut, the cursor of the parser stays inside
\* it; where the log begins with its whole Spec ID event every read is of a field
\* that begins at the cursor and ends inside the log.
THEOREM CursorStaysInStep == Spec => []CursorInStep
<1>1. LogInv => CursorInStep
  BY CursorOk
<1>. QED BY <1>1, LogInvariance, PTL

\* Of a log that begins with its whole Spec ID event the entries that
\* ParseAndAnalyzeEventLog returns are the records, whole, in order and once, up
\* to the first that cannot be read, wherever the log is cut behind that event.
THEOREM WalkImplementsRecordStream == Spec => ImplementsRecordStream
<1>1. Init => Stream!StreamInit
  BY DEF Init, LogInit, Stream!StreamInit, Reading
<1>2. ASSUME LogInv, LogInv', [Next]_vars
      PROVE  [Stream!StreamNext]_(Stream!streamVars)
  <2>1. CASE LogStep
    BY <1>2, <2>1, StreamStep
  <2>2. CASE ChainStep
    <3>1. /\ UNCHANGED <<readVars, walkVars>>
          /\ pc \in {"parsed", "validate", "report", "unavailable"}
          /\ pc' \in {"validate", "report", "done"}
      BY <2>2, ChainIsQuiet
    <3>2. /\ rawLog' = rawLog /\ entries' = entries
          /\ pc \notin {"size", "contents"} /\ pc' \notin {"size", "contents"}
          /\ ~ Reading /\ ~ Reading'
      BY <3>1 DEF readVars, walkVars, Reading
    <3>. QED BY <3>2, QuietStep
  <2>3. CASE LogChanges
    <3>1. /\ rawLog' = rawLog /\ entries' = entries
          /\ pc \in {"size", "contents"} /\ pc' \in {"size", "contents"}
      BY <2>3 DEF LogChanges, walkVars
    <3>. QED BY <3>1, QuietStep
  <2>4. CASE UNCHANGED vars
    <3>1. rawLog' = rawLog /\ entries' = entries /\ pc' = pc
      BY <2>4 DEF vars, logVars, readVars, walkVars
    <3>. QED BY <3>1 DEF Stream!streamVars, Reading
  <2>. QED BY <1>2, <2>1, <2>2, <2>3, <2>4 DEF Next, CallStep
<1>3. Spec => Stream!StreamSpec
  BY <1>1, <1>2, LogInvariance, PTL DEF Spec, Stream!StreamSpec
<1>. QED BY <1>3 DEF ImplementsRecordStream

-----------------------------------------------------------------------------
(* What the validator has found *)

\* The certificates in variable v of the entries validated so far.
CertsBefore(v) ==
  UNION {ToSet(entries[i].eventData.certs) :
           i \in {j \in Measuring(entries, v) : j < next}}

\* A certificate of the platform's owner `name', who is known.
GenuinePk(c, name) ==
  /\ c.decodes
  /\ name \in c.org \cap OwnerNames
  /\ (c.org \cup c.cn) \cap UNTRUSTED_PK_MARKERS = {}
  /\ c.org \cap FIRMWARE_VENDOR_NAMES = {}

ReportShape ==
  /\ DOMAIN report = DOMAIN NoReport
  /\ DOMAIN report.certs = KeyVariables
  /\ report.pkIsKnownOem \in BOOLEAN /\ report.kekHasMicrosoft \in BOOLEAN
  /\ report.dbHasMicrosoftUefiCa2011 \in BOOLEAN
  /\ report.dbHasMicrosoftUefiCa2023 \in BOOLEAN
  /\ report.chainValid \in BOOLEAN

\* The list of the Platform Key's certificates is that of one measurement.
PkInv ==
  \/ /\ DOMAIN report.certs["PK"] = {}
     /\ \A i \in Measuring(entries, "PK") : i >= next
  \/ \E i \in Measuring(entries, "PK") :
       i < next /\ report.certs["PK"] = CertsIn(entries[i])

OwnerInv ==
  report.pkIsKnownOem =>
    \E c \in CertsBefore("PK") : GenuinePk(c, report.pkOemName)

KekInv ==
  report.kekHasMicrosoft <=> \E c \in CertsBefore("KEK") : MicrosoftCert(c)

DbInv ==
  HasUefiCa(report) <=> \E c \in CertsBefore("db") : UefiCa(c)

SwitchInv ==
  /\ DOMAIN analysis = DOMAIN NoAnalysis
  /\ analysis.secureBootEnabled = SecureBootOn(entries)

\* What a valid chain rests on.
Conditions ==
  /\ analysis.secureBootEnabled
  /\ DOMAIN report.certs["PK"] # {}
  /\ report.kekHasMicrosoft
  /\ HasUefiCa(report)

VerdictInv ==
  /\ pc \notin {"report", "done"} => ~ report.chainValid
  /\ pc = "report" \/ (pc = "done" /\ rawLog # EmptyLog) =>
       /\ next = Len(entries) + 1
       /\ report.chainValid <=> Conditions

PostureInv ==
  posture.oem_keyed = 1 =>
    /\ pc = "done"
    /\ report.pkIsKnownOem
    /\ posture.oem_name = report.pkOemName

ChainInv ==
  /\ SwitchInv
  /\ ReportShape
  /\ PkInv /\ OwnerInv /\ KekInv /\ DbInv
  /\ VerdictInv /\ PostureInv
  /\ pc \in {"size", "contents", "header", "entry", "digest", "data", "parsed",
             "unavailable"} => next = 1 /\ report = NoReport

-----------------------------------------------------------------------------
(* Entries and certificates *)

\* The types of what an entry carries.
LEMMA DataTypes ==
  ASSUME NEW e \in Entries
  PROVE  /\ e.size \in Nat
         /\ e.eventData.nameChars \in Nat /\ e.eventData.dataBytes \in Nat
         /\ e.eventData.on \in BOOLEAN
         /\ e.eventData.certs \in Seq(Certificates)
<1>1. e.size \in Nat /\ e.eventData \in VariableData
  BY DEF Entries
<1>2. /\ NoData.nameChars \in Nat /\ NoData.dataBytes \in Nat
      /\ NoData.on \in BOOLEAN /\ NoData.certs \in Seq(Certificates)
  BY DEF NoData
<1>3. CASE e.eventData = NoData
  BY <1>1, <1>2, <1>3
<1>4. CASE e.eventData # NoData
  BY <1>1, <1>4 DEF VariableData
<1>. QED BY <1>3, <1>4

\* An entry that is the SecureBoot variable.
IsSwitch(e) == e.eventType \in VariableTypes /\ VariableName(e) = "SecureBoot"

\* A SecureBoot variable that is well formed is long enough for its contents.
LEMMA SwitchIsRead ==
  ASSUME NEW e \in Entries, IsSwitch(e)
  PROVE  IsSecureBootEnabled(e) = (e.eventData.on /\ e.eventData.dataBytes > 0)
<1>. DEFINE s == e.size
            c == e.eventData.nameChars
            d == e.eventData.dataBytes
<1>1. s \in Nat /\ c \in Nat /\ d \in Nat /\ e.eventData.on \in BOOLEAN
  BY DataTypes
<1>2. TryParseEfiVariableData(s, c, d)
  BY DEF IsSwitch, VariableName
<1>. HIDE DEF s, c, d
<1>3. s >= HEADER_BYTES /\ d <= (s - HEADER_BYTES) - c * 2
  BY <1>2 DEF TryParseEfiVariableData
<1>4. HEADER_BYTES \in Nat
  BY EfiVariableAssumption
<1>5. d > 0 <=> (d >= 1 /\ s >= HEADER_BYTES + 1)
  BY <1>1, <1>3, <1>4
<1>. QED BY <1>1, <1>5 DEF IsSecureBootEnabled, s, d

\* Analyze changes the switch only at an entry that measures it.
LEMMA SwitchAnalyzed ==
  ASSUME NEW a, DOMAIN a = DOMAIN NoAnalysis, NEW e
  PROVE  /\ DOMAIN Analyze(a, e) = DOMAIN NoAnalysis
         /\ Analyze(a, e).secureBootEnabled =
              IF IsSwitch(e) THEN IsSecureBootEnabled(e)
              ELSE a.secureBootEnabled
<1>1. DOMAIN a = {"secureBootEnabled", "microsoftKeys", "verified", "unknown",
                  "policy", "verdict"}
  BY DEF NoAnalysis
<1>2. Classify(e) \in {"policy", "verified", "unknown"}
  BY DEF Classify
<1>. DEFINE name == IF e.eventType \in VariableTypes THEN VariableName(e) ELSE ""
<1>3. (name = "SecureBoot") <=> IsSwitch(e)
  BY DEF IsSwitch
<1>4. Analyze(a, e) =
        [a EXCEPT !.secureBootEnabled = IF name = "SecureBoot"
                                        THEN IsSecureBootEnabled(e) ELSE @,
                  !.microsoftKeys = @ \/ name \in {"db", "KEK"},
                  ![Classify(e)] = @ + 1]
  BY DEF Analyze
<1>. HIDE DEF name
<1>5. DOMAIN Analyze(a, e) = DOMAIN a
  BY <1>4
<1>6. Analyze(a, e).secureBootEnabled =
        IF name = "SecureBoot" THEN IsSecureBootEnabled(e)
        ELSE a.secureBootEnabled
  BY <1>1, <1>2, <1>4
<1>. QED BY <1>3, <1>5, <1>6

\* The switch is that of the last entry that measures it.
LEMMA AppendSwitch ==
  ASSUME NEW es \in Seq(Entries), NEW e \in Entries
  PROVE  SecureBootOn(Append(es, e)) =
           IF IsSwitch(e) THEN IsSecureBootEnabled(e) ELSE SecureBootOn(es)
<1>. DEFINE n == Len(es)
            fs == Append(es, e)
            S == {i \in DOMAIN es : IsSwitch(es[i])}
            T == {i \in DOMAIN fs : IsSwitch(fs[i])}
<1>1. /\ n \in Nat /\ DOMAIN es = 1..n /\ DOMAIN fs = 1..(n + 1)
      /\ fs[n + 1] = e /\ \A i \in 1..n : fs[i] = es[i]
  OBVIOUS
<1>2. SecureBootOn(es) = \E i \in S : /\ \A j \in S : j <= i
                                      /\ es[i].eventData.on
                                      /\ es[i].eventData.dataBytes > 0
  BY DEF SecureBootOn, IsSwitch
<1>3. SecureBootOn(fs) = \E i \in T : /\ \A j \in T : j <= i
                                      /\ fs[i].eventData.on
                                      /\ fs[i].eventData.dataBytes > 0
  BY DEF SecureBootOn, IsSwitch
<1>. HIDE DEF n, fs
<1>4. CASE IsSwitch(e)
  <2>1. n + 1 \in T /\ \A j \in T : j <= n + 1
    BY <1>1, <1>4
  <2>2. \A i \in T : (\A j \in T : j <= i) => i = n + 1
    BY <1>1, <2>1
  <2>3. SecureBootOn(fs) = (e.eventData.on /\ e.eventData.dataBytes > 0)
    <3>. HIDE DEF T
    <3>. DEFINE On(i) == fs[i].eventData.on
                Some(i) == fs[i].eventData.dataBytes > 0
    <3>1. On(n + 1) = e.eventData.on
          /\ Some(n + 1) = (e.eventData.dataBytes > 0)
      BY <1>1
    <3>2. SecureBootOn(fs) =
            \E i \in T : (\A j \in T : j <= i) /\ On(i) /\ Some(i)
      BY <1>3
    <3>3. e.eventData.on \in BOOLEAN
      BY DataTypes
    <3>. HIDE DEF On, Some
    <3>4. (\E i \in T : (\A j \in T : j <= i) /\ On(i) /\ Some(i))
            <=> On(n + 1) /\ Some(n + 1)
      BY <2>1, <2>2
    <3>. QED BY <3>1, <3>2, <3>3, <3>4
  <2>4. IsSecureBootEnabled(e) = (e.eventData.on /\ e.eventData.dataBytes > 0)
    BY <1>4, SwitchIsRead
  <2>. QED BY <1>4, <2>3, <2>4 DEF fs
<1>5. CASE ~ IsSwitch(e)
  <2>1. T = S
    BY <1>1, <1>5
  <2>2. \A i \in S : fs[i] = es[i]
    BY <1>1
  <2>. HIDE DEF S, T
  <2>3. SecureBootOn(fs) = SecureBootOn(es)
    BY <1>2, <1>3, <2>1, <2>2
  <2>. QED BY <1>5, <2>3 DEF fs
<1>. QED BY <1>4, <1>5

\* OwnerIn finds an owner where there is one.
LEMMA OwnerIsFound ==
  ASSUME NEW org, org \cap OwnerNames # {}
  PROVE  OwnerIn(org) \in org \cap OwnerNames
<1>. DEFINE s == PLATFORM_OWNER_NAMES
            I == {i \in DOMAIN s : s[i] \in org}
            First(i) == s[i] \in org /\ \A j \in 1..(i - 1) : s[j] \notin org
<1>1. s \in Seq(STRING) /\ DOMAIN s = 1..Len(s) /\ Len(s) \in Nat
  BY SecureBootChainAssumption
<1>2. I \in SUBSET Nat /\ I # {}
  BY <1>1 DEF OwnerNames, ToSet
<1>3. PICK x \in I : \A y \in I : x <= y
  BY <1>2, LeastNat
<1>4. ASSUME NEW j \in 1..(x - 1) PROVE s[j] \notin org
  <2>1. j \in 1..Len(s) /\ j < x
    BY <1>1, <1>3
  <2>2. j \notin I
    BY <1>3, <2>1
  <2>. QED BY <1>1, <2>1, <2>2
<1>5. x \in DOMAIN s /\ First(x)
  BY <1>3, <1>4
<1>. DEFINE o == CHOOSE i \in DOMAIN s : First(i)
<1>6. o \in DOMAIN s /\ First(o)
  <2>. HIDE DEF First
  <2>. QED BY <1>5
<1>7. OwnerIn(org) = s[o]
  BY DEF OwnerIn
<1>. HIDE DEF o
<1>8. s[o] \in org /\ s[o] \in OwnerNames
  BY <1>6 DEF OwnerNames, ToSet
<1>. QED BY <1>7, <1>8

\* The certificates of an entry, as the validator sees them.
LEMMA CertsInDef ==
  ASSUME NEW e \in Entries
  PROVE  LET certs == e.eventData.certs
         IN /\ Len(certs) \in Nat /\ DOMAIN certs = 1..Len(certs)
            /\ DOMAIN CertsIn(e) = {i \in DOMAIN certs : certs[i].decodes}
            /\ \A i \in DOMAIN CertsIn(e) :
                 /\ certs[i] \in ToSet(certs)
                 /\ CertsIn(e)[i] = ParseDerCertificate(certs[i])
            /\ \A c \in ToSet(certs) : \E i \in DOMAIN certs : c = certs[i]
<1>1. e.eventData.certs \in Seq(Certificates)
  BY DataTypes
<1>. QED BY <1>1 DEF CertsIn, ToSet

\* The flag for Microsoft's certificates is about those in the variable.
LEMMA MicrosoftIsFound ==
  ASSUME NEW e \in Entries
  PROVE  (\E i \in DOMAIN CertsIn(e) : CertsIn(e)[i].isMicrosoftCert) <=>
         (\E c \in ToSet(e.eventData.certs) : MicrosoftCert(c))
<1>. DEFINE certs == e.eventData.certs
<1>1. \A c : ParseDerCertificate(c).isMicrosoftCert
                = (c.pinned \/ "Microsoft Corporation" \in c.org)
  BY DEF ParseDerCertificate
<1>2. \A i \in DOMAIN CertsIn(e) :
        /\ certs[i] \in ToSet(certs) /\ certs[i].decodes
        /\ CertsIn(e)[i] = ParseDerCertificate(certs[i])
  BY CertsInDef
<1>3. \A c \in ToSet(certs) : c.decodes => \E i \in DOMAIN CertsIn(e) : c = certs[i]
  BY CertsInDef
<1>. HIDE DEF certs
<1>. QED BY <1>1, <1>2, <1>3 DEF MicrosoftCert, certs

\* The two flags for the UEFI CAs are about the certificates in the variable.
LEMMA UefiCaIsFound ==
  ASSUME NEW e \in Entries
  PROVE  LET Has(names) ==
               \E i \in DOMAIN CertsIn(e) : CertsIn(e)[i].subject \cap names # {}
         IN (\/ Has({"Microsoft Corporation UEFI CA 2011"})
             \/ Has({"Microsoft UEFI CA 2023", "Windows UEFI CA 2023"})) <=>
            (\E c \in ToSet(e.eventData.certs) : UefiCa(c))
<1>. DEFINE certs == e.eventData.certs
            A == {"Microsoft Corporation UEFI CA 2011"}
            B == {"Microsoft UEFI CA 2023", "Windows UEFI CA 2023"}
            Has(names) ==
              \E i \in DOMAIN CertsIn(e) : CertsIn(e)[i].subject \cap names # {}
<1>1. \A c : ParseDerCertificate(c).subject = c.subject
  BY DEF ParseDerCertificate
<1>2. \A i \in DOMAIN CertsIn(e) :
        /\ certs[i] \in ToSet(certs) /\ certs[i].decodes
        /\ CertsIn(e)[i] = ParseDerCertificate(certs[i])
  BY CertsInDef
<1>3. \A c \in ToSet(certs) : c.decodes => \E i \in DOMAIN CertsIn(e) : c = certs[i]
  BY CertsInDef
<1>4. \A c : UefiCa(c) <=> c.decodes /\ (c.subject \cap A # {} \/ c.subject \cap B # {})
  BY DEF UefiCa
<1>5. \A i \in DOMAIN CertsIn(e) :
        CertsIn(e)[i].subject = certs[i].subject /\ certs[i] \in ToSet(certs)
        /\ certs[i].decodes
  BY <1>1, <1>2
<1>. HIDE DEF certs, A, B
<1>6. (Has(A) \/ Has(B)) <=> \E c \in ToSet(certs) : UefiCa(c)
  BY <1>3, <1>4, <1>5
<1>. QED BY <1>6 DEF certs, A, B

\* A certificate classified as an owner's names the owner and is no default,
\* test or vendor key.
LEMMA OwnerIsGenuine ==
  ASSUME NEW e \in Entries,
         NEW i \in DOMAIN CertsIn(e), CertsIn(e)[i].isKnownOem
  PROVE  \E c \in ToSet(e.eventData.certs) : GenuinePk(c, CertsIn(e)[i].oemName)
<1>. DEFINE c == e.eventData.certs[i]
            q == ParseDerCertificate(c)
<1>1. c \in ToSet(e.eventData.certs) /\ c.decodes /\ CertsIn(e)[i] = q
  BY CertsInDef
<1>2. q.isKnownOem
  BY <1>1
<1>. HIDE DEF c
<1>3. /\ (c.cn \cup c.org) \cap UNTRUSTED_PK_MARKERS = {}
      /\ c.org \cap FIRMWARE_VENDOR_NAMES = {}
      /\ c.org \cap OwnerNames # {}
      /\ q.oemName = OwnerIn(c.org)
  BY <1>2 DEF ParseDerCertificate
<1>4. OwnerIn(c.org) \in c.org \cap OwnerNames
  BY <1>3, OwnerIsFound
<1>5. GenuinePk(c, q.oemName)
  BY <1>1, <1>3, <1>4 DEF GenuinePk
<1>. QED BY <1>1, <1>5

-----------------------------------------------------------------------------
(* The call *)

\* The entries taken so far have the type of entries.
LEMMA EntriesHaveType == LogInv => entries \in Seq(Entries)
BY EntriesTyped

\* The same after a step.
LEMMA NextEntriesHaveType == LogInv' => (entries \in Seq(Entries))'
BY EntriesHaveType, PTL

\* Every step keeps the types.
LEMMA TypeNext ==
  ASSUME LogInv, LogInv', TypeOK, [Next]_vars PROVE TypeOK'
<1>1. /\ changes' \in 0..MaxChanges
      /\ logSize' \in Nat /\ p' \in Nat /\ remaining' \in Nat
      /\ digestsLeft' \in 0..8
  BY DEF LogInv, ReadInv, WalkInv
<1>2. entries' \in Seq(Entries)
  BY NextEntriesHaveType
<1>3. entries \in Seq(Entries) /\ Len(entries) \in Nat /\ Len(entries') \in Nat
  BY <1>2 DEF TypeOK
<1>4. pc' \in {"size", "contents", "header", "entry", "digest", "data", "parsed",
               "unavailable", "validate", "report", "done"}
  <2>1. CASE LogStep
    BY <2>1 DEF LogStep, GetLogSize, GetLogContents, NoEventLog, SkipHeader,
         KeepHeader, ReadEntry, ReadDigest, ReadData, WalkEnds
  <2>2. CASE ChainStep
    BY <2>2, ChainIsQuiet
  <2>3. CASE LogChanges \/ UNCHANGED vars
    BY <2>3 DEF LogChanges, TypeOK, vars, logVars
  <2>. QED BY <2>1, <2>2, <2>3 DEF Next, CallStep
<1>5. /\ next' \in 1..(Len(entries') + 1)
      /\ posture'.secure_boot \in -1..1 /\ posture'.oem_keyed \in -1..1
  <2>1. CASE LogStep /\ UNCHANGED chainVars
    <3>1. entries' = entries \/ entries' = Append(entries, Completed)
      BY <2>1 DEF LogStep, GetLogSize, GetLogContents, NoEventLog, SkipHeader,
           KeepHeader, ReadEntry, ReadDigest, ReadData, WalkEnds, walkVars,
           Completed
    <3>2. Len(entries') = Len(entries) \/ Len(entries') = Len(entries) + 1
      <4>1. CASE entries' = Append(entries, Completed)
        BY <1>3, <4>1
      <4>. QED BY <3>1, <4>1
    <3>. QED BY <1>3, <2>1, <3>2 DEF chainVars, TypeOK
  <2>2. CASE ChainStep
    <3>1. entries' = entries
      BY <2>2, ChainIsQuiet DEF walkVars
    <3>2. next' = next \/ (next <= Len(entries) /\ next' = next + 1)
      BY <2>2 DEF ChainStep, BeginValidation, SkipEntry, ValidatePk, ValidateKek,
           ValidateDb, ValidateDbx, GiveVerdict, FillPosture,
           LeaveUndetermined, AtVariable, chainVars
    <3>3. next' \in 1..(Len(entries') + 1)
      BY <1>3, <3>1, <3>2 DEF TypeOK
    <3>4. posture' = posture \/ FillPosture
      BY <2>2 DEF ChainStep, BeginValidation, SkipEntry, ValidatePk, ValidateKek,
           ValidateDb, ValidateDbx, GiveVerdict, LeaveUndetermined, AtVariable,
           chainVars
    <3>5. posture'.secure_boot \in -1..1 /\ posture'.oem_keyed \in -1..1
      BY <3>4 DEF TypeOK, FillPosture, Tri
    <3>. QED BY <3>3, <3>5
  <2>3. CASE LogChanges /\ UNCHANGED chainVars
    BY <2>3 DEF LogChanges, walkVars, chainVars, TypeOK
  <2>4. CASE UNCHANGED vars
    BY <2>4 DEF vars, logVars, walkVars, chainVars, TypeOK
  <2>. QED BY <2>1, <2>2, <2>3, <2>4 DEF Next, CallStep
<1>. QED BY <1>1, <1>2, <1>4, <1>5 DEF TypeOK

\* An entry measures a variable if the validator takes it for that variable.
LEMMA MeasuringIs ==
  ASSUME NEW es, NEW i \in DOMAIN es, NEW v \in KeyVariables
  PROVE  i \in Measuring(es, v) <=> ChainVariable(es[i]) = v
<1>1. VariableTypes \ {EV_EFI_VARIABLE_BOOT2} =
        {EV_EFI_VARIABLE_DRIVER_CONFIG, EV_EFI_VARIABLE_BOOT}
  <2>1. /\ EV_EFI_VARIABLE_BOOT2 # EV_EFI_VARIABLE_DRIVER_CONFIG
        /\ EV_EFI_VARIABLE_BOOT2 # EV_EFI_VARIABLE_BOOT
    BY DEF EV_EFI_VARIABLE_BOOT2, EV_EFI_VARIABLE_DRIVER_CONFIG,
           EV_EFI_VARIABLE_BOOT, Efi, EV_EFI_EVENT_BASE
  <2>. QED BY <2>1 DEF VariableTypes
<1>2. i \in Measuring(es, v) <=> InChain(es[i]) /\ VariableName(es[i]) = v
  BY <1>1 DEF Measuring, InChain
<1>3. v # ""
  BY Zenon DEF KeyVariables
<1>. QED BY <1>2, <1>3, Zenon DEF ChainVariable

\* Validating an entry adds its certificates to those of its variable.
LEMMA CertsBeforeNext ==
  ASSUME entries \in Seq(Entries), next \in 1..Len(entries),
         entries' = entries, next' = next + 1,
         NEW CONSTANT v \in KeyVariables
  PROVE  /\ ChainVariable(entries[next]) = v =>
              /\ next \in Measuring(entries, v)
              /\ \A c : c \in CertsBefore(v)' <=>
                   \/ c \in CertsBefore(v)
                   \/ c \in ToSet(entries[next].eventData.certs)
         /\ ChainVariable(entries[next]) # v =>
              /\ next \notin Measuring(entries, v)
              /\ \A c : c \in CertsBefore(v)' <=> c \in CertsBefore(v)
<1>. DEFINE M == Measuring(entries, v)
            C(i) == ToSet(entries[i].eventData.certs)
<1>0. DOMAIN entries = 1..Len(entries) /\ Len(entries) \in Nat /\ next \in Nat
  OBVIOUS
<1>1. next \in M <=> ChainVariable(entries[next]) = v
  BY <1>0, MeasuringIs
<1>2. \A i \in M : i \in Nat
  BY <1>0 DEF Measuring
<1>3. \A i \in M : i < next + 1 <=> i < next \/ i = next
  <2>. HIDE DEF M
  <2>. QED BY <1>0, <1>2
<1>4. \A c : c \in CertsBefore(v) <=> \E i \in M : i < next /\ c \in C(i)
  BY DEF CertsBefore
<1>5. \A c : c \in CertsBefore(v)' <=> \E i \in M : i < next + 1 /\ c \in C(i)
  BY DEF CertsBefore, Measuring
<1>. HIDE DEF M, C
<1>6. \A c : c \in CertsBefore(v)' <=>
               c \in CertsBefore(v) \/ (next \in M /\ c \in C(next))
  BY <1>3, <1>4, <1>5
<1>. QED BY <1>1, <1>6 DEF M, C

\* The report at the start of the validation.
LEMMA NoReportIs ==
  /\ DOMAIN NoReport.certs = KeyVariables
  /\ DOMAIN NoReport.certs["PK"] = {}
  /\ NoReport.pkIsKnownOem = FALSE /\ NoReport.kekHasMicrosoft = FALSE
  /\ NoReport.dbHasMicrosoftUefiCa2011 = FALSE
  /\ NoReport.dbHasMicrosoftUefiCa2023 = FALSE
  /\ NoReport.chainValid = FALSE
<1>1. /\ NoReport.certs = [v \in KeyVariables |-> <<>>]
      /\ NoReport.pkIsKnownOem = FALSE /\ NoReport.kekHasMicrosoft = FALSE
      /\ NoReport.dbHasMicrosoftUefiCa2011 = FALSE
      /\ NoReport.dbHasMicrosoftUefiCa2023 = FALSE
      /\ NoReport.chainValid = FALSE
  BY DEF NoReport
<1>2. "PK" \in KeyVariables /\ DOMAIN <<>> = {}
  BY DEF KeyVariables
<1>. QED BY <1>1, <1>2

\* Before the validation starts nothing is found.
LEMMA Fresh ==
  entries \in Seq(Entries) /\ next = 1 /\ report = NoReport =>
    /\ ReportShape /\ PkInv /\ OwnerInv /\ KekInv /\ DbInv
    /\ ~ report.chainValid
<1>. SUFFICES ASSUME entries \in Seq(Entries), next = 1, report = NoReport
              PROVE  /\ ReportShape /\ PkInv /\ OwnerInv /\ KekInv /\ DbInv
                     /\ ~ report.chainValid
  OBVIOUS
<1>1. \A v : \A i \in Measuring(entries, v) : i >= 1 /\ ~ (i < 1)
  BY DEF Measuring
<1>2. \A v : CertsBefore(v) = {}
  BY <1>1 DEF CertsBefore
<1>3. ReportShape
  BY NoReportIs DEF ReportShape
<1>4. PkInv
  BY <1>1, NoReportIs DEF PkInv
<1>5. OwnerInv /\ KekInv /\ DbInv
  BY <1>2, NoReportIs DEF OwnerInv, KekInv, DbInv, HasUefiCa
<1>. QED BY <1>3, <1>4, <1>5, NoReportIs

\* A validation that has looked at no entry says nothing of any.
LEMMA FreshNext ==
  (entries \in Seq(Entries) /\ next = 1 /\ report = NoReport)' =>
    (/\ ReportShape /\ PkInv /\ OwnerInv /\ KekInv /\ DbInv
     /\ ~ report.chainValid)'
BY Fresh, PTL

\* The validator steps over an entry.
StepsOver ==
  /\ entries \in Seq(Entries)
  /\ next \in 1..Len(entries)
  /\ next' = next + 1
  /\ UNCHANGED entries

\* An entry other than PK leaves what is known of the Platform Key.
LEMMA PkKept ==
  ASSUME StepsOver, PkInv, OwnerInv, ChainVariable(entries[next]) # "PK",
         report'.certs["PK"] = report.certs["PK"],
         report'.pkIsKnownOem = report.pkIsKnownOem,
         report'.pkOemName = report.pkOemName
  PROVE  PkInv' /\ OwnerInv'
<1>. DEFINE M == Measuring(entries, "PK")
<1>1. /\ next \notin M
      /\ \A c : c \in CertsBefore("PK")' <=> c \in CertsBefore("PK")
  BY CertsBeforeNext DEF StepsOver, KeyVariables
<1>2. M' = M /\ M \subseteq Nat /\ next \in Nat /\ next' = next + 1
      /\ entries' = entries
  BY DEF StepsOver, Measuring
<1>3. OwnerInv'
  BY <1>1 DEF OwnerInv, GenuinePk
<1>4. PkInv'
  <2>1. CASE /\ DOMAIN report.certs["PK"] = {}
             /\ \A i \in M : i >= next
    <3>1. \A i \in M : i >= next + 1
      <4>. HIDE DEF M
      <4>. QED BY <1>1, <1>2, <2>1
    <3>. QED BY <1>2, <2>1, <3>1 DEF PkInv
  <2>2. CASE \E i \in M : i < next /\ report.certs["PK"] = CertsIn(entries[i])
    <3>1. PICK i \in M : i < next /\ report.certs["PK"] = CertsIn(entries[i])
      BY <2>2
    <3>. HIDE DEF M
    <3>2. i < next + 1
      BY <1>2, <3>1
    <3>. QED BY <1>2, <3>1, <3>2 DEF PkInv, M
  <2>. QED BY <2>1, <2>2 DEF PkInv
<1>. QED BY <1>3, <1>4

\* An entry other than KEK leaves what is known of KEK.
LEMMA KekKept ==
  ASSUME StepsOver, KekInv, ChainVariable(entries[next]) # "KEK",
         report'.kekHasMicrosoft = report.kekHasMicrosoft
  PROVE  KekInv'
<1>1. \A c : c \in CertsBefore("KEK")' <=> c \in CertsBefore("KEK")
  BY CertsBeforeNext DEF StepsOver, KeyVariables
<1>. QED BY <1>1 DEF KekInv

\* An entry other than db leaves what is known of db.
LEMMA DbKept ==
  ASSUME StepsOver, DbInv, ChainVariable(entries[next]) # "db",
         HasUefiCa(report') = HasUefiCa(report)
  PROVE  DbInv'
<1>1. \A c : c \in CertsBefore("db")' <=> c \in CertsBefore("db")
  BY CertsBeforeNext DEF StepsOver, KeyVariables
<1>. QED BY <1>1 DEF DbInv

\* The fields of a report that its verdict depends on.
ReportFields ==
  {"certs", "pkIsKnownOem", "pkOemName", "kekHasMicrosoft",
   "dbHasMicrosoftUefiCa2011", "dbHasMicrosoftUefiCa2023",
   "dbHasWindowsPca2011", "dbxHashCount", "chainValid", "verdict"}

\* The fields of a report.
LEMMA ReportDomain == DOMAIN NoReport = ReportFields
BY DEF NoReport, ReportFields

\* ValidatePk replaces the Platform Key and leaves KEK and db.
LEMMA PkStep ==
  ASSUME StepsOver, ReportShape, OwnerInv, ValidatePk
  PROVE  /\ ReportShape' /\ PkInv' /\ OwnerInv'
         /\ report'.kekHasMicrosoft = report.kekHasMicrosoft
         /\ HasUefiCa(report') = HasUefiCa(report)
         /\ report'.chainValid = report.chainValid
<1>. DEFINE e == entries[next]
            certs == CertsIn(e)
            known == {i \in DOMAIN certs : certs[i].isKnownOem}
            some == known # {}
            name == certs[Max(known)].oemName
<1>1. /\ ChainVariable(e) = "PK"
      /\ report' = [report EXCEPT
           !.certs["PK"] = certs,
           !.pkIsKnownOem = @ \/ some,
           !.pkOemName = IF known = {} THEN @ ELSE name]
  BY DEF ValidatePk, AtVariable
<1>2. DOMAIN report = ReportFields /\ DOMAIN report.certs = KeyVariables
  BY ReportDomain DEF ReportShape
<1>3. e \in Entries
  BY DEF StepsOver
<1>4. /\ next \in Measuring(entries, "PK")
      /\ \A c : c \in CertsBefore("PK")' <=>
           \/ c \in CertsBefore("PK")
           \/ c \in ToSet(e.eventData.certs)
  BY <1>1, CertsBeforeNext DEF StepsOver, KeyVariables
<1>5. some => \E c \in ToSet(e.eventData.certs) : GenuinePk(c, name)
  <2>. SUFFICES ASSUME some
                PROVE  \E c \in ToSet(e.eventData.certs) : GenuinePk(c, name)
    OBVIOUS
  <2>. DEFINE n == Len(e.eventData.certs)
  <2>1. n \in Nat /\ known \in SUBSET (0..n)
    <3>1. /\ n \in Nat /\ DOMAIN e.eventData.certs = 1..n
          /\ \A i \in known : i \in DOMAIN e.eventData.certs
      BY <1>3, CertsInDef
    <3>. QED BY <3>1
  <2>. DEFINE m == Max(known)
  <2>2. m \in known
    <3>. HIDE DEF known
    <3>. QED BY <2>1, MaxElement
  <2>. HIDE DEF m
  <2>3. m \in DOMAIN CertsIn(e) /\ CertsIn(e)[m].isKnownOem
    BY <2>2
  <2>4. \E c \in ToSet(e.eventData.certs) : GenuinePk(c, CertsIn(e)[m].oemName)
    <3>. HIDE DEF e
    <3>. QED BY <1>3, <2>3, OwnerIsGenuine
  <2>. QED BY <2>4 DEF m
<1>. HIDE DEF e, certs, name, some
<1>6. /\ DOMAIN report' = ReportFields /\ DOMAIN report'.certs = KeyVariables
      /\ report'.certs["PK"] = certs
      /\ report'.pkIsKnownOem = (report.pkIsKnownOem \/ some)
      /\ report'.pkOemName = IF known = {} THEN report.pkOemName ELSE name
      /\ report'.kekHasMicrosoft = report.kekHasMicrosoft
      /\ report'.dbHasMicrosoftUefiCa2011 = report.dbHasMicrosoftUefiCa2011
      /\ report'.dbHasMicrosoftUefiCa2023 = report.dbHasMicrosoftUefiCa2023
      /\ report'.chainValid = report.chainValid
  <2>. HIDE DEF known
  <2>. QED BY <1>1, <1>2 DEF ReportFields, KeyVariables
<1>7. ReportShape'
  BY <1>6, ReportDomain DEF ReportShape, some
<1>8. OwnerInv'
  <2>1. CASE some
    <3>1. report'.pkOemName = name
      BY <1>6, <2>1 DEF some
    <3>. QED BY <1>4, <1>5, <2>1, <3>1 DEF OwnerInv, GenuinePk
  <2>2. CASE ~ some
    <3>1. /\ report'.pkOemName = report.pkOemName
          /\ report'.pkIsKnownOem = report.pkIsKnownOem
      BY <1>6, <2>2 DEF some, ReportShape
    <3>. QED BY <1>4, <3>1 DEF OwnerInv, GenuinePk
  <2>. QED BY <2>1, <2>2
<1>9. PkInv'
  <2>1. next < next' /\ entries' = entries
    BY DEF StepsOver
  <2>2. next \in Measuring(entries', "PK")
    BY <1>4, <2>1
  <2>3. report'.certs["PK"] = CertsIn(entries'[next])
    BY <1>6, <2>1 DEF certs, e
  <2>. QED BY <2>1, <2>2, <2>3 DEF PkInv
<1>. QED BY <1>6, <1>7, <1>8, <1>9 DEF HasUefiCa

\* ValidateKek sets its flag for a Microsoft certificate and leaves PK and db.
LEMMA KekStep ==
  ASSUME StepsOver, ReportShape, KekInv, ValidateKek
  PROVE  /\ ReportShape' /\ KekInv'
         /\ report'.certs["PK"] = report.certs["PK"]
         /\ report'.pkIsKnownOem = report.pkIsKnownOem
         /\ report'.pkOemName = report.pkOemName
         /\ HasUefiCa(report') = HasUefiCa(report)
         /\ report'.chainValid = report.chainValid
<1>. DEFINE e == entries[next]
            certs == CertsIn(e)
            some == \E i \in DOMAIN certs : certs[i].isMicrosoftCert
<1>1. /\ ChainVariable(e) = "KEK"
      /\ report' = [report EXCEPT !.certs["KEK"] = certs,
                                  !.kekHasMicrosoft = @ \/ some]
  BY DEF ValidateKek, AtVariable
<1>2. DOMAIN report = ReportFields /\ DOMAIN report.certs = KeyVariables
  BY ReportDomain DEF ReportShape
<1>3. some <=> \E c \in ToSet(e.eventData.certs) : MicrosoftCert(c)
  <2>1. e \in Entries
    BY DEF StepsOver
  <2>. QED BY <2>1, MicrosoftIsFound
<1>4. \A c : c \in CertsBefore("KEK")' <=>
        \/ c \in CertsBefore("KEK")
        \/ c \in ToSet(e.eventData.certs)
  BY <1>1, CertsBeforeNext DEF StepsOver, KeyVariables
<1>5. some \in BOOLEAN
  OBVIOUS
<1>. HIDE DEF e, certs, some
<1>6. /\ DOMAIN report' = ReportFields /\ DOMAIN report'.certs = KeyVariables
      /\ report'.certs["PK"] = report.certs["PK"]
      /\ report'.pkIsKnownOem = report.pkIsKnownOem
      /\ report'.pkOemName = report.pkOemName
      /\ report'.kekHasMicrosoft = (report.kekHasMicrosoft \/ some)
      /\ report'.dbHasMicrosoftUefiCa2011 = report.dbHasMicrosoftUefiCa2011
      /\ report'.dbHasMicrosoftUefiCa2023 = report.dbHasMicrosoftUefiCa2023
      /\ report'.chainValid = report.chainValid
  BY <1>1, <1>2 DEF ReportFields, KeyVariables
<1>7. ReportShape'
  BY <1>5, <1>6, ReportDomain DEF ReportShape
<1>8. KekInv'
  BY <1>3, <1>4, <1>6 DEF KekInv
<1>. QED BY <1>6, <1>7, <1>8 DEF HasUefiCa

\* ValidateDb sets its flags for a UEFI CA and leaves PK and KEK.
LEMMA DbStep ==
  ASSUME StepsOver, ReportShape, DbInv, ValidateDb
  PROVE  /\ ReportShape' /\ DbInv'
         /\ report'.certs["PK"] = report.certs["PK"]
         /\ report'.pkIsKnownOem = report.pkIsKnownOem
         /\ report'.pkOemName = report.pkOemName
         /\ report'.kekHasMicrosoft = report.kekHasMicrosoft
         /\ report'.chainValid = report.chainValid
<1>. DEFINE e == entries[next]
            certs == CertsIn(e)
            Has(names) ==
              \E i \in DOMAIN certs : certs[i].subject \cap names # {}
            a == Has({"Microsoft Corporation UEFI CA 2011"})
            b == Has({"Microsoft UEFI CA 2023", "Windows UEFI CA 2023"})
            w == Has({"Microsoft Windows Production PCA 2011"})
<1>1. /\ ChainVariable(e) = "db"
      /\ report' = [report EXCEPT !.certs["db"] = certs,
                                  !.dbHasMicrosoftUefiCa2011 = @ \/ a,
                                  !.dbHasMicrosoftUefiCa2023 = @ \/ b,
                                  !.dbHasWindowsPca2011 = @ \/ w]
  BY DEF ValidateDb, AtVariable
<1>2. DOMAIN report = ReportFields /\ DOMAIN report.certs = KeyVariables
  BY ReportDomain DEF ReportShape
<1>3. (a \/ b) <=> \E c \in ToSet(e.eventData.certs) : UefiCa(c)
  <2>1. e \in Entries
    BY DEF StepsOver
  <2>. QED BY <2>1, UefiCaIsFound
<1>4. \A c : c \in CertsBefore("db")' <=>
        \/ c \in CertsBefore("db")
        \/ c \in ToSet(e.eventData.certs)
  BY <1>1, CertsBeforeNext DEF StepsOver, KeyVariables
<1>5. a \in BOOLEAN /\ b \in BOOLEAN
  OBVIOUS
<1>. HIDE DEF e, certs, a, b, w
<1>6. /\ DOMAIN report' = ReportFields /\ DOMAIN report'.certs = KeyVariables
      /\ report'.certs["PK"] = report.certs["PK"]
      /\ report'.pkIsKnownOem = report.pkIsKnownOem
      /\ report'.pkOemName = report.pkOemName
      /\ report'.kekHasMicrosoft = report.kekHasMicrosoft
      /\ report'.dbHasMicrosoftUefiCa2011 = (report.dbHasMicrosoftUefiCa2011 \/ a)
      /\ report'.dbHasMicrosoftUefiCa2023 = (report.dbHasMicrosoftUefiCa2023 \/ b)
      /\ report'.chainValid = report.chainValid
  BY <1>1, <1>2 DEF ReportFields, KeyVariables
<1>7. ReportShape'
  BY <1>5, <1>6, ReportDomain DEF ReportShape
<1>8. DbInv'
  BY <1>3, <1>4, <1>6 DEF DbInv, HasUefiCa
<1>. QED BY <1>6, <1>7, <1>8

\* What the step over an entry leaves alone.
LEMMA ValidateFrame ==
  ASSUME ChainInv, pc = "validate", pc' = "validate",
         UNCHANGED <<walkVars, posture>>, report'.chainValid = report.chainValid
  PROVE  SwitchInv' /\ VerdictInv' /\ PostureInv'
<1>1. analysis' = analysis /\ entries' = entries /\ posture' = posture
  BY DEF walkVars
<1>2. SwitchInv'
  BY <1>1 DEF ChainInv, SwitchInv
<1>3. VerdictInv'
  BY DEF ChainInv, VerdictInv
<1>4. PostureInv'
  BY <1>1 DEF ChainInv, PostureInv
<1>. QED BY <1>2, <1>3, <1>4

\* Every step of the loop over the entries.
LEMMA ValidateNext ==
  ASSUME LogInv, TypeOK, ChainInv,
         SkipEntry \/ ValidatePk \/ ValidateKek \/ ValidateDb \/ ValidateDbx
  PROVE  ChainInv'
<1>1. /\ pc = "validate" /\ pc' = "validate" /\ StepsOver
      /\ UNCHANGED <<walkVars, posture>>
  BY DEF SkipEntry, ValidatePk, ValidateKek, ValidateDb, ValidateDbx, AtVariable,
         StepsOver, TypeOK, walkVars
<1>2. ReportShape /\ PkInv /\ OwnerInv /\ KekInv /\ DbInv
  BY DEF ChainInv
<1>3. /\ ReportShape' /\ PkInv' /\ OwnerInv' /\ KekInv' /\ DbInv'
      /\ report'.chainValid = report.chainValid
  <2>1. CASE SkipEntry
    <3>1. report' = report /\ ChainVariable(entries[next]) \notin {"PK", "KEK", "db"}
      BY <2>1 DEF SkipEntry, Validated
    <3>2. PkInv' /\ OwnerInv' /\ KekInv' /\ DbInv'
      BY <1>1, <1>2, <3>1, PkKept, KekKept, DbKept
    <3>. QED BY <1>2, <3>1, <3>2 DEF ReportShape
  <2>2. CASE ValidatePk
    <3>1. ChainVariable(entries[next]) = "PK"
      BY <2>2 DEF ValidatePk, AtVariable
    <3>. QED BY <1>1, <1>2, <2>2, <3>1, PkStep, KekKept, DbKept
  <2>3. CASE ValidateKek
    <3>1. ChainVariable(entries[next]) = "KEK"
      BY <2>3 DEF ValidateKek, AtVariable
    <3>. QED BY <1>1, <1>2, <2>3, <3>1, KekStep, PkKept, DbKept
  <2>4. CASE ValidateDb
    <3>1. ChainVariable(entries[next]) = "db"
      BY <2>4 DEF ValidateDb, AtVariable
    <3>. QED BY <1>1, <1>2, <2>4, <3>1, DbStep, PkKept, KekKept
  <2>5. CASE ValidateDbx
    <3>1. ChainVariable(entries[next]) = "dbx"
      BY <2>5 DEF ValidateDbx, AtVariable
    <3>. DEFINE h == entries[next].eventData.hashes
    <3>2. report' = [report EXCEPT !.dbxHashCount = h]
      BY <2>5 DEF ValidateDbx
    <3>3. DOMAIN report = ReportFields
      BY <1>2, ReportDomain DEF ReportShape
    <3>. HIDE DEF h
    <3>4. /\ DOMAIN report' = ReportFields /\ report'.certs = report.certs
          /\ report'.pkIsKnownOem = report.pkIsKnownOem
          /\ report'.pkOemName = report.pkOemName
          /\ report'.kekHasMicrosoft = report.kekHasMicrosoft
          /\ report'.dbHasMicrosoftUefiCa2011 = report.dbHasMicrosoftUefiCa2011
          /\ report'.dbHasMicrosoftUefiCa2023 = report.dbHasMicrosoftUefiCa2023
          /\ report'.chainValid = report.chainValid
      BY <3>2, <3>3 DEF ReportFields
    <3>5. HasUefiCa(report') = HasUefiCa(report)
      BY <3>4 DEF HasUefiCa
    <3>6. PkInv' /\ OwnerInv' /\ KekInv' /\ DbInv'
      BY <1>1, <1>2, <3>1, <3>4, <3>5, PkKept, KekKept, DbKept
    <3>. QED BY <1>2, <3>4, <3>6, ReportDomain DEF ReportShape
  <2>. QED BY <2>1, <2>2, <2>3, <2>4, <2>5
<1>4. SwitchInv' /\ VerdictInv' /\ PostureInv'
  BY <1>1, <1>3, ValidateFrame
<1>. QED BY <1>1, <1>3, <1>4 DEF ChainInv

\* Nothing that ChainInv is about, but the place in the call, changes.
ChainSame ==
  /\ entries' = entries /\ next' = next /\ analysis' = analysis
  /\ rawLog' = rawLog

\* A step that keeps the entries and the flags keeps what they say.
LEMMA FoundKept ==
  ASSUME ChainSame, PkInv, OwnerInv, KekInv, DbInv,
         report'.certs = report.certs,
         report'.pkIsKnownOem = report.pkIsKnownOem,
         report'.pkOemName = report.pkOemName,
         report'.kekHasMicrosoft = report.kekHasMicrosoft,
         HasUefiCa(report') = HasUefiCa(report)
  PROVE  PkInv' /\ OwnerInv' /\ KekInv' /\ DbInv'
<1>1. PkInv'
  BY DEF ChainSame, PkInv
<1>2. OwnerInv'
  BY DEF ChainSame, OwnerInv, CertsBefore
<1>3. KekInv'
  BY DEF ChainSame, KekInv, CertsBefore
<1>4. DbInv'
  BY DEF ChainSame, DbInv, CertsBefore
<1>. QED BY <1>1, <1>2, <1>3, <1>4

\* The verdict is positive under four conditions.
LEMMA VerdictIs ==
  ASSUME NEW r, NEW enabled \in BOOLEAN, r.kekHasMicrosoft \in BOOLEAN,
         HasUefiCa(r) \in BOOLEAN
  PROVE  Verdict(r, enabled) \in {"WARNING: PK", "PASS"} <=>
           /\ enabled /\ DOMAIN r.certs["PK"] # {}
           /\ r.kekHasMicrosoft /\ HasUefiCa(r)
BY DEF Verdict

\* The steps before and after the loop.
LEMMA CallEndsNext ==
  ASSUME LogInv, TypeOK, ChainInv,
         BeginValidation \/ GiveVerdict \/ FillPosture \/ LeaveUndetermined
  PROVE  ChainInv'
<1>1. ChainSame
  BY DEF BeginValidation, GiveVerdict, FillPosture, LeaveUndetermined, readVars,
         walkVars, chainVars, ChainSame
<1>2. /\ ReportShape /\ PkInv /\ OwnerInv /\ KekInv /\ DbInv
      /\ SwitchInv /\ VerdictInv /\ PostureInv
  BY DEF ChainInv
<1>3. SwitchInv'
  BY <1>1, <1>2 DEF ChainSame, SwitchInv
<1>4. CASE GiveVerdict
  <2>. DEFINE v == Verdict(report, analysis.secureBootEnabled)
              ok == v \in {"WARNING: PK", "PASS"}
  <2>1. /\ pc = "validate" /\ pc' = "report" /\ next > Len(entries)
        /\ posture' = posture
        /\ report' = [report EXCEPT !.verdict = v, !.chainValid = @ \/ ok]
    BY <1>4 DEF GiveVerdict
  <2>2. DOMAIN report = ReportFields
    BY <1>2, ReportDomain DEF ReportShape
  <2>3. ok \in BOOLEAN /\ ~ report.chainValid /\ report.chainValid \in BOOLEAN
    BY <1>2, <2>1 DEF VerdictInv, ReportShape
  <2>4. ok <=> Conditions
    <3>1. analysis.secureBootEnabled \in BOOLEAN
      BY <1>2 DEF SwitchInv, SecureBootOn
    <3>2. report.kekHasMicrosoft \in BOOLEAN /\ HasUefiCa(report) \in BOOLEAN
      BY <1>2 DEF ReportShape, HasUefiCa
    <3>. QED BY <3>1, <3>2, VerdictIs DEF Conditions
  <2>. HIDE DEF v, ok
  <2>5. /\ DOMAIN report' = ReportFields /\ report'.certs = report.certs
        /\ report'.pkIsKnownOem = report.pkIsKnownOem
        /\ report'.pkOemName = report.pkOemName
        /\ report'.kekHasMicrosoft = report.kekHasMicrosoft
        /\ report'.dbHasMicrosoftUefiCa2011 = report.dbHasMicrosoftUefiCa2011
        /\ report'.dbHasMicrosoftUefiCa2023 = report.dbHasMicrosoftUefiCa2023
        /\ report'.chainValid = (report.chainValid \/ ok)
    BY <2>1, <2>2 DEF ReportFields
  <2>6. HasUefiCa(report') = HasUefiCa(report)
    BY <2>5 DEF HasUefiCa
  <2>7. PkInv' /\ OwnerInv' /\ KekInv' /\ DbInv'
    BY <1>1, <1>2, <2>5, <2>6, FoundKept
  <2>8. ReportShape'
    BY <1>2, <2>3, <2>5, ReportDomain DEF ReportShape
  <2>9. VerdictInv'
    <3>1. next' = Len(entries') + 1
      BY <1>1, <2>1 DEF ChainSame, TypeOK
    <3>2. Conditions' <=> Conditions
      BY <1>1, <2>5, <2>6 DEF ChainSame, Conditions
    <3>. QED BY <2>1, <2>3, <2>4, <2>5, <3>1, <3>2 DEF VerdictInv
  <2>10. PostureInv'
    BY <1>2, <2>1 DEF PostureInv
  <2>. QED BY <1>3, <2>1, <2>7, <2>8, <2>9, <2>10 DEF ChainInv
<1>5. CASE BeginValidation \/ FillPosture \/ LeaveUndetermined
  <2>1. report' = report
    BY <1>5 DEF BeginValidation, FillPosture, LeaveUndetermined, chainVars
  <2>2. PkInv' /\ OwnerInv' /\ KekInv' /\ DbInv'
    BY <1>1, <1>2, <2>1, FoundKept
  <2>3. ReportShape'
    BY <1>2, <2>1 DEF ReportShape
  <2>4. Conditions' <=> Conditions
    BY <1>1, <2>1 DEF ChainSame, Conditions
  <2>5. CASE BeginValidation
    <3>1. pc = "parsed" /\ pc' = "validate" /\ posture' = posture
      BY <2>5 DEF BeginValidation, chainVars
    <3>2. VerdictInv'
      BY <1>2, <2>1, <3>1 DEF VerdictInv
    <3>3. PostureInv'
      BY <1>2, <3>1 DEF PostureInv
    <3>. QED BY <1>3, <2>2, <2>3, <3>1, <3>2, <3>3 DEF ChainInv
  <2>6. CASE FillPosture
    <3>1. pc = "report" /\ pc' = "done"
      BY <2>6 DEF FillPosture
    <3>2. VerdictInv'
      BY <1>1, <1>2, <2>1, <2>4, <3>1 DEF VerdictInv, ChainSame
    <3>3. PostureInv'
      <4>1. /\ posture'.oem_keyed = IF report.pkIsKnownOem THEN 1 ELSE 0
            /\ posture'.oem_name = report.pkOemName
        BY <2>6 DEF FillPosture, Tri
      <4>. QED BY <2>1, <3>1, <4>1 DEF PostureInv
    <3>. QED BY <1>3, <2>2, <2>3, <3>1, <3>2, <3>3 DEF ChainInv
  <2>7. CASE LeaveUndetermined
    <3>1. pc = "unavailable" /\ pc' = "done" /\ posture' = posture
      BY <2>7 DEF LeaveUndetermined, chainVars
    <3>2. rawLog' = EmptyLog
      BY <1>1, <3>1 DEF ChainSame, LogInv, ReadInv
    <3>3. VerdictInv'
      BY <3>1, <3>2 DEF VerdictInv
    <3>4. PostureInv'
      BY <1>2, <3>1 DEF PostureInv
    <3>. QED BY <1>3, <2>2, <2>3, <3>1, <3>3, <3>4 DEF ChainInv
  <2>. QED BY <1>5, <2>5, <2>6, <2>7
<1>. QED BY <1>4, <1>5

\* The steps of the walk find nothing, but that Secure Boot is on.
LEMMA WalkKeepsChain ==
  ASSUME LogInv, LogInv', TypeOK, ChainInv, LogStep \/ LogChanges,
         UNCHANGED chainVars
  PROVE  ChainInv'
<1>1. /\ pc \in {"size", "contents", "header", "entry", "digest", "data"}
      /\ pc' \in {"size", "contents", "header", "entry", "digest", "data",
                  "parsed", "unavailable"}
  BY DEF LogStep, GetLogSize, GetLogContents, NoEventLog, SkipHeader, KeepHeader,
         ReadEntry, ReadDigest, ReadData, WalkEnds, LogChanges
<1>2. next' = 1 /\ report' = NoReport /\ posture' = posture
  BY <1>1 DEF ChainInv, chainVars
<1>3. (entries \in Seq(Entries))'
  BY NextEntriesHaveType
<1>4. /\ ReportShape' /\ PkInv' /\ OwnerInv' /\ KekInv' /\ DbInv'
      /\ ~ report'.chainValid
  BY <1>2, <1>3, FreshNext
<1>5. VerdictInv' /\ PostureInv'
  BY <1>1, <1>2, <1>4 DEF VerdictInv, PostureInv, ChainInv
<1>6. SwitchInv'
  <2>0. SwitchInv
    BY DEF ChainInv
  <2>1. CASE ReadData
    <3>1. /\ entries' = Append(entries, Completed)
          /\ analysis' = Analyze(analysis, Completed)
      BY <2>1 DEF ReadData, Completed
    <3>2. entries \in Seq(Entries) /\ Completed \in Entries
      <4>1. entries \in Seq(Entries)
        BY DEF TypeOK
      <4>2. CASE Headed(rawLog)
        <5>1. EntriesOf(rawLog) \in Seq(Records)
          BY <2>1, <4>2, EntriesSoFar DEF ReadData, Reading
        <5>2. Len(entries) + 1 \in 1..Len(EntriesOf(rawLog))
          BY <2>1, <4>1, <4>2, <5>1, EntryTaken
        <5>3. Completed \in Records
          BY <2>1, <4>2, <5>1, <5>2, EntryTaken
        <5>. QED BY <4>1, <5>3, RecordsAreEntries
      <4>3. CASE ~ Headed(rawLog)
        <5>1. Completed \in Phantoms
          BY <2>1, <4>3, OldData
        <5>. QED BY <4>1, <5>1 DEF Phantoms
      <4>. QED BY <4>2, <4>3
    <3>3. /\ DOMAIN analysis' = DOMAIN NoAnalysis
          /\ analysis'.secureBootEnabled =
               IF IsSwitch(Completed) THEN IsSecureBootEnabled(Completed)
               ELSE analysis.secureBootEnabled
      BY <2>0, <3>1, SwitchAnalyzed DEF SwitchInv
    <3>4. SecureBootOn(entries') =
            IF IsSwitch(Completed) THEN IsSecureBootEnabled(Completed)
            ELSE SecureBootOn(entries)
      BY <3>1, <3>2, AppendSwitch
    <3>. QED BY <2>0, <3>3, <3>4 DEF SwitchInv
  <2>2. CASE WalkEnds
    <3>1. entries' = entries /\ analysis' = Conclude(analysis)
      BY <2>2 DEF WalkEnds
    <3>2. DOMAIN analysis = {"secureBootEnabled", "microsoftKeys", "verified",
                             "unknown", "policy", "verdict"}
      BY <2>0 DEF SwitchInv, NoAnalysis
    <3>3. /\ DOMAIN analysis' = DOMAIN analysis
          /\ analysis'.secureBootEnabled = analysis.secureBootEnabled
      BY <3>1, <3>2 DEF Conclude
    <3>. QED BY <2>0, <3>1, <3>3 DEF SwitchInv
  <2>3. CASE LogChanges \/ GetLogSize \/ GetLogContents \/ NoEventLog
    <3>1. entries' = entries /\ analysis' = analysis
      BY <2>3 DEF LogChanges, GetLogSize, GetLogContents, NoEventLog, walkVars
    <3>. QED BY <2>0, <3>1 DEF SwitchInv
  <2>4. CASE SkipHeader \/ KeepHeader \/ ReadEntry \/ ReadDigest
    <3>1. entries' = entries /\ analysis' = analysis
      BY <2>4 DEF SkipHeader, KeepHeader, ReadEntry, ReadDigest, walkVars
    <3>. QED BY <2>0, <3>1 DEF SwitchInv
  <2>. QED BY <2>1, <2>2, <2>3, <2>4 DEF LogStep
<1>. QED BY <1>2, <1>4, <1>5, <1>6 DEF ChainInv

-----------------------------------------------------------------------------
(* The invariant and what follows from it *)

IInv == LogInv /\ TypeOK /\ ChainInv

\* Before the log is fetched nothing is reported.
LEMMA IInvInit == Init => IInv
<1>. SUFFICES ASSUME Init PROVE IInv
  OBVIOUS
<1>1. LogInv
  BY LogInvInit DEF Init
<1>2. entries \in Seq(Entries) /\ entries = <<>> /\ Len(entries) = 0
  BY DEF Init, LogInit
<1>3. posture.secure_boot = -1 /\ posture.oem_keyed = -1
  BY DEF Init, Undetermined
<1>4. pc = "size" /\ next = 1 /\ report = NoReport /\ analysis = NoAnalysis
  BY DEF Init, LogInit
<1>5. TypeOK
  <2>1. /\ changes \in 0..MaxChanges /\ logSize \in Nat /\ p \in Nat
        /\ remaining \in Nat /\ digestsLeft \in 0..8
    BY <1>1 DEF LogInv, ReadInv, WalkInv
  <2>. QED BY <1>2, <1>3, <1>4, <2>1 DEF TypeOK
<1>6. SwitchInv
  <2>1. ~ SecureBootOn(entries)
    BY <1>2 DEF SecureBootOn
  <2>2. NoAnalysis.secureBootEnabled = FALSE
    BY DEF NoAnalysis
  <2>3. SecureBootOn(entries) \in BOOLEAN
    BY DEF SecureBootOn
  <2>. QED BY <1>4, <2>1, <2>2, <2>3 DEF SwitchInv
<1>7. /\ ReportShape /\ PkInv /\ OwnerInv /\ KekInv /\ DbInv
      /\ ~ report.chainValid
  BY <1>2, <1>4, Fresh
<1>8. VerdictInv /\ PostureInv
  BY <1>3, <1>4, <1>7 DEF VerdictInv, PostureInv
<1>. QED BY <1>1, <1>4, <1>5, <1>6, <1>7, <1>8 DEF IInv, ChainInv

\* Nothing happens.
LEMMA ChainInvStutters ==
  ASSUME ChainInv, UNCHANGED vars PROVE ChainInv'
<1>1. /\ UNCHANGED <<entries, analysis, rawLog, pc, next, report, posture>>
  BY DEF vars, logVars, readVars, walkVars, chainVars
<1>2. ChainSame
  BY <1>1 DEF ChainSame
<1>3. PkInv' /\ OwnerInv' /\ KekInv' /\ DbInv'
  BY <1>1, <1>2, FoundKept DEF ChainInv
<1>4. SwitchInv' /\ ReportShape' /\ PostureInv'
  BY <1>1 DEF ChainInv, SwitchInv, ReportShape, PostureInv
<1>5. VerdictInv'
  BY <1>1 DEF ChainInv, VerdictInv, Conditions
<1>. QED BY <1>1, <1>3, <1>4, <1>5 DEF ChainInv

\* Every step of the call and every change of the log keeps the invariant.
LEMMA IInvNext ==
  ASSUME IInv, [Next]_vars PROVE IInv'
<1>1. LogInv /\ TypeOK /\ ChainInv
  BY DEF IInv
<1>2. LogInv'
  BY <1>1, LogInvNext
<1>3. TypeOK'
  BY <1>1, <1>2, TypeNext
<1>4. ChainInv'
  <2>1. CASE (LogStep \/ LogChanges) /\ UNCHANGED chainVars
    BY <1>1, <1>2, <2>1, WalkKeepsChain
  <2>2. CASE ChainStep
    BY <1>1, <2>2, ValidateNext, CallEndsNext DEF ChainStep
  <2>3. CASE UNCHANGED vars
    BY <1>1, <2>3, ChainInvStutters
  <2>. QED BY <2>1, <2>2, <2>3 DEF Next, CallStep
<1>. QED BY <1>2, <1>3, <1>4 DEF IInv

\* The inductive invariant of the whole call: where the walk is, the types, and
\* what the validator has found in the entries behind it.
THEOREM Invariance == Spec => []IInv
<1>1. IInv /\ [Next]_vars => IInv'
  BY IInvNext
<1>. QED BY <1>1, IInvInit, PTL DEF Spec

\* Every variable of the call keeps its type, whatever the log holds the entries
\* have that of entries, and the validator's index stays within them.
THEOREM TypeCorrect == Spec => []TypeOK
<1>1. IInv => TypeOK
  BY DEF IInv
<1>. QED BY <1>1, Invariance, PTL

\* Entries that are no variables measure none.
LEMMA NoneMeasured ==
  ASSUME NEW es \in Seq(Phantoms)
  PROVE  (\A v : Measuring(es, v) = {}) /\ ~ SecureBootOn(es)
<1>1. \A i \in DOMAIN es : es[i].eventType \notin VariableTypes
  <2>1. \A i \in DOMAIN es : es[i] \in Phantoms
    OBVIOUS
  <2>. QED BY <2>1 DEF Phantoms
<1>. QED BY <1>1 DEF Measuring, SecureBootOn

\* When the walk has ended, the entries measure what the log does.
LEMMA AsLogged ==
  ASSUME IInv, pc \in {"report", "done"}
  PROVE  /\ \A v : Measuring(EntriesOf(rawLog), v) = Measuring(entries, v)
         /\ \A v : CertsOf(entries, v) = LoggedCerts(v)
         /\ SecureBootOn(EntriesOf(rawLog)) <=> SecureBootOn(entries)
<1>1. CASE Headed(rawLog)
  <2>1. entries = EntriesOf(rawLog)
    BY <1>1 DEF IInv, LogInv, WalkInv
  <2>. QED BY <2>1 DEF LoggedCerts
<1>2. CASE ~ Headed(rawLog)
  <2>1. entries \in Seq(Phantoms) /\ EntriesOf(rawLog) = <<>>
    BY <1>2 DEF IInv, LogInv, WalkInv, EntriesOf
  <2>2. <<>> \in Seq(Phantoms)
    OBVIOUS
  <2>3. /\ \A v : Measuring(entries, v) = {} /\ Measuring(<<>>, v) = {}
        /\ ~ SecureBootOn(entries) /\ ~ SecureBootOn(<<>>)
    BY <2>1, <2>2, NoneMeasured
  <2>. QED BY <2>1, <2>3 DEF LoggedCerts, CertsOf
<1>. QED BY <1>1, <1>2

\* When all entries are validated, all certificates of the log are.
LEMMA AllCerts ==
  ASSUME IInv, pc \in {"report", "done"}, NEW v, next = Len(entries) + 1
  PROVE  CertsBefore(v) = LoggedCerts(v)
<1>1. entries \in Seq(Entries)
  BY DEF IInv, TypeOK
<1>2. \A i \in Measuring(entries, v) : i < next
  BY <1>1 DEF Measuring
<1>3. CertsBefore(v) = CertsOf(entries, v)
  BY <1>2 DEF CertsBefore, CertsOf
<1>. QED BY <1>3, AsLogged

\* Certificates of entries the validator has passed are in the log.
LEMMA SomeCerts ==
  ASSUME IInv, pc \in {"report", "done"}, NEW v
  PROVE  CertsBefore(v) \subseteq LoggedCerts(v)
<1>1. CertsBefore(v) \subseteq CertsOf(entries, v)
  BY DEF CertsBefore, CertsOf
<1>. QED BY <1>1, AsLogged

\* The invariant implies what is claimed of an owner-keyed machine.
LEMMA OwnerKeyedOk ==
  ASSUME IInv PROVE OwnerKeyedIsGenuine
<1>. SUFFICES ASSUME posture.oem_keyed = 1
              PROVE  \E c \in LoggedCerts("PK") : GenuinePk(c, posture.oem_name)
  BY DEF OwnerKeyedIsGenuine, GenuinePk
<1>1. /\ pc = "done" /\ report.pkIsKnownOem
      /\ posture.oem_name = report.pkOemName
  BY DEF IInv, ChainInv, PostureInv
<1>2. \E c \in CertsBefore("PK") : GenuinePk(c, report.pkOemName)
  BY <1>1 DEF IInv, ChainInv, OwnerInv
<1>. QED BY <1>1, <1>2, SomeCerts

\* A machine is reported as keyed by its owner only on the strength of a
\* Platform Key in PCR 7 of the log that names the owner, and that carries
\* neither the mark of a default key nor a firmware vendor's name: for every
\* log, every list of owners and every set of markers and vendors.
THEOREM OwnerKeyedIsAlwaysGenuine == Spec => []OwnerKeyedIsGenuine
<1>1. IInv => OwnerKeyedIsGenuine
  BY OwnerKeyedOk
<1>. QED BY <1>1, Invariance, PTL

\* The Platform Key counts if a certificate of it decodes.
LEMMA PkIsFound ==
  ASSUME IInv, pc \in {"report", "done"}, next = Len(entries) + 1
  PROVE  /\ DOMAIN report.certs["PK"] # {} =>
              \E c \in LoggedCerts("PK") : c.decodes
         /\ MeasuredOnce /\ (\E c \in LoggedCerts("PK") : c.decodes) =>
              DOMAIN report.certs["PK"] # {}
<1>. DEFINE M == Measuring(entries, "PK")
<1>1. /\ entries \in Seq(Entries) /\ M \subseteq DOMAIN entries
      /\ \A i \in M : entries[i] \in Entries /\ i < next /\ ~ (i >= next)
  BY DEF IInv, TypeOK, Measuring
<1>2. \/ /\ DOMAIN report.certs["PK"] = {}
         /\ \A i \in M : i >= next
      \/ \E i \in M : i < next /\ report.certs["PK"] = CertsIn(entries[i])
  BY DEF IInv, ChainInv, PkInv
<1>3. \A c : c \in LoggedCerts("PK") <=>
               \E i \in M : c \in ToSet(entries[i].eventData.certs)
  <2>1. LoggedCerts("PK") = CertsOf(entries, "PK")
    BY AsLogged
  <2>. QED BY <2>1 DEF CertsOf
<1>4. \A i \in M : DOMAIN CertsIn(entries[i]) # {} <=>
                     \E c \in ToSet(entries[i].eventData.certs) : c.decodes
  <2>. SUFFICES ASSUME NEW i \in M
                PROVE  DOMAIN CertsIn(entries[i]) # {} <=>
                         \E c \in ToSet(entries[i].eventData.certs) : c.decodes
    OBVIOUS
  <2>. DEFINE e == entries[i]
              certs == e.eventData.certs
  <2>1. e \in Entries
    BY <1>1
  <2>. HIDE DEF e
  <2>2. /\ DOMAIN CertsIn(e) = {j \in DOMAIN certs : certs[j].decodes}
        /\ \A j \in DOMAIN CertsIn(e) : certs[j] \in ToSet(certs)
        /\ \A c \in ToSet(certs) : \E j \in DOMAIN certs : c = certs[j]
    BY <2>1, CertsInDef
  <2>3. DOMAIN CertsIn(e) # {} <=> \E c \in ToSet(certs) : c.decodes
    BY <2>2
  <2>. QED BY <2>3 DEF e
<1>5. MeasuredOnce => \A i, j \in M : i = j
  <2>1. M = Measuring(EntriesOf(rawLog), "PK")
    BY AsLogged
  <2>. HIDE DEF M
  <2>. QED BY <2>1 DEF MeasuredOnce, Validated
<1>. HIDE DEF M
<1>6. DOMAIN report.certs["PK"] # {} => \E c \in LoggedCerts("PK") : c.decodes
  BY <1>2, <1>3, <1>4
<1>7. MeasuredOnce /\ (\E c \in LoggedCerts("PK") : c.decodes) =>
        DOMAIN report.certs["PK"] # {}
  BY <1>1, <1>2, <1>3, <1>4, <1>5
<1>. QED BY <1>6, <1>7

\* The invariant implies both directions of what a valid chain says.
LEMMA ValidChainOk ==
  ASSUME IInv PROVE ValidChainIsMeasured
<1>. SUFFICES ASSUME pc \in {"report", "done"}, rawLog # EmptyLog
              PROVE  LET genuine ==
                           /\ SecureBootOn(EntriesOf(rawLog))
                           /\ \E c \in LoggedCerts("PK") : c.decodes
                           /\ \E c \in LoggedCerts("KEK") : MicrosoftCert(c)
                           /\ \E c \in LoggedCerts("db") : UefiCa(c)
                     IN /\ report.chainValid => genuine
                        /\ MeasuredOnce /\ genuine => report.chainValid
  BY DEF ValidChainIsMeasured
<1>2. next = Len(entries) + 1 /\ (report.chainValid <=> Conditions)
  BY DEF IInv, ChainInv, VerdictInv
<1>3. analysis.secureBootEnabled <=> SecureBootOn(EntriesOf(rawLog))
  BY AsLogged DEF IInv, ChainInv, SwitchInv
<1>4. report.kekHasMicrosoft <=> \E c \in LoggedCerts("KEK") : MicrosoftCert(c)
  BY <1>2, AllCerts DEF IInv, ChainInv, KekInv
<1>5. HasUefiCa(report) <=> \E c \in LoggedCerts("db") : UefiCa(c)
  BY <1>2, AllCerts DEF IInv, ChainInv, DbInv
<1>6. /\ DOMAIN report.certs["PK"] # {} =>
           \E c \in LoggedCerts("PK") : c.decodes
      /\ MeasuredOnce /\ (\E c \in LoggedCerts("PK") : c.decodes) =>
           DOMAIN report.certs["PK"] # {}
  BY <1>2, PkIsFound
<1>. QED BY <1>2, <1>3, <1>4, <1>5, <1>6 DEF Conditions

\* The validator calls a chain valid only if the log has Secure Boot on, a
\* Platform Key that decodes and Microsoft's certificates in KEK and db, and
\* always does where each variable is measured once: whatever the order and the
\* number of the measurements.
THEOREM ValidChainIsAlwaysMeasured == Spec => []ValidChainIsMeasured
<1>1. IInv => ValidChainIsMeasured
  BY ValidChainOk
<1>. QED BY <1>1, Invariance, PTL
=============================================================================
