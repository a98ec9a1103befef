--------------------------- MODULE SecureBootChain ---------------------------
(***************************************************************************)
(* ValidateSecureBootChain over the entries of the event log, and what     *)
(* RootHeraldCollectLocalPosture says of the boot on its strength.         *)
(*                                                                         *)
(* A certificate is reduced to whether it decodes, whether its thumbprint  *)
(* is pinned, and the words of interest that its organization, its common  *)
(* name and its subject contain.  How the certificates and digests are cut *)
(* out of a variable's signature lists is in SignatureList; here a         *)
(* variable carries the outcome.                                           *)
(***************************************************************************)
EXTENDS EventLog

CONSTANTS
  PLATFORM_OWNER_NAMES,   \* a sequence: the first that matches is reported
  FIRMWARE_VENDOR_NAMES,
  UNTRUSTED_PK_MARKERS

ASSUME SecureBootChainAssumption ==
  /\ PLATFORM_OWNER_NAMES \in Seq(STRING)
  /\ FIRMWARE_VENDOR_NAMES \subseteq STRING
  /\ UNTRUSTED_PK_MARKERS \subseteq STRING

VARIABLES
  next,     \* index of the next entry to validate
  report,
  posture   \* the fields of RootHeraldPosture about the boot

chainVars == <<next, report, posture>>
vars == <<logVars, chainVars>>

KeyVariables == {"PK", "KEK", "db"}

NoReport ==
  [certs |-> [v \in KeyVariables |-> <<>>],
   pkIsKnownOem |-> FALSE, pkOemName |-> "", kekHasMicrosoft |-> FALSE,
   dbHasMicrosoftUefiCa2011 |-> FALSE, dbHasMicrosoftUefiCa2023 |-> FALSE,
   dbHasWindowsPca2011 |-> FALSE, dbxHashCount |-> 0,
   chainValid |-> FALSE, verdict |-> ""]

Undetermined == [secure_boot |-> -1, oem_keyed |-> -1, oem_name |-> "",
                 boot_log_measurements |-> -1]

Init ==
  /\ LogInit
  /\ next = 1
  /\ report = NoReport
  /\ posture = Undetermined

-----------------------------------------------------------------------------
(* Certificates *)

OwnerNames == ToSet(PLATFORM_OWNER_NAMES)

\* The owner whose name comes first in the list.
OwnerIn(org) ==
  PLATFORM_OWNER_NAMES[CHOOSE i \in DOMAIN PLATFORM_OWNER_NAMES :
    /\ PLATFORM_OWNER_NAMES[i] \in org
    /\ \A j \in 1..(i - 1) : PLATFORM_OWNER_NAMES[j] \notin org]

\* Mutant: the owner's name is looked for before the markers of a default key.
OwnerFirst(cert) ==
  LET owned == cert.org \cap OwnerNames # {}
  IN [subject |-> cert.subject,
      isMicrosoftCert |-> cert.pinned \/ "Microsoft Corporation" \in cert.org,
      isKnownOem |-> owned,
      oemName |-> IF owned THEN OwnerIn(cert.org) ELSE ""]

\* What a certificate says of its holder.  A marker of a default or test key
\* overrides every name, a firmware vendor's name overrides an owner's.
ParseDerCertificate(cert) ==
  LET untrusted == (cert.cn \cup cert.org) \cap UNTRUSTED_PK_MARKERS # {}
      vendor == cert.org \cap FIRMWARE_VENDOR_NAMES # {}
      owned == ~untrusted /\ ~vendor /\ cert.org \cap OwnerNames # {}
  IN [subject |-> cert.subject,
      isMicrosoftCert |-> cert.pinned \/ "Microsoft Corporation" \in cert.org,
      isKnownOem |-> owned,
      oemName |-> IF untrusted THEN "untrusted-default-key"
                  ELSE IF vendor THEN "firmware-vendor"
                  ELSE IF owned THEN OwnerIn(cert.org) ELSE ""]

\* The certificates in an entry's signature lists: those that decode, each at
\* the place it has in the lists.
CertsIn(e) ==
  LET certs == e.eventData.certs
  IN [i \in {j \in DOMAIN certs : certs[j].decodes} |->
        ParseDerCertificate(certs[i])]

-----------------------------------------------------------------------------
(* ValidateSecureBootChain *)

BeginValidation ==
  /\ pc = "parsed"
  /\ pc' = "validate"
  /\ UNCHANGED <<readVars, walkVars, chainVars>>

\* Only PCR 7 counts, and only two of the three variable events.
InChain(e) ==
  /\ e.pcrIndex = 7
  /\ e.eventType \in {EV_EFI_VARIABLE_DRIVER_CONFIG, EV_EFI_VARIABLE_BOOT}

\* The name of the variable an entry measures, "" if it is not in the chain.
ChainVariable(e) == IF InChain(e) THEN VariableName(e) ELSE ""

\* The next entry is the variable v.
AtVariable(v) ==
  /\ pc = "validate"
  /\ next <= Len(entries)
  /\ ChainVariable(entries[next]) = v
  /\ next' = next + 1
  /\ UNCHANGED <<readVars, walkVars, pc, posture>>

Validated == {"PK", "KEK", "db", "dbx"}

\* Mutant: an entry that is skipped is not stepped over.
SkipInPlace ==
  /\ pc = "validate"
  /\ next <= Len(entries)
  /\ ChainVariable(entries[next]) \notin Validated
  /\ UNCHANGED vars

SkipEntry ==
  /\ pc = "validate"
  /\ next <= Len(entries)
  /\ ChainVariable(entries[next]) \notin Validated
  /\ next' = next + 1
  /\ UNCHANGED <<readVars, walkVars, pc, report, posture>>

\* The flag is set by any known owner and never taken back; the name is that of
\* the last.
ValidatePk ==
  /\ AtVariable("PK")
  /\ LET certs == CertsIn(entries[next])
         known == {i \in DOMAIN certs : certs[i].isKnownOem}
     IN report' = [report EXCEPT
          !.certs["PK"] = certs,
          !.pkIsKnownOem = @ \/ known # {},
          !.pkOemName = IF known = {} THEN @ ELSE certs[Max(known)].oemName]

\* Mutant: each certificate of the KEK overwrites the flag.
LastKekCertificateCounts ==
  /\ AtVariable("KEK")
  /\ LET certs == CertsIn(entries[next])
     IN report' = [report EXCEPT
          !.certs["KEK"] = certs,
          !.kekHasMicrosoft = IF DOMAIN certs = {} THEN @
                              ELSE certs[Max(DOMAIN certs)].isMicrosoftCert]

ValidateKek ==
  /\ AtVariable("KEK")
  /\ LET certs == CertsIn(entries[next])
     IN report' = [report EXCEPT
          !.certs["KEK"] = certs,
          !.kekHasMicrosoft =
             @ \/ \E i \in DOMAIN certs : certs[i].isMicrosoftCert]

\* Matched by subject, unlike the others.
ValidateDb ==
  /\ AtVariable("db")
  /\ LET certs == CertsIn(entries[next])
         Has(names) ==
           \E i \in DOMAIN certs : certs[i].subject \cap names # {}
     IN report' = [report EXCEPT
          !.certs["db"] = certs,
          !.dbHasMicrosoftUefiCa2011 =
             @ \/ Has({"Microsoft Corporation UEFI CA 2011"}),
          !.dbHasMicrosoftUefiCa2023 =
             @ \/ Has({"Microsoft UEFI CA 2023", "Windows UEFI CA 2023"}),
          !.dbHasWindowsPca2011 =
             @ \/ Has({"Microsoft Windows Production PCA 2011"})]

ValidateDbx ==
  /\ AtVariable("dbx")
  /\ report' = [report EXCEPT !.dbxHashCount = entries[next].eventData.hashes]

HasUefiCa(r) == r.dbHasMicrosoftUefiCa2011 \/ r.dbHasMicrosoftUefiCa2023

\* The first of the errors, else the warning.
Verdict(r, enabled) ==
  IF ~enabled THEN "FAIL: Secure Boot disabled"
  ELSE IF DOMAIN r.certs["PK"] = {} THEN "FAIL: No Platform Key"
  ELSE IF ~r.kekHasMicrosoft THEN "FAIL: KEK"
  ELSE IF ~HasUefiCa(r) THEN "FAIL: db"
  ELSE IF ~r.pkIsKnownOem THEN "WARNING: PK" ELSE "PASS"

GiveVerdict ==
  /\ pc = "validate"
  /\ next > Len(entries)
  /\ report' = [report EXCEPT
       !.verdict = Verdict(report, analysis.secureBootEnabled),
       !.chainValid = @ \/ Verdict(report, analysis.secureBootEnabled)
                             \in {"WARNING: PK", "PASS"}]
  /\ pc' = "report"
  /\ UNCHANGED <<readVars, walkVars, next, posture>>

-----------------------------------------------------------------------------
(* RootHeraldCollectLocalPosture *)

Tri(b) == IF b THEN 1 ELSE 0

\* The log is parsed a second time for the count, with the same outcome.
FillPosture ==
  /\ pc = "report"
  /\ posture' = [secure_boot |-> Tri(analysis.secureBootEnabled),
                 oem_keyed |-> Tri(report.pkIsKnownOem),
                 oem_name |-> report.pkOemName,
                 boot_log_measurements |-> Len(entries)]
  /\ pc' = "done"
  /\ UNCHANGED <<readVars, walkVars, next, report>>

\* Without a log the fields stay as they were set.
LeaveUndetermined ==
  /\ pc = "unavailable"
  /\ pc' = "done"
  /\ UNCHANGED <<readVars, walkVars, chainVars>>

ChainStep ==
  \/ BeginValidation \/ SkipEntry
  \/ ValidatePk \/ ValidateKek \/ ValidateDb \/ ValidateDbx
  \/ GiveVerdict \/ FillPosture \/ LeaveUndetermined

CallStep == (LogStep /\ UNCHANGED chainVars) \/ ChainStep

Next == CallStep \/ (LogChanges /\ UNCHANGED chainVars)

\* The call runs in one thread and every call it makes returns.
Spec == Init /\ [][Next]_vars /\ WF_vars(CallStep)

-----------------------------------------------------------------------------
(* Properties *)

TypeOK ==
  /\ pc \in {"size", "contents", "header", "entry", "digest", "data", "parsed",
             "unavailable", "validate", "report", "done"}
  /\ changes \in 0..MaxChanges
  /\ logSize \in Nat /\ p \in Nat /\ remaining \in Nat
  /\ digestsLeft \in 0..8
  /\ entries \in Seq(Entries)
  /\ next \in 1..(Len(entries) + 1)
  /\ posture.secure_boot \in -1..1 /\ posture.oem_keyed \in -1..1

\* Which of the entries es measure variable v into PCR 7 as a boot policy.
Measuring(es, v) ==
  {i \in DOMAIN es : /\ es[i].pcrIndex = 7
                     /\ es[i].eventType \in VariableTypes \ {EV_EFI_VARIABLE_BOOT2}
                     /\ VariableName(es[i]) = v}

\* The certificates in variable v of the entries es, before they are classified.
CertsOf(es, v) ==
  UNION {ToSet(es[i].eventData.certs) : i \in Measuring(es, v)}

\* Those of the log itself.
LoggedCerts(v) == CertsOf(EntriesOf(rawLog), v)

\* A machine is reported as keyed by its owner only if PCR 7 of the log holds a
\* Platform Key that names that owner and is neither a default or test key nor
\* a firmware vendor's.
OwnerKeyedIsGenuine ==
  posture.oem_keyed = 1 =>
    \E c \in LoggedCerts("PK") :
      /\ c.decodes
      /\ posture.oem_name \in c.org \cap OwnerNames
      /\ (c.org \cup c.cn) \cap UNTRUSTED_PK_MARKERS = {}
      /\ c.org \cap FIRMWARE_VENDOR_NAMES = {}

\* No variable is measured twice.
MeasuredOnce ==
  \A v \in Validated : \A i, j \in Measuring(EntriesOf(rawLog), v) : i = j

\* The last of the entries es that measures the SecureBoot variable has it on.
SecureBootOn(es) ==
  LET switch == {i \in DOMAIN es : /\ es[i].eventType \in VariableTypes
                                   /\ VariableName(es[i]) = "SecureBoot"}
  IN \E i \in switch : /\ \A j \in switch : j <= i
                       /\ es[i].eventData.on
                       /\ es[i].eventData.dataBytes > 0

\* What the parser and the validator look for in a certificate of KEK and db.
MicrosoftCert(c) ==
  c.decodes /\ (c.pinned \/ "Microsoft Corporation" \in c.org)
UefiCa(c) ==
  c.decodes /\ c.subject \cap {"Microsoft Corporation UEFI CA 2011",
                 "Microsoft UEFI CA 2023", "Windows UEFI CA 2023"} # {}

\* A chain is valid only if the log has Secure Boot on, a Platform Key and the
\* Microsoft certificates in KEK and db; where no variable is measured twice it
\* also is whenever it has these.
ValidChainIsMeasured ==
  LET genuine == /\ SecureBootOn(EntriesOf(rawLog))
                 /\ \E c \in LoggedCerts("PK") : c.decodes
                 /\ \E c \in LoggedCerts("KEK") : MicrosoftCert(c)
                 /\ \E c \in LoggedCerts("db") : UefiCa(c)
  IN pc \in {"report", "done"} /\ rawLog # EmptyLog =>
       /\ report.chainValid => genuine
       /\ MeasuredOnce /\ genuine => report.chainValid

\* Whatever the log holds, the call comes to an end.
CallReturns == <>(pc = "done")

\* What rootherald.h says of the tri-state fields: 0 means the variable was
\* looked at.
ZeroMeansExamined ==
  pc = "done" =>
    /\ posture.secure_boot = 0 =>
         \E e \in ToSet(entries) : e.eventType \in VariableTypes
                                   /\ VariableName(e) = "SecureBoot"
    /\ posture.oem_keyed = 0 =>
         Measuring(entries, "PK") # {}
=============================================================================
