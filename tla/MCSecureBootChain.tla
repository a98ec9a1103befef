-------------------------- MODULE MCSecureBootChain --------------------------
(* Instances of SecureBootChain for TLC, with the byte counts of the code. *)
EXTENDS SecureBootChain

Owners == <<"Lenovo", "Dell", "Microsoft">>
Vendors == {"AMI"}
Markers == {"DO NOT TRUST"}

Cert(org, cn, subject) ==
  [decodes |-> TRUE, pinned |-> FALSE, org |-> org, cn |-> cn,
   subject |-> subject]

OwnerPk   == Cert({"Dell"}, {}, {})
TestPk    == Cert({"AMI", "Dell"}, {"DO NOT TRUST"}, {})
VendorPk  == Cert({"AMI", "Dell"}, {}, {})
BadPk     == [OwnerPk EXCEPT !.decodes = FALSE]
MsKek     == [Cert({"Microsoft"}, {}, {}) EXCEPT !.pinned = TRUE]
MsDb      == Cert({"Microsoft", "Microsoft Corporation"}, {},
                  {"Microsoft Corporation UEFI CA 2011"})
OtherCert == Cert({}, {}, {})

Record(pcr, type, digests, size, data) ==
  [pcr |-> pcr, type |-> type, digests |-> digests, size |-> size,
   data |-> data]

\* The measurement of a variable with a name of n characters.
Variable(name, n, bytes, on, certs, hashes) ==
  Record(7, EV_EFI_VARIABLE_DRIVER_CONFIG, <<11>>, DataAt(n) + bytes,
         [nameChars |-> n, dataBytes |-> bytes, name |-> name, on |-> on,
          certs |-> certs, hashes |-> hashes])

SecureBoot(on) == Variable("SecureBoot", 10, 1, on, <<>>, 0)
Pk(certs)  == Variable("PK", 2, 44 * Len(certs), FALSE, certs, 0)
Kek(certs) == Variable("KEK", 3, 44 * Len(certs), FALSE, certs, 0)
Db(certs)  == Variable("db", 2, 44 * Len(certs), FALSE, certs, 0)
Dbx        == Variable("dbx", 3, 124, FALSE, <<>>, 2)

Separator == Record(7, 4, <<4, 11>>, 4, NoData)
Windows   == Record(12, 6, <<18, 11>>, 3, NoData)

\* Records the walk cannot pass, and variables the chain does not count.
Sha3      == [Separator EXCEPT !.digests = <<11, 39>>]
Crowded   == [Separator EXCEPT !.digests = [i \in 1..9 |-> 4]]
Malformed == [Pk(<<OwnerPk>>) EXCEPT !.data.nameChars = 1025]
Overlong  == [Pk(<<OwnerPk>>) EXCEPT !.data.dataBytes = 45]
Elsewhere == [Pk(<<OwnerPk>>) EXCEPT !.pcr = 1]
Boot2     == [Kek(<<MsKek>>) EXCEPT !.type = EV_EFI_VARIABLE_BOOT2]
Empty     == Record(7, EV_EFI_VARIABLE_BOOT, <<>>, 0, NoData)
Locality  == Record(0, EV_NO_ACTION, <<11>>, 17, NoData)
Note      == [Locality EXCEPT !.size = 0]
NoSwitch  == [SecureBoot(TRUE) EXCEPT !.data.dataBytes = 0]

Odd == {SecureBoot(TRUE), SecureBoot(FALSE), Pk(<<OwnerPk>>), Pk(<<TestPk>>),
        Pk(<<>>), Separator, Windows, Sha3, Crowded, Malformed, Overlong,
        Elsewhere, Boot2, Empty, NoSwitch, Dbx, Locality, Note}

\* Logs of up to two odd records; boots of the usual five variables in many
\* states; and one boot cut after every byte.
ShortLogs(format) == {FirmwareLog(format, rs) :
                        rs \in {<<>>} \cup [1..1 -> Odd] \cup [1..2 -> Odd]}

Boot(pks, keks, dbs) == <<SecureBoot(TRUE), Pk(pks), Kek(keks), Db(dbs), Dbx>>

PkCerts == {<<OwnerPk>>, <<TestPk>>, <<VendorPk>>, <<OwnerPk, OtherCert>>,
            <<BadPk>>, <<>>}

Boots == {FirmwareLog("agile", Boot(pks, keks, dbs)) : pks \in PkCerts,
            keks \in {<<MsKek, OtherCert>>, <<OtherCert>>},
            dbs \in {<<OtherCert, MsDb>>, <<OtherCert>>}}

Twice == {FirmwareLog("agile", Boot(pks, <<MsKek>>, <<MsDb>>) \o <<r>>) :
            pks \in PkCerts, r \in {Pk(<<OtherCert>>), Pk(<<>>), Elsewhere,
                                    SecureBoot(FALSE), Windows}}

Cuts(log) == {Cut(log, n) : n \in 0..log.size}

CutLogs == Cuts(FirmwareLog("agile",
                  <<Separator, SecureBoot(TRUE), Pk(<<OwnerPk>>)>>))

\* EV_NO_ACTION events of the older format, behind which the walk goes on.
CutOldLogs == Cuts(FirmwareLog("legacy",
                     <<Note, Locality, Note, Pk(<<OwnerPk>>)>>))

AgileLogs == ShortLogs("agile") \cup Boots \cup Twice \cup CutLogs
AllLogs == AgileLogs \cup ShortLogs("legacy") \cup CutOldLogs

\* Boots with Secure Boot on and an owner's key, in logs the walk cannot read:
\* one has a digest of an algorithm it does not know, one is in the old format.
UnreadLogs ==
  LET boot == Boot(<<OwnerPk>>, <<MsKek>>, <<MsDb>>)
  IN {FirmwareLog("agile", <<Separator, Sha3>> \o boot),
      FirmwareLog("legacy", boot)}

Later == {Windows}
=============================================================================
