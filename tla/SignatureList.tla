--------------------------- MODULE SignatureList ---------------------------
(***************************************************************************)
(* ParseEfiSignatureList: the walk over the EFI_SIGNATURE_LISTs in the     *)
(* contents of a Secure Boot variable.                                     *)
(*                                                                         *)
(* The event data is any byte string: its lengths are chosen when the call *)
(* begins, and the type and the three 32-bit sizes of a list when the walk *)
(* reads them.  A list may declare less than its own header, in which case *)
(* the walk goes on in the middle of it, so nothing relates the sizes read *)
(* at one place to those read at another.                                  *)
(***************************************************************************)
EXTENDS EfiVariable, Integers, FiniteSets

CONSTANTS
  RawSizes,     \* sizes of event data
  LongWords,    \* values of the 64-bit lengths
  Words,        \* values of the 32-bit sizes
  WordMod,      \* 2^32
  LIST_HEADER,  \* the type and the three sizes of a list: 28
  OWNER,        \* the SignatureOwner of an entry: 16
  CERT_LIMIT,   \* entries this long or longer are not parsed: 65536
  NONE

ASSUME SignatureListAssumption ==
  /\ RawSizes \subseteq 0..(SizeMod - 1)
  /\ LongWords \subseteq 0..(SizeMod - 1)
  /\ Words \subseteq 0..(WordMod - 1)
  /\ WordMod \in Nat \ {0} /\ LIST_HEADER \in Nat \ {0}
  /\ OWNER \in Nat /\ CERT_LIMIT \in Nat
  /\ LIST_HEADER + 2 * WordMod <= SizeMod  \* size_t is wider than the sizes
  /\ NONE \notin [from: Nat, to: Nat]

VARIABLES
  rawSize,        \* variableData.size()
  nameChars,      \* the lengths that variableData declares
  dataBytes,
  pc,
  at,             \* sigListData, as an offset into the contents
  remaining,      \* sigListRemaining
  listSize,       \* the sizes of the current list
  sigSize,
  offset,         \* the next entry, as an offset into the list
  span,           \* what was last handed to ParseDerCertificate, as offsets
                  \* into variableData
  sha256Entries,
  walked          \* the digests an entry by entry walk would have met

vars == <<rawSize, nameChars, dataBytes, pc, at, remaining, listSize, sigSize,
          offset, span, sha256Entries, walked>>

Spans == [from: Nat, to: Nat]

TypeOK ==
  /\ rawSize \in Nat /\ nameChars \in Nat /\ dataBytes \in Nat
  /\ pc \in {"variable", "list", "x509", "done"}
  /\ at \in Nat /\ remaining \in Nat
  /\ listSize \in Nat /\ sigSize \in Nat /\ offset \in Nat
  /\ span \in Spans \cup {NONE}
  /\ sha256Entries \in Nat /\ walked \in Nat

Init ==
  /\ rawSize \in RawSizes
  /\ nameChars \in LongWords
  /\ dataBytes \in LongWords
  /\ pc = "variable"
  /\ at = 0 /\ remaining = 0
  /\ listSize = 0 /\ sigSize = 0 /\ offset = 0
  /\ span = NONE
  /\ sha256Entries = 0 /\ walked = 0

-----------------------------------------------------------------------------

\* The event data is well formed: its contents are walked.
ParseVariable ==
  /\ pc = "variable"
  /\ TryParseEfiVariableData(rawSize, nameChars, dataBytes)
  /\ pc' = "list"
  /\ remaining' = dataBytes
  /\ UNCHANGED <<rawSize, nameChars, dataBytes, at, listSize, sigSize, offset,
                 span, sha256Entries, walked>>

ParseVariableFails ==
  /\ pc = "variable"
  /\ ~TryParseEfiVariableData(rawSize, nameChars, dataBytes)
  /\ pc' = "done"
  /\ UNCHANGED <<rawSize, nameChars, dataBytes, at, remaining, listSize,
                 sigSize, offset, span, sha256Entries, walked>>

\* Mutant: the offset of the entries is computed with 32 bits.
EntriesOffset32(headerSize) == (LIST_HEADER + headerSize) % WordMod

\* Where the entries begin: headerSize is widened first.
EntriesOffset(headerSize) == (LIST_HEADER + headerSize) % SizeMod

\* The walk goes on behind the current list, of length l.
SkipList(l) ==
  /\ at' = at + l
  /\ remaining' = remaining - l

\* Mutant: a list of length zero is accepted.
EmptyListFits(l) == l <= remaining

\* Mutant: the length is not compared with what is left.
AnyListFits(l) == l # 0

\* A list of length l is walked; any other ends the walk.
ListFits(l) == l # 0 /\ l <= remaining

\* The header of an X.509 list whose entries are walked one by one.
X509List(l, headerSize, s) ==
  /\ pc = "list"
  /\ remaining >= LIST_HEADER
  /\ ListFits(l)
  /\ s > OWNER
  /\ pc' = "x509"
  /\ listSize' = l
  /\ sigSize' = s
  /\ offset' = EntriesOffset(headerSize)
  /\ UNCHANGED <<rawSize, nameChars, dataBytes, at, remaining, span,
                 sha256Entries, walked>>

\* Mutant: the next entry is taken to begin inside this one.
X509EntriesOverlap ==
  /\ pc = "x509"
  /\ offset + sigSize <= listSize
  /\ LET entry == DataAt(nameChars) + at + offset
     IN span' = [from |-> entry + OWNER, to |-> entry + sigSize]
  /\ offset' = offset + sigSize - 2 * OWNER
  /\ UNCHANGED <<rawSize, nameChars, dataBytes, pc, at, remaining, listSize,
                 sigSize, sha256Entries, walked>>

\* Mutant: an entry is compared with the rest of the contents, not with its
\* list.
X509EntryPastList ==
  /\ pc = "x509"
  /\ (offset + sigSize) % SizeMod <= remaining
  /\ span' = IF sigSize - OWNER < CERT_LIMIT
             THEN LET entry == DataAt(nameChars) + at + offset
                  IN [from |-> entry + OWNER, to |-> entry + sigSize]
             ELSE span
  /\ offset' = (offset + sigSize) % SizeMod
  /\ UNCHANGED <<rawSize, nameChars, dataBytes, pc, at, remaining, listSize,
                 sigSize, sha256Entries, walked>>

\* The next entry of the list.
X509Entry ==
  /\ pc = "x509"
  /\ (offset + sigSize) % SizeMod <= listSize
  /\ span' = IF sigSize - OWNER < CERT_LIMIT
             THEN LET entry == DataAt(nameChars) + at + offset
                  IN [from |-> entry + OWNER, to |-> entry + sigSize]
             ELSE span
  /\ offset' = (offset + sigSize) % SizeMod
  /\ UNCHANGED <<rawSize, nameChars, dataBytes, pc, at, remaining, listSize,
                 sigSize, sha256Entries, walked>>

\* The walk goes on behind the list, whose sizes are out of scope now.
X509ListEnds ==
  /\ pc = "x509"
  /\ (offset + sigSize) % SizeMod > listSize
  /\ pc' = "list"
  /\ SkipList(listSize)
  /\ listSize' = 0 /\ sigSize' = 0 /\ offset' = 0
  /\ UNCHANGED <<rawSize, nameChars, dataBytes, span, sha256Entries, walked>>

\* How many entries of size s a walk from one offset to another would meet.
EntriesWalked(from, to, s) == Cardinality({k \in 1..to : from + k * s <= to})

\* The digests of a list are counted by a division.
HashCount(l, headerSize, s) == (l - EntriesOffset(headerSize)) \div s

\* A list of SHA-256 digests.
Sha256List(l, headerSize, s) ==
  /\ pc = "list"
  /\ remaining >= LIST_HEADER
  /\ ListFits(l)
  /\ s > OWNER
  /\ EntriesOffset(headerSize) < l
  /\ sha256Entries' = sha256Entries + HashCount(l, headerSize, s)
  /\ walked' = walked + EntriesWalked(LIST_HEADER + headerSize, l, s)
  /\ SkipList(l)
  /\ UNCHANGED <<rawSize, nameChars, dataBytes, pc, listSize, sigSize, offset,
                 span>>

\* A list of another type, or without room for an entry.
OtherList(l) ==
  /\ pc = "list"
  /\ remaining >= LIST_HEADER
  /\ ListFits(l)
  /\ SkipList(l)
  /\ UNCHANGED <<rawSize, nameChars, dataBytes, pc, listSize, sigSize, offset,
                 span, sha256Entries, walked>>

\* What is left is too short for a list, or declares an impossible length.
WalkEnds ==
  /\ pc = "list"
  /\ \/ remaining < LIST_HEADER
     \/ \E l \in Words : ~ListFits(l)
  /\ pc' = "done"
  /\ UNCHANGED <<rawSize, nameChars, dataBytes, at, remaining, listSize,
                 sigSize, offset, span, sha256Entries, walked>>

Next ==
  \/ ParseVariable \/ ParseVariableFails
  \/ \E l, headerSize, s \in Words :
       X509List(l, headerSize, s) \/ Sha256List(l, headerSize, s)
  \/ X509Entry \/ X509ListEnds
  \/ \E l \in Words : OtherList(l)
  \/ WalkEnds

Spec == Init /\ [][Next]_vars

\* The function runs to its end.
FairSpec == Spec /\ WF_vars(Next)

-----------------------------------------------------------------------------
(* Properties *)

\* What is handed to ParseDerCertificate lies inside the list it is taken from,
\* behind that list's header, and the list lies inside the event data, whatever
\* sizes the log declares: no sum of them wraps before it is compared.
CertInsideList ==
  [][LET list == DataAt(nameChars) + at
     IN span' # span =>
          /\ list + LIST_HEADER + OWNER <= span'.from
          /\ span'.from < span'.to
          /\ span'.to <= list + listSize
          /\ list + listSize <= rawSize]_vars

\* The walk takes the certificates in the order of the data, and no two of them
\* overlap.
CertsInOrder == [][span # NONE /\ span' # span => span'.from >= span.to]_vars

\* The count of digests that comes from a division is the one a walk over the
\* entries would give, also when they do not divide the list.
CountIsWalk == sha256Entries = walked

\* The walk ends, also over lists that are shorter than their own header.
WalkTerminates == <>(pc = "done")
=============================================================================
