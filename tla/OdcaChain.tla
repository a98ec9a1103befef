----------------------------- MODULE OdcaChain -----------------------------
(***************************************************************************)
(* TpmCommands::ReadIntelOdcaIntermediates and the ReadNvData it calls:    *)
(* Intel writes its on-die CA chain as one byte stream and splits it       *)
(* across NV indices, so the library reads every index in chunks,          *)
(* concatenates what it gets and cuts the stream into certificates.        *)
(*                                                                         *)
(* A byte is abstracted to the certificate it belongs to and its place in  *)
(* it.  The first byte of a certificate stands for its SEQUENCE tag and    *)
(* length; every other byte opens nothing.                                 *)
(***************************************************************************)
EXTENDS Layout, Naturals, Sequences

CONSTANTS
  NumIndices,        \* NV indices in the on-die CA range
  MaxCapacity,       \* bound: bytes one index can hold
  CertSizes,         \* sizes of the certificates of the chain, in order
  CHUNK,             \* what ReadNvData asks for at most
  NvBufferMax,       \* what the TPM returns at most: TPM_PT_NV_BUFFER_MAX
  Excess,            \* bound: bytes by which a reply is longer than asked for
  MAX_CERTIFICATES,  \* certificates the library keeps at most
  WordSize,          \* 2^16 for the uint16_t offsets
  Faults             \* whether a TPM command may fail

ASSUME OdcaAssumption ==
  /\ NumIndices \in Nat /\ MaxCapacity \in Nat
  /\ CertSizes \in Seq(Nat \ {0})
  /\ CHUNK \in Nat \ {0} /\ NvBufferMax \in Nat \ {0}
  /\ MAX_CERTIFICATES \in Nat
  /\ Excess \in Nat
  \* Nothing else keeps the 16-bit offset from wrapping: an index holds some
  \* kilobytes, and SendCommand takes no reply of more than 4096.
  /\ WordSize \in Nat /\ MaxCapacity + Excess < WordSize
  /\ Faults \in BOOLEAN

VARIABLES
  nv,          \* the contents of every index; an undefined one holds nothing
  index,       \* i of the loop over the range
  pc,
  out_data,    \* ReadNvData: what was read of the current index
  readOffset,  \* ReadNvData: where the next chunk begins
  stream,      \* the indices read so far, concatenated
  faulted,     \* defined indices for which a command failed or the TPM
               \* returned more than it was asked for
  offset,      \* where the next certificate is cut
  certificates

vars == <<nv, index, pc, out_data, readOffset, stream, faulted, offset,
          certificates>>

-----------------------------------------------------------------------------
(* What Intel wrote *)

\* EndOf[c]: how many bytes the first c certificates take.
EndOf == PartialSums(CertSizes)

ChainLength == EndOf[Len(CertSizes)]

Padding == [cert |-> 0, at |-> 0]

Bytes == [cert: 1..Len(CertSizes), at: Nat \ {0}] \cup {Padding}

\* The n-th byte of the chain and of the padding after it.
ByteAt(n) ==
  IF n > ChainLength THEN Padding
  ELSE LET c == CHOOSE c \in 1..Len(CertSizes) :
                  EndOf[c - 1] < n /\ n <= EndOf[c]
       IN [cert |-> c, at |-> n - EndOf[c - 1]]

Certificate(c) == [i \in 1..CertSizes[c] |-> [cert |-> c, at |-> i]]

\* The stream split across indices of the given capacities.
Split(capacity) ==
  [i \in 1..NumIndices |->
     [n \in 1..capacity[i] |-> ByteAt(PartialSums(capacity)[i - 1] + n)]]

\* Layouts that hold the whole chain.
Layouts ==
  {l \in {Split(c) : c \in [1..NumIndices -> 0..MaxCapacity]} :
     \E i \in 1..NumIndices, n \in 0..MaxCapacity :
       /\ n \in 1..Len(l[i])
       /\ l[i][n] = ByteAt(ChainLength)}

-----------------------------------------------------------------------------

TypeOK ==
  /\ nv \in [1..NumIndices -> Seq(Bytes)]
  /\ index \in 1..(NumIndices + 1)
  /\ pc \in {"public", "read", "append", "cut", "done"}
  /\ out_data \in Seq(Bytes)
  /\ readOffset \in 0..(WordSize - 1)
  /\ stream \in Seq(Bytes)
  /\ faulted \subseteq 1..NumIndices
  /\ offset \in 0..Len(stream)
  /\ certificates \in Seq(Seq(Bytes))

Init ==
  /\ nv \in Layouts
  /\ index = 1
  /\ pc = "public"
  /\ out_data = <<>>
  /\ readOffset = 0
  /\ stream = <<>>
  /\ faulted = {}
  /\ offset = 0
  /\ certificates = <<>>

\* The loop over the range goes to the next index, or leaves the loop.
NextIndex ==
  /\ index' = index + 1
  /\ pc' = IF index = NumIndices THEN "cut" ELSE "public"

\* The number of bytes the next TPM2_NV_Read asks for.
Want ==
  LET left == Len(nv[index]) - readOffset
  IN IF left > CHUNK THEN CHUNK ELSE left

\* TPM2_NV_ReadPublic finds the index and its size.
NvReadPublic ==
  /\ pc = "public"
  /\ nv[index] # <<>>
  /\ pc' = "read"
  /\ out_data' = <<>>
  /\ readOffset' = 0
  /\ UNCHANGED <<nv, index, stream, faulted, offset, certificates>>

\* An undefined index is normal and is skipped.
NvUndefined ==
  /\ pc = "public"
  /\ nv[index] = <<>>
  /\ NextIndex
  /\ UNCHANGED <<nv, out_data, readOffset, stream, faulted, offset,
                 certificates>>

\* A reply of `got' bytes; those that were not asked for are padding.
Reply(got) ==
  [n \in 1..got |-> IF n <= Want THEN nv[index][readOffset + n] ELSE Padding]

\* Mutant: the next chunk begins one byte too far.
NvReadOffByOne ==
  /\ pc = "read"
  /\ Want <= NvBufferMax
  /\ \E got \in 1..(Want + Excess) :
       /\ out_data' = out_data \o Reply(got)
       /\ readOffset' = readOffset + got + 1
       /\ faulted' = IF got > Want THEN faulted \cup {index} ELSE faulted
  /\ pc' = IF readOffset' < Len(nv[index]) THEN "read" ELSE "append"
  /\ UNCHANGED <<nv, index, stream, offset, certificates>>

\* One TPM2_NV_Read.  The TPM refuses to return more than NvBufferMax bytes.
\* The loop copes with a reply shorter than asked for, and takes a longer one
\* as it is: only a length of zero, or beyond the response, is refused.
NvRead ==
  /\ pc = "read"
  /\ Want <= NvBufferMax
  /\ \E got \in 1..(Want + Excess) :
       /\ out_data' = out_data \o Reply(got)
       /\ readOffset' = (readOffset + got) % WordSize
       /\ faulted' = IF got > Want THEN faulted \cup {index} ELSE faulted
  /\ pc' = IF readOffset' < Len(nv[index]) THEN "read" ELSE "append"
  /\ UNCHANGED <<nv, index, stream, offset, certificates>>

\* Mutant: a failed read leaves what it has read in out_data.
NvReadKeepsPartialData ==
  /\ pc = "read"
  /\ Faults
  /\ pc' = "append"
  /\ UNCHANGED <<nv, index, out_data, readOffset, stream, faulted, offset,
                 certificates>>

\* Mutant: a failed read of an index is retried without a limit.
NvReadRetries ==
  /\ pc = "read"
  /\ Faults
  /\ pc' = "public"
  /\ UNCHANGED <<nv, index, out_data, readOffset, stream, faulted, offset,
                 certificates>>

\* A command of ReadNvData fails, if only because it asks for more than the TPM
\* returns at a time: what was read of the index is dropped, and the caller goes
\* on as if the index were undefined.
NvReadFails ==
  /\ pc \in {"public", "read"}
  /\ nv[index] # <<>>
  /\ Faults \/ (pc = "read" /\ Want > NvBufferMax)
  /\ out_data' = <<>>
  /\ faulted' = IF Want > NvBufferMax /\ pc = "read" THEN faulted
                ELSE faulted \cup {index}
  /\ NextIndex
  /\ UNCHANGED <<nv, readOffset, stream, offset, certificates>>

AppendIndex ==
  /\ pc = "append"
  /\ stream' = stream \o out_data
  /\ NextIndex
  /\ UNCHANGED <<nv, out_data, readOffset, faulted, offset, certificates>>

\* The length of the DER object at position `from', or 0 if there is none that
\* fits.
DerObjectSize(data, from) ==
  IF from < Len(data) /\ data[from + 1].at = 1
  THEN LET total == CertSizes[data[from + 1].cert]
       IN IF from + total <= Len(data) THEN total ELSE 0
  ELSE 0

MoreToCut == /\ offset < Len(stream)
             /\ Len(certificates) < MAX_CERTIFICATES
             /\ DerObjectSize(stream, offset) # 0

\* Mutant: the stream is cut without looking at the limit.
CutWithoutLimit ==
  /\ pc = "cut"
  /\ DerObjectSize(stream, offset) # 0
  /\ LET size == DerObjectSize(stream, offset)
     IN /\ certificates' =
             Append(certificates, SubSeq(stream, offset + 1, offset + size))
        /\ offset' = offset + size
  /\ UNCHANGED <<nv, index, pc, out_data, readOffset, stream, faulted>>

CutCertificate ==
  /\ pc = "cut"
  /\ MoreToCut
  /\ LET size == DerObjectSize(stream, offset)
     IN /\ certificates' =
             Append(certificates, SubSeq(stream, offset + 1, offset + size))
        /\ offset' = offset + size
  /\ UNCHANGED <<nv, index, pc, out_data, readOffset, stream, faulted>>

\* Padding, or a certificate that does not fit, ends the chain.
CutEnds ==
  /\ pc = "cut"
  /\ ~MoreToCut
  /\ pc' = "done"
  /\ UNCHANGED <<nv, index, out_data, readOffset, stream, faulted, offset,
                 certificates>>

Next ==
  \/ NvReadPublic \/ NvUndefined \/ NvRead \/ NvReadFails \/ AppendIndex
  \/ CutCertificate \/ CutEnds

Spec == Init /\ [][Next]_vars

\* The call runs to its end; TBS answers every command, if only with an error.
FairSpec == Spec /\ WF_vars(Next)

-----------------------------------------------------------------------------
(* Properties *)

\* ReadNvData, for every split into chunks and short replies, returns the index
\* whole and in order or not at all: while it runs, the uint16_t offset is how
\* much it holds, and unless a reply was too long that is exactly the part of
\* the index before the offset.
NvReadExact ==
  pc \in {"read", "append"} =>
    /\ readOffset = Len(out_data)
    /\ index \notin faulted =>
         /\ readOffset <= Len(nv[index])
         /\ out_data = SubSeq(nv[index], 1, readOffset)
         /\ pc = "append" => readOffset = Len(nv[index])

\* As long as no command failed and no reply was too long, the certificates cut
\* from the stream are those Intel wrote, whole and in chain order, wherever the
\* index boundaries fall.
CutsGenuineChain ==
  faulted = {} =>
    /\ Len(certificates) <= Len(CertSizes)
    /\ \A i \in 1..Len(certificates) : certificates[i] = Certificate(i)

\* If the TPM fails no command it can answer and no reply is too long, the call
\* returns the whole chain, up to its limit.
WholeChain ==
  pc = "done" /\ faulted = {} =>
    Len(certificates) = IF Len(CertSizes) > MAX_CERTIFICATES
                        THEN MAX_CERTIFICATES ELSE Len(CertSizes)

\* Every certificate appended is one that is present in the NV range.
OnlyPresentCertificates ==
  \A i \in 1..Len(certificates) :
    \E c \in 1..Len(CertSizes) : certificates[i] = Certificate(c)

\* The walk over the indices, their chunks and the stream ends.
OdcaTerminates == <>(pc = "done")
=============================================================================
