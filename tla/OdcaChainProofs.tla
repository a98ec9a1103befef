-------------------------- MODULE OdcaChainProofs --------------------------
(***************************************************************************)
(* Theorems about OdcaChain: for every chain of certificates, every split  *)
(* of it across NV indices and every split of an index into chunks.        *)
(***************************************************************************)
EXTENDS OdcaChain, LayoutProofs, SequenceTheorems

USE OdcaAssumption

-----------------------------------------------------------------------------
(* The chain *)

\* A certificate follows the one before it.
LEMMA EndOfDef ==
  /\ Len(CertSizes) \in Nat
  /\ EndOf[0] = 0
  /\ \A c \in 0..Len(CertSizes) : EndOf[c] \in Nat
  /\ \A c \in 1..Len(CertSizes) : /\ CertSizes[c] \in Nat \ {0}
                                  /\ EndOf[c - 1] \in Nat
                                  /\ EndOf[c] = EndOf[c - 1] + CertSizes[c]
<1>1. CertSizes \in Seq(Nat)
  OBVIOUS
<1>2. Len(CertSizes) \in Nat /\ \A c \in 1..Len(CertSizes) :
                                   CertSizes[c] \in Nat \ {0}
  OBVIOUS
<1>3. EndOf \in [0..Len(CertSizes) -> Nat]
  BY <1>1, PartialSumsDef DEF EndOf
<1>4. /\ EndOf[0] = 0
      /\ \A c \in 1..Len(CertSizes) : EndOf[c] = EndOf[c - 1] + CertSizes[c]
  BY <1>1, PartialSumsDef DEF EndOf
<1>5. \A c \in 1..Len(CertSizes) : c - 1 \in 0..Len(CertSizes)
  BY <1>2
<1>6. \A c \in 0..Len(CertSizes) : EndOf[c] \in Nat
  BY <1>3
<1>. QED BY <1>2, <1>4, <1>5, <1>6

\* Later certificates end later.
LEMMA EndOfMonotonic ==
  \A c, d \in 0..Len(CertSizes) : c <= d => EndOf[c] <= EndOf[d]
<1>1. CertSizes \in Seq(Nat)
  OBVIOUS
<1>. QED BY <1>1, PartialSumsMonotonic DEF EndOf

\* Where a byte of certificate c is in the stream.
LEMMA ByteOfCert ==
  ASSUME NEW c \in 1..Len(CertSizes), NEW a \in 1..CertSizes[c]
  PROVE  /\ EndOf[c - 1] + a \in 1..ChainLength
         /\ ByteAt(EndOf[c - 1] + a) = [cert |-> c, at |-> a]
<1>. DEFINE N == Len(CertSizes)
            n == EndOf[c - 1] + a
            At(d) == EndOf[d - 1] < n /\ n <= EndOf[d]
<1>1. N \in Nat /\ c \in 1..N /\ c - 1 \in 0..N /\ c \in 0..N /\ N \in 0..N
  BY EndOfDef
<1>2. /\ EndOf[c - 1] \in Nat /\ CertSizes[c] \in Nat
      /\ EndOf[c] = EndOf[c - 1] + CertSizes[c]
  BY <1>1, EndOfDef
<1>3. EndOf[c] <= ChainLength /\ ChainLength \in Nat
  BY <1>1, EndOfDef, EndOfMonotonic DEF ChainLength
<1>4. n \in 1..ChainLength /\ At(c)
  BY <1>2, <1>3
<1>5. ASSUME NEW d \in 1..N, At(d) PROVE d = c
  <2>1. d - 1 \in 0..N /\ d \in 0..N
    BY <1>1
  <2>2. d <= c - 1 => EndOf[d] <= EndOf[c - 1]
    BY <1>1, <2>1, EndOfMonotonic
  <2>3. c <= d - 1 => EndOf[c] <= EndOf[d - 1]
    BY <1>1, <2>1, EndOfMonotonic
  <2>4. /\ EndOf[d] \in Nat /\ EndOf[d - 1] \in Nat
        /\ EndOf[c] \in Nat
    BY <1>1, <2>1, EndOfDef
  <2>. HIDE DEF N, n
  <2>5. n \in Nat
    BY <1>2 DEF n
  <2>6. ~(d <= c - 1) /\ ~(c <= d - 1)
    BY ONLY <1>2, <1>4, <1>5, <2>2, <2>3, <2>4, <2>5
  <2>. QED BY <1>1, <2>6
<1>6. (CHOOSE d \in 1..N : At(d)) = c
  <2>. HIDE DEF At, N
  <2>. QED BY <1>1, <1>4, <1>5
<1>7. ByteAt(n) = [cert |-> c, at |-> n - EndOf[c - 1]]
  <2>1. ~(n > ChainLength)
    BY <1>4, <1>3
  <2>. DEFINE d == CHOOSE d \in 1..N : At(d)
  <2>2. ByteAt(n) = [cert |-> d, at |-> n - EndOf[d - 1]]
    BY <2>1, Zenon DEF ByteAt
  <2>. HIDE DEF d
  <2>3. d = c
    BY <1>6 DEF d
  <2>. QED BY <2>2, <2>3
<1>8. n - EndOf[c - 1] = a
  BY <1>2
<1>. QED BY <1>4, <1>7, <1>8

\* Every byte of the chain is a byte of a certificate.
LEMMA CertOfByte ==
  ASSUME NEW n \in 1..ChainLength
  PROVE  \E c \in 1..Len(CertSizes) : \E a \in 1..CertSizes[c] :
           n = EndOf[c - 1] + a
<1>. DEFINE N == Len(CertSizes)
            T == {c \in 0..N : n <= EndOf[c]}
<1>1. N \in T /\ T \in SUBSET Nat
  BY EndOfDef DEF ChainLength
<1>2. PICK c \in T : \A d \in T : c <= d
  <2>. HIDE DEF T
  <2>. QED BY <1>1, LeastNat
<1>3. c # 0 /\ c \in 1..N
  BY <1>2, EndOfDef
<1>4. c - 1 \in 0..N /\ c - 1 \notin T
  BY <1>2, <1>3, EndOfDef
<1>5. n > EndOf[c - 1] /\ n <= EndOf[c]
  BY <1>2, <1>4, EndOfDef
<1>6. n - EndOf[c - 1] \in 1..CertSizes[c]
  BY <1>3, <1>5, EndOfDef
<1>7. n = EndOf[c - 1] + (n - EndOf[c - 1])
  BY <1>3, EndOfDef
<1>. QED BY <1>3, <1>6, <1>7

\* No two bytes of the chain are the same.
LEMMA ByteAtInjective ==
  ASSUME NEW m \in 1..ChainLength, NEW n \in 1..ChainLength,
         ByteAt(m) = ByteAt(n)
  PROVE  m = n
<1>1. PICK c \in 1..Len(CertSizes) :
        \E a \in 1..CertSizes[c] : m = EndOf[c - 1] + a
  BY CertOfByte
<1>2. PICK d \in 1..Len(CertSizes) :
        \E b \in 1..CertSizes[d] : n = EndOf[d - 1] + b
  BY CertOfByte
<1>a. PICK a \in 1..CertSizes[c] : m = EndOf[c - 1] + a
  BY <1>1
<1>b. PICK b \in 1..CertSizes[d] : n = EndOf[d - 1] + b
  BY <1>2
<1>3. [cert |-> c, at |-> a] = [cert |-> d, at |-> b]
  BY <1>a, <1>b, ByteOfCert
<1>4. c = d /\ a = b
  BY <1>3
<1>. QED BY <1>a, <1>b, <1>4

\* Every place of the stream has a byte.
LEMMA ByteAtType ==
  ASSUME NEW n \in Nat \ {0}
  PROVE  ByteAt(n) \in Bytes
<1>1. CASE n > ChainLength
  BY <1>1 DEF ByteAt, Bytes
<1>2. CASE n <= ChainLength
  <2>1. n \in 1..ChainLength
    BY <1>2, EndOfDef DEF ChainLength
  <2>c. PICK c \in 1..Len(CertSizes) :
          \E a \in 1..CertSizes[c] : n = EndOf[c - 1] + a
    BY <2>1, CertOfByte
  <2>2. PICK a \in 1..CertSizes[c] : n = EndOf[c - 1] + a
    BY <2>c
  <2>3. a \in Nat \ {0}
    BY EndOfDef
  <2>4. ByteAt(n) = [cert |-> c, at |-> a]
    BY <2>2, ByteOfCert
  <2>5. [cert |-> c, at |-> a] \in Bytes
    BY <2>3 DEF Bytes
  <2>. QED BY <2>4, <2>5
<1>3. ChainLength \in Nat
  BY EndOfDef DEF ChainLength
<1>. QED BY <1>1, <1>2, <1>3

-----------------------------------------------------------------------------
(* The layout *)

Lengths == [i \in 1..NumIndices |-> Len(nv[i])]

\* The indices hold consecutive parts of the stream, and together the chain.
LayoutInv ==
  /\ NumIndices # 0
  /\ nv \in [1..NumIndices -> Seq(Bytes)]
  /\ \A i \in 1..NumIndices : Len(nv[i]) <= MaxCapacity
  /\ \A i \in 1..NumIndices : \A n \in 1..Len(nv[i]) :
       nv[i][n] = ByteAt(PartialSums(Lengths)[i - 1] + n)
  /\ ChainLength <= PartialSums(Lengths)[NumIndices]

\* What the capacities of a layout say of where an index begins.
LEMMA CapacityDef ==
  ASSUME NEW capacity \in [1..NumIndices -> 0..MaxCapacity]
  PROVE  /\ capacity \in Seq(Nat) /\ Len(capacity) = NumIndices
         /\ \A i \in 0..NumIndices : PartialSums(capacity)[i] \in Nat
         /\ \A i \in 1..NumIndices :
              /\ PartialSums(capacity)[i - 1] \in Nat
              /\ PartialSums(capacity)[i] =
                   PartialSums(capacity)[i - 1] + capacity[i]
              /\ PartialSums(capacity)[i] <= PartialSums(capacity)[NumIndices]
<1>1. capacity \in Seq(Nat) /\ Len(capacity) = NumIndices
  OBVIOUS
<1>2. PartialSums(capacity) \in [0..NumIndices -> Nat]
  BY <1>1, PartialSumsDef
<1>3. \A i \in 1..NumIndices :
        PartialSums(capacity)[i] = PartialSums(capacity)[i - 1] + capacity[i]
  BY <1>1, PartialSumsDef
<1>4. \A i \in 1..NumIndices : i - 1 \in 0..NumIndices /\ i \in 0..NumIndices
  OBVIOUS
<1>5. NumIndices \in 0..NumIndices
  OBVIOUS
<1>6. \A i \in 1..NumIndices :
        PartialSums(capacity)[i] <= PartialSums(capacity)[NumIndices]
  BY <1>1, <1>4, <1>5, PartialSumsMonotonic
<1>. QED BY <1>1, <1>2, <1>3, <1>4, <1>6

\* Every layout holds the chain in consecutive parts.
LEMMA LayoutInit == nv \in Layouts => LayoutInv
<1>. SUFFICES ASSUME nv \in Layouts PROVE LayoutInv
  OBVIOUS
<1>1. PICK capacity \in [1..NumIndices -> 0..MaxCapacity] :
        nv = Split(capacity)
  BY DEF Layouts
<1>. DEFINE P == PartialSums(capacity)
<1>2. /\ P \in [0..NumIndices -> Nat]
      /\ \A i \in 1..NumIndices : /\ P[i - 1] \in Nat
                                  /\ P[i] = P[i - 1] + capacity[i]
                                  /\ P[i] <= P[NumIndices]
  BY CapacityDef, PartialSumsDef
<1>. HIDE DEF P
<1>3. ASSUME NEW i \in 1..NumIndices
      PROVE  /\ nv[i] \in Seq(Bytes) /\ Len(nv[i]) = capacity[i]
             /\ capacity[i] \in Nat
             /\ \A n \in 1..Len(nv[i]) : nv[i][n] = ByteAt(P[i - 1] + n)
  <2>1. nv[i] = [n \in 1..capacity[i] |-> ByteAt(P[i - 1] + n)]
    BY <1>1 DEF Split, P
  <2>2. \A n \in 1..capacity[i] : ByteAt(P[i - 1] + n) \in Bytes
    BY <1>2, ByteAtType
  <2>. DEFINE F(n) == ByteAt(P[i - 1] + n)
  <2>. HIDE DEF F
  <2>3. nv[i] = [n \in 1..capacity[i] |-> F(n)] /\ capacity[i] \in Nat
    BY <2>1 DEF F
  <2>4. \A n \in 1..capacity[i] : F(n) \in Bytes
    BY <2>2 DEF F
  <2>5. nv[i] \in [1..capacity[i] -> Bytes]
    BY <2>3, <2>4
  <2>6. nv[i] \in Seq(Bytes) /\ Len(nv[i]) = capacity[i]
    BY <2>3, <2>5, FunctionIsSeq
  <2>7. \A n \in 1..Len(nv[i]) : nv[i][n] = F(n)
    BY <2>3, <2>6
  <2>. QED BY <2>3, <2>6, <2>7 DEF F
<1>4. Lengths = capacity
  BY <1>3 DEF Lengths
<1>5. nv \in [1..NumIndices -> Seq(Bytes)]
  BY <1>1, <1>3 DEF Split
<1>6. PICK i \in 1..NumIndices, n \in 0..MaxCapacity :
        n \in 1..Len(nv[i]) /\ nv[i][n] = ByteAt(ChainLength)
  BY DEF Layouts
<1>7. ChainLength <= P[NumIndices]
  <2>. DEFINE m == P[i - 1] + n
  <2>1. /\ m \in Nat \ {0} /\ m <= P[NumIndices]
        /\ ByteAt(m) = ByteAt(ChainLength)
    <3>1. n \in 1..capacity[i] /\ capacity[i] \in Nat
      BY <1>3, <1>6
    <3>2. nv[i][n] = ByteAt(P[i - 1] + n)
      BY <1>3, <1>6
    <3>3. /\ P[i - 1] \in Nat /\ P[i] = P[i - 1] + capacity[i]
          /\ P[i] <= P[NumIndices] /\ P[NumIndices] \in Nat
      BY <1>2
    <3>4. ByteAt(m) = ByteAt(ChainLength)
      BY <1>6, <3>2
    <3>5. m \in Nat \ {0} /\ m <= P[NumIndices]
      BY <3>1, <3>3
    <3>. QED BY <3>4, <3>5
  <2>. HIDE DEF m
  <2>2. ChainLength \in Nat /\ P[NumIndices] \in Nat
    BY <1>2, EndOfDef DEF ChainLength
  <2>3. CASE ChainLength # 0 /\ m <= ChainLength
    <3>1. m \in 1..ChainLength /\ ChainLength \in 1..ChainLength
      BY <2>1, <2>2, <2>3
    <3>2. m = ChainLength
      BY <2>1, <3>1, ByteAtInjective
    <3>. QED BY <2>1, <3>2
  <2>. QED BY <2>1, <2>2, <2>3
<1>. QED BY <1>3, <1>4, <1>5, <1>6, <1>7 DEF LayoutInv, P

-----------------------------------------------------------------------------
(* Reading the indices *)

\* The loop over the range runs as long as there are indices, and the one over
\* an index as long as there is something left of it; nothing is cut before they
\* end.
LoopInv ==
  /\ pc \in {"public", "read", "append"} <=> index <= NumIndices
  /\ pc \notin {"cut", "done"} => certificates = <<>> /\ offset = 0
  /\ Len(certificates) <= MAX_CERTIFICATES
  /\ pc = "read" => readOffset < Len(nv[index])

IInv == TypeOK /\ LayoutInv /\ NvReadExact /\ LoopInv

\* What DerObjectSize says of the stream.
LEMMA DerObjectSizeFits ==
  ASSUME stream \in Seq(Bytes), offset \in 0..Len(stream),
         DerObjectSize(stream, offset) # 0
  PROVE  /\ DerObjectSize(stream, offset) \in Nat
         /\ offset + DerObjectSize(stream, offset) <= Len(stream)
<1>1. offset < Len(stream) /\ stream[offset + 1].at = 1
  BY DEF DerObjectSize
<1>2. stream[offset + 1] \in Bytes
  BY <1>1
<1>3. stream[offset + 1].cert \in 1..Len(CertSizes)
  BY <1>1, <1>2 DEF Bytes, Padding
<1>4. CertSizes[stream[offset + 1].cert] \in Nat
  BY <1>3
<1>. QED BY <1>1, <1>4 DEF DerObjectSize

\* Before the first index is read.
LEMMA IInvInit == Init => IInv
<1>. SUFFICES ASSUME Init PROVE IInv
  OBVIOUS
<1>1. LayoutInv
  BY LayoutInit DEF Init
<1>2. TypeOK
  BY <1>1 DEF Init, TypeOK, LayoutInv
<1>3. NvReadExact
  BY DEF Init, NvReadExact
<1>4. LoopInv
  BY <1>1 DEF Init, LoopInv, LayoutInv
<1>. QED BY <1>1, <1>2, <1>3, <1>4 DEF IInv

\* The layout does not change.
LEMMA LayoutNext ==
  ASSUME LayoutInv, [Next]_vars
  PROVE  LayoutInv'
<1>1. nv' = nv
  BY DEF Next, vars, NvReadPublic, NvUndefined, NvRead, NvReadFails,
     AppendIndex, CutCertificate, CutEnds
<1>2. Lengths' = Lengths
  BY <1>1 DEF Lengths
<1>. QED BY <1>1, <1>2 DEF LayoutInv

\* A sum below 2^16 does not wrap.
LEMMA WordArithmetic ==
  ASSUME NEW a \in Nat, a < WordSize
  PROVE  a % WordSize = a
OBVIOUS

\* A reply that is not too long is the next part of the index.
LEMMA ReplyExact ==
  ASSUME NEW got \in Nat \ {0}, nv[index] \in Seq(Bytes),
         readOffset \in Nat, Want \in Nat,
         readOffset + Want <= Len(nv[index])
  PROVE  /\ Reply(got) \in Seq(Bytes) /\ Len(Reply(got)) = got
         /\ got <= Want =>
              Reply(got) = SubSeq(nv[index], readOffset + 1, readOffset + got)
<1>. DEFINE data == nv[index]
            want == Want
            F(n) == IF n <= want THEN data[readOffset + n] ELSE Padding
<1>1. data \in Seq(Bytes) /\ Len(data) \in Nat
  OBVIOUS
<1>2. Reply(got) = [n \in 1..got |-> F(n)]
  BY DEF Reply
<1>. HIDE DEF data, want
<1>3. want \in Nat /\ readOffset + want <= Len(data)
  BY DEF data, want
<1>4. ASSUME NEW n \in 1..got PROVE F(n) \in Bytes
  <2>1. CASE n <= want
    <3>1. readOffset + n \in 1..Len(data)
      BY <1>1, <1>3, <2>1
    <3>. QED BY <1>1, <2>1, <3>1
  <2>2. CASE ~(n <= want)
    BY <2>2 DEF Bytes
  <2>. QED BY <2>1, <2>2
<1>. HIDE DEF F
<1>5. Reply(got) \in [1..got -> Bytes]
  BY <1>2, <1>4
<1>6. Reply(got) \in Seq(Bytes) /\ Len(Reply(got)) = got
  BY <1>5, FunctionIsSeq
<1>7. ASSUME got <= want
      PROVE  Reply(got) = SubSeq(data, readOffset + 1, readOffset + got)
  <2>. DEFINE s == SubSeq(data, readOffset + 1, readOffset + got)
              r == Reply(got)
  <2>1. readOffset + got <= Len(data)
    BY <1>1, <1>3, <1>7
  <2>2. s \in Seq(Bytes) /\ Len(s) = got
    BY <1>1, <2>1
  <2>3. \A n \in 1..got : s[n] = data[readOffset + n]
    BY <1>1, <2>1
  <2>4. \A n \in 1..got : r[n] = data[readOffset + n]
    <3>1. \A n \in 1..got : n <= want
      BY <1>3, <1>7
    <3>2. \A n \in 1..got : F(n) = data[readOffset + n]
      BY <3>1 DEF F
    <3>. QED BY <1>2, <3>2
  <2>. HIDE DEF s, r
  <2>5. r = s
    BY <1>6, <2>2, <2>3, <2>4, SeqEqual DEF r
  <2>. QED BY <2>5 DEF r, s
<1>. QED BY <1>6, <1>7 DEF data, want

\* Every step of ReadNvData and of ReadIntelOdcaIntermediates.
LEMMA IInvNext ==
  ASSUME IInv, [Next]_vars
  PROVE  IInv'
<1>. USE DEF IInv
<1>1. LayoutInv'
  BY LayoutNext
<1>2. ASSUME NvReadPublic PROVE (TypeOK /\ NvReadExact /\ LoopInv)'
  <2>1. TypeOK'
    BY <1>2 DEF NvReadPublic, TypeOK
  <2>2. NvReadExact'
    <3>1. nv[index] \in Seq(Bytes)
      BY <1>2 DEF NvReadPublic, LoopInv, LayoutInv, TypeOK
    <3>2. SubSeq(nv[index], 1, 0) = <<>>
      BY SubSeqEmpty
    <3>. QED BY <1>2, <3>1, <3>2 DEF NvReadPublic, NvReadExact
  <2>3. LoopInv'
    <3>1. nv[index] \in Seq(Bytes)
      BY <1>2 DEF NvReadPublic, LoopInv, LayoutInv, TypeOK
    <3>2. 0 < Len(nv[index])
      BY <1>2, <3>1 DEF NvReadPublic
    <3>. QED BY <1>2, <3>2 DEF NvReadPublic, LoopInv
  <2>. QED BY <2>1, <2>2, <2>3
<1>3. ASSUME NextIndex, index <= NumIndices,
             UNCHANGED <<offset, certificates>>
      PROVE  LoopInv' /\ index' \in 1..(NumIndices + 1)
                      /\ pc' \in {"public", "cut"}
  BY <1>3 DEF NextIndex, LoopInv, TypeOK
<1>4. ASSUME NvUndefined \/ NvReadFails \/ AppendIndex
      PROVE  (TypeOK /\ NvReadExact /\ LoopInv)'
  <2>1. /\ NextIndex /\ index <= NumIndices /\ pc \notin {"cut", "done"}
        /\ UNCHANGED <<offset, certificates>>
    BY <1>4 DEF NvUndefined, NvReadFails, AppendIndex, LoopInv
  <2>2. /\ LoopInv' /\ index' \in 1..(NumIndices + 1)
        /\ pc' \in {"public", "cut"}
    BY <1>3, <2>1
  <2>3. NvReadExact'
    BY <2>2 DEF NvReadExact
  <2>a. /\ stream \in Seq(Bytes) /\ out_data \in Seq(Bytes)
        /\ stream \o out_data \in Seq(Bytes) /\ <<>> \in Seq(Bytes)
        /\ faulted \subseteq 1..NumIndices /\ index \in 1..NumIndices
    BY <2>1 DEF TypeOK
  <2>b. /\ stream' \in {stream, stream \o out_data}
        /\ out_data' \in {out_data, <<>>}
        /\ faulted' \in {faulted, faulted \cup {index}}
    BY <1>4 DEF NvUndefined, NvReadFails, AppendIndex
  <2>4. stream' \in Seq(Bytes) /\ out_data' \in Seq(Bytes)
    BY <2>a, <2>b, Zenon
  <2>5. faulted' \subseteq 1..NumIndices
    BY <2>a, <2>b, Zenon
  <2>6. offset' \in 0..Len(stream')
    BY <2>1, <2>4 DEF LoopInv
  <2>7. UNCHANGED <<nv, readOffset, certificates>>
    BY <1>4 DEF NvUndefined, NvReadFails, AppendIndex
  <2>8. TypeOK'
    BY <2>2, <2>4, <2>5, <2>6, <2>7 DEF TypeOK
  <2>. QED BY <2>2, <2>3, <2>8
<1>5. ASSUME NvRead PROVE (TypeOK /\ NvReadExact /\ LoopInv)'
  <2>. DEFINE data == nv[index]
  <2>1. /\ index \in 1..NumIndices /\ data \in Seq(Bytes)
        /\ Len(data) \in Nat /\ Len(data) <= MaxCapacity
    BY <1>5 DEF NvRead, LoopInv, LayoutInv, TypeOK
  <2>2. /\ readOffset \in Nat /\ readOffset < Len(data)
        /\ readOffset = Len(out_data) /\ out_data \in Seq(Bytes)
    BY <1>5 DEF NvRead, NvReadExact, LoopInv, TypeOK
  <2>3. PICK got \in 1..(Want + Excess) :
          /\ out_data' = out_data \o Reply(got)
          /\ readOffset' = (readOffset + got) % WordSize
          /\ faulted' = IF got > Want THEN faulted \cup {index} ELSE faulted
    BY <1>5 DEF NvRead
  <2>4. Want \in Nat /\ readOffset + Want <= Len(data)
    <3>. HIDE DEF data
    <3>1. Want = IF Len(data) - readOffset > CHUNK THEN CHUNK
                 ELSE Len(data) - readOffset
      BY DEF Want, data
    <3>. QED BY <2>1, <2>2, <3>1
  <2>5. got \in Nat \ {0} /\ readOffset + got < WordSize
    BY <2>1, <2>2, <2>4
  <2>6. readOffset' = readOffset + got
    <3>1. readOffset + got \in Nat
      BY <2>2, <2>5
    <3>. QED BY <2>3, <2>5, <3>1, WordArithmetic
  <2>7. /\ Reply(got) \in Seq(Bytes) /\ Len(Reply(got)) = got
        /\ got <= Want =>
             Reply(got) = SubSeq(data, readOffset + 1, readOffset + got)
    BY <2>1, <2>2, <2>4, <2>5, ReplyExact
  <2>8. out_data' \in Seq(Bytes) /\ Len(out_data') = readOffset'
    BY <2>2, <2>3, <2>5, <2>6, <2>7
  <2>9. /\ pc' = IF readOffset' < Len(data) THEN "read" ELSE "append"
        /\ pc = "read" /\ UNCHANGED <<nv, index, stream, offset, certificates>>
    BY <1>5 DEF NvRead
  <2>10. ASSUME index \notin faulted'
         PROVE  /\ out_data' = SubSeq(data, 1, readOffset')
                /\ readOffset' <= Len(data)
    <3>1. got <= Want /\ index \notin faulted
      BY <2>3, <2>4, <2>5, <2>10
    <3>2. out_data = SubSeq(data, 1, readOffset)
      BY <1>5, <3>1 DEF NvRead, NvReadExact
    <3>. HIDE DEF data
    <3>3. /\ 1 \in 1..(Len(data) + 1) /\ readOffset \in 1 - 1 .. Len(data)
          /\ readOffset + got \in readOffset .. Len(data)
      BY <2>1, <2>2, <2>4, <2>5, <3>1
    <3>4. out_data' = SubSeq(data, 1, readOffset) \o
                      SubSeq(data, readOffset + 1, readOffset + got)
      BY <2>3, <2>7, <3>1, <3>2
    <3>5. out_data' = SubSeq(data, 1, readOffset + got)
      BY <2>1, <3>3, <3>4, ConcatAdjacentSubSeq
    <3>. QED BY <2>6, <3>3, <3>5
  <2>. HIDE DEF data
  <2>11. TypeOK'
    <3>1. faulted' \subseteq 1..NumIndices
      BY <2>1, <2>3 DEF TypeOK
    <3>2. readOffset' \in 0..(WordSize - 1)
      BY <2>2, <2>5, <2>6
    <3>. QED BY <2>8, <2>9, <3>1, <3>2 DEF TypeOK
  <2>12. NvReadExact'
    <3>1. Len(data) \in Nat /\ readOffset' \in Nat
      BY <2>1, <2>2, <2>5, <2>6
    <3>. QED BY <2>8, <2>9, <2>10, <3>1 DEF NvReadExact, data
  <2>13. LoopInv'
    BY <2>9 DEF LoopInv, data
  <2>. QED BY <2>11, <2>12, <2>13
<1>6. ASSUME CutCertificate PROVE (TypeOK /\ NvReadExact /\ LoopInv)'
  <2>. DEFINE size == DerObjectSize(stream, offset)
              cert == SubSeq(stream, offset + 1, offset + size)
  <2>1. /\ pc = "cut" /\ size # 0 /\ Len(certificates) < MAX_CERTIFICATES
        /\ certificates' = Append(certificates, cert)
        /\ offset' = offset + size
        /\ UNCHANGED <<nv, index, pc, out_data, readOffset, stream, faulted>>
    BY <1>6 DEF CutCertificate, MoreToCut
  <2>2. size \in Nat /\ offset + size <= Len(stream)
    BY <2>1, DerObjectSizeFits DEF TypeOK
  <2>3. cert \in Seq(Bytes)
    <3>. HIDE DEF size
    <3>. QED BY <2>2 DEF TypeOK
  <2>. HIDE DEF size, cert
  <2>4. /\ certificates' \in Seq(Seq(Bytes))
        /\ Len(certificates') = Len(certificates) + 1
        /\ Len(certificates) \in Nat
    BY <2>1, <2>3 DEF TypeOK
  <2>5. TypeOK'
    BY <2>1, <2>2, <2>4 DEF TypeOK
  <2>6. NvReadExact' /\ LoopInv'
    BY <2>1, <2>4 DEF NvReadExact, LoopInv
  <2>. QED BY <2>5, <2>6
<1>7. ASSUME CutEnds \/ UNCHANGED vars
      PROVE  (TypeOK /\ NvReadExact /\ LoopInv)'
  BY <1>7 DEF CutEnds, vars, TypeOK, NvReadExact, LoopInv
<1>. QED BY <1>1, <1>2, <1>4, <1>5, <1>6, <1>7 DEF Next

\* The invariant holds in every state.
THEOREM Invariance == Spec => []IInv
BY IInvInit, IInvNext, PTL DEF Spec

\* Every value stays in its type: the uint16_t offset into an index does not
\* wrap and no certificate is cut beyond the end of the stream.
THEOREM TypeCorrect == Spec => []TypeOK
<1>1. IInv => TypeOK
  BY DEF IInv
<1>. QED BY <1>1, Invariance, PTL

\* ReadNvData returns an index whole and in order, however the TPM cuts it, and
\* its offset does not wrap even if a reply is too long.
THEOREM NvReadIsExact == Spec => []NvReadExact
<1>1. IInv => NvReadExact
  BY DEF IInv
<1>. QED BY <1>1, Invariance, PTL

-----------------------------------------------------------------------------
(* Cutting the chain *)

\* Nothing is missing from the stream: it is the part of what Intel wrote that
\* the indices before `index' hold, and the cuts fall between certificates.
ChainInv ==
  faulted = {} =>
    /\ Len(stream) = PartialSums(Lengths)[index - 1]
    /\ \A n \in 1..Len(stream) : stream[n] = ByteAt(n)
    /\ Len(certificates) <= Len(CertSizes)
    /\ offset = EndOf[Len(certificates)]
    /\ \A i \in 1..Len(certificates) : certificates[i] = Certificate(i)

\* Where the stream holds all of the chain and the next cut is at the end of k
\* certificates, the (k+1)-st is the object found there, if there is one.
LEMMA NextCertificate ==
  ASSUME NEW data \in Seq(Bytes), ChainLength <= Len(data),
         \A n \in 1..Len(data) : data[n] = ByteAt(n),
         NEW k \in 0..Len(CertSizes)
  PROVE  /\ k = Len(CertSizes) => DerObjectSize(data, EndOf[k]) = 0
         /\ k < Len(CertSizes) =>
              /\ EndOf[k] < Len(data)
              /\ DerObjectSize(data, EndOf[k]) = CertSizes[k + 1]
              /\ EndOf[k + 1] = EndOf[k] + CertSizes[k + 1]
              /\ SubSeq(data, EndOf[k] + 1, EndOf[k] + CertSizes[k + 1]) =
                   Certificate(k + 1)
<1>. DEFINE N == Len(CertSizes)
<1>1. N \in Nat /\ k \in 0..N /\ EndOf[k] \in Nat /\ Len(data) \in Nat
      /\ ChainLength \in Nat
  BY EndOfDef DEF ChainLength
<1>2. ASSUME k = N PROVE DerObjectSize(data, EndOf[k]) = 0
  <2>1. EndOf[k] = ChainLength
    BY <1>2 DEF ChainLength
  <2>2. CASE EndOf[k] < Len(data)
    <3>1. EndOf[k] + 1 \in 1..Len(data)
      BY <1>1, <2>2
    <3>2. EndOf[k] + 1 > ChainLength
      BY <1>1, <2>1
    <3>3. ByteAt(EndOf[k] + 1) = Padding
      BY <3>2 DEF ByteAt
    <3>4. data[EndOf[k] + 1] = Padding
      BY <3>1, <3>3
    <3>. QED BY <3>4 DEF DerObjectSize, Padding
  <2>. QED BY <2>2 DEF DerObjectSize
<1>3. ASSUME k < N
      PROVE  /\ EndOf[k] < Len(data)
             /\ DerObjectSize(data, EndOf[k]) = CertSizes[k + 1]
             /\ EndOf[k + 1] = EndOf[k] + CertSizes[k + 1]
             /\ SubSeq(data, EndOf[k] + 1, EndOf[k] + CertSizes[k + 1]) =
                  Certificate(k + 1)
  <2>. DEFINE c == k + 1
              size == CertSizes[c]
  <2>1. c \in 1..N /\ c \in 0..N /\ N \in 0..N /\ c <= N /\ c - 1 = k
    BY <1>1, <1>3
  <2>2. size \in Nat \ {0} /\ EndOf[c] = EndOf[k] + size
    BY <2>1, EndOfDef
  <2>3. EndOf[c] <= ChainLength
    BY <2>1, EndOfMonotonic DEF ChainLength
  <2>. HIDE DEF size, c
  <2>4. EndOf[k] + size <= Len(data)
    BY <1>1, <2>2, <2>3
  <2>5. ASSUME NEW a \in 1..size
        PROVE  data[EndOf[k] + a] = [cert |-> c, at |-> a]
    <3>1. EndOf[k] + a \in 1..Len(data)
      BY <1>1, <2>2, <2>4
    <3>2. ByteAt(EndOf[k] + a) = [cert |-> c, at |-> a]
      BY <2>1, ByteOfCert DEF size
    <3>. QED BY <3>1, <3>2
  <2>6. DerObjectSize(data, EndOf[k]) = size
    <3>1. data[EndOf[k] + 1] = [cert |-> c, at |-> 1]
      BY <2>2, <2>5
    <3>2. EndOf[k] < Len(data)
      BY <1>1, <2>2, <2>4
    <3>. QED BY <2>4, <3>1, <3>2 DEF DerObjectSize, size
  <2>7. SubSeq(data, EndOf[k] + 1, EndOf[k] + size) = Certificate(c)
    <3>. DEFINE s == SubSeq(data, EndOf[k] + 1, EndOf[k] + size)
    <3>1. s \in Seq(Bytes) /\ Len(s) = size
      BY <1>1, <2>2, <2>4
    <3>2. \A a \in 1..size : s[a] = data[EndOf[k] + a]
      BY <1>1, <2>2, <2>4
    <3>. HIDE DEF s
    <3>3. s = [a \in 1..size |-> s[a]]
      BY <2>2, <3>1
    <3>4. s = [a \in 1..size |-> [cert |-> c, at |-> a]]
      BY <2>5, <3>2, <3>3
    <3>. QED BY <3>4 DEF s, Certificate, size
  <2>8. EndOf[k] < Len(data)
    BY <1>1, <2>2, <2>4
  <2>. QED BY <2>2, <2>6, <2>7, <2>8 DEF c, size
<1>. QED BY <1>2, <1>3

\* What the indices hold fits their capacity.
LEMMA LengthsType ==
  ASSUME LayoutInv
  PROVE  Lengths \in [1..NumIndices -> 0..MaxCapacity]
<1>1. ASSUME NEW i \in 1..NumIndices PROVE Len(nv[i]) \in 0..MaxCapacity
  <2>1. nv[i] \in Seq(Bytes) /\ Len(nv[i]) <= MaxCapacity
    BY DEF LayoutInv
  <2>2. Len(nv[i]) \in Nat
    BY <2>1
  <2>. QED BY <2>1, <2>2
<1>. QED BY <1>1 DEF Lengths

\* Where the next index begins.
LEMMA NextStart ==
  ASSUME LayoutInv, NEW i \in 1..NumIndices
  PROVE  /\ Len(nv[i]) \in Nat
         /\ PartialSums(Lengths)[i - 1] \in Nat
         /\ PartialSums(Lengths)[i] = PartialSums(Lengths)[i - 1] + Len(nv[i])
<1>1. Lengths \in [1..NumIndices -> 0..MaxCapacity]
  BY LengthsType
<1>2. Lengths[i] = Len(nv[i])
  BY DEF Lengths
<1>3. Len(nv[i]) \in Nat
  BY DEF LayoutInv
<1>. QED BY <1>1, <1>2, <1>3, CapacityDef

\* Once all indices are read the stream holds all of the chain.
LEMMA StreamComplete ==
  ASSUME IInv, ChainInv, faulted = {}, pc \in {"cut", "done"}
  PROVE  /\ stream \in Seq(Bytes)
         /\ ChainLength <= Len(stream)
         /\ Len(certificates) \in 0..Len(CertSizes)
<1>1. index = NumIndices + 1 /\ index - 1 = NumIndices
  BY DEF IInv, TypeOK, LoopInv
<1>2. Len(stream) = PartialSums(Lengths)[NumIndices]
  BY <1>1 DEF ChainInv
<1>3. Len(certificates) \in Nat
  BY DEF IInv, TypeOK
<1>. QED BY <1>2, <1>3, EndOfDef DEF ChainInv, IInv, LayoutInv, TypeOK

\* As long as the TPM returns a chunk of the size asked for, only a failing
\* command costs an index.
LEMMA ChainInvNext ==
  ASSUME CHUNK <= NvBufferMax, IInv, ChainInv, [Next]_vars
  PROVE  ChainInv'
<1>1. nv' = nv /\ Lengths' = Lengths
  <2>1. nv' = nv
    BY DEF Next, vars, NvReadPublic, NvUndefined, NvRead, NvReadFails,
       AppendIndex, CutCertificate, CutEnds
  <2>. QED BY <2>1 DEF Lengths
<1>2. CASE /\ UNCHANGED <<index, stream, offset, certificates>>
           /\ faulted' = {} => faulted = {}
  BY <1>1, <1>2 DEF ChainInv
<1>3. CASE NvUndefined
  <2>1. /\ index \in 1..NumIndices /\ nv[index] = <<>> /\ index' = index + 1
        /\ UNCHANGED <<stream, faulted, offset, certificates>>
    BY <1>3 DEF NvUndefined, NextIndex, IInv, TypeOK, LoopInv
  <2>2. Len(nv[index]) = 0 /\ index' - 1 = index
    BY <2>1
  <2>3. PartialSums(Lengths)[index' - 1] = PartialSums(Lengths)[index - 1]
    BY <2>1, <2>2, NextStart DEF IInv
  <2>. QED BY <1>1, <2>1, <2>3 DEF ChainInv
<1>4. CASE NvReadFails
  <2>1. index \in 1..NumIndices
    BY <1>4 DEF NvReadFails, IInv, TypeOK, LoopInv
  <2>2. pc = "read" => Want <= CHUNK
    <3>1. Len(nv[index]) \in Nat /\ readOffset \in Nat
      BY <2>1 DEF IInv, TypeOK
    <3>. QED BY <3>1 DEF Want
  <2>3. pc = "read" => ~(Want > NvBufferMax)
    <3>1. Len(nv[index]) \in Nat /\ readOffset \in Nat
      BY <2>1 DEF IInv, TypeOK
    <3>2. Want \in Int
      BY <3>1 DEF Want
    <3>. QED BY <2>2, <3>2
  <2>4. faulted' = faulted \cup {index}
    BY <1>4, <2>3 DEF NvReadFails
  <2>. QED BY <2>4 DEF ChainInv
<1>5. CASE AppendIndex
  <2>. SUFFICES ASSUME faulted' = {} PROVE ChainInv'
    BY DEF ChainInv
  <2>1. /\ index \in 1..NumIndices /\ index' = index + 1 /\ index' - 1 = index
        /\ stream' = stream \o out_data
        /\ UNCHANGED <<faulted, offset, certificates>>
    BY <1>5 DEF AppendIndex, NextIndex, IInv, TypeOK, LoopInv
  <2>. DEFINE data == nv[index]
              start == PartialSums(Lengths)[index - 1]
  <2>2. /\ data \in Seq(Bytes) /\ stream \in Seq(Bytes)
        /\ out_data \in Seq(Bytes) /\ Len(data) \in Nat
    BY <2>1 DEF IInv, TypeOK
  <2>3. out_data = data
    <3>1. index \notin faulted
      BY <2>1
    <3>2. out_data = SubSeq(data, 1, readOffset) /\ readOffset = Len(data)
      BY <1>5, <3>1 DEF AppendIndex, IInv, NvReadExact
    <3>. HIDE DEF data
    <3>. QED BY <2>2, <3>2, SubSeqFull
  <2>4. Len(stream) = start /\ start \in Nat
        /\ PartialSums(Lengths)[index] = start + Len(data)
    BY <2>1, NextStart DEF IInv, ChainInv
  <2>5. \A n \in 1..Len(data) : data[n] = ByteAt(start + n)
    BY <2>1 DEF IInv, LayoutInv
  <2>6. \A n \in 1..Len(stream) : stream[n] = ByteAt(n)
    BY <2>1 DEF ChainInv
  <2>. HIDE DEF data, start
  <2>7. Len(stream') = start + Len(data)
    <3>1. Len(stream \o data) = Len(stream) + Len(data)
      BY <2>2
    <3>. QED BY <2>1, <2>3, <2>4, <3>1
  <2>8. ASSUME NEW n \in 1..Len(stream') PROVE stream'[n] = ByteAt(n)
    <3>1. CASE n <= Len(stream)
      BY <2>1, <2>2, <2>3, <2>4, <2>6, <2>7, <3>1
    <3>2. CASE n > Len(stream)
      <4>1. n - start \in 1..Len(data) /\ start + (n - start) = n
        BY <2>2, <2>4, <2>7, <3>2
      <4>2. stream'[n] = data[n - start]
        BY <2>1, <2>2, <2>3, <2>4, <2>7, <3>2
      <4>. QED BY <2>5, <4>1, <4>2
    <3>. QED BY <2>4, <2>2, <2>7, <3>1, <3>2
  <2>9. Len(stream') = PartialSums(Lengths)[index' - 1]
    BY <2>1, <2>4, <2>7
  <2>. QED BY <1>1, <2>1, <2>8, <2>9 DEF ChainInv
<1>6. CASE CutCertificate
  <2>. SUFFICES ASSUME faulted = {} PROVE ChainInv'
    BY <1>6 DEF ChainInv, CutCertificate
  <2>. DEFINE k == Len(certificates)
  <2>1. /\ offset = EndOf[k] /\ pc = "cut"
        /\ \A n \in 1..Len(stream) : stream[n] = ByteAt(n)
        /\ DerObjectSize(stream, offset) # 0
    BY <1>6 DEF ChainInv, CutCertificate, MoreToCut
  <2>2. stream \in Seq(Bytes) /\ ChainLength <= Len(stream)
        /\ k \in 0..Len(CertSizes)
    BY <2>1, StreamComplete
  <2>3. k < Len(CertSizes) /\ k \in Nat
    <3>1. k # Len(CertSizes)
      BY <2>1, <2>2, NextCertificate
    <3>. HIDE DEF k
    <3>. QED BY <2>2, <3>1, EndOfDef
  <2>4. /\ DerObjectSize(stream, EndOf[k]) = CertSizes[k + 1]
        /\ EndOf[k + 1] = EndOf[k] + CertSizes[k + 1]
        /\ SubSeq(stream, EndOf[k] + 1, EndOf[k] + CertSizes[k + 1]) =
             Certificate(k + 1)
    BY <2>1, <2>2, <2>3, NextCertificate
  <2>5. /\ certificates' = Append(certificates, Certificate(k + 1))
        /\ offset' = EndOf[k + 1]
        /\ UNCHANGED <<index, stream, faulted>>
    BY <1>6, <2>1, <2>4 DEF CutCertificate
  <2>6. /\ Len(certificates') = k + 1
        /\ \A i \in 1..k : certificates'[i] = certificates[i]
        /\ certificates'[k + 1] = Certificate(k + 1)
    BY <2>5 DEF IInv, TypeOK
  <2>7. \A i \in 1..k : certificates[i] = Certificate(i)
    BY DEF ChainInv
  <2>. HIDE DEF k
  <2>8. \A i \in 1..(k + 1) : certificates'[i] = Certificate(i)
    BY <2>3, <2>6, <2>7
  <2>9. k + 1 <= Len(CertSizes)
    BY <2>3, EndOfDef
  <2>10. /\ Len(stream) = PartialSums(Lengths)[index - 1]
         /\ \A n \in 1..Len(stream) : stream[n] = ByteAt(n)
    BY DEF ChainInv
  <2>. QED BY <1>1, <2>5, <2>6, <2>8, <2>9, <2>10 DEF ChainInv
<1>. QED
  BY <1>2, <1>3, <1>4, <1>5, <1>6
     DEF Next, vars, NvReadPublic, NvRead, CutEnds

\* The walk stops when the chain or the limit is used up, and not before.
LEMMA WholeChainNext ==
  ASSUME IInv, ChainInv, WholeChain, [Next]_vars
  PROVE  WholeChain'
<1>1. CASE CutEnds
  <2>. SUFFICES ASSUME faulted = {} PROVE WholeChain'
    BY <1>1 DEF WholeChain, CutEnds
  <2>. DEFINE k == Len(certificates)
  <2>1. /\ offset = EndOf[k] /\ pc = "cut" /\ certificates' = certificates
        /\ \A n \in 1..Len(stream) : stream[n] = ByteAt(n)
        /\ ~MoreToCut
    BY <1>1 DEF ChainInv, CutEnds
  <2>2. stream \in Seq(Bytes) /\ ChainLength <= Len(stream)
        /\ k \in 0..Len(CertSizes)
    BY <2>1, StreamComplete
  <2>3. k <= MAX_CERTIFICATES
    BY DEF IInv, LoopInv
  <2>4. k = Len(CertSizes) \/ ~(k < MAX_CERTIFICATES)
    <3>1. ASSUME k < Len(CertSizes), k < MAX_CERTIFICATES PROVE FALSE
      <4>1. /\ EndOf[k] < Len(stream)
            /\ DerObjectSize(stream, EndOf[k]) = CertSizes[k + 1]
        BY <2>1, <2>2, <3>1, NextCertificate
      <4>2. CertSizes[k + 1] # 0
        BY <2>2, <3>1, EndOfDef
      <4>. QED BY <2>1, <3>1, <4>1, <4>2 DEF MoreToCut
    <3>. QED BY <2>2, <3>1, EndOfDef
  <2>5. k = IF Len(CertSizes) > MAX_CERTIFICATES
            THEN MAX_CERTIFICATES ELSE Len(CertSizes)
    <3>. HIDE DEF k
    <3>. QED BY <2>2, <2>3, <2>4, EndOfDef
  <2>. QED BY <2>1, <2>5 DEF WholeChain
<1>2. ASSUME ~CutEnds PROVE pc' = "done" => pc = "done" /\ UNCHANGED vars
  BY <1>2 DEF Next, vars, NvReadPublic, NvUndefined, NvRead, NvReadFails,
     AppendIndex, CutCertificate, NextIndex
<1>. QED BY <1>1, <1>2 DEF WholeChain, vars

\* The invariant that ties the stream and the cuts to the chain.
LEMMA ChainAlways ==
  ASSUME CHUNK <= NvBufferMax
  PROVE  Spec => [](ChainInv /\ WholeChain)
<1>1. Init => ChainInv /\ WholeChain
  <2>. SUFFICES ASSUME Init PROVE ChainInv /\ WholeChain
    OBVIOUS
  <2>1. Lengths \in [1..NumIndices -> 0..MaxCapacity]
    BY LayoutInit, LengthsType DEF Init
  <2>2. PartialSums(Lengths)[0] = 0
    BY <2>1, CapacityDef, PartialSumsDef
  <2>. QED BY <2>2, EndOfDef DEF Init, ChainInv, WholeChain
<1>2. IInv /\ ChainInv /\ WholeChain /\ [Next]_vars => (ChainInv /\ WholeChain)'
  BY ChainInvNext, WholeChainNext
<1>. QED BY <1>1, <1>2, Invariance, PTL DEF Spec

\* For every chain and every layout of it, the certificates are those Intel
\* wrote, whole and in order, unless a command failed or a reply was too long.
\* The TPM has to return as much at a time as CHUNK asks for.
THEOREM CutsAreGenuine ==
  ASSUME CHUNK <= NvBufferMax
  PROVE  Spec => []CutsGenuineChain
<1>1. ChainInv => CutsGenuineChain
  BY DEF ChainInv, CutsGenuineChain
<1>. QED BY <1>1, ChainAlways, PTL

\* And they are all of them, up to MAX_CERTIFICATES.
THEOREM ChainIsWhole ==
  ASSUME CHUNK <= NvBufferMax
  PROVE  Spec => []WholeChain
BY ChainAlways, PTL
=============================================================================
