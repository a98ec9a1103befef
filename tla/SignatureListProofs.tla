------------------------ MODULE SignatureListProofs ------------------------
(***************************************************************************)
(* Theorems about SignatureList for every width of size_t and of the       *)
(* 32-bit sizes, as long as size_t is the wider, and for every event data. *)
(***************************************************************************)
EXTENDS SignatureList, FiniteSetTheorems, TLAPS

USE EfiVariableAssumption, SignatureListAssumption

\* The numbers of a walk that is inside the contents, which are inside the
\* event data: `at' and `remaining' add up to the contents, a list begins
\* before the end of what is left, and the offset into a list is behind its
\* header and too small for a sum with it to wrap.
WalkInv ==
  /\ pc = "variable" => at = 0
  /\ pc \in {"list", "x509"} =>
       /\ at + remaining = dataBytes
       /\ DataAt(nameChars) + dataBytes <= rawSize
  /\ pc = "x509" =>
       /\ listSize <= remaining
       /\ OWNER < sigSize /\ sigSize < WordMod
       /\ listSize < WordMod
       /\ LIST_HEADER <= offset /\ offset < LIST_HEADER + WordMod

\* The last certificate is behind the header of the first list and ends before
\* the place the walk has reached.
SpanInv ==
  /\ pc = "variable" => span = NONE
  /\ span # NONE =>
       /\ DataAt(nameChars) + LIST_HEADER + OWNER <= span.from
       /\ span.from < span.to
       /\ span.to <= rawSize
       /\ pc = "list" => span.to <= DataAt(nameChars) + at
       /\ pc = "x509" => /\ span.to <= DataAt(nameChars) + at + offset
                         /\ span.to <= DataAt(nameChars) + at + listSize

IInv == TypeOK /\ WalkInv /\ SpanInv

-----------------------------------------------------------------------------

\* What does not reach the modulus is not changed by it.
LEMMA NoWrap ==
  ASSUME NEW a \in Nat, a < SizeMod
  PROVE  a % SizeMod = a
OBVIOUS

\* The offset of the entries does not wrap.
LEMMA EntriesOffsetExact ==
  ASSUME NEW headerSize \in Words
  PROVE  /\ headerSize \in Nat /\ headerSize < WordMod
         /\ EntriesOffset(headerSize) = LIST_HEADER + headerSize
<1>1. headerSize \in Nat /\ headerSize < WordMod
  OBVIOUS
<1>2. LIST_HEADER + headerSize \in Nat /\ LIST_HEADER + headerSize < SizeMod
  BY <1>1
<1>. QED BY <1>1, <1>2, NoWrap DEF EntriesOffset

\* A division counts the multiples of s that fit behind an offset.
LEMMA DivisionCounts ==
  ASSUME NEW e \in Nat, NEW l \in Nat, NEW s \in Nat, s > 0, e < l
  PROVE  (l - e) \div s = EntriesWalked(e, l, s)
<1>. DEFINE q == (l - e) \div s
            n == l - e
<1>1. n \in Nat /\ q \in Nat
  OBVIOUS
<1>2. s * q <= n /\ n < s * q + s
  OBVIOUS
<1>3. q <= n
  BY <1>1, <1>2
<1>4. ASSUME NEW k \in 1..q PROVE k * s <= n
  <2>1. k * s <= q * s
    BY <1>1
  <2>. QED BY <2>1, <1>1, <1>2
<1>5. ASSUME NEW k \in Nat, k > q PROVE k * s > n
  <2>1. k * s >= (q + 1) * s
    BY <1>1, <1>5
  <2>2. (q + 1) * s = s * q + s
    BY <1>1
  <2>. QED BY <2>1, <2>2, <1>1, <1>2
<1>. HIDE DEF q
<1>6. {k \in 1..l : e + k * s <= l} = 1..q
  <2>1. ASSUME NEW k \in 1..l PROVE e + k * s <= l <=> k <= q
    <3>1. k * s \in Nat
      OBVIOUS
    <3>2. CASE k <= q BY <3>1, <3>2, <1>1, <1>4
    <3>3. CASE k > q BY <3>1, <3>3, <1>1, <1>5
    <3>. QED BY <3>2, <3>3, <1>1
  <2>2. \A k \in 1..q : k \in 1..l
    BY <1>1, <1>3
  <2>. QED BY <2>1, <2>2, <1>1
<1>7. Cardinality(1..q) = q
  BY <1>1, FS_Interval
<1>. QED BY <1>6, <1>7 DEF EntriesWalked, q

-----------------------------------------------------------------------------

\* Every step keeps the invariant.
LEMMA IInvNext ==
  ASSUME IInv, [Next]_vars
  PROVE  IInv'
<1>. USE DEF IInv, TypeOK, WalkInv, SpanInv, Spans, DataAt
<1>1. CASE ParseVariable
  BY <1>1 DEF ParseVariable, TryParseEfiVariableData
<1>2. CASE ParseVariableFails
  BY <1>2 DEF ParseVariableFails
<1>3. ASSUME NEW l \in Words, NEW headerSize \in Words, NEW s \in Words,
             X509List(l, headerSize, s)
      PROVE  IInv'
  BY <1>3, EntriesOffsetExact DEF X509List, ListFits
<1>4. ASSUME NEW l \in Words, NEW headerSize \in Words, NEW s \in Words,
             Sha256List(l, headerSize, s)
      PROVE  IInv'
  <2>1. /\ l \in Nat /\ s \in Nat /\ s > 0 /\ l # 0 /\ l <= remaining
        /\ EntriesOffset(headerSize) = LIST_HEADER + headerSize
        /\ LIST_HEADER + headerSize \in Nat /\ LIST_HEADER + headerSize < l
    BY <1>4, EntriesOffsetExact DEF Sha256List, ListFits
  <2>2. HashCount(l, headerSize, s) \in Nat
    BY <2>1 DEF HashCount
  <2>3. EntriesWalked(LIST_HEADER + headerSize, l, s) \in Nat
    BY <2>1, <2>2, DivisionCounts DEF HashCount
  <2>4. sha256Entries' \in Nat /\ walked' \in Nat
    BY <1>4, <2>2, <2>3 DEF Sha256List
  <2>5. /\ pc = "list" /\ at' = at + l /\ remaining' = remaining - l
        /\ UNCHANGED <<rawSize, nameChars, dataBytes, pc, listSize, sigSize,
                       offset, span>>
    BY <1>4 DEF Sha256List, SkipList
  <2>. QED BY <2>1, <2>4, <2>5
<1>5. CASE X509Entry
  <2>1. (offset + sigSize) % SizeMod = offset + sigSize
    BY <1>5, NoWrap DEF X509Entry
  <2>. DEFINE entry == DataAt(nameChars) + at + offset
  <2>2. /\ pc = "x509" /\ offset' = offset + sigSize
        /\ offset + sigSize <= listSize
        /\ \/ span' = span
           \/ span' = [from |-> entry + OWNER, to |-> entry + sigSize]
        /\ UNCHANGED <<rawSize, nameChars, dataBytes, pc, at, remaining,
                       listSize, sigSize, sha256Entries, walked>>
    BY <1>5, <2>1 DEF X509Entry
  <2>3. CASE span' = span
    BY <2>2, <2>3
  <2>4. CASE span' = [from |-> entry + OWNER, to |-> entry + sigSize]
    <3>1. /\ entry \in Nat
          /\ DataAt(nameChars) + LIST_HEADER <= entry
          /\ entry + sigSize <= rawSize
          /\ entry + OWNER < entry + sigSize
      BY <2>2
    <3>2. /\ span' \in Spans
          /\ span'.from = entry + OWNER /\ span'.to = entry + sigSize
      BY <2>4, <3>1
    <3>. QED BY <2>2, <3>1, <3>2
  <2>. QED BY <2>2, <2>3, <2>4
<1>6. CASE X509ListEnds
  <2>1. /\ pc = "x509" /\ pc' = "list"
        /\ at' = at + listSize /\ remaining' = remaining - listSize
        /\ listSize' = 0 /\ sigSize' = 0 /\ offset' = 0
        /\ UNCHANGED <<rawSize, nameChars, dataBytes, span, sha256Entries,
                       walked>>
    BY <1>6 DEF X509ListEnds, SkipList
  <2>. QED BY <2>1
<1>7. ASSUME NEW l \in Words, OtherList(l) PROVE IInv'
  BY <1>7 DEF OtherList, ListFits, SkipList
<1>8. CASE WalkEnds
  BY <1>8 DEF WalkEnds
<1>9. CASE UNCHANGED vars
  BY <1>9 DEF vars
<1>. QED BY <1>1, <1>2, <1>3, <1>4, <1>5, <1>6, <1>7, <1>8, <1>9 DEF Next

-----------------------------------------------------------------------------

\* The invariant holds of every behaviour.
THEOREM Invariance == Spec => []IInv
<1>1. Init => IInv
  BY DEF Init, IInv, TypeOK, WalkInv, SpanInv, Spans
<1>2. IInv /\ [Next]_vars => IInv'
  BY IInvNext
<1>. QED BY <1>1, <1>2, PTL DEF Spec

\* No number of the walk ever becomes negative, where the unsigned one of the
\* code would wrap.
THEOREM TypeCorrect == Spec => []TypeOK
<1>1. IInv => TypeOK
  BY DEF IInv
<1>. QED BY <1>1, Invariance, PTL

\* Only an entry of the list being walked is handed to ParseDerCertificate.
LEMMA SpanByEntry ==
  ASSUME Next, span' # span
  PROVE  X509Entry
BY DEF Next, ParseVariable, ParseVariableFails, X509List, Sha256List,
       X509ListEnds, OtherList, WalkEnds

\* ParseDerCertificate is only ever given bytes that lie in the list they are
\* taken from, behind its header, and that list in the event data.
THEOREM CertificatesInsideTheirList == Spec => CertInsideList
<1>. DEFINE list == DataAt(nameChars) + at
            Inside == /\ list + LIST_HEADER + OWNER <= span'.from
                      /\ span'.from < span'.to
                      /\ span'.to <= list + listSize
                      /\ list + listSize <= rawSize
<1>1. IInv /\ [Next]_vars => [span' # span => Inside]_vars
  <2>. SUFFICES ASSUME IInv, Next, span' # span
                PROVE  Inside
    BY DEF vars
  <2>1. X509Entry
    BY SpanByEntry
  <2>2. /\ rawSize \in Nat /\ dataBytes \in Nat /\ at \in Nat
        /\ remaining \in Nat /\ listSize \in Nat /\ sigSize \in Nat
        /\ offset \in Nat /\ DataAt(nameChars) \in Nat
    BY DEF IInv, TypeOK, DataAt
  <2>3. /\ at + remaining = dataBytes
        /\ DataAt(nameChars) + dataBytes <= rawSize
        /\ listSize <= remaining
        /\ OWNER < sigSize /\ sigSize < WordMod
        /\ LIST_HEADER <= offset /\ offset < LIST_HEADER + WordMod
    BY <2>1 DEF X509Entry, IInv, WalkInv
  <2>4. (offset + sigSize) % SizeMod = offset + sigSize
    BY <2>2, <2>3, NoWrap
  <2>5. /\ span'.from = list + offset + OWNER
        /\ span'.to = list + offset + sigSize
        /\ offset + sigSize <= listSize
    BY <2>1, <2>4 DEF X509Entry
  <2>. QED BY <2>2, <2>3, <2>5
<1>. QED BY <1>1, Invariance, PTL DEF Spec, CertInsideList

\* The certificates are taken in order and do not overlap.
THEOREM CertificatesInOrder == Spec => CertsInOrder
<1>1. IInv /\ [Next]_vars =>
        [span # NONE /\ span' # span => span'.from >= span.to]_vars
  <2>. SUFFICES ASSUME IInv, Next, span # NONE, span' # span
                PROVE  span'.from >= span.to
    BY DEF vars
  <2>1. X509Entry
    BY SpanByEntry
  <2>2. /\ span.to <= DataAt(nameChars) + at + offset
        /\ span'.from = DataAt(nameChars) + at + offset + OWNER
    BY <2>1 DEF X509Entry, IInv, SpanInv
  <2>. QED BY <2>2 DEF IInv, TypeOK, Spans, DataAt
<1>. QED BY <1>1, Invariance, PTL DEF Spec, CertsInOrder

\* Counting digests by division is the same as walking over them.
THEOREM DigestsCountedExactly == Spec => []CountIsWalk
<1>1. Init => CountIsWalk
  BY DEF Init, CountIsWalk
<1>2. CountIsWalk /\ [Next]_vars => CountIsWalk'
  <2>. SUFFICES ASSUME CountIsWalk, [Next]_vars PROVE CountIsWalk'
    OBVIOUS
  <2>1. ASSUME NEW l \in Words, NEW headerSize \in Words, NEW s \in Words,
               Sha256List(l, headerSize, s)
        PROVE  CountIsWalk'
    <3>1. /\ l \in Nat /\ s \in Nat /\ s > 0
          /\ EntriesOffset(headerSize) = LIST_HEADER + headerSize
          /\ LIST_HEADER + headerSize \in Nat /\ LIST_HEADER + headerSize < l
      BY <2>1, EntriesOffsetExact DEF Sha256List
    <3>2. HashCount(l, headerSize, s)
            = EntriesWalked(LIST_HEADER + headerSize, l, s)
      BY <3>1, DivisionCounts DEF HashCount
    <3>. QED BY <2>1, <3>2 DEF Sha256List, CountIsWalk
  <2>2. CASE UNCHANGED <<sha256Entries, walked>>
    BY <2>2 DEF CountIsWalk
  <2>. QED
    BY <2>1, <2>2 DEF Next, vars, ParseVariable, ParseVariableFails, X509List,
       X509Entry, X509ListEnds, OtherList, WalkEnds
<1>. QED BY <1>1, <1>2, PTL DEF Spec
=============================================================================
