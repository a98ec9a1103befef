------------------------- MODULE EkIdentityProofs -------------------------
(***************************************************************************)
(* Theorems about EkIdentity: for every store, every on-die CA chain, every *)
(* limit on the intermediates and every length of a body.                  *)
(***************************************************************************)
EXTENDS EkIdentity, LayoutProofs, SequenceTheorems

USE EkAssumption, HttpAssumption

-----------------------------------------------------------------------------
(* The request to AMD *)

\* What the request has so far.  Until there is a response the status and the
\* body are empty; from then on the body is the part of it that was read; a
\* request that failed before leaves a diagnostic without a status.
HttpInv ==
  /\ reply \in {NoReply, Certificate, NotFound}
  /\ stage \in {"idle", "status", "query", "read", "done"} \cup ToSet(Before)
  /\ stage # "idle" => reply # NoReply
  /\ stage \notin {"query", "read", "done"} => statusCode = 0 /\ body = <<>>
  /\ statusCode \in {0, reply.status}
  /\ \/ stage = "done" /\ statusCode = 0 /\ body = Diagnostic
     \/ /\ body = Chunk(0, Len(body))
        /\ Len(body) \in 0..reply.size
  /\ stage = "read" => available \in 1..(reply.size - Len(body))

\* A run of k bytes of the body after the n-th.
LEMMA ChunkType ==
  ASSUME NEW n \in Nat, NEW k \in Nat
  PROVE  /\ Chunk(n, k) \in Seq(Nat)
         /\ Len(Chunk(n, k)) = k
         /\ \A i \in 1..k : Chunk(n, k)[i] = n + i
<1>1. Chunk(n, k) \in [1..k -> Nat]
  BY DEF Chunk
<1>. QED BY <1>1 DEF Chunk

\* Reading on from where the body ends leaves no gap.
LEMMA ChunkConcat ==
  ASSUME NEW n \in Nat, NEW k \in Nat
  PROVE  Chunk(0, n) \o Chunk(n, k) = Chunk(0, n + k)
<1>. DEFINE a == Chunk(0, n)
            b == Chunk(n, k)
            c == Chunk(0, n + k)
<1>1. /\ a \in Seq(Nat) /\ Len(a) = n /\ \A i \in 1..n : a[i] = 0 + i
      /\ b \in Seq(Nat) /\ Len(b) = k /\ \A i \in 1..k : b[i] = n + i
  BY ChunkType
<1>5. /\ c \in Seq(Nat) /\ Len(c) = n + k
      /\ \A i \in 1..(n + k) : c[i] = 0 + i
  <2>1. n + k \in Nat
    OBVIOUS
  <2>. QED BY <2>1, ChunkType
<1>. HIDE DEF a, b, c
<1>6. /\ a \o b \in Seq(Nat) /\ Len(a \o b) = Len(a) + Len(b)
      /\ \A i \in 1..(Len(a) + Len(b)) :
           (a \o b)[i] = IF i <= Len(a) THEN a[i] ELSE b[i - Len(a)]
  <2>1. a \in Seq(Nat) /\ b \in Seq(Nat)
    BY <1>1
  <2>. QED BY ONLY <2>1, ConcatProperties
<1>2. a \o b \in Seq(Nat) /\ Len(a \o b) = n + k
  BY <1>1, <1>6, Zenon
<1>3. ASSUME NEW i \in 1..(n + k) PROVE (a \o b)[i] = c[i]
  <2>1. (a \o b)[i] = IF i <= n THEN a[i] ELSE b[i - n]
    BY <1>1, <1>6, Zenon
  <2>2. CASE i <= n
    BY <1>1, <1>5, <2>1, <2>2
  <2>3. CASE ~(i <= n)
    <3>1. i - n \in 1..k /\ n + (i - n) = i
      BY <2>3
    <3>2. (a \o b)[i] = b[i - n]
      BY <2>1, <2>3
    <3>3. b[i - n] = n + (i - n)
      BY <1>1, <3>1, Zenon
    <3>4. c[i] = i
      BY <1>5
    <3>5. b[i - n] = i
      BY ONLY <3>1, <3>3, Zenon
    <3>. QED BY ONLY <3>2, <3>4, <3>5, Zenon
  <2>. QED BY ONLY <2>2, <2>3, Zenon
<1>4. a \o b = c
  BY <1>5, <1>2, <1>3, SeqEqual
<1>. QED BY <1>4 DEF a, b, c

\* A shorter beginning of the body is a prefix of a longer one.
LEMMA ChunkPrefix ==
  ASSUME NEW n \in Nat, NEW k \in Nat, k <= n
  PROVE  IsPrefix(Chunk(0, k), Chunk(0, n))
<1>. DEFINE a == Chunk(0, k)
            c == Chunk(0, n)
<1>1. /\ a \in Seq(Nat) /\ Len(a) = k /\ \A i \in 1..k : a[i] = 0 + i
      /\ c \in Seq(Nat) /\ Len(c) = n /\ \A i \in 1..n : c[i] = 0 + i
  BY ChunkType
<1>. HIDE DEF a, c
<1>2. SubSeq(a, 1, k) \in Seq(Nat) /\ Len(SubSeq(a, 1, k)) = k
      /\ SubSeq(c, 1, k) \in Seq(Nat) /\ Len(SubSeq(c, 1, k)) = k
  BY <1>1
<1>3. \A i \in 1..k : SubSeq(a, 1, k)[i] = SubSeq(c, 1, k)[i]
  BY <1>1
<1>4. SubSeq(a, 1, k) = SubSeq(c, 1, k)
  BY <1>2, <1>3, SeqEqual
<1>. QED BY <1>1, <1>4 DEF IsPrefix, a, c

\* The steps of the request, of the call that starts it and of the return.
LEMMA HttpInvNext ==
  ASSUME HttpInv,
         \/ HttpStep \/ HttpReturn \/ UNCHANGED httpVars
         \/ HttpGet(NotFound) \/ HttpGet(Certificate)
  PROVE  HttpInv'
<1>. USE DEF HttpInv
<1>0. /\ Certificate \in [status: Nat, size: Nat]
      /\ NotFound \in [status: Nat, size: Nat]
      /\ NoReply \in [status: Nat, size: Nat]
      /\ Certificate # NoReply /\ NotFound # NoReply
  BY DEF Certificate, NotFound, NoReply
<1>1. ToSet(Before) =
        {"crack", "open", "connect", "request", "send", "receive"}
  BY DEF ToSet, Before
<1>2. CASE UNCHANGED httpVars
  BY <1>2 DEF httpVars
<1>3. CASE HttpReturn
  BY <1>3 DEF HttpReturn, NoReply, Chunk
<1>4. CASE HttpGet(NotFound) \/ HttpGet(Certificate)
  BY <1>0, <1>1, <1>4 DEF HttpGet
<1>5. CASE Prepare
  BY <1>1, <1>5 DEF Prepare, Before
<1>6. CASE PrepareFails
  BY <1>1, <1>6 DEF PrepareFails
<1>7. CASE QueryStatus
  BY <1>7 DEF QueryStatus
<1>8. CASE QueryDataAvailable
  BY <1>8 DEF QueryDataAvailable
<1>9. CASE ReadData
  <2>1. PICK k \in (IF lost THEN 0 ELSE 1)..available :
          body' = body \o Chunk(Len(body), k)
    BY <1>9 DEF ReadData
  <2>2. /\ reply.size \in Nat /\ Len(body) \in 0..reply.size
        /\ body = Chunk(0, Len(body))
        /\ available \in 1..(reply.size - Len(body))
    BY <1>0, <1>9 DEF ReadData
  <2>3. k \in Nat /\ Len(body) \in Nat /\ Len(body) + k <= reply.size
    BY <2>1, <2>2
  <2>4. body' = Chunk(0, Len(body) + k)
    BY <2>1, <2>2, <2>3, ChunkConcat
  <2>5. Len(body') = Len(body) + k
    BY <2>3, <2>4, ChunkType
  <2>6. body' = Chunk(0, Len(body')) /\ Len(body') \in 0..reply.size
    BY <2>2, <2>3, <2>4, <2>5
  <2>. QED BY <1>9, <2>6 DEF ReadData
<1>10. CASE BodyEnds
  BY <1>10 DEF BodyEnds
<1>11. CASE ConnectionLost
  BY <1>11 DEF ConnectionLost
<1>. QED BY <1>2, <1>3, <1>4, <1>5, <1>6, <1>7, <1>8, <1>9, <1>10, <1>11
         DEF HttpStep

\* What FetchAmdAiaEkCert would return at any moment of the request.
LEMMA HttpInvServed == HttpInv => FetchedIsServed
<1>. SUFFICES ASSUME HttpInv PROVE FetchedIsServed
  OBVIOUS
<1>1. CASE statusCode = 200
  <2>1. reply = Certificate
    BY <1>1 DEF HttpInv, NoReply, NotFound, Certificate
  <2>2. body = Chunk(0, Len(body)) /\ Len(body) \in 0..BodySize
    BY <1>1, <2>1 DEF HttpInv, Certificate
  <2>3. IsPrefix(body, Chunk(0, BodySize))
    BY <2>2, ChunkPrefix
  <2>. QED BY <1>1, <2>1, <2>3 DEF FetchedIsServed, Fetched
<1>2. CASE statusCode # 200
  <2>1. Chunk(0, 0) = <<>>
    BY DEF Chunk
  <2>2. IsPrefix(<<>>, Chunk(0, BodySize))
    BY <2>1, ChunkPrefix
  <2>. QED BY <1>2, <2>2 DEF FetchedIsServed, Fetched
<1>. QED BY <1>1, <1>2

-----------------------------------------------------------------------------
(* The chain and the device id *)

\* The intermediates taken so far begin with the on-die CA chain, and unless a
\* hash failed `seen' holds their fingerprints and no cached one repeats
\* another.
MergeInv ==
  /\ Len(odca) <= MAX_INTERMEDIATES
  /\ Len(caStore) <= MaxStore
  /\ pc \notin {"merge", "emit"} => intermediates = <<>> /\ seen = {}
  /\ pc \notin {"merge", "emit"} => next = 1 /\ ~unhashed
  /\ Len(intermediates) <= MAX_INTERMEDIATES
  /\ pc = "merge" \/ intermediates # <<>> => IsPrefix(odca, intermediates)
  /\ ~unhashed => seen = ToSet(intermediates) /\ CachedAreNew(intermediates)

\* The certificate ReadEkCertFromWindowsStore finds when nothing fails.
Readable == {i \in DOMAIN store : store[i] # JUNK}
Cached   == store[Min(Readable)]

\* With a certificate in the Windows store and no failing call, that
\* certificate is the only one enrollment sends and evidence is derived from.
CacheInv ==
  ~faulty /\ ~provisioned /\ Readable # {} =>
    /\ pc \in {"idle", "store", "odca", "merge", "emit"}
    /\ pc \in {"odca", "merge", "emit"} => ekCert = Cached
    /\ enrolled \subseteq {Cached}
    /\ evidenceId \in enrolled \cup {NONE}

IInv == TypeOK /\ HttpInv /\ MergeInv /\ CacheInv

\* What a bounded sequence is.
LEMMA BoundedSeqType ==
  ASSUME NEW S, NEW n \in Nat, NEW s \in BoundedSeq(S, n)
  PROVE  s \in Seq(S) /\ Len(s) \in Nat /\ Len(s) <= n
<1>1. PICK m \in 0..n : s \in [1..m -> S]
  BY DEF BoundedSeq, SeqOf
<1>. QED BY <1>1

\* The minimum of a non-empty set belongs to it.
LEMMA MinElement ==
  ASSUME NEW T \in SUBSET Nat, T # {}
  PROVE  Min(T) \in T
<1>1. PICK x \in T : \A y \in T : x <= y
  BY LeastNat
<1>. QED BY <1>1, Zenon DEF Min

\* The entries of the Windows store are EK certificates or junk.
LEMMA StoreEntries ==
  ASSUME TypeOK
  PROVE  /\ DOMAIN store \subseteq Nat
         /\ \A i \in DOMAIN store : store[i] \in EkCerts \cup {JUNK}
<1>. DEFINE S == EkCerts \cup {JUNK}
<1>1. store \in Seq(S)
  BY DEF TypeOK
<1>. HIDE DEF S
<1>2. DOMAIN store = 1..Len(store) /\ Len(store) \in Nat
  BY <1>1, LenProperties
<1>3. \A i \in DOMAIN store : store[i] \in S
  BY <1>1, <1>2, ElementOfSeq
<1>. QED BY <1>2, <1>3 DEF S

\* The first readable entry of the Windows store is an EK certificate.
LEMMA ReadableCached ==
  ASSUME TypeOK, Readable # {}
  PROVE  Cached \in EkCerts /\ Cached # NONE
<1>1. Readable \in SUBSET Nat
  BY StoreEntries DEF Readable
<1>2. Min(Readable) \in Readable
  <2>. HIDE DEF Readable
  <2>. QED BY <1>1, MinElement
<1>. DEFINE i == Min(Readable)
<1>. HIDE DEF i
<1>3. i \in DOMAIN store /\ store[i] # JUNK
  BY <1>2 DEF Readable, i
<1>4. store[i] \in EkCerts \cup {JUNK}
  BY <1>3, StoreEntries
<1>. QED BY <1>3, <1>4 DEF Cached, i

\* What the store yields is a certificate or nothing.
LEMMA StoreYields ==
  ASSUME TypeOK, NEW r \in ReadEkCertFromWindowsStore
  PROVE  /\ r \in EkCerts \cup {NONE}
         /\ ~faulty /\ Readable # {} => r = Cached
<1>1. CASE faulty
  <2>1. r = NONE \/ \E i \in DOMAIN store : store[i] # JUNK /\ r = store[i]
    BY <1>1 DEF ReadEkCertFromWindowsStore
  <2>. QED BY <1>1, <2>1, StoreEntries
<1>2. CASE ~faulty
  <2>1. r = IF Readable = {} THEN NONE ELSE Cached
    BY <1>2 DEF ReadEkCertFromWindowsStore, Readable, Cached
  <2>. QED BY <2>1, ReadableCached, <1>2
<1>. QED BY <1>1, <1>2

\* Before the first call there is no request and nothing is merged or enrolled.
LEMMA IInvInit == Init => IInv
<1>. SUFFICES ASSUME Init PROVE IInv
  OBVIOUS
<1>1. /\ odca \in Seq(CaCerts) /\ Len(odca) <= MAX_INTERMEDIATES
      /\ caStore \in Seq(CaCerts) /\ Len(caStore) <= MaxStore
  <2>1. /\ odca \in BoundedSeq(CaCerts, MAX_INTERMEDIATES)
        /\ caStore \in BoundedSeq(CaCerts, MaxStore)
    BY DEF Init
  <2>. QED BY <2>1, BoundedSeqType
<1>2. TypeOK
  <2>1. store \in Seq(EkCerts \cup {JUNK})
    BY DEF Init
  <2>2. /\ intermediates \in Seq(CaCerts) /\ seen \subseteq CaCerts
        /\ next \in 1..(MaxStore + 1) /\ enrolled \subseteq DeviceIds
    BY DEF Init
  <2>. QED BY <1>1, <2>1, <2>2 DEF Init, TypeOK
<1>3. HttpInv
  BY DEF Init, HttpInit, HttpInv, NoReply, Chunk
<1>4. MergeInv
  BY <1>1 DEF Init, MergeInv, ToSet, CachedAreNew
<1>5. CacheInv
  BY DEF Init, CacheInv
<1>. QED BY <1>2, <1>3, <1>4, <1>5 DEF IInv

\* Every step keeps the invariant of the request, inside GatherEkEnrollData
\* and outside.
LEMMA HttpInvKept ==
  ASSUME HttpInv, [Next]_vars
  PROVE  HttpInv'
<1>1. CASE LocalStep /\ UNCHANGED httpVars
  BY <1>1, HttpInvNext
<1>2. CASE AskAmd
  BY <1>2, HttpInvNext DEF AskAmd
<1>3. CASE GatherFromAmd
  BY <1>3, HttpInvNext DEF GatherFromAmd
<1>4. CASE HttpStep
  BY <1>4, HttpInvNext
<1>5. CASE UNCHANGED vars
  BY <1>5, HttpInvNext DEF vars
<1>. QED BY <1>1, <1>2, <1>3, <1>4, <1>5 DEF Next

\* Every step but those of the merge and the end of the enrollment leaves the
\* chain alone.
LEMMA MergeUntouched ==
  ASSUME MergeInv,
         UNCHANGED <<odca, caStore, intermediates, seen, next, unhashed>>,
         pc \notin {"merge", "emit"} <=> pc' \notin {"merge", "emit"},
         pc' = "merge" => pc = "merge"
  PROVE  MergeInv'
BY DEF MergeInv, CachedAreNew

\* A certificate is appended.
LEMMA MergeAppends ==
  ASSUME TypeOK, MergeInv, MergeEntry
  PROVE  /\ MergeInv'
         /\ intermediates' \in Seq(CaCerts)
         /\ seen' \subseteq CaCerts
         /\ next' \in 1..(MaxStore + 1)
         /\ unhashed' \in BOOLEAN
<1>. DEFINE c == caStore[next]
            s == intermediates
<1>1. /\ pc = "merge" /\ next \in 1..Len(caStore)
      /\ s \in Seq(CaCerts) /\ Len(s) \in Nat /\ Len(s) < MAX_INTERMEDIATES
      /\ caStore \in Seq(CaCerts) /\ Len(caStore) \in Nat
  <2>1. /\ pc = "merge" /\ next <= Len(caStore)
        /\ Len(s) < MAX_INTERMEDIATES
    BY DEF MergeEntry, Merging
  <2>2. /\ next \in 1..(MaxStore + 1)
        /\ s \in Seq(CaCerts) /\ caStore \in Seq(CaCerts)
    BY DEF TypeOK
  <2>3. Len(s) \in Nat /\ Len(caStore) \in Nat
    BY <2>2
  <2>. QED BY <2>1, <2>2, <2>3
<1>2. c \in CaCerts
  BY <1>1
<1>3. /\ intermediates' = Append(s, c) /\ next' = next + 1 /\ pc' = pc
      /\ UNCHANGED <<odca, caStore>>
  BY DEF MergeEntry, machine
<1>4. PICK hashed \in BOOLEAN :
        /\ hashed => c \notin seen
        /\ seen' = IF hashed THEN seen \cup {c} ELSE seen
        /\ unhashed' = (unhashed \/ ~hashed)
  BY DEF MergeEntry
<1>. HIDE DEF c, s
<1>5. /\ Append(s, c) \in Seq(CaCerts) /\ Len(Append(s, c)) = Len(s) + 1
      /\ \A i \in 1..Len(s) : Append(s, c)[i] = s[i]
      /\ Append(s, c)[Len(s) + 1] = c
      /\ DOMAIN Append(s, c) = 1..(Len(s) + 1)
      /\ DOMAIN s = 1..Len(s)
  BY <1>1, <1>2
<1>6. IsPrefix(odca, Append(s, c))
  <2>1. /\ Len(odca) <= Len(s)
        /\ SubSeq(odca, 1, Len(odca)) = SubSeq(s, 1, Len(odca))
    <3>1. IsPrefix(odca, s)
      BY <1>1 DEF MergeInv, s
    <3>. QED BY <3>1 DEF IsPrefix
  <2>2. odca \in Seq(CaCerts) /\ Len(odca) \in Nat
    <3>1. odca \in Seq(CaCerts)
      BY DEF TypeOK
    <3>. QED BY ONLY <3>1, LenProperties
  <2>3. SubSeq(Append(s, c), 1, Len(odca)) = SubSeq(s, 1, Len(odca))
    <3>. DEFINE t == Append(s, c)
                n == Len(odca)
    <3>. HIDE DEF t
    <3>1. \A i \in 1..n : t[i] = s[i] /\ s[i] \in CaCerts
      BY <1>1, <1>5, <2>1, <2>2 DEF t
    <3>. HIDE DEF n
    <3>2. n \in Nat
      BY <2>2 DEF n
    <3>3. SubSeq(s, 1, n) \in Seq(CaCerts) /\ Len(SubSeq(s, 1, n)) = n
          /\ \A i \in 1..n : SubSeq(s, 1, n)[i] = s[i]
      BY ONLY <3>1, <3>2, SubSeqProperties
    <3>4. SubSeq(t, 1, n) \in Seq(CaCerts) /\ Len(SubSeq(t, 1, n)) = n
          /\ \A i \in 1..n : SubSeq(t, 1, n)[i] = t[i]
      BY ONLY <3>1, <3>2, SubSeqProperties
    <3>5. SubSeq(t, 1, n) = SubSeq(s, 1, n)
      BY <3>1, <3>3, <3>4, SeqEqual
    <3>. QED BY <3>5 DEF t, n
  <2>. QED BY <1>1, <1>5, <2>1, <2>2, <2>3 DEF IsPrefix
<1>7. ASSUME ~unhashed'
      PROVE  seen' = ToSet(intermediates') /\ CachedAreNew(intermediates)'
  <2>1. seen' = seen \cup {c} /\ c \notin seen
        /\ seen = ToSet(s) /\ CachedAreNew(s)
    BY <1>4, <1>7 DEF MergeInv, s
  <2>2. ToSet(Append(s, c)) = ToSet(s) \cup {c}
    BY <1>1, <1>5 DEF ToSet
  <2>3. \A i \in 1..Len(s) : s[i] # c
    BY <1>5, <2>1 DEF ToSet
  <2>4. Len(odca) \in Nat /\ odca' = odca
    <3>1. odca \in Seq(CaCerts)
      BY DEF TypeOK
    <3>. QED BY <1>3, <3>1, LenProperties
  <2>5. ASSUME NEW i \in 1..Len(Append(s, c)),
               NEW j \in (Len(odca) + 1)..Len(Append(s, c)), i < j
        PROVE  Append(s, c)[i] # Append(s, c)[j]
    <3>1. i \in 1..Len(s) /\ j \in 1..(Len(s) + 1)
      BY <1>1, <1>5, <2>4, <2>5
    <3>2. CASE j = Len(s) + 1
      BY <1>5, <2>3, <3>1, <3>2
    <3>3. CASE j # Len(s) + 1
      <4>1. j \in (Len(odca) + 1)..Len(s) /\ j \in 1..Len(s)
        BY <1>1, <1>5, <2>4, <3>1, <3>3
      <4>2. s[i] # s[j]
        BY <2>1, <2>5, <3>1, <4>1 DEF CachedAreNew
      <4>. QED BY <1>5, <3>1, <4>1, <4>2
    <3>. QED BY <3>2, <3>3
  <2>6. CachedAreNew(intermediates)'
    BY <1>3, <2>4, <2>5 DEF CachedAreNew
  <2>. QED BY <1>3, <2>1, <2>2, <2>6
<1>8. next' \in 1..(MaxStore + 1) /\ Len(caStore) <= MaxStore
  BY <1>1, <1>3 DEF MergeInv
<1>9. MergeInv'
  <2>1. Len(intermediates') <= MAX_INTERMEDIATES
    <3>1. Len(s) + 1 <= MAX_INTERMEDIATES
      BY <1>1
    <3>. QED BY <1>3, <1>5, <3>1
  <2>2. IsPrefix(odca, intermediates')
    BY <1>3, <1>6
  <2>3. ~unhashed' =>
          seen' = ToSet(intermediates') /\ CachedAreNew(intermediates)'
    BY <1>7
  <2>4. pc' = "merge" /\ odca' = odca /\ caStore' = caStore
    BY <1>1, <1>3
  <2>. QED BY <2>1, <2>2, <2>3, <2>4 DEF MergeInv
<1>10. seen' \subseteq CaCerts /\ unhashed' \in BOOLEAN
  BY <1>2, <1>4 DEF TypeOK
<1>. QED BY <1>3, <1>5, <1>8, <1>9, <1>10

\* The on-die CA chain starts the list.
LEMMA MergeStarts ==
  ASSUME TypeOK, MergeInv, ReadOdca
  PROVE  /\ MergeInv'
         /\ seen' \subseteq CaCerts
         /\ unhashed' \in BOOLEAN
<1>1. /\ pc = "odca" /\ pc' = "merge" /\ intermediates' = odca
      /\ UNCHANGED <<odca, caStore, next>>
  BY DEF ReadOdca, machine
<1>2. PICK failed \in SUBSET DOMAIN odca :
        /\ seen' = {odca[i] : i \in DOMAIN odca \ failed}
        /\ unhashed' = (failed # {})
  BY DEF ReadOdca
<1>3. odca \in Seq(CaCerts) /\ Len(odca) \in Nat /\ DOMAIN odca = 1..Len(odca)
  <2>1. odca \in Seq(CaCerts)
    BY DEF TypeOK
  <2>. QED BY ONLY <2>1, LenProperties
<1>4. ToSet(odca) \subseteq CaCerts
  BY <1>3, ElementOfSeq DEF ToSet
<1>5. IsPrefix(odca, odca)
  BY <1>3 DEF IsPrefix
<1>6. ~unhashed' => seen' = ToSet(intermediates')
  BY <1>1, <1>2 DEF ToSet
<1>7. CachedAreNew(intermediates)'
  BY <1>1, <1>3 DEF CachedAreNew
<1>8. MergeInv'
  BY <1>1, <1>5, <1>6, <1>7 DEF MergeInv
<1>9. seen' \subseteq CaCerts
  BY <1>2, <1>4 DEF ToSet
<1>. QED BY <1>2, <1>8, <1>9

\* The steps of the merge leave the device id alone.
LEMMA CacheUntouched ==
  ASSUME CacheInv,
         UNCHANGED <<faulty, store, provisioned, ekCert, enrolled, evidenceId>>,
         pc' \in {"idle", "store", "odca", "merge", "emit"},
         pc' \in {"odca", "merge", "emit"} => pc \in {"odca", "merge", "emit"}
  PROVE  CacheInv'
BY DEF CacheInv, Readable, Cached

\* One step of each action keeps the invariant.
LEMMA IInvNext ==
  ASSUME IInv, [Next]_vars
  PROVE  IInv'
<1>. USE DEF IInv
<1>1. HttpInv'
  BY HttpInvKept
<1>2. CASE UNCHANGED <<machine, pc, ekCert, merge, enrolled, evidenceId>>
  <2>1. TypeOK'
    BY <1>2 DEF machine, merge, TypeOK
  <2>2. MergeInv'
    BY <1>2 DEF machine, merge, MergeInv, CachedAreNew
  <2>3. CacheInv'
    BY <1>2 DEF machine, CacheInv, Readable, Cached
  <2>. QED BY <1>1, <2>1, <2>2, <2>3
<1>3. CASE ReadEkPublicKey
  <2>1. TypeOK'
    BY <1>3 DEF ReadEkPublicKey, machine, merge, TypeOK
  <2>2. MergeInv'
    BY <1>3, MergeUntouched DEF ReadEkPublicKey, machine, merge
  <2>3. CacheInv'
    BY <1>3, CacheUntouched DEF ReadEkPublicKey, machine
  <2>. QED BY <1>1, <2>1, <2>2, <2>3
<1>4. ASSUME NEW from \in {"store", "nv", "fetch"},
             NEW r \in EkCerts \cup {CUT, NONE},
             NEW otherwise \in {"nv", "amd", "odca"},
             Source(from, r, otherwise)
      PROVE  TypeOK' /\ MergeInv'
  <2>1. TypeOK'
    BY <1>4 DEF Source, machine, merge, TypeOK
  <2>2. MergeInv'
    BY <1>4, MergeUntouched DEF Source, machine, merge
  <2>. QED BY <2>1, <2>2
<1>5. CASE GatherFromStore
  <2>1. PICK r \in ReadEkCertFromWindowsStore : Source("store", r, "nv")
    BY <1>5 DEF GatherFromStore
  <2>2. /\ r \in EkCerts \cup {NONE}
        /\ ~faulty /\ Readable # {} => r = Cached /\ Cached # NONE
    BY StoreYields, ReadableCached
  <2>3. TypeOK' /\ MergeInv'
    BY <1>4, <2>1, <2>2
  <2>4. CacheInv'
    <3>1. /\ UNCHANGED <<faulty, store, provisioned, enrolled, evidenceId>>
          /\ ekCert' = r /\ pc' = IF r = NONE THEN "nv" ELSE "odca"
      BY <2>1 DEF Source, machine
    <3>2. Readable' = Readable /\ Cached' = Cached
      BY <3>1 DEF Readable, Cached
    <3>. QED BY <2>2, <3>1, <3>2 DEF CacheInv
  <2>. QED BY <1>1, <2>3, <2>4
<1>6. CASE GatherFromNv
  <2>1. PICK r \in Try(nvCert, faulty) : Source("nv", r, "amd")
    BY <1>6 DEF GatherFromNv
  <2>2. r \in EkCerts \cup {NONE}
    BY <2>1 DEF Try, TypeOK
  <2>3. TypeOK' /\ MergeInv'
    BY <1>4, <2>1, <2>2
  <2>4. CacheInv'
    <3>1. UNCHANGED <<faulty, store, provisioned>> /\ pc = "nv"
      BY <2>1 DEF Source, machine
    <3>. QED BY <3>1 DEF CacheInv, Readable
  <2>. QED BY <1>1, <2>3, <2>4
<1>7. CASE AskAmd
  <2>1. TypeOK'
    BY <1>7 DEF AskAmd, machine, merge, TypeOK
  <2>2. MergeInv'
    BY <1>7, MergeUntouched DEF AskAmd, machine, merge
  <2>3. CacheInv'
    BY <1>7 DEF AskAmd, machine, CacheInv, Readable
  <2>. QED BY <1>1, <2>1, <2>2, <2>3
<1>8. CASE GatherFromAmd
  <2>1. PICK r \in EkCerts \cup {CUT, NONE} : Source("fetch", r, "odca")
    BY <1>8 DEF GatherFromAmd, TypeOK
  <2>2. TypeOK' /\ MergeInv'
    BY <1>4, <2>1
  <2>3. CacheInv'
    BY <2>1 DEF Source, machine, CacheInv, Readable
  <2>. QED BY <1>1, <2>2, <2>3
<1>9. CASE ReadOdca
  <2>1. TypeOK'
    <3>1. seen' \subseteq CaCerts /\ unhashed' \in BOOLEAN
      BY <1>9, MergeStarts
    <3>. QED BY <1>9, <3>1 DEF ReadOdca, machine, TypeOK
  <2>2. MergeInv'
    BY <1>9, MergeStarts
  <2>3. CacheInv'
    BY <1>9, CacheUntouched DEF ReadOdca, machine
  <2>. QED BY <1>1, <2>1, <2>2, <2>3
<1>10. CASE OdcaUnavailable
  <2>1. TypeOK'
    BY <1>10 DEF OdcaUnavailable, machine, merge, TypeOK
  <2>2. MergeInv'
    BY <1>10 DEF OdcaUnavailable, machine, merge, MergeInv, CachedAreNew
  <2>3. CacheInv'
    BY <1>10, CacheUntouched DEF OdcaUnavailable, machine
  <2>. QED BY <1>1, <2>1, <2>2, <2>3
<1>11. CASE SkipEntry
  <2>1. next' \in 1..(MaxStore + 1)
    <3>1. /\ next' = next + 1 /\ next <= Len(caStore)
          /\ Len(caStore) <= MaxStore
      BY <1>11 DEF SkipEntry, Merging, MergeInv
    <3>2. next \in 1..(MaxStore + 1) /\ caStore \in Seq(CaCerts)
      BY DEF TypeOK
    <3>. QED BY <3>1, <3>2
  <2>2. TypeOK'
    BY <1>11, <2>1 DEF SkipEntry, machine, TypeOK
  <2>3. MergeInv'
    BY <1>11 DEF SkipEntry, Merging, machine, MergeInv, CachedAreNew
  <2>4. CacheInv'
    BY <1>11, CacheUntouched DEF SkipEntry, Merging, machine
  <2>. QED BY <1>1, <2>2, <2>3, <2>4
<1>12. CASE MergeEntry
  <2>1. TypeOK'
    BY <1>12, MergeAppends DEF MergeEntry, machine, TypeOK
  <2>2. MergeInv'
    BY <1>12, MergeAppends
  <2>3. CacheInv'
    BY <1>12, CacheUntouched DEF MergeEntry, Merging, machine
  <2>. QED BY <1>1, <2>1, <2>2, <2>3
<1>13. CASE MergeEnds
  <2>1. TypeOK'
    BY <1>13 DEF MergeEnds, machine, merge, TypeOK
  <2>2. MergeInv'
    BY <1>13 DEF MergeEnds, machine, merge, MergeInv, CachedAreNew
  <2>3. CacheInv'
    BY <1>13, CacheUntouched DEF MergeEnds, machine
  <2>. QED BY <1>1, <2>1, <2>2, <2>3
<1>14. CASE EmitEnroll
  <2>1. TypeOK'
    <3>1. enrolled' \subseteq DeviceIds
      BY <1>14 DEF EmitEnroll, TypeOK, DeviceIds
    <3>2. /\ intermediates' \in Seq(CaCerts) /\ seen' \subseteq CaCerts
          /\ next' \in 1..(MaxStore + 1) /\ unhashed' \in BOOLEAN
      <4>1. /\ intermediates' = <<>> /\ seen' = {} /\ next' = 1
            /\ unhashed' = FALSE
        BY <1>14 DEF EmitEnroll
      <4>2. 1 \in 1..(MaxStore + 1) /\ <<>> \in Seq(CaCerts)
        OBVIOUS
      <4>. QED BY <4>1, <4>2, Zenon
    <3>3. pc' = "idle" /\ ekCert' = NONE /\ UNCHANGED <<machine, evidenceId>>
      BY <1>14 DEF EmitEnroll
    <3>. QED BY <3>1, <3>2, <3>3 DEF machine, TypeOK
  <2>2. MergeInv'
    <3>1. ToSet(<<>>) = {}
      BY DEF ToSet
    <3>. QED BY <1>14, <3>1 DEF EmitEnroll, machine, MergeInv, CachedAreNew
  <2>3. CacheInv'
    <3>1. Readable' = Readable /\ Cached' = Cached
      BY <1>14 DEF EmitEnroll, machine, Readable, Cached
    <3>2. UNCHANGED <<faulty, store, provisioned, evidenceId>>
      BY <1>14 DEF EmitEnroll, machine
    <3>3. SUFFICES ASSUME ~faulty, ~provisioned, Readable # {}
                   PROVE  /\ enrolled' \subseteq {Cached}
                          /\ evidenceId \in enrolled' \cup {NONE}
      BY <1>14, <3>1, <3>2 DEF EmitEnroll, CacheInv
    <3>4. /\ ekCert = Cached /\ Cached # NONE
          /\ enrolled \subseteq {Cached} /\ evidenceId \in enrolled \cup {NONE}
      BY <1>14, <3>3, ReadableCached DEF EmitEnroll, CacheInv
    <3>5. enrolled' = enrolled \/ enrolled' = enrolled \cup {Cached}
      BY <1>14, <3>4 DEF EmitEnroll
    <3>. QED BY <3>4, <3>5
  <2>. QED BY <1>1, <2>1, <2>2, <2>3
<1>15. CASE DeriveLocalDeviceId
  <2>1. PICK r \in ReadEkCertFromWindowsStore :
          evidenceId' \in {IF r = NONE THEN EKPUB ELSE r}
                          \cup (IF faulty THEN {""} ELSE {})
    BY <1>15 DEF DeriveLocalDeviceId
  <2>2. /\ r \in EkCerts \cup {NONE}
        /\ ~faulty /\ Readable # {} => r = Cached /\ Cached # NONE
    BY StoreYields, ReadableCached
  <2>3. /\ enrolled # {} /\ pc = "idle"
        /\ UNCHANGED <<machine, pc, ekCert, merge, enrolled>>
    BY <1>15 DEF DeriveLocalDeviceId
  <2>4. evidenceId' \in DeviceIds \cup {"", NONE}
    BY <2>1, <2>2 DEF DeviceIds
  <2>5. TypeOK'
    BY <2>3, <2>4 DEF machine, merge, TypeOK
  <2>6. MergeInv'
    BY <2>3, MergeUntouched DEF machine, merge
  <2>7. CacheInv'
    <3>1. Readable' = Readable /\ Cached' = Cached
      BY <2>3 DEF machine, Readable, Cached
    <3>2. UNCHANGED <<faulty, store, provisioned, enrolled>>
      BY <2>3 DEF machine
    <3>. QED BY <2>1, <2>2, <2>3, <3>1, <3>2 DEF CacheInv
  <2>. QED BY <1>1, <2>5, <2>6, <2>7
<1>16. CASE Provision
  <2>1. PICK c \in EkCerts : store' = <<c>>
    BY <1>16 DEF Provision
  <2>2. store' \in Seq(EkCerts \cup {JUNK})
    BY <2>1
  <2>3. TypeOK'
    BY <1>16, <2>2 DEF Provision, merge, TypeOK
  <2>4. MergeInv'
    BY <1>16, MergeUntouched DEF Provision, merge
  <2>5. CacheInv'
    BY <1>16 DEF Provision, CacheInv
  <2>. QED BY <1>1, <2>3, <2>4, <2>5
<1>. QED
  BY <1>2, <1>3, <1>5, <1>6, <1>7, <1>8, <1>9, <1>10, <1>11, <1>12, <1>13,
     <1>14, <1>15, <1>16
     DEF Next, LocalStep, vars

\* The request, the merge and the derivation of the id keep their invariant.
THEOREM Invariance == Spec => []IInv
BY IInvInit, IInvNext, PTL DEF Spec

\* Every variable keeps its type; the index into the intermediate store stays
\* within it.
THEOREM TypeCorrect == Spec => []TypeOK
<1>1. IInv => TypeOK
  BY DEF IInv
<1>. QED BY <1>1, Invariance, PTL

\* For every store and every limit, GatherEkEnrollData keeps the on-die CA
\* certificates in front, the cap, and unless a hash failed adds no cached
\* certificate that is already there.
THEOREM ChainIsMerged == Spec => []ChainMerged
<1>1. IInv => ChainMerged
  BY DEF IInv, MergeInv, ChainMerged
<1>. QED BY <1>1, Invariance, PTL

\* For every length of a body, what FetchAmdAiaEkCert returns is the beginning
\* of the certificate.
THEOREM OnlyServedIsFetched == Spec => []FetchedIsServed
<1>1. IInv => FetchedIsServed
  BY HttpInvServed DEF IInv
<1>. QED BY <1>1, Invariance, PTL

\* Whatever the Windows store holds besides an EK certificate,
\* DeriveLocalDeviceId yields the id under which the server has the device.
THEOREM CachedIdAlwaysResolves == Spec => []CachedIdResolves
<1>1. IInv => CachedIdResolves
  <2>. SUFFICES ASSUME IInv, ToSet(store) \cap EkCerts # {}, ~faulty,
                       ~provisioned, evidenceId \in DeviceIds
                PROVE  evidenceId \in enrolled
    BY DEF CachedIdResolves, DeviceIdResolves
  <2>1. PICK i \in DOMAIN store : store[i] \in EkCerts
    BY DEF ToSet
  <2>2. i \in Readable
    BY <2>1 DEF Readable
  <2>3. evidenceId \in enrolled \cup {NONE}
    BY <2>2 DEF IInv, CacheInv
  <2>4. NONE \notin DeviceIds
    BY DEF DeviceIds
  <2>. QED BY <2>3, <2>4
<1>. QED BY <1>1, Invariance, PTL
=============================================================================
