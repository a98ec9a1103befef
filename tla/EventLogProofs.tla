--------------------------- MODULE EventLogProofs ---------------------------
(***************************************************************************)
(* The walk of EventLog over a log of any length, cut after any byte.      *)
(* First where the fields of a log lie and that no two of them begin at    *)
(* the same offset; then where the cursor is at every step of the walk,    *)
(* and that it yields the entries of the log.  SecureBootChainProofs       *)
(* states the theorems, for the specification the walk is part of.         *)
(***************************************************************************)
EXTENDS EventLog, LayoutProofs, SequenceTheorems

-----------------------------------------------------------------------------
(* Layout *)

\* The maximum of a non-empty bounded set of numbers.
LEMMA MaxElement ==
  ASSUME NEW N \in Nat, NEW T \in SUBSET (0..N), T # {}
  PROVE  Max(T) \in T /\ \A y \in T : y <= Max(T)
<1>. DEFINE U == {N - t : t \in T}
<1>1. U \in SUBSET Nat /\ U # {}
  <2>1. \A t \in T : N - t \in Nat
    OBVIOUS
  <2>. QED BY <2>1
<1>2. PICK x \in U : \A y \in U : x <= y
  BY <1>1, LeastNat
<1>3. PICK t \in T : x = N - t
  BY <1>2
<1>4. \A y \in T : N - y \in U /\ t >= y
  BY <1>2, <1>3
<1>. QED BY <1>4, Zenon DEF Max

\* Every digest, of a known algorithm or not, has at least 20 bytes.
LEMMA SizeOfType ==
  \A alg \in Nat : SizeOf(alg) \in Nat /\ SizeOf(alg) >= 20
BY DEF SizeOf

\* The digests of a record follow one another, and the size of the event data
\* follows them.
LEMMA DigestEndsDef ==
  ASSUME NEW r \in Measurements
  PROVE  /\ Len(r.digests) \in Nat
         /\ DOMAIN r.digests = 1..Len(r.digests)
         /\ \A i \in 1..Len(r.digests) : r.digests[i] \in Nat
         /\ DigestEnds(r)[0] = 0
         /\ \A i \in 0..Len(r.digests) : DigestEnds(r)[i] \in Nat
         /\ \A i \in 1..Len(r.digests) :
              /\ SizeOf(r.digests[i]) \in Nat
              /\ SizeOf(r.digests[i]) >= 20
              /\ DigestEnds(r)[i - 1] \in Nat
              /\ DigestEnds(r)[i] =
                   DigestEnds(r)[i - 1] + (2 + SizeOf(r.digests[i]))
         /\ \A i, j \in 0..Len(r.digests) :
              i <= j => DigestEnds(r)[i] <= DigestEnds(r)[j]
         /\ SizeAt(r) = 12 + DigestEnds(r)[Len(r.digests)]
         /\ SizeAt(r) \in Nat
<1>. DEFINE n == Len(r.digests)
            sizes == [i \in DOMAIN r.digests |-> 2 + SizeOf(r.digests[i])]
            ends == DigestEnds(r)
<1>1. r.digests \in Seq(Nat)
  BY DEF Measurements
<1>2. /\ n \in Nat /\ DOMAIN r.digests = 1..n
      /\ \A i \in 1..n : r.digests[i] \in Nat
  BY <1>1
<1>3. ASSUME NEW i \in 1..n
      PROVE  /\ SizeOf(r.digests[i]) \in Nat
             /\ SizeOf(r.digests[i]) >= 20
             /\ 2 + SizeOf(r.digests[i]) \in Nat
  <2>. DEFINE s == SizeOf(r.digests[i])
  <2>1. s \in Nat /\ s >= 20
    BY <1>2, SizeOfType
  <2>. HIDE DEF s
  <2>2. 2 + s \in Nat
    BY <2>1
  <2>. QED BY <2>1, <2>2 DEF s
<1>. HIDE DEF n
<1>4. sizes \in [1..n -> Nat] /\ \A i \in 1..n : sizes[i] = 2 + SizeOf(r.digests[i])
  BY <1>2, <1>3
<1>. HIDE DEF sizes
<1>5. sizes \in Seq(Nat) /\ Len(sizes) = n
  BY <1>2, <1>4, FunctionIsSeq
<1>6. ends = PartialSums(sizes)
  BY DEF DigestEnds, sizes
<1>. HIDE DEF ends
<1>7. /\ ends \in [0..n -> Nat] /\ ends[0] = 0
      /\ \A i \in 1..n : ends[i] = ends[i - 1] + sizes[i]
  BY <1>5, <1>6, PartialSumsDef
<1>8. \A i, j \in 0..n : i <= j => ends[i] <= ends[j]
  BY <1>5, <1>6, PartialSumsMonotonic
<1>9. \A i \in 0..n : ends[i] \in Nat
  BY <1>7
<1>10. ASSUME NEW i \in 1..n
       PROVE  /\ ends[i - 1] \in Nat
              /\ ends[i] = ends[i - 1] + (2 + SizeOf(r.digests[i]))
  <2>1. i - 1 \in 0..n
    BY <1>2
  <2>. QED BY <1>4, <1>7, <1>9, <2>1
<1>11. SizeAt(r) = 12 + ends[n] /\ SizeAt(r) \in Nat
  BY <1>2, <1>9 DEF SizeAt, ends, n
<1>. QED BY <1>2, <1>3, <1>7, <1>8, <1>9, <1>10, <1>11 DEF ends, n

\* A record takes at least 16 bytes.
LEMMA RecordBytesType ==
  ASSUME NEW r \in Measurements, NEW format
  PROVE  RecordBytes(format, r) \in Nat /\ RecordBytes(format, r) >= 16
<1>1. r.size \in Nat
  BY DEF Measurements
<1>2. SizeAt(r) \in Nat /\ SizeAt(r) >= 12
  BY DigestEndsDef
<1>. QED BY <1>1, <1>2 DEF RecordBytes

\* Where the first record begins.
FirstAt(format) == IF format = "agile" THEN 65 ELSE 0

\* Records follow one another without a gap.
LEMMA RecordEndsDef ==
  ASSUME NEW records \in Seq(Measurements), NEW format
  PROVE  LET end == RecordEnds(format, records)
         IN /\ Len(records) \in Nat /\ DOMAIN records = 1..Len(records)
            /\ \A i \in 1..Len(records) : records[i] \in Measurements
            /\ end[0] = FirstAt(format)
            /\ \A n \in 0..Len(records) : end[n] \in Nat
            /\ \A n \in 1..Len(records) :
                 end[n] = end[n - 1] + RecordBytes(format, records[n])
            /\ \A m, n \in 0..Len(records) : m <= n => end[m] <= end[n]
<1>. DEFINE L == Len(records)
            sizes == [i \in DOMAIN records |-> RecordBytes(format, records[i])]
            sum == PartialSums(sizes)
            end == RecordEnds(format, records)
<1>1. /\ L \in Nat /\ DOMAIN records = 1..L
      /\ \A i \in 1..L : records[i] \in Measurements
  OBVIOUS
<1>2. \A i \in 1..L : RecordBytes(format, records[i]) \in Nat
  BY <1>1, RecordBytesType
<1>3. end = [n \in 0..L |-> FirstAt(format) + sum[n]]
  BY DEF RecordEnds, FirstAt, RecordBytes, SpecIdEvent
<1>. HIDE DEF L, end
<1>4. sizes \in [1..L -> Nat]
      /\ \A i \in 1..L : sizes[i] = RecordBytes(format, records[i])
  BY <1>1, <1>2
<1>. HIDE DEF sizes
<1>5. sizes \in Seq(Nat) /\ Len(sizes) = L
  BY <1>1, <1>4, FunctionIsSeq
<1>6. /\ sum \in [0..L -> Nat] /\ sum[0] = 0
      /\ \A i \in 1..L : sum[i] = sum[i - 1] + sizes[i]
  BY <1>5, PartialSumsDef
<1>7. \A m, n \in 0..L : m <= n => sum[m] <= sum[n]
  BY <1>5, PartialSumsMonotonic
<1>. HIDE DEF sum
<1>8. FirstAt(format) \in Nat
  BY DEF FirstAt
<1>9. \A n \in 0..L : sum[n] \in Nat /\ end[n] = FirstAt(format) + sum[n]
  BY <1>3, <1>6
<1>10. end[0] = FirstAt(format) /\ \A n \in 0..L : end[n] \in Nat
  BY <1>1, <1>6, <1>8, <1>9
<1>11. ASSUME NEW n \in 1..L
       PROVE  end[n] = end[n - 1] + RecordBytes(format, records[n])
  <2>1. n \in 0..L /\ n - 1 \in 0..L
    BY <1>1
  <2>2. /\ sum[n] \in Nat /\ sum[n - 1] \in Nat
        /\ end[n] = FirstAt(format) + sum[n]
        /\ end[n - 1] = FirstAt(format) + sum[n - 1]
    BY <1>9, <2>1
  <2>3. sum[n] = sum[n - 1] + RecordBytes(format, records[n])
    BY <1>4, <1>6
  <2>. QED BY <1>2, <1>8, <2>2, <2>3
<1>12. \A m, n \in 0..L : m <= n => end[m] <= end[n]
  BY <1>7, <1>8, <1>9
<1>. QED BY <1>1, <1>10, <1>11, <1>12 DEF L, end

\* No two fields of a record begin at the same offset, and all lie inside it.
LEMMA RecordFieldsDistinct ==
  ASSUME NEW r \in Measurements, NEW at \in Nat
  PROVE  /\ \A f \in RecordFields(at, r) :
              f.at \in at..(at + RecordBytes("agile", r) - 1)
         /\ \A f, g \in RecordFields(at, r) : f.at = g.at => f = g
<1>. DEFINE n == Len(r.digests)
            D == DigestEnds(r)
            S == SizeAt(r)
            Alg(i) == [at |-> at + 12 + D[i - 1], width |-> 2,
                       value |-> r.digests[i], data |-> NoData]
            Data == [at |-> at + S + 4, width |-> r.size, value |-> 0,
                     data |-> r.data]
            One(f) == f = Word(at, r.pcr)
            Two(f) == f = Word(at + 4, r.type)
            Three(f) == f = Word(at + 8, n)
            Four(f) == \E i \in 1..n : f = Alg(i)
            Five(f) == f = Word(at + S, r.size)
            Six(f) == r.size # 0 /\ f = Data
<1>1. /\ n \in Nat /\ DOMAIN r.digests = 1..n /\ S \in Nat /\ S = 12 + D[n]
      /\ \A i \in 0..n : D[i] \in Nat
      /\ \A i, j \in 0..n : i <= j => D[i] <= D[j]
      /\ \A i \in 1..n : r.digests[i] \in Nat
  BY DigestEndsDef
<1>2. \A i \in 1..n : /\ D[i - 1] \in Nat /\ D[i] \in Nat
                      /\ D[i] = D[i - 1] + (2 + SizeOf(r.digests[i]))
                      /\ SizeOf(r.digests[i]) \in Nat
                      /\ SizeOf(r.digests[i]) >= 20
  BY <1>1, DigestEndsDef
<1>3. r.size \in Nat /\ RecordBytes("agile", r) = S + 4 + r.size
  BY DEF Measurements, RecordBytes
<1>4. ASSUME NEW f \in RecordFields(at, r)
      PROVE  One(f) \/ Two(f) \/ Three(f) \/ Four(f) \/ Five(f) \/ Six(f)
  BY <1>1 DEF RecordFields, DataField, Word
<1>. HIDE DEF n, D, S
<1>5. ASSUME NEW i \in 1..n PROVE 12 <= 12 + D[i - 1] /\ 12 + D[i - 1] < S
  <2>1. i \in 0..n /\ n \in 0..n /\ i <= n
    BY <1>1
  <2>2. D[i] <= D[n] /\ D[n] \in Nat
    BY <1>1, <2>1
  <2>. DEFINE s == SizeOf(r.digests[i])
  <2>3. /\ D[i - 1] \in Nat /\ D[i] \in Nat /\ s \in Nat /\ s >= 20
        /\ D[i] = D[i - 1] + (2 + s)
    BY <1>2
  <2>. HIDE DEF s
  <2>. QED BY <1>1, <2>2, <2>3
<1>6. \A i, j \in 1..n : i # j => D[i - 1] # D[j - 1]
  <2>1. ASSUME NEW i \in 1..n, NEW j \in 1..n, i < j PROVE D[i - 1] < D[j - 1]
    <3>1. i \in 0..n /\ j - 1 \in 0..n /\ i <= j - 1
      BY <1>1, <2>1
    <3>2. D[i] <= D[j - 1] /\ D[j - 1] \in Nat
      BY <1>1, <3>1
    <3>. QED BY <1>2, <3>2
  <2>2. ASSUME NEW i \in 1..n, NEW j \in 1..n, i # j, D[i - 1] = D[j - 1]
        PROVE  FALSE
    <3>1. i < j \/ j < i
      BY <1>1, <2>2
    <3>2. D[i - 1] \in Nat /\ D[j - 1] \in Nat
      BY <1>2
    <3>. QED BY <2>1, <2>2, <3>1, <3>2
  <2>. QED BY <2>2
<1>7. S >= 12
  BY <1>1
<1>8. ASSUME NEW f \in RecordFields(at, r)
      PROVE  /\ One(f) => f.at = at
             /\ Two(f) => f.at = at + 4
             /\ Three(f) => f.at = at + 8
             /\ Four(f) => f.at >= at + 12 /\ f.at < at + S
             /\ Five(f) => f.at = at + S
             /\ Six(f) => r.size # 0 /\ f.at = at + S + 4
             /\ f.at \in Nat
  <2>1. ASSUME NEW i \in 1..n, f = Alg(i)
        PROVE  f.at >= at + 12 /\ f.at < at + S /\ f.at \in Nat
    <3>1. D[i - 1] \in Nat /\ 12 + D[i - 1] < S /\ f.at = at + 12 + D[i - 1]
      BY <1>2, <1>5, <2>1
    <3>. QED BY <1>1, <3>1
  <2>2. /\ One(f) => f.at = at
        /\ Two(f) => f.at = at + 4
        /\ Three(f) => f.at = at + 8
        /\ Five(f) => f.at = at + S
        /\ Six(f) => r.size # 0 /\ f.at = at + S + 4
    BY DEF Word
  <2>3. Four(f) => f.at >= at + 12 /\ f.at < at + S /\ f.at \in Nat
    BY <2>1
  <2>4. at \in Nat /\ at + 4 \in Nat /\ at + 8 \in Nat /\ at + S \in Nat
        /\ at + S + 4 \in Nat
    BY <1>1
  <2>. HIDE DEF One, Two, Three, Four, Five, Six
  <2>. QED BY <1>4, <2>2, <2>3, <2>4
<1>9. ASSUME NEW f \in RecordFields(at, r), NEW g \in RecordFields(at, r),
             f.at = g.at, Four(f), Four(g)
      PROVE  f = g
  <2>1. PICK i \in 1..n : f = Alg(i)
    BY <1>9
  <2>2. PICK j \in 1..n : g = Alg(j)
    BY <1>9
  <2>3. D[i - 1] \in Nat /\ D[j - 1] \in Nat
    BY <1>2
  <2>4. at + 12 + D[i - 1] = at + 12 + D[j - 1]
    BY <1>9, <2>1, <2>2
  <2>5. i = j
    BY <1>6, <2>3, <2>4
  <2>. QED BY <2>1, <2>2, <2>5
<1>10. ASSUME NEW f \in RecordFields(at, r), NEW g \in RecordFields(at, r),
              f.at = g.at, ~ Four(f)
       PROVE  f = g
  <2>1. /\ One(f) => One(g)
        /\ Two(f) => Two(g)
        /\ Three(f) => Three(g)
        /\ Five(f) => Five(g)
        /\ Six(f) => Six(g)
    <3>. HIDE DEF One, Two, Three, Four, Five, Six
    <3>. QED BY <1>10, <1>1, <1>4, <1>7, <1>8
  <2>. QED BY <1>10, <1>4, <2>1
<1>. HIDE DEF One, Two, Three, Four, Five, Six
<1>11. \A f \in RecordFields(at, r) :
         f.at \in at..(at + RecordBytes("agile", r) - 1)
  <2>. DEFINE z == r.size
  <2>1. at \in Nat /\ S \in Nat /\ S >= 12 /\ z \in Nat
    BY <1>1, <1>3, <1>7
  <2>2. ASSUME NEW f \in RecordFields(at, r)
        PROVE  f.at \in Nat /\ f.at >= at /\ f.at <= at + (S + 4 + r.size) - 1
    <3>. DEFINE o == f.at
    <3>1. /\ o \in Nat
          /\ \/ o \in {at, at + 4, at + 8, at + S}
             \/ /\ o >= at + 12
                /\ o < at + S
             \/ /\ z # 0
                /\ o = at + S + 4
      <4>. HIDE DEF One, Two, Three, Four, Five, Six
      <4>. QED BY <1>4, <1>8
    <3>. HIDE DEF o, z
    <3>2. o \in Nat /\ o >= at /\ o <= at + (S + 4 + z) - 1
      BY ONLY <2>1, <3>1
    <3>. QED BY <3>2 DEF o, z
  <2>. QED BY <1>1, <1>3, <2>2
<1>12. ASSUME NEW f \in RecordFields(at, r), NEW g \in RecordFields(at, r),
              f.at = g.at
       PROVE  f = g
  BY <1>12, <1>9, <1>10
<1>. QED BY <1>11, <1>12

\* The Spec ID event is a measurement like others.
LEMMA SpecIdType ==
  /\ NoData \in VariableData
  /\ SpecIdEvent \in Measurements
  /\ SpecIdEvent.size = 33 /\ SpecIdEvent.type = EV_NO_ACTION
<1>1. NoData \in VariableData
  BY DEF VariableData
<1>2. EV_NO_ACTION \in Nat
  BY DEF EV_NO_ACTION
<1>. HIDE DEF NoData
<1>. QED BY <1>1, <1>2 DEF SpecIdEvent, Measurements

\* The fields of a TCG_PCR_EVENT lie inside it and begin at different places.
LEMMA LegacyFieldsDistinct ==
  ASSUME NEW at \in Nat, NEW r, r.size \in Nat
  PROVE  /\ \A f \in LegacyFields(at, r) :
              f.at \in Nat /\ at <= f.at /\ f.at < at + 32 + r.size
         /\ \A f, g \in LegacyFields(at, r) : f.at = g.at => f = g
<1>. DEFINE F == LegacyFields(at, r)
            size == r.size
            Data == [at |-> at + 32, width |-> size, value |-> 0, data |-> r.data]
            One(f) == f = Word(at, r.pcr)
            Two(f) == f = Word(at + 4, r.type)
            Three(f) == \E i \in 2..6 : f = HashWord(at + 4 * i, r.type)
            Four(f) == f = Word(at + 28, r.size)
            Five(f) == size # 0 /\ f = Data
<1>1. ASSUME NEW f \in F
      PROVE  One(f) \/ Two(f) \/ Three(f) \/ Four(f) \/ Five(f)
  BY DEF LegacyFields, DataField
<1>. HIDE DEF F, size
<1>2. ASSUME NEW f \in F
      PROVE  /\ One(f) => f.at = at
             /\ Two(f) => f.at = at + 4
             /\ Three(f) => f.at >= at + 8 /\ f.at <= at + 24 /\ f.at \in Nat
             /\ Four(f) => f.at = at + 28
             /\ Five(f) => size # 0 /\ f.at = at + 32
  <2>1. Three(f) => f.at >= at + 8 /\ f.at <= at + 24 /\ f.at \in Nat
    <3>1. \A i \in 2..6 : HashWord(at + 4 * i, r.type).at = at + 4 * i
      BY DEF HashWord, Word
    <3>. QED BY <3>1
  <2>. QED BY <2>1 DEF Word
<1>3. ASSUME NEW f \in F, NEW g \in F, f.at = g.at PROVE f = g
  <2>1. /\ One(f) => One(g)
        /\ Two(f) => Two(g)
        /\ Three(f) => Three(g)
        /\ Four(f) => Four(g)
        /\ Five(f) => Five(g)
    <3>. HIDE DEF One, Two, Three, Four, Five
    <3>1. size \in Nat
      BY DEF size
    <3>. QED BY <1>1, <1>2, <1>3, <3>1
  <2>2. ASSUME Three(f), Three(g) PROVE f = g
    <3>1. PICK i \in 2..6 : f = HashWord(at + 4 * i, r.type)
      BY <2>2
    <3>2. PICK j \in 2..6 : g = HashWord(at + 4 * j, r.type)
      BY <2>2
    <3>3. f.at = at + 4 * i /\ g.at = at + 4 * j
      BY <3>1, <3>2 DEF HashWord, Word
    <3>4. at + 4 * i = at + 4 * j
      BY <1>3, <3>3
    <3>5. i = j
      BY <3>4
    <3>. QED BY <3>1, <3>2, <3>5
  <2>. QED BY <1>1, <2>1, <2>2
<1>4. \A f \in F : f.at \in Nat /\ at <= f.at /\ f.at < at + 32 + size
  <2>. HIDE DEF One, Two, Three, Four, Five
  <2>1. size \in Nat
    BY DEF size
  <2>. QED BY <1>1, <1>2, <2>1
<1>. QED BY <1>3, <1>4 DEF F, size

\* The fields of the i-th record of a log; of its Spec ID event for i = 0.
Part(log, i) ==
  LET at == RecordEnds(log.format, log.records)[i - 1]
      r == log.records[i]
  IN IF i = 0 THEN IF log.format = "agile" THEN SpecIdHeader ELSE {}
     ELSE IF log.format = "agile" THEN RecordFields(at, r)
     ELSE LegacyFields(at, r)

\* What IsLog says of a log, part by part.
LEMMA LogShape ==
  ASSUME NEW log, IsLog(log)
  PROVE  /\ log.format \in {"agile", "legacy"}
         /\ log.records \in Seq(Measurements)
         /\ Len(log.records) \in Nat
         /\ log.size \in Nat
         /\ log.size <= RecordEnds(log.format, log.records)[Len(log.records)]
         /\ \A f : f \in log.fields <=>
                     \E i \in 0..Len(log.records) : f \in Part(log, i)
<1>. DEFINE L == Len(log.records)
            end == RecordEnds(log.format, log.records)
            whole == FirmwareLog(log.format, log.records)
            Fields(i) == IF log.format = "agile"
                         THEN RecordFields(end[i - 1], log.records[i])
                         ELSE LegacyFields(end[i - 1], log.records[i])
<1>1. /\ log.format \in {"agile", "legacy"}
      /\ log.records \in Seq(Measurements)
      /\ log.size \in 0..whole.size
      /\ log = Cut(whole, log.size)
  BY DEF IsLog
<1>2. L \in Nat /\ DOMAIN log.records = 1..L /\ end[L] \in Nat
  BY <1>1, RecordEndsDef
<1>3. /\ whole.size = end[L]
      /\ whole.fields = (IF log.format = "agile" THEN SpecIdHeader ELSE {})
                          \cup UNION {Fields(i) : i \in DOMAIN log.records}
  BY DEF FirmwareLog
<1>4. log.fields = whole.fields
  <2>1. Cut(whole, log.size).fields = whole.fields
    BY DEF Cut, FirmwareLog
  <2>. QED BY <1>1, <2>1
<1>5. log.size \in Nat /\ log.size <= end[L]
  BY <1>1, <1>2, <1>3
<1>6. \A i \in 1..L : Part(log, i) = Fields(i)
  BY DEF Part
<1>7. Part(log, 0) = IF log.format = "agile" THEN SpecIdHeader ELSE {}
  BY DEF Part
<1>. HIDE DEF whole, Fields, L
<1>8. \A f : f \in log.fields <=>
               f \in Part(log, 0) \/ \E i \in 1..L : f \in Part(log, i)
  BY <1>2, <1>3, <1>4, <1>6, <1>7
<1>9. \A i : i \in 0..L <=> i = 0 \/ i \in 1..L
  BY <1>2
<1>10. \A f : f \in log.fields <=> \E i \in 0..L : f \in Part(log, i)
  BY <1>8, <1>9
<1>. QED BY <1>1, <1>2, <1>5, <1>10 DEF L

\* A field lies inside its record, and no other field of the record begins at
\* its offset.
LEMMA PartDistinct ==
  ASSUME NEW log, IsLog(log), NEW i \in 0..Len(log.records)
  PROVE  LET end == RecordEnds(log.format, log.records)
         IN /\ \A f \in Part(log, i) : /\ f.at \in Nat
                                       /\ f.at < end[i]
                                       /\ i # 0 => end[i - 1] <= f.at
            /\ \A f, g \in Part(log, i) : f.at = g.at => f = g
<1>. DEFINE end == RecordEnds(log.format, log.records)
            r == log.records[i]
<1>1. log.format \in {"agile", "legacy"} /\ log.records \in Seq(Measurements)
  BY LogShape
<1>2. CASE i = 0
  <2>1. CASE log.format = "agile"
    <3>1. Part(log, i) = LegacyFields(0, SpecIdEvent)
      BY <1>2, <2>1 DEF Part, SpecIdHeader
    <3>2. end[i] = 65
      BY <1>1, <1>2, <2>1, RecordEndsDef DEF FirstAt
    <3>3. /\ \A f \in Part(log, i) :
               f.at \in Nat /\ 0 <= f.at /\ f.at < 0 + 32 + 33
          /\ \A f, g \in Part(log, i) : f.at = g.at => f = g
      <4>. DEFINE F == LegacyFields(0, SpecIdEvent)
      <4>1. 0 \in Nat /\ 33 \in Nat /\ SpecIdEvent.size = 33
        BY SpecIdType
      <4>2. /\ \A f \in F : f.at \in Nat /\ 0 <= f.at /\ f.at < 0 + 32 + 33
            /\ \A f, g \in F : f.at = g.at => f = g
        BY <4>1, LegacyFieldsDistinct
      <4>. HIDE DEF F
      <4>. QED BY <3>1, <4>2 DEF F
    <3>. QED BY <1>2, <3>2, <3>3
  <2>2. CASE log.format # "agile"
    BY <1>2, <2>2 DEF Part
  <2>. QED BY <2>1, <2>2
<1>3. CASE i # 0
  <2>1. i \in 1..Len(log.records)
    BY <1>1, <1>3
  <2>2. /\ r \in Measurements /\ end[i - 1] \in Nat
        /\ end[i] = end[i - 1] + RecordBytes(log.format, r)
    <3>1. i - 1 \in 0..Len(log.records)
      BY <1>1, <2>1
    <3>. QED BY <1>1, <2>1, <3>1, RecordEndsDef
  <2>3. RecordBytes(log.format, r) \in Nat
    BY <2>2, RecordBytesType
  <2>. DEFINE a == end[i - 1]
              b == RecordBytes(log.format, r)
  <2>4. /\ \A f \in Part(log, i) : f.at \in a..(a + b - 1)
        /\ \A f, g \in Part(log, i) : f.at = g.at => f = g
    <3>1. CASE log.format = "agile"
      <4>1. Part(log, i) = RecordFields(a, r)
        BY <1>3, <3>1 DEF Part
      <4>. QED BY <2>2, <3>1, <4>1, RecordFieldsDistinct
    <3>2. CASE log.format # "agile"
      <4>1. Part(log, i) = LegacyFields(a, r)
        BY <1>3, <3>2 DEF Part
      <4>2. r.size \in Nat /\ b = 32 + r.size
        BY <2>2, <3>2 DEF Measurements, RecordBytes
      <4>. DEFINE z == r.size
      <4>3. /\ a \in Nat /\ z \in Nat /\ b = 32 + z
            /\ Part(log, i) = LegacyFields(a, r) /\ r.size = z
        BY <2>2, <4>1, <4>2
      <4>. HIDE DEF a, b, z, r, end
      <4>4. /\ \A f \in Part(log, i) :
                 f.at \in Nat /\ a <= f.at /\ f.at < a + 32 + z
            /\ \A f, g \in Part(log, i) : f.at = g.at => f = g
        BY ONLY <4>3, LegacyFieldsDistinct
      <4>5. \A f \in Part(log, i) : f.at \in a..(a + b - 1)
        BY ONLY <4>3, <4>4
      <4>. QED BY <4>4, <4>5
    <3>. QED BY <3>1, <3>2
  <2>. HIDE DEF a, b
  <2>5. a \in Nat /\ b \in Nat /\ end[i] = a + b
    BY <2>2, <2>3 DEF a, b
  <2>6. \A f \in Part(log, i) : f.at \in Nat /\ f.at < a + b /\ a <= f.at
    BY ONLY <2>4, <2>5
  <2>. QED BY <2>4, <2>5, <2>6 DEF a
<1>. QED BY <1>2, <1>3

\* No two fields of a log begin at the same offset.
LEMMA LogFieldsDistinct ==
  ASSUME NEW log, IsLog(log), NEW f \in log.fields, NEW g \in log.fields,
         f.at = g.at
  PROVE  f = g
<1>. DEFINE L == Len(log.records)
            end == RecordEnds(log.format, log.records)
<1>1. PICK i \in 0..L : f \in Part(log, i)
  BY LogShape
<1>2. PICK j \in 0..L : g \in Part(log, j)
  BY LogShape
<1>3. /\ L \in Nat /\ \A n \in 0..L : end[n] \in Nat
      /\ \A m, n \in 0..L : m <= n => end[m] <= end[n]
  BY LogShape, RecordEndsDef
<1>4. /\ f.at \in Nat /\ f.at < end[i] /\ (i # 0 => end[i - 1] <= f.at)
      /\ g.at \in Nat /\ g.at < end[j] /\ (j # 0 => end[j - 1] <= g.at)
  BY <1>1, <1>2, PartDistinct
<1>. HIDE DEF L, end
<1>5. ~ (i < j)
  <2>. SUFFICES ASSUME i < j PROVE FALSE
    OBVIOUS
  <2>1. j - 1 \in 0..L /\ i <= j - 1 /\ j # 0
    BY <1>3
  <2>2. end[i] <= end[j - 1] /\ end[i] \in Nat /\ end[j - 1] \in Nat
    BY <1>3, <2>1
  <2>. QED BY <1>4, <2>1, <2>2
<1>6. ~ (j < i)
  <2>. SUFFICES ASSUME j < i PROVE FALSE
    OBVIOUS
  <2>1. i - 1 \in 0..L /\ j <= i - 1 /\ i # 0
    BY <1>3
  <2>2. end[j] <= end[i - 1] /\ end[j] \in Nat /\ end[i - 1] \in Nat
    BY <1>3, <2>1
  <2>. QED BY <1>4, <2>1, <2>2
<1>7. i = j
  BY <1>3, <1>5, <1>6
<1>. QED BY <1>1, <1>2, <1>7, PartDistinct DEF L

\* What FieldAt returns.
LEMMA FieldIs ==
  ASSUME IsLog(rawLog), NEW n, NEW f \in rawLog.fields, f.at = p + n
  PROVE  FieldAt(n) = f
<1>1. \A g \in rawLog.fields : g.at = p + n => g = f
  BY LogFieldsDistinct
<1>. QED BY <1>1 DEF FieldAt

\* Where the fields that the walk reads are.
AlgField(at, alg) == [at |-> at, width |-> 2, value |-> alg, data |-> NoData]
EventField(at, r) ==
  [at |-> at, width |-> r.size, value |-> 0, data |-> r.data]

\* The records of a log as TCG_PCR_EVENTs: those of a log in the older format,
\* and the Spec ID event in front of crypto-agile records.
OldRecords(log) ==
  IF log.format = "agile" THEN <<SpecIdEvent>> ELSE log.records
OldEnds(log) == RecordEnds("legacy", OldRecords(log))

\* Where they are.
LEMMA OldShape ==
  ASSUME NEW log, IsLog(log)
  PROVE  LET n == Len(OldRecords(log))
             end == OldEnds(log)
         IN /\ OldRecords(log) \in Seq(Measurements) /\ n \in Nat
            /\ \A i \in 0..n : end[i] \in Nat
            /\ end[0] = 0
            /\ \A i \in 1..n :
                 end[i] = end[i - 1] + 32 + OldRecords(log)[i].size
            /\ log.format = "agile" => n = 1
            /\ ~ Headed(log) => log.size <= end[n]
<1>. DEFINE rs == OldRecords(log)
            n == Len(rs)
            end == OldEnds(log)
<1>1. /\ log.format \in {"agile", "legacy"} /\ log.size \in Nat
      /\ log.records \in Seq(Measurements)
  BY LogShape
<1>2. rs \in Seq(Measurements) /\ (log.format = "agile" => n = 1)
  BY <1>1, SpecIdType DEF OldRecords
<1>3. /\ n \in Nat /\ DOMAIN rs = 1..n
      /\ \A i \in 1..n : rs[i] \in Measurements
      /\ end[0] = FirstAt("legacy")
      /\ \A i \in 0..n : end[i] \in Nat
      /\ \A i \in 1..n : end[i] = end[i - 1] + RecordBytes("legacy", rs[i])
  <2>. HIDE DEF rs
  <2>. QED BY <1>2, RecordEndsDef DEF OldEnds, rs
<1>4. end[0] = 0
  BY <1>3 DEF FirstAt
<1>. HIDE DEF rs, end
<1>5. ASSUME NEW i \in 1..n PROVE end[i] = end[i - 1] + 32 + rs[i].size
  <2>1. rs[i] \in Measurements /\ i - 1 \in 0..n
    BY <1>3
  <2>2. rs[i].size \in Nat /\ RecordBytes("legacy", rs[i]) = 32 + rs[i].size
    BY <2>1 DEF Measurements, RecordBytes
  <2>3. end[i - 1] \in Nat /\ end[i] = end[i - 1] + RecordBytes("legacy", rs[i])
    BY <1>3, <2>1
  <2>. QED BY <2>2, <2>3
<1>6. ASSUME ~ Headed(log) PROVE log.size <= end[n]
  <2>1. CASE log.format = "agile"
    <3>1. RecordEnds("agile", log.records)[0] = 65
      BY <1>1, RecordEndsDef DEF FirstAt
    <3>2. ~ (65 <= log.size)
      BY <1>6, <2>1, <3>1 DEF Headed, Whole
    <3>3. n = 1 /\ rs[1].size = 33
      BY <1>2, <2>1, SpecIdType DEF rs, OldRecords
    <3>4. 1 \in 1..n /\ end[1] = end[1 - 1] + 32 + 33 /\ 1 - 1 = 0
      <4>1. 1 \in 1..n
        BY <3>3
      <4>2. end[1] = end[1 - 1] + 32 + rs[1].size
        BY <1>5, <4>1
      <4>. QED BY <3>3, <4>1, <4>2
    <3>5. end[n] = 65
      BY <1>4, <3>3, <3>4
    <3>. QED BY <1>1, <3>2, <3>5
  <2>2. CASE log.format = "legacy"
    <3>1. rs = log.records /\ end = RecordEnds(log.format, log.records)
      BY <2>2 DEF rs, end, OldRecords, OldEnds
    <3>. QED BY <3>1, LogShape
  <2>. QED BY <1>1, <2>1, <2>2
<1>. QED BY <1>2, <1>3, <1>4, <1>5, <1>6 DEF rs, end

\* What is in the (k+1)-st of them.
LEMMA OldWords ==
  ASSUME NEW log, IsLog(log), NEW k \in Nat, k < Len(OldRecords(log))
  PROVE  LET at == OldEnds(log)[k]
             r == OldRecords(log)[k + 1]
         IN /\ Word(at, r.pcr) \in log.fields
            /\ Word(at + 4, r.type) \in log.fields
            /\ \A i \in 2..6 : HashWord(at + 4 * i, r.type) \in log.fields
            /\ Word(at + 28, r.size) \in log.fields
            /\ r.size # 0 => EventField(at + 32, r) \in log.fields
<1>. DEFINE at == OldEnds(log)[k]
            r == OldRecords(log)[k + 1]
            F == LegacyFields(at, r)
<1>1. log.format \in {"agile", "legacy"} /\ Len(log.records) \in Nat
  BY LogShape
<1>2. \A f \in F : f \in log.fields
  <2>1. CASE log.format = "agile"
    <3>1. k = 0 /\ at = 0
      BY <2>1, OldShape
    <3>2. r = SpecIdEvent
      BY <2>1, <3>1 DEF OldRecords
    <3>3. Part(log, 0) = LegacyFields(0, SpecIdEvent)
      BY <2>1 DEF Part, SpecIdHeader
    <3>4. 0 \in 0..Len(log.records)
      BY <1>1
    <3>5. \A f \in Part(log, 0) : f \in log.fields
      BY <3>4, LogShape
    <3>. QED BY <3>1, <3>2, <3>3, <3>5
  <2>2. CASE log.format = "legacy"
    <3>1. /\ r = log.records[k + 1] /\ k < Len(log.records)
          /\ at = RecordEnds(log.format, log.records)[k]
      BY <2>2 DEF OldRecords, OldEnds
    <3>2. k + 1 \in 0..Len(log.records) /\ k + 1 # 0 /\ (k + 1) - 1 = k
      BY <1>1, <3>1
    <3>3. Part(log, k + 1) = F
      BY <2>2, <3>1, <3>2 DEF Part
    <3>. QED BY <3>2, <3>3, LogShape
  <2>. QED BY <1>1, <2>1, <2>2
<1>. HIDE DEF at, r
<1>3. /\ Word(at, r.pcr) \in F
      /\ Word(at + 4, r.type) \in F
      /\ \A i \in 2..6 : HashWord(at + 4 * i, r.type) \in F
      /\ Word(at + 28, r.size) \in F
  BY Zenon DEF LegacyFields
<1>4. r.size # 0 => EventField(at + 32, r) \in F
  BY Zenon DEF LegacyFields, DataField, EventField
<1>. HIDE DEF F
<1>. QED BY <1>2, <1>3, <1>4 DEF at, r

\* A log of 32 bytes begins with the words of a TCG_PCR_EVENT.
LEMMA HeaderWords ==
  ASSUME NEW log, IsLog(log), log.size >= 32
  PROVE  /\ 0 < Len(OldRecords(log))
         /\ Word(4, OldRecords(log)[1].type) \in log.fields
         /\ Word(28, OldRecords(log)[1].size) \in log.fields
<1>. DEFINE n == Len(OldRecords(log))
            r == OldRecords(log)[0 + 1]
<1>1. n \in Nat /\ OldEnds(log)[0] = 0 /\ log.size \in Nat
  BY OldShape, LogShape
<1>2. n # 0
  <2>1. CASE log.format = "agile"
    <3>1. n = 1
      BY <2>1, OldShape
    <3>. HIDE DEF n
    <3>. QED BY <3>1
  <2>2. CASE log.format # "agile"
    <3>1. ~ Headed(log)
      BY <2>2 DEF Headed
    <3>2. log.size <= OldEnds(log)[n]
      BY <3>1, OldShape
    <3>. QED BY <1>1, <3>2
  <2>. QED BY <2>1, <2>2
<1>3. 0 \in Nat /\ 0 < n
  BY <1>1, <1>2
<1>4. /\ Word(OldEnds(log)[0] + 4, r.type) \in log.fields
      /\ Word(OldEnds(log)[0] + 28, r.size) \in log.fields
  BY <1>3, OldWords
<1>5. r = OldRecords(log)[1] /\ 0 + 4 = 4 /\ 0 + 28 = 28
  OBVIOUS
<1>. HIDE DEF r
<1>6. Word(4, r.type) \in log.fields /\ Word(28, r.size) \in log.fields
  BY <1>1, <1>4, <1>5
<1>. QED BY <1>3, <1>5, <1>6

\* The fields of the (k+1)-st record of a crypto-agile log.
LEMMA RecordWords ==
  ASSUME NEW log, IsLog(log), log.format = "agile", NEW k \in Nat,
         k < Len(log.records)
  PROVE  LET at == RecordEnds("agile", log.records)[k]
             r == log.records[k + 1]
         IN /\ Word(at, r.pcr) \in log.fields
            /\ Word(at + 4, r.type) \in log.fields
            /\ Word(at + 8, Len(r.digests)) \in log.fields
            /\ Word(at + SizeAt(r), r.size) \in log.fields
            /\ \A i \in 1..Len(r.digests) :
                 AlgField(at + 12 + DigestEnds(r)[i - 1], r.digests[i])
                   \in log.fields
            /\ r.size # 0 => EventField(at + SizeAt(r) + 4, r) \in log.fields
<1>. DEFINE at == RecordEnds("agile", log.records)[k]
            r == log.records[k + 1]
<1>1. /\ k + 1 \in 0..Len(log.records) /\ k + 1 # 0 /\ (k + 1) - 1 = k
      /\ k + 1 \in 1..Len(log.records)
  BY LogShape
<1>2. Part(log, k + 1) = RecordFields(at, r)
  BY <1>1 DEF Part
<1>3. \A f \in RecordFields(at, r) : f \in log.fields
  BY <1>1, <1>2, LogShape
<1>4. r \in Measurements
  BY <1>1, LogShape
<1>5. DOMAIN r.digests = 1..Len(r.digests)
  BY <1>4, DigestEndsDef
<1>. HIDE DEF at, r
<1>6. /\ Word(at, r.pcr) \in RecordFields(at, r)
      /\ Word(at + 4, r.type) \in RecordFields(at, r)
      /\ Word(at + 8, Len(r.digests)) \in RecordFields(at, r)
      /\ Word(at + SizeAt(r), r.size) \in RecordFields(at, r)
  BY DEF RecordFields
<1>7. r.size # 0 => EventField(at + SizeAt(r) + 4, r) \in RecordFields(at, r)
  BY DEF RecordFields, DataField, EventField
<1>8. ASSUME NEW i \in 1..Len(r.digests)
      PROVE  AlgField(at + 12 + DigestEnds(r)[i - 1], r.digests[i])
               \in RecordFields(at, r)
  <2>. DEFINE o == at + 12 + DigestEnds(r)[i - 1]
              w == [Word(o, r.digests[i]) EXCEPT !.width = 2]
  <2>1. w \in RecordFields(at, r)
    BY <1>5 DEF RecordFields
  <2>. HIDE DEF o
  <2>2. w = AlgField(o, r.digests[i])
    BY DEF Word, AlgField
  <2>. QED BY <2>1, <2>2 DEF o
<1>. QED BY <1>3, <1>6, <1>7, <1>8 DEF at, r

-----------------------------------------------------------------------------
(* The entries of a log *)

\* With n records the log also holds fewer of them whole.
LEMMA WholeDown ==
  ASSUME NEW log, IsLog(log), NEW n \in 0..Len(log.records), Whole(log, n),
         NEW m \in 0..n
  PROVE  Whole(log, m)
<1>. DEFINE end == RecordEnds(log.format, log.records)
<1>1. /\ Len(log.records) \in Nat /\ log.size \in Nat
      /\ \A i \in 0..Len(log.records) : end[i] \in Nat
      /\ \A i, j \in 0..Len(log.records) : i <= j => end[i] <= end[j]
  BY LogShape, RecordEndsDef
<1>2. m \in 0..Len(log.records) /\ m <= n /\ \A i \in 1..m : i \in 1..n
  BY <1>1
<1>3. end[m] <= end[n] /\ end[m] \in Nat /\ end[n] \in Nat
  BY <1>1, <1>2
<1>4. end[n] <= log.size /\ \A i \in 1..n : Readable(log.records[i])
  BY DEF Whole
<1>5. end[m] <= log.size
  BY <1>1, <1>3, <1>4
<1>. QED BY <1>2, <1>4, <1>5 DEF Whole

\* EntriesOf a log with a whole Spec ID event.
LEMMA EntriesShape ==
  ASSUME NEW log, IsLog(log), log.format = "agile", Whole(log, 0)
  PROVE  \E m \in 0..Len(log.records) :
           /\ Whole(log, m)
           /\ \A n \in 0..Len(log.records) : Whole(log, n) => n <= m
           /\ EntriesOf(log) = [i \in 1..m |-> EntryOf(log.records[i])]
<1>. DEFINE T == {n \in 0..Len(log.records) : Whole(log, n)}
            m == Max(T)
<1>1. Len(log.records) \in Nat
  BY LogShape
<1>2. T \in SUBSET (0..Len(log.records)) /\ T # {}
  BY <1>1
<1>3. m \in T /\ \A y \in T : y <= m
  BY <1>1, <1>2, MaxElement
<1>4. EntriesOf(log) = [i \in 1..m |-> EntryOf(log.records[i])]
  BY DEF EntriesOf, Headed
<1>. HIDE DEF m
<1>. QED BY <1>3, <1>4

\* The walk stops behind the last whole record.
LEMMA EntriesStop ==
  ASSUME NEW log, IsLog(log), log.format = "agile",
         NEW k \in 0..Len(log.records), Whole(log, k),
         k < Len(log.records) => ~ Whole(log, k + 1)
  PROVE  EntriesOf(log) = [i \in 1..k |-> EntryOf(log.records[i])]
<1>0. Len(log.records) \in Nat
  BY LogShape
<1>1. Whole(log, 0)
  BY <1>0, WholeDown
<1>2. PICK m \in 0..Len(log.records) :
        /\ Whole(log, m)
        /\ \A n \in 0..Len(log.records) : Whole(log, n) => n <= m
        /\ EntriesOf(log) = [i \in 1..m |-> EntryOf(log.records[i])]
  BY <1>1, EntriesShape
<1>3. k <= m
  BY <1>2
<1>4. ~ (k < m)
  <2>. SUFFICES ASSUME k < m PROVE FALSE
    OBVIOUS
  <2>1. k + 1 \in 0..m /\ k < Len(log.records)
    BY <1>0
  <2>2. Whole(log, k + 1)
    BY <1>2, <2>1, WholeDown
  <2>. QED BY <2>1, <2>2
<1>5. k = m
  BY <1>0, <1>3, <1>4
<1>. QED BY <1>2, <1>5

\* Whatever is whole is among the entries.
LEMMA EntriesGo ==
  ASSUME NEW log, IsLog(log), log.format = "agile",
         NEW k \in 0..Len(log.records), Whole(log, k)
  PROVE  /\ Len(EntriesOf(log)) \in Nat
         /\ k <= Len(EntriesOf(log))
         /\ \A i \in 1..k : EntriesOf(log)[i] = EntryOf(log.records[i])
<1>0. Len(log.records) \in Nat
  BY LogShape
<1>1. Whole(log, 0)
  BY <1>0, WholeDown
<1>2. PICK m \in 0..Len(log.records) :
        /\ Whole(log, m)
        /\ \A n \in 0..Len(log.records) : Whole(log, n) => n <= m
        /\ EntriesOf(log) = [i \in 1..m |-> EntryOf(log.records[i])]
  BY <1>1, EntriesShape
<1>3. k <= m /\ m \in Nat
  BY <1>0, <1>2
<1>4. Len(EntriesOf(log)) = m
  BY <1>2, <1>3
<1>. QED BY <1>2, <1>3, <1>4

-----------------------------------------------------------------------------
(* The walk *)

\* Entries that no variable is read from.
Phantoms == {e \in Entries : e.eventType \notin VariableTypes}

\* The entry of record r when its first j digests are read.
PartialEntry(r, j) ==
  [pcrIndex |-> r.pcr, eventType |-> r.type,
   digests |-> {r.digests[i] : i \in 1..j}, size |-> 0, eventData |-> NoData]

\* The walk is at record k + 1: in front of it, or behind its first digests.
AgileInv(k) ==
  LET end == RecordEnds("agile", rawLog.records)
      r == rawLog.records[k + 1]
      j == Len(r.digests) - digestsLeft
  IN /\ k \in 0..Len(rawLog.records)
     /\ Whole(rawLog, k)
     /\ entries = [i \in 1..k |-> EntryOf(rawLog.records[i])]
     /\ pc = "entry" => p = end[k]
     /\ pc \in {"digest", "data"} =>
          /\ k < Len(rawLog.records)
          /\ Len(r.digests) <= 8
          /\ digestsLeft \in 0..Len(r.digests)
          /\ p = end[k] + 12 + DigestEnds(r)[j]
          /\ \A i \in 1..j : r.digests[i] \in KnownAlgorithms
          /\ entry = PartialEntry(r, j)
     /\ pc = "digest" => digestsLeft # 0
     /\ pc = "data" => digestsLeft = 0

\* In a log without a whole Spec ID event the walk is at a TCG_PCR_EVENT.  One
\* whose digest is zeros makes two entries: the first ends inside the digest,
\* and the second takes the rest of the digest for its head.
OldInv(k) ==
  LET at == OldEnds(rawLog)[k]
      r == OldRecords(rawLog)[k + 1]
  IN /\ k \in 0..Len(OldRecords(rawLog))
     /\ p # at => k < Len(OldRecords(rawLog)) /\ r.type = EV_NO_ACTION
     /\ \/ pc = "entry" /\ p \in {at, at + 16}
        \/ pc = "data" /\ p \in {at + 12, at + 28}
     /\ pc = "data" => entry \in Phantoms

WalkInv ==
  /\ p \in Nat /\ remaining \in Nat /\ digestsLeft \in 0..8
  /\ Reading => p + remaining = rawLog.size
  /\ pc \in {"size", "contents", "header"} => p = 0 /\ entries = <<>>
  /\ pc \in {"entry", "digest", "data"} =>
       IF Headed(rawLog) THEN AgileInv(Len(entries))
       ELSE entries \in Seq(Phantoms) /\ \E k \in Nat : OldInv(k)
  /\ pc \notin {"size", "contents", "header", "entry", "digest", "data"} =>
       IF Headed(rawLog) THEN entries = EntriesOf(rawLog)
       ELSE entries \in Seq(Phantoms)

\* What firmware and Windows may have measured.
KnownRecords == OsRecords \cup UNION {ToSet(l.records) : l \in Logs}

Known(log) == IsLog(log) /\ ToSet(log.records) \subseteq KnownRecords

ReadInv ==
  /\ Known(measured)
  /\ measured \in served
  /\ changes \in 0..MaxChanges
  /\ logSize \in Nat
  /\ pc \in {"size", "contents", "unavailable"} => rawLog = EmptyLog
  /\ Reading => Known(rawLog)
  /\ rawLog # EmptyLog => Known(rawLog)
  /\ rawLog \in served \cup {EmptyLog}

LogInv == ReadInv /\ WalkInv

\* What the walk reads in a log with a whole Spec ID event.
LEMMA AgileReads ==
  ASSUME NEW k, IsLog(rawLog), rawLog.format = "agile", AgileInv(k),
         p \in Nat, remaining \in Nat, p + remaining = rawLog.size,
         pc \in {"entry", "digest", "data"}
  PROVE  LET r == rawLog.records[k + 1]
             alg == r.digests[Len(r.digests) - digestsLeft + 1]
         IN /\ pc = "entry" /\ remaining >= 12 =>
                 /\ k < Len(rawLog.records)
                 /\ Word(p, r.pcr) \in rawLog.fields
                 /\ Word(p + 4, r.type) \in rawLog.fields
                 /\ Word(p + 8, Len(r.digests)) \in rawLog.fields
            /\ pc = "digest" => AlgField(p, alg) \in rawLog.fields
            /\ pc = "data" =>
                 /\ Word(p, r.size) \in rawLog.fields
                 /\ r.size # 0 => EventField(p + 4, r) \in rawLog.fields
<1>. DEFINE L == Len(rawLog.records)
            end == RecordEnds("agile", rawLog.records)
            r == rawLog.records[k + 1]
            j == Len(r.digests) - digestsLeft
<1>1. /\ L \in Nat /\ k \in 0..L /\ k \in Nat
      /\ rawLog.size \in Nat /\ rawLog.size <= end[L]
      /\ end[L] \in Nat /\ end[k] \in Nat
  <2>1. L \in Nat /\ k \in 0..L
    BY LogShape DEF AgileInv
  <2>. QED BY <2>1, LogShape, RecordEndsDef
<1>2. CASE pc = "entry" /\ remaining >= 12
  <2>1. p = end[k]
    BY <1>2 DEF AgileInv
  <2>2. k # L
    BY <1>1, <1>2, <2>1
  <2>3. k < L
    BY <1>1, <2>2
  <2>. QED BY <1>1, <1>2, <2>1, <2>3, RecordWords
<1>3. CASE pc \in {"digest", "data"}
  <2>1. /\ k < L
        /\ digestsLeft \in 0..Len(r.digests)
        /\ p = end[k] + 12 + DigestEnds(r)[j]
        /\ pc = "digest" => digestsLeft # 0
        /\ pc = "data" => digestsLeft = 0
    BY <1>3 DEF AgileInv
  <2>2. r \in Measurements
    <3>1. k + 1 \in 1..L
      BY <1>1, <2>1
    <3>. QED BY <3>1, LogShape
  <2>3. /\ Len(r.digests) \in Nat
        /\ SizeAt(r) = 12 + DigestEnds(r)[Len(r.digests)]
        /\ DigestEnds(r)[Len(r.digests)] \in Nat
    BY <2>2, DigestEndsDef
  <2>4. CASE pc = "digest"
    <3>. DEFINE n == Len(r.digests)
    <3>0. n \in Nat /\ digestsLeft \in 1..n /\ j = n - digestsLeft
      BY <2>1, <2>3, <2>4
    <3>. HIDE DEF n, j
    <3>1. j + 1 \in 1..n /\ (j + 1) - 1 = j
      BY ONLY <3>0
    <3>. USE DEF n
    <3>2. \A i \in 1..Len(r.digests) :
            AlgField(end[k] + 12 + DigestEnds(r)[i - 1], r.digests[i])
              \in rawLog.fields
      BY <1>1, <2>1, RecordWords
    <3>. HIDE DEF j, r, end
    <3>3. AlgField(end[k] + 12 + DigestEnds(r)[j], r.digests[j + 1])
            \in rawLog.fields
      BY <3>1, <3>2
    <3>4. AlgField(p, r.digests[j + 1]) \in rawLog.fields
      BY <2>1, <3>3
    <3>. QED BY <2>4, <3>4 DEF j, r
  <2>5. CASE pc = "data"
    <3>1. j = Len(r.digests)
      BY <2>1, <2>3, <2>5
    <3>2. p = end[k] + SizeAt(r)
      <4>. DEFINE d == DigestEnds(r)[Len(r.digests)]
                  e == end[k]
      <4>1. p = e + 12 + d /\ SizeAt(r) = 12 + d /\ d \in Nat /\ e \in Nat
        BY <1>1, <2>1, <2>3, <3>1
      <4>. HIDE DEF d, e
      <4>2. p = e + SizeAt(r)
        BY ONLY <4>1
      <4>. QED BY <4>2 DEF e
    <3>3. /\ Word(end[k] + SizeAt(r), r.size) \in rawLog.fields
          /\ r.size # 0 => EventField(end[k] + SizeAt(r) + 4, r) \in rawLog.fields
      BY <1>1, <2>1, RecordWords
    <3>. QED BY <2>5, <3>2, <3>3
  <2>. QED BY <1>3, <2>4, <2>5
<1>. QED BY <1>2, <1>3

\* The read at p + n finds the word that was written there.
LEMMA WordIs ==
  ASSUME IsLog(rawLog), p \in Nat, NEW n \in Nat, NEW v,
         Word(p + n, v) \in rawLog.fields
  PROVE  FieldAt(n) = Word(p + n, v) /\ FieldAt(n).value = v
<1>1. Word(p + n, v).at = p + n /\ Word(p + n, v).value = v
  BY DEF Word
<1>2. FieldAt(n) = Word(p + n, v)
  BY <1>1, FieldIs
<1>. QED BY <1>1, <1>2

\* The Spec ID event takes 65 bytes.
LEMMA HeaderIsWhole ==
  ASSUME NEW log, IsLog(log), log.format = "agile"
  PROVE  log.size \in Nat /\ (Whole(log, 0) <=> log.size >= 65)
<1>1. log.size \in Nat /\ RecordEnds(log.format, log.records)[0] = 65
  BY LogShape, RecordEndsDef DEF FirstAt
<1>. QED BY <1>1 DEF Whole

\* What holds of the walk whatever the format.
LEMMA WalkFacts ==
  ASSUME LogInv, Reading
  PROVE  /\ IsLog(rawLog) /\ rawLog.format \in {"agile", "legacy"}
         /\ p \in Nat /\ remaining \in Nat /\ p + remaining = rawLog.size
         /\ rawLog.size \in Nat /\ Len(rawLog.records) \in Nat
         /\ rawLog.records \in Seq(Measurements)
BY LogShape DEF LogInv, ReadInv, WalkInv, Known

\* In a log without a whole Spec ID event there is a TCG_PCR_EVENT at the cursor,
\* as far as the walk reads it.
LEMMA OldReads ==
  ASSUME IsLog(rawLog), ~ Headed(rawLog), NEW k \in Nat, OldInv(k),
         p \in Nat, remaining \in Nat, p + remaining = rawLog.size
  PROVE  LET at == OldEnds(rawLog)[k]
             r == OldRecords(rawLog)[k + 1]
         IN /\ at \in Nat
            /\ (pc = "data" \/ remaining >= 12) =>
                 /\ k < Len(OldRecords(rawLog))
                 /\ r \in Measurements
                 /\ p # at => r.type = EV_NO_ACTION
                 /\ OldEnds(rawLog)[k + 1] = at + 32 + r.size
                 /\ Word(at, r.pcr) \in rawLog.fields
                 /\ Word(at + 4, r.type) \in rawLog.fields
                 /\ HashWord(at + 8, r.type) \in rawLog.fields
                 /\ HashWord(at + 12, r.type) \in rawLog.fields
                 /\ HashWord(at + 16, r.type) \in rawLog.fields
                 /\ HashWord(at + 20, r.type) \in rawLog.fields
                 /\ HashWord(at + 24, r.type) \in rawLog.fields
                 /\ Word(at + 28, r.size) \in rawLog.fields
                 /\ r.size # 0 => EventField(at + 32, r) \in rawLog.fields
<1>. DEFINE n == Len(OldRecords(rawLog))
            at == OldEnds(rawLog)[k]
            r == OldRecords(rawLog)[k + 1]
<1>1. /\ k \in 0..n
      /\ p # at => k < n /\ r.type = EV_NO_ACTION
      /\ pc = "data" => p \in {at + 12, at + 28}
  BY DEF OldInv
<1>2. /\ n \in Nat /\ at \in Nat /\ OldEnds(rawLog)[n] \in Nat
      /\ rawLog.size <= OldEnds(rawLog)[n]
      /\ rawLog.size \in Nat
      /\ OldRecords(rawLog) \in Seq(Measurements)
  <2>1. n \in Nat /\ n \in 0..n
    BY OldShape
  <2>. QED BY <1>1, <2>1, OldShape, LogShape
<1>3. ASSUME pc = "data" \/ remaining >= 12 PROVE k < n
  <2>1. CASE p # at
    BY <1>1, <2>1
  <2>2. CASE p = at
    <3>1. remaining >= 12
      BY <1>1, <1>2, <1>3, <2>2
    <3>2. k # n
      BY <1>2, <2>2, <3>1
    <3>. QED BY <1>1, <1>2, <3>2
  <2>. QED BY <2>1, <2>2
<1>4. ASSUME k < n
      PROVE  /\ r \in Measurements
             /\ OldEnds(rawLog)[k + 1] = at + 32 + r.size
             /\ Word(at, r.pcr) \in rawLog.fields
             /\ Word(at + 4, r.type) \in rawLog.fields
             /\ \A i \in 2..6 : HashWord(at + 4 * i, r.type) \in rawLog.fields
             /\ Word(at + 28, r.size) \in rawLog.fields
             /\ r.size # 0 => EventField(at + 32, r) \in rawLog.fields
  <2>1. k + 1 \in 1..n /\ (k + 1) - 1 = k
    BY <1>2, <1>4
  <2>2. r \in Measurements
    BY <1>2, <2>1
  <2>3. OldEnds(rawLog)[k + 1] = OldEnds(rawLog)[(k + 1) - 1] + 32 + r.size
    BY <2>1, OldShape
  <2>. QED BY <1>4, <2>1, <2>2, <2>3, OldWords
<1>. HIDE DEF n, at, r
<1>5. ASSUME k < n
      PROVE  /\ HashWord(at + 8, r.type) \in rawLog.fields
             /\ HashWord(at + 12, r.type) \in rawLog.fields
             /\ HashWord(at + 16, r.type) \in rawLog.fields
             /\ HashWord(at + 20, r.type) \in rawLog.fields
             /\ HashWord(at + 24, r.type) \in rawLog.fields
  <2>1. /\ 4 * 2 = 8 /\ 4 * 3 = 12 /\ 4 * 4 = 16 /\ 4 * 5 = 20 /\ 4 * 6 = 24
        /\ 2 \in 2..6 /\ 3 \in 2..6 /\ 4 \in 2..6 /\ 5 \in 2..6 /\ 6 \in 2..6
    OBVIOUS
  <2>2. /\ HashWord(at + 4 * 2, r.type) \in rawLog.fields
        /\ HashWord(at + 4 * 3, r.type) \in rawLog.fields
        /\ HashWord(at + 4 * 4, r.type) \in rawLog.fields
        /\ HashWord(at + 4 * 5, r.type) \in rawLog.fields
        /\ HashWord(at + 4 * 6, r.type) \in rawLog.fields
    BY <1>4, <1>5, <2>1
  <2>. QED BY <2>1, <2>2
<1>. QED BY <1>1, <1>2, <1>3, <1>4, <1>5 DEF n, at, r

\* The read at p + n finds the bytes of the digest that were written there.
LEMMA HashIs ==
  ASSUME IsLog(rawLog), NEW n \in Nat, NEW at, NEW type,
         HashWord(at, type) \in rawLog.fields, at = p + n
  PROVE  /\ type = EV_NO_ACTION => FieldAt(n).value = 0
         /\ type # EV_NO_ACTION => FieldAt(n).value = 65535
<1>1. /\ HashWord(at, type).at = p + n
      /\ HashWord(at, type).value = IF type = EV_NO_ACTION THEN 0 ELSE 65535
  BY DEF HashWord, Word
<1>2. FieldAt(n) = HashWord(at, type)
  BY <1>1, FieldIs
<1>. QED BY <1>1, <1>2

\* A header that is recognised is left behind in one step.
LEMMA SkipHeaderNext ==
  ASSUME LogInv, SkipHeader PROVE WalkInv'
<1>1. /\ pc = "header" /\ pc' = "entry" /\ HasHeader
      /\ p' = p + (32 + FieldAt(28).value)
      /\ remaining' = remaining - (32 + FieldAt(28).value)
      /\ rawLog' = rawLog /\ entries' = entries /\ digestsLeft' = digestsLeft
  BY DEF SkipHeader, Advance, readVars
<1>2. /\ IsLog(rawLog) /\ rawLog.format \in {"agile", "legacy"}
      /\ p = 0 /\ entries = <<>> /\ remaining = rawLog.size
      /\ rawLog.size \in Nat /\ Len(rawLog.records) \in Nat
      /\ rawLog.records \in Seq(Measurements)
  BY <1>1, WalkFacts DEF Reading, LogInv, WalkInv
<1>3. remaining >= 32 /\ 32 + FieldAt(28).value <= remaining
  BY <1>1 DEF HasHeader
<1>. DEFINE v == FieldAt(28).value
            n == Len(OldRecords(rawLog))
            r == OldRecords(rawLog)[1]
<1>4. 0 < n /\ Word(28, r.size) \in rawLog.fields
  BY <1>2, <1>3, HeaderWords
<1>5. v = r.size
  <2>1. p + 28 = 28 /\ p \in Nat
    BY <1>2
  <2>. QED BY <1>2, <1>4, <2>1, WordIs
<1>6. /\ 1 \in 1..n /\ 1 \in 0..n /\ r.size \in Nat
      /\ OldEnds(rawLog)[1] = 32 + r.size
  <2>1. n \in Nat /\ OldRecords(rawLog) \in Seq(Measurements)
    BY <1>2, OldShape
  <2>2. 1 \in 1..n /\ 1 \in 0..n
    BY <1>4, <2>1
  <2>3. r.size \in Nat
    <3>1. r \in Measurements
      BY <2>1, <2>2
    <3>. HIDE DEF r
    <3>. QED BY <3>1 DEF Measurements
  <2>4. OldEnds(rawLog)[1] = OldEnds(rawLog)[1 - 1] + 32 + r.size
    BY <1>2, <2>2, OldShape
  <2>5. OldEnds(rawLog)[0] = 0 /\ 1 - 1 = 0
    BY <1>2, OldShape
  <2>. QED BY <2>2, <2>3, <2>4, <2>5
<1>7. /\ p' = 32 + r.size /\ p' \in Nat /\ remaining' \in Nat
      /\ p' + remaining' = rawLog'.size
  <2>. DEFINE s == r.size
  <2>1. /\ p = 0 /\ p' = p + (32 + s) /\ remaining' = remaining - (32 + s)
        /\ remaining = rawLog'.size /\ rawLog'.size \in Nat
        /\ 32 + s <= remaining /\ s \in Nat
    BY <1>1, <1>2, <1>3, <1>5, <1>6
  <2>. HIDE DEF s
  <2>2. /\ p' = 32 + s /\ p' \in Nat /\ remaining' \in Nat
        /\ p' + remaining' = rawLog'.size
    BY ONLY <2>1
  <2>. QED BY <2>2 DEF s
<1>8. CASE rawLog.format = "agile"
  <2>1. r.size = 33
    BY <1>8, SpecIdType DEF OldRecords
  <2>2. Headed(rawLog) /\ RecordEnds("agile", rawLog.records)[0] = 65
    <3>1. rawLog.size >= 65
      BY <1>2, <1>3, <1>5, <2>1
    <3>. QED BY <1>2, <1>8, <3>1, HeaderIsWhole, RecordEndsDef
            DEF FirstAt, Headed
  <2>3. entries' = [i \in 1..0 |-> EntryOf(rawLog.records[i])]
    BY <1>1, <1>2
  <2>4. Len(entries') = 0 /\ 0 \in 0..Len(rawLog.records)
    BY <1>1, <1>2
  <2>5. p' = 65
    BY <1>7, <2>1
  <2>6. AgileInv(0)'
    BY <1>1, <2>2, <2>3, <2>4, <2>5 DEF AgileInv, Headed
  <2>. QED BY <1>1, <1>7, <2>2, <2>4, <2>6 DEF WalkInv, LogInv, Reading
<1>9. CASE rawLog.format = "legacy"
  <2>1. ~ Headed(rawLog)
    BY <1>9 DEF Headed
  <2>2. OldInv(1)'
    BY <1>1, <1>6, <1>7 DEF OldInv
  <2>3. entries' \in Seq(Phantoms)
    BY <1>1, <1>2
  <2>. QED BY <1>1, <1>7, <2>1, <2>2, <2>3 DEF WalkInv, LogInv, Reading
<1>. QED BY <1>2, <1>8, <1>9

\* A header that is not recognised is read as records.
LEMMA KeepHeaderNext ==
  ASSUME LogInv, KeepHeader PROVE WalkInv'
<1>1. /\ pc = "header" /\ pc' = "entry" /\ ~ HasHeader
      /\ p' = p /\ remaining' = remaining
      /\ rawLog' = rawLog /\ entries' = entries /\ digestsLeft' = digestsLeft
  BY DEF KeepHeader, readVars, walkVars
<1>2. /\ IsLog(rawLog) /\ p = 0 /\ p \in Nat /\ entries = <<>>
      /\ remaining = rawLog.size /\ rawLog.size \in Nat
  BY <1>1, WalkFacts DEF Reading, LogInv, WalkInv
<1>3. ~ Headed(rawLog)
  <2>. SUFFICES ASSUME Headed(rawLog) PROVE FALSE
    OBVIOUS
  <2>1. rawLog.format = "agile" /\ rawLog.size >= 65
    BY <1>2, HeaderIsWhole DEF Headed
  <2>2. /\ Word(4, OldRecords(rawLog)[1].type) \in rawLog.fields
        /\ Word(28, OldRecords(rawLog)[1].size) \in rawLog.fields
    BY <1>2, <2>1, HeaderWords
  <2>3. /\ OldRecords(rawLog)[1].type = EV_NO_ACTION
        /\ OldRecords(rawLog)[1].size = 33
    BY <2>1, SpecIdType DEF OldRecords
  <2>4. Word(p + 4, EV_NO_ACTION) \in rawLog.fields
        /\ Word(p + 28, 33) \in rawLog.fields
    BY <1>2, <2>2, <2>3
  <2>5. FieldAt(28).value = 33 /\ FieldAt(4).value = EV_NO_ACTION
    BY <1>2, <2>4, WordIs
  <2>. QED BY <1>1, <1>2, <2>1, <2>5 DEF HasHeader
<1>4. OldEnds(rawLog)[0] = 0 /\ 0 \in 0..Len(OldRecords(rawLog))
  BY <1>2, OldShape
<1>5. OldInv(0)'
  BY <1>1, <1>2, <1>4 DEF OldInv
<1>6. entries' \in Seq(Phantoms)
  BY <1>1, <1>2
<1>. QED BY <1>1, <1>2, <1>3, <1>5, <1>6 DEF WalkInv, LogInv, Reading

\* The entry that ReadEntry begins with.
LEMMA NewEntry ==
  ASSUME NEW a, NEW b
  PROVE  [NoEntry EXCEPT !.pcrIndex = a, !.eventType = b] =
           [pcrIndex |-> a, eventType |-> b, digests |-> {}, size |-> 0,
            eventData |-> NoData]
<1>. DEFINE D == NoData
            M == [NoEntry EXCEPT !.pcrIndex = a]
<1>. HIDE DEF D
<1>1. NoEntry = [pcrIndex |-> 0, eventType |-> 0, digests |-> {}, size |-> 0,
                 eventData |-> D]
  BY DEF NoEntry, D
<1>2. M = [pcrIndex |-> a, eventType |-> 0, digests |-> {}, size |-> 0,
           eventData |-> D]
  BY <1>1
<1>3. [NoEntry EXCEPT !.pcrIndex = a, !.eventType = b] =
        [M EXCEPT !.eventType = b]
  OBVIOUS
<1>. HIDE DEF M
<1>4. [M EXCEPT !.eventType = b] =
        [pcrIndex |-> a, eventType |-> b, digests |-> {}, size |-> 0,
         eventData |-> D]
  BY <1>2
<1>. QED BY <1>3, <1>4 DEF D

\* The types an entry is read with outside a crypto-agile record.
LEMMA PhantomTypes ==
  /\ EV_NO_ACTION \in Nat \ VariableTypes
  /\ 0 \in Nat \ VariableTypes
BY DEF EV_NO_ACTION, VariableTypes, EV_EFI_VARIABLE_DRIVER_CONFIG,
       EV_EFI_VARIABLE_BOOT, EV_EFI_VARIABLE_BOOT2, Efi, EV_EFI_EVENT_BASE

\* An entry with such a type.
LEMMA PhantomEntry ==
  ASSUME NEW a \in Nat, NEW b \in Nat \ VariableTypes, NEW s \in Nat,
         NEW x \in VariableData
  PROVE  [pcrIndex |-> a, eventType |-> b, digests |-> {}, size |-> s,
          eventData |-> x] \in Phantoms
<1>1. {} \in SUBSET Nat
  OBVIOUS
<1>. QED BY <1>1 DEF Phantoms, Entries

\* The first twelve bytes of a record.
LEMMA ReadEntryNext ==
  ASSUME LogInv, ReadEntry PROVE WalkInv'
<1>1. /\ pc = "entry" /\ EntryFits
      /\ entry' = [NoEntry EXCEPT !.pcrIndex = FieldAt(0).value,
                                  !.eventType = FieldAt(4).value]
      /\ digestsLeft' = FieldAt(8).value
      /\ p' = p + 12 /\ remaining' = remaining - 12
      /\ pc' = IF digestsLeft' = 0 THEN "data" ELSE "digest"
      /\ rawLog' = rawLog /\ entries' = entries
  BY DEF ReadEntry, Advance, readVars
<1>2. /\ IsLog(rawLog) /\ rawLog.format \in {"agile", "legacy"}
      /\ p \in Nat /\ remaining \in Nat /\ p + remaining = rawLog.size
      /\ rawLog.size \in Nat /\ Len(rawLog.records) \in Nat
      /\ rawLog.records \in Seq(Measurements)
  BY <1>1, WalkFacts DEF Reading
<1>3. remaining >= 12 /\ FieldAt(8).value <= 8
  BY <1>1 DEF EntryFits
<1>4. p' \in Nat /\ remaining' \in Nat /\ p' + remaining' = rawLog'.size
  <2>. DEFINE z == rawLog.size
  <2>1. p \in Nat /\ remaining \in Nat /\ p + remaining = z /\ z = rawLog'.size
        /\ z \in Nat
    BY <1>1, <1>2
  <2>. HIDE DEF z
  <2>. QED BY <1>1, <1>3, <2>1
<1>5. pc' \in {"digest", "data"}
  BY <1>1
<1>6. CASE rawLog.format = "agile" /\ Whole(rawLog, 0)
  <2>. DEFINE k == Len(entries)
              r == rawLog.records[k + 1]
              n == Len(r.digests)
              end == RecordEnds("agile", rawLog.records)
  <2>1. AgileInv(k)
    BY <1>1, <1>6 DEF LogInv, WalkInv, Headed
  <2>2. /\ k < Len(rawLog.records) /\ k \in 0..Len(rawLog.records)
        /\ Word(p + 0, r.pcr) \in rawLog.fields
        /\ Word(p + 4, r.type) \in rawLog.fields
        /\ Word(p + 8, n) \in rawLog.fields
    <3>1. p + 0 = p
      BY <1>2
    <3>. QED BY <1>1, <1>2, <1>3, <1>6, <2>1, <3>1, AgileReads DEF AgileInv
  <2>3. /\ FieldAt(0).value = r.pcr /\ FieldAt(4).value = r.type
        /\ FieldAt(8).value = n
    BY <1>2, <2>2, WordIs
  <2>4. r \in Measurements /\ n \in Nat /\ DigestEnds(r)[0] = 0
    <3>1. k + 1 \in 1..Len(rawLog.records)
      BY <1>2, <2>2
    <3>2. r \in Measurements
      BY <1>2, <3>1
    <3>. QED BY <3>2, DigestEndsDef
  <2>5. end[k] \in Nat /\ p = end[k]
    BY <1>1, <1>2, <2>1, <2>2, RecordEndsDef DEF AgileInv
  <2>6. entry' = PartialEntry(r, 0)
    <3>1. {r.digests[i] : i \in 1..0} = {}
      OBVIOUS
    <3>. QED BY <1>1, <2>3, <3>1, NewEntry DEF PartialEntry
  <2>7. /\ digestsLeft' = n /\ n <= 8 /\ n - n = 0 /\ n \in 0..n
        /\ pc' = "digest" => n # 0
        /\ pc' = "data" => n = 0
    BY <1>1, <1>3, <2>3, <2>4
  <2>8. p' = end[k] + 12 + DigestEnds(r)[0]
    BY <1>1, <2>4, <2>5
  <2>9. Whole(rawLog, k) /\ entries = [i \in 1..k |-> EntryOf(rawLog.records[i])]
    BY <2>1 DEF AgileInv
  <2>10. k' = k /\ r' = r
    BY <1>1
  <2>. HIDE DEF k, r, n, end
  <2>11. AgileInv(k)'
    <3>1. end' = end
      BY <1>1 DEF end
    <3>2. Len(rawLog'.records[k + 1].digests) = n /\ rawLog'.records[k + 1] = r
      BY <1>1 DEF n, r
    <3>3. \A i \in 1..0 : r.digests[i] \in KnownAlgorithms
      OBVIOUS
    <3>. QED BY <1>1, <1>5, <2>2, <2>6, <2>7, <2>8, <2>9, <2>10, <3>2, <3>3
            DEF AgileInv, end
  <2>12. AgileInv(Len(entries))'
    BY <1>1, <2>10, <2>11 DEF k
  <2>13. digestsLeft' \in 0..8
    BY <2>4, <2>7
  <2>. QED BY <1>1, <1>4, <1>5, <1>6, <2>12, <2>13 DEF WalkInv, Reading, Headed
<1>7. CASE ~ Headed(rawLog)
  <2>1. PICK k \in Nat : OldInv(k)
    BY <1>1, <1>7 DEF LogInv, WalkInv
  <2>. DEFINE n == Len(OldRecords(rawLog))
              at == OldEnds(rawLog)[k]
              r == OldRecords(rawLog)[k + 1]
  <2>2. /\ at \in Nat /\ k < n /\ r \in Measurements
        /\ p # at => r.type = EV_NO_ACTION
        /\ Word(at, r.pcr) \in rawLog.fields
        /\ Word(at + 4, r.type) \in rawLog.fields
        /\ HashWord(at + 8, r.type) \in rawLog.fields
        /\ HashWord(at + 16, r.type) \in rawLog.fields
        /\ HashWord(at + 20, r.type) \in rawLog.fields
        /\ HashWord(at + 24, r.type) \in rawLog.fields
    BY <1>2, <1>3, <1>7, <2>1, OldReads
  <2>3. k \in 0..n /\ p \in {at, at + 16}
    BY <1>1, <2>1 DEF OldInv
  <2>4. r.pcr \in Nat
    BY <2>2 DEF Measurements
  <2>. HIDE DEF n, at, r
  <2>5. r.type = EV_NO_ACTION /\ FieldAt(8).value = 0
    <3>1. FieldAt(8).value \in {0, 65535}
          /\ (r.type # EV_NO_ACTION => FieldAt(8).value = 65535)
      <4>1. CASE p = at
        BY <1>2, <2>2, <4>1, HashIs
      <4>2. CASE p = at + 16
        <5>1. at + 24 = p + 8
          BY <2>2, <4>2
        <5>. QED BY <1>2, <2>2, <5>1, HashIs
      <4>. QED BY <2>3, <4>1, <4>2
    <3>. QED BY <1>3, <3>1
  <2>6. /\ FieldAt(0).value \in Nat /\ FieldAt(4).value \in Nat \ VariableTypes
    <3>1. CASE p = at
      <4>1. Word(p + 0, r.pcr) \in rawLog.fields
            /\ Word(p + 4, EV_NO_ACTION) \in rawLog.fields
        <5>1. p + 0 = at
          BY <2>2, <3>1
        <5>. QED BY <2>2, <2>5, <3>1, <5>1
      <4>2. FieldAt(0).value = r.pcr /\ FieldAt(4).value = EV_NO_ACTION
        BY <1>2, <4>1, WordIs
      <4>. QED BY <2>4, <4>2, PhantomTypes
    <3>2. CASE p = at + 16
      <4>1. at + 16 = p + 0 /\ at + 20 = p + 4
        BY <2>2, <3>2
      <4>2. FieldAt(0).value = 0 /\ FieldAt(4).value = 0
        BY <1>2, <2>2, <2>5, <4>1, HashIs
      <4>. QED BY <4>2, PhantomTypes
    <3>. QED BY <2>3, <3>1, <3>2
  <2>7. entry' \in Phantoms
    <3>1. 0 \in Nat /\ NoData \in VariableData
      BY SpecIdType
    <3>. DEFINE a == FieldAt(0).value
                b == FieldAt(4).value
    <3>2. /\ a \in Nat /\ b \in Nat \ VariableTypes
          /\ entry' = [NoEntry EXCEPT !.pcrIndex = a, !.eventType = b]
      BY <1>1, <2>6
    <3>. HIDE DEF a, b
    <3>3. entry' = [pcrIndex |-> a, eventType |-> b, digests |-> {}, size |-> 0,
                    eventData |-> NoData]
      BY <3>2, NewEntry
    <3>4. [pcrIndex |-> a, eventType |-> b, digests |-> {}, size |-> 0,
           eventData |-> NoData] \in Phantoms
      BY ONLY <3>1, <3>2, PhantomEntry
    <3>. QED BY <3>3, <3>4, Zenon
  <2>8. pc' = "data" /\ digestsLeft' = 0 /\ p' \in {at + 12, at + 28}
    BY <1>1, <2>2, <2>3, <2>5
  <2>9. OldInv(k)'
    BY <1>1, <2>2, <2>3, <2>5, <2>7, <2>8 DEF OldInv, n, at, r
  <2>10. entries' \in Seq(Phantoms)
    BY <1>1, <1>7 DEF LogInv, WalkInv
  <2>. QED BY <1>1, <1>4, <1>7, <2>8, <2>9, <2>10 DEF WalkInv, Reading
<1>. QED BY <1>6, <1>7 DEF Headed

\* One digest of a record.
LEMMA ReadDigestNext ==
  ASSUME LogInv, ReadDigest PROVE WalkInv'
<1>1. /\ pc = "digest" /\ DigestFits
      /\ entry' = [entry EXCEPT !.digests = @ \cup {FieldAt(0).value}]
      /\ p' = p + (2 + DigestSize(FieldAt(0).value))
      /\ remaining' = remaining - (2 + DigestSize(FieldAt(0).value))
      /\ digestsLeft' = digestsLeft - 1
      /\ pc' = IF digestsLeft' = 0 THEN "data" ELSE "digest"
      /\ rawLog' = rawLog /\ entries' = entries
  BY DEF ReadDigest, Advance, readVars
<1>2. /\ IsLog(rawLog) /\ rawLog.format \in {"agile", "legacy"}
      /\ p \in Nat /\ remaining \in Nat /\ p + remaining = rawLog.size
      /\ rawLog.size \in Nat /\ Len(rawLog.records) \in Nat
      /\ rawLog.records \in Seq(Measurements)
  BY <1>1, WalkFacts DEF Reading
<1>3. rawLog.format = "agile" /\ Whole(rawLog, 0)
  BY <1>1 DEF LogInv, WalkInv, OldInv, Headed
<1>. DEFINE k == Len(entries)
            r == rawLog.records[k + 1]
            n == Len(r.digests)
            j == n - digestsLeft
            end == RecordEnds("agile", rawLog.records)
            alg == r.digests[j + 1]
<1>4. AgileInv(k)
  BY <1>1, <1>3 DEF LogInv, WalkInv, Headed
<1>5. /\ k < Len(rawLog.records) /\ k \in 0..Len(rawLog.records)
      /\ n <= 8 /\ digestsLeft \in 0..n /\ digestsLeft # 0
      /\ p = end[k] + 12 + DigestEnds(r)[j]
      /\ \A i \in 1..j : r.digests[i] \in KnownAlgorithms
      /\ entry = PartialEntry(r, j)
      /\ Whole(rawLog, k)
      /\ entries = [i \in 1..k |-> EntryOf(rawLog.records[i])]
  BY <1>1, <1>4 DEF AgileInv
<1>6. AlgField(p, alg) \in rawLog.fields
  BY <1>1, <1>2, <1>3, <1>4, AgileReads
<1>7. FieldAt(0).value = alg
  <2>1. AlgField(p, alg).at = p + 0 /\ AlgField(p, alg).value = alg
    BY <1>2 DEF AlgField
  <2>2. FieldAt(0) = AlgField(p, alg)
    BY <1>2, <1>6, <2>1, FieldIs
  <2>. QED BY <2>1, <2>2
<1>8. r \in Measurements /\ end[k] \in Nat
  <2>1. k + 1 \in 1..Len(rawLog.records)
    BY <1>2, <1>5
  <2>. QED BY <1>2, <1>5, <2>1, RecordEndsDef
<1>9. n \in Nat
  BY <1>8, DigestEndsDef
<1>10. /\ j \in Nat /\ j + 1 \in 1..n /\ (j + 1) - 1 = j /\ j \in 0..n
       /\ digestsLeft' \in 0..n /\ n - digestsLeft' = j + 1
       /\ digestsLeft' \in 0..8
  <2>1. /\ n \in Nat /\ n <= 8 /\ digestsLeft \in 1..n
        /\ digestsLeft' = digestsLeft - 1
    BY <1>1, <1>5, <1>9
  <2>. HIDE DEF n
  <2>. QED BY ONLY <2>1 DEF j
<1>11. DigestSize(alg) = SizeOf(alg) /\ alg \in KnownAlgorithms
       /\ remaining >= 2 /\ remaining - 2 >= DigestSize(alg)
  BY <1>1, <1>7 DEF DigestFits, DigestSize
<1>12. /\ SizeOf(alg) \in Nat
       /\ DigestEnds(r)[j] \in Nat
       /\ DigestEnds(r)[j + 1] = DigestEnds(r)[j] + (2 + SizeOf(alg))
  <2>. HIDE DEF n, j
  <2>1. \A i \in 1..n :
          /\ SizeOf(r.digests[i]) \in Nat
          /\ DigestEnds(r)[i - 1] \in Nat
          /\ DigestEnds(r)[i] = DigestEnds(r)[i - 1] + (2 + SizeOf(r.digests[i]))
    BY <1>8, DigestEndsDef DEF n
  <2>. QED BY <1>10, <2>1
<1>. HIDE DEF n, j, r, k, end
<1>13. /\ p' = end[k] + 12 + DigestEnds(r)[j + 1]
       /\ p' \in Nat /\ remaining' \in Nat /\ p' + remaining' = rawLog'.size
  <2>. DEFINE s == SizeOf(alg)
              d == DigestEnds(r)[j]
              e == end[k]
              z == rawLog.size
  <2>1. /\ s \in Nat /\ d \in Nat /\ e \in Nat /\ p \in Nat /\ remaining \in Nat
        /\ p = e + 12 + d /\ p' = p + (2 + s) /\ remaining' = remaining - (2 + s)
        /\ p + remaining = z /\ remaining - 2 >= s /\ z = rawLog'.size
        /\ DigestEnds(r)[j + 1] = d + (2 + s)
    BY <1>1, <1>2, <1>5, <1>7, <1>8, <1>11, <1>12
  <2>. HIDE DEF s, d, e, z
  <2>2. /\ p' = e + 12 + (d + (2 + s))
        /\ p' \in Nat /\ remaining' \in Nat /\ p' + remaining' = z
    BY ONLY <2>1
  <2>. QED BY <2>1, <2>2 DEF e
<1>14. \A i \in 1..(j + 1) : r.digests[i] \in KnownAlgorithms
  <2>1. \A i \in 1..(j + 1) : i \in 1..j \/ i = j + 1
    BY <1>10
  <2>. QED BY <1>5, <1>11, <2>1
<1>15. entry' = PartialEntry(r, j + 1)
  <2>1. {r.digests[i] : i \in 1..(j + 1)} = {r.digests[i] : i \in 1..j} \cup {alg}
    <3>1. \A i : i \in 1..(j + 1) <=> i \in 1..j \/ i = j + 1
      BY <1>10
    <3>. QED BY <3>1
  <2>2. entry' = [PartialEntry(r, j) EXCEPT !.digests = @ \cup {alg}]
    BY <1>1, <1>5, <1>7
  <2>. QED BY <2>1, <2>2 DEF PartialEntry
<1>16. AgileInv(k)'
  <2>1. rawLog'.records[k + 1] = r /\ Len(rawLog'.records[k + 1].digests) = n
    BY <1>1 DEF r, n
  <2>2. k' = k /\ pc' \in {"digest", "data"}
        /\ (pc' = "digest" => digestsLeft' # 0)
        /\ (pc' = "data" => digestsLeft' = 0)
    BY <1>1 DEF k
  <2>. QED BY <1>1, <1>5, <1>10, <1>13, <1>14, <1>15, <2>1, <2>2
          DEF AgileInv, end
<1>17. AgileInv(Len(entries))' /\ pc' \in {"digest", "data"}
  <2>1. k' = k /\ pc' \in {"digest", "data"}
    BY <1>1 DEF k
  <2>. QED BY <1>16, <2>1 DEF k
<1>. QED BY <1>1, <1>3, <1>10, <1>13, <1>17 DEF WalkInv, Reading, Headed

\* The entry that ReadData completes.
LEMMA CompleteEntry ==
  ASSUME NEW a, NEW b, NEW d, NEW s, NEW x, NEW D, NEW E,
         E = [pcrIndex |-> a, eventType |-> b, digests |-> d, size |-> 0,
              eventData |-> D]
  PROVE  [E EXCEPT !.size = s, !.eventData = x] =
           [pcrIndex |-> a, eventType |-> b, digests |-> d, size |-> s,
            eventData |-> x]
<1>. DEFINE M == [E EXCEPT !.size = s]
<1>1. M = [pcrIndex |-> a, eventType |-> b, digests |-> d, size |-> s,
           eventData |-> D]
  OBVIOUS
<1>2. [E EXCEPT !.size = s, !.eventData = x] = [M EXCEPT !.eventData = x]
  OBVIOUS
<1>. HIDE DEF M
<1>3. [M EXCEPT !.eventData = x] =
        [pcrIndex |-> a, eventType |-> b, digests |-> d, size |-> s,
         eventData |-> x]
  BY <1>1
<1>. QED BY <1>2, <1>3

\* One more element of a sequence given by a function.
LEMMA AppendNext ==
  ASSUME NEW k \in Nat, NEW g, NEW s, s = [i \in 1..k |-> g[i]]
  PROVE  /\ Append(s, g[k + 1]) = [i \in 1..(k + 1) |-> g[i]]
         /\ Len(Append(s, g[k + 1])) = k + 1
<1>. DEFINE S == {g[i] : i \in 1..(k + 1)}
            t == [i \in 1..(k + 1) |-> g[i]]
<1>1. /\ s \in [1..k -> S] /\ t \in [1..(k + 1) -> S] /\ g[k + 1] \in S
      /\ k + 1 \in Nat
  OBVIOUS
<1>2. /\ \A i \in 1..k : s[i] = g[i]
      /\ \A i \in 1..(k + 1) : t[i] = g[i]
  OBVIOUS
<1>. HIDE DEF S, t
<1>3. s \in Seq(S) /\ Len(s) = k /\ t \in Seq(S) /\ Len(t) = k + 1
  BY <1>1, FunctionIsSeq
<1>4. Append(s, g[k + 1]) \in Seq(S) /\ Len(Append(s, g[k + 1])) = k + 1
  BY <1>1, <1>3
<1>5. \A i \in 1..(k + 1) : Append(s, g[k + 1])[i] = t[i]
  BY <1>1, <1>2, <1>3
<1>6. Append(s, g[k + 1]) = t
  BY <1>3, <1>4, <1>5, SeqEqual
<1>. QED BY <1>4, <1>6 DEF t

\* The entry that ReadData completes.
Completed ==
  [entry EXCEPT !.size = FieldAt(0).value,
                !.eventData = IF FieldAt(0).value = 0 THEN NoData
                              ELSE FieldAt(4).data]

\* It is that of the next record, and the cursor is behind it.
LEMMA AgileData ==
  ASSUME LogInv, ReadData, rawLog.format = "agile", Whole(rawLog, 0)
  PROVE  LET k == Len(entries)
         IN /\ k \in Nat
            /\ AgileInv(k)
            /\ k + 1 \in 1..Len(rawLog.records)
            /\ Completed = EntryOf(rawLog.records[k + 1])
            /\ Whole(rawLog, k + 1)
            /\ p' = RecordEnds("agile", rawLog.records)[k + 1]
            /\ p' \in Nat /\ remaining' \in Nat
            /\ p' + remaining' = rawLog.size
<1>1. /\ pc = "data" /\ DataFits
      /\ p' = p + (4 + FieldAt(0).value)
      /\ remaining' = remaining - (4 + FieldAt(0).value)
  BY DEF ReadData, Advance
<1>2. /\ IsLog(rawLog)
      /\ p \in Nat /\ remaining \in Nat /\ p + remaining = rawLog.size
      /\ rawLog.size \in Nat /\ Len(rawLog.records) \in Nat
      /\ rawLog.records \in Seq(Measurements)
  BY <1>1, WalkFacts DEF Reading
<1>. DEFINE k == Len(entries)
            r == rawLog.records[k + 1]
            n == Len(r.digests)
            end == RecordEnds("agile", rawLog.records)
<1>3. AgileInv(k)
  BY <1>1 DEF LogInv, WalkInv, Headed
<1>4. /\ k < Len(rawLog.records) /\ k \in 0..Len(rawLog.records)
      /\ n <= 8 /\ digestsLeft = 0
      /\ p = end[k] + 12 + DigestEnds(r)[n - 0]
      /\ \A i \in 1..(n - 0) : r.digests[i] \in KnownAlgorithms
      /\ entry = PartialEntry(r, n - 0)
      /\ Whole(rawLog, k)
  BY <1>1, <1>3 DEF AgileInv
<1>5. k \in Nat /\ k + 1 \in 1..Len(rawLog.records) /\ (k + 1) - 1 = k
  BY <1>2, <1>4
<1>6. /\ r \in Measurements /\ end[k] \in Nat
      /\ end[k + 1] = end[k] + RecordBytes("agile", r)
  <2>1. r \in Measurements /\ end[k] \in Nat
    BY <1>2, <1>4, <1>5, RecordEndsDef
  <2>2. end[k + 1] = end[(k + 1) - 1] + RecordBytes("agile", r)
    BY <1>2, <1>5, RecordEndsDef
  <2>. QED BY <1>5, <2>1, <2>2
<1>7. /\ n \in Nat /\ n - 0 = n /\ DOMAIN r.digests = 1..n
      /\ DigestEnds(r)[n] \in Nat /\ SizeAt(r) = 12 + DigestEnds(r)[n]
  <2>1. n \in Nat
    BY <1>6, DigestEndsDef
  <2>. QED BY <1>6, <2>1, DigestEndsDef
<1>8. r.size \in Nat /\ RecordBytes("agile", r) = SizeAt(r) + 4 + r.size
  BY <1>6 DEF Measurements, RecordBytes
<1>9. /\ Word(p, r.size) \in rawLog.fields
      /\ r.size # 0 => EventField(p + 4, r) \in rawLog.fields
  BY <1>1, <1>2, <1>3, AgileReads
<1>10. FieldAt(0).value = r.size
  <2>1. p + 0 = p
    BY <1>2
  <2>. QED BY <1>2, <1>9, <2>1, WordIs
<1>11. r.size # 0 => FieldAt(4).data = r.data
  <2>. SUFFICES ASSUME r.size # 0 PROVE FieldAt(4).data = r.data
    OBVIOUS
  <2>1. EventField(p + 4, r).at = p + 4 /\ EventField(p + 4, r).data = r.data
    BY DEF EventField
  <2>2. FieldAt(4) = EventField(p + 4, r)
    BY <1>2, <1>9, <2>1, FieldIs
  <2>. QED BY <2>1, <2>2
<1>. HIDE DEF k, r, n, end
<1>12. Completed = EntryOf(r)
  <2>. DEFINE x == IF r.size = 0 THEN NoData ELSE r.data
  <2>1. Completed = [entry EXCEPT !.size = r.size, !.eventData = x]
    BY <1>10, <1>11 DEF Completed
  <2>2. entry = [pcrIndex |-> r.pcr, eventType |-> r.type,
                 digests |-> {r.digests[i] : i \in 1..n}, size |-> 0,
                 eventData |-> NoData]
    BY <1>4, <1>7 DEF PartialEntry
  <2>3. {r.digests[i] : i \in 1..n} = ToSet(r.digests)
    BY <1>7 DEF ToSet
  <2>. HIDE DEF x
  <2>4. Completed = [pcrIndex |-> r.pcr, eventType |-> r.type,
                     digests |-> ToSet(r.digests), size |-> r.size,
                     eventData |-> x]
    BY <2>1, <2>2, <2>3, CompleteEntry
  <2>. QED BY <2>4 DEF EntryOf, x
<1>13. /\ p' = end[k + 1]
       /\ p' \in Nat /\ remaining' \in Nat /\ p' + remaining' = rawLog.size
       /\ end[k + 1] <= rawLog.size
  <2>. DEFINE d == DigestEnds(r)[n]
              e == end[k]
              z == rawLog.size
              s == r.size
  <2>1. /\ p \in Nat /\ remaining \in Nat /\ z \in Nat /\ s \in Nat /\ d \in Nat
        /\ e \in Nat /\ p + remaining = z /\ p = e + 12 + d
        /\ p' = p + (4 + s) /\ remaining' = remaining - (4 + s)
        /\ end[k + 1] = e + ((12 + d) + 4 + s)
        /\ remaining >= 4 /\ s <= remaining - 4
    BY <1>1, <1>2, <1>4, <1>6, <1>7, <1>8, <1>10 DEF DataFits
  <2>. HIDE DEF d, e, z, s
  <2>2. /\ p' = e + ((12 + d) + 4 + s)
        /\ p' \in Nat /\ remaining' \in Nat /\ p' + remaining' = z
        /\ p' <= z
    BY ONLY <2>1
  <2>. QED BY <2>1, <2>2 DEF z
<1>14. Whole(rawLog, k + 1)
  <2>1. \A i \in 1..k : Readable(rawLog.records[i])
    BY <1>4 DEF Whole
  <2>2. Readable(r)
    BY <1>4, <1>7 DEF Readable, ToSet, n
  <2>3. \A i \in 1..(k + 1) : i \in 1..k \/ i = k + 1
    BY <1>5
  <2>4. \A i \in 1..(k + 1) : Readable(rawLog.records[i])
    BY <2>1, <2>2, <2>3 DEF r
  <2>. QED BY <1>13, <2>4 DEF Whole, end
<1>. QED BY <1>3, <1>5, <1>12, <1>13, <1>14 DEF k, r, end

\* Outside a crypto-agile record an entry is completed inside a digest, or with
\* the data of a TCG_PCR_EVENT, behind which the next one begins.
LEMMA OldData ==
  ASSUME LogInv, ReadData, ~ Headed(rawLog)
  PROVE  /\ Completed \in Phantoms
         /\ p' \in Nat /\ remaining' \in Nat /\ p' + remaining' = rawLog.size
         /\ \E k \in Nat : OldInv(k)'
<1>1. /\ pc = "data" /\ pc' = "entry" /\ DataFits /\ rawLog' = rawLog
      /\ p' = p + (4 + FieldAt(0).value)
      /\ remaining' = remaining - (4 + FieldAt(0).value)
  BY DEF ReadData, Advance, readVars
<1>2. /\ IsLog(rawLog)
      /\ p \in Nat /\ remaining \in Nat /\ p + remaining = rawLog.size
      /\ rawLog.size \in Nat
  BY <1>1, WalkFacts DEF Reading
<1>3. PICK k \in Nat : OldInv(k)
  BY <1>1 DEF LogInv, WalkInv
<1>. DEFINE n == Len(OldRecords(rawLog))
            at == OldEnds(rawLog)[k]
            r == OldRecords(rawLog)[k + 1]
            v == FieldAt(0).value
            x == IF v = 0 THEN NoData ELSE FieldAt(4).data
<1>4. /\ at \in Nat /\ k < n /\ r \in Measurements
      /\ p # at => r.type = EV_NO_ACTION
      /\ OldEnds(rawLog)[k + 1] = at + 32 + r.size
      /\ HashWord(at + 12, r.type) \in rawLog.fields
      /\ Word(at + 28, r.size) \in rawLog.fields
      /\ r.size # 0 => EventField(at + 32, r) \in rawLog.fields
  BY <1>1, <1>2, <1>3, OldReads
<1>5. /\ k \in 0..n /\ p \in {at + 12, at + 28} /\ entry \in Phantoms
      /\ n \in Nat
  BY <1>1, <1>2, <1>3, OldShape DEF OldInv
<1>6. r.size \in Nat /\ r.data \in VariableData
  BY <1>4 DEF Measurements
<1>7. k + 1 \in Nat /\ k + 1 \in 0..n
  BY <1>4, <1>5
<1>. HIDE DEF n, at, r
<1>8. /\ v \in Nat /\ x \in VariableData
      /\ (p = at + 12 => v = 0) /\ (p = at + 28 => v = r.size)
  <2>1. CASE p = at + 12
    <3>1. at + 12 = p + 0 /\ p # at /\ p # at + 28
      BY <1>4, <2>1
    <3>2. v = 0
      BY <1>2, <1>4, <3>1, HashIs
    <3>. QED BY <2>1, <3>1, <3>2, SpecIdType
  <2>2. CASE p = at + 28
    <3>1. at + 28 = p + 0 /\ at + 32 = p + 4 /\ p # at + 12
      BY <1>4, <2>2
    <3>2. v = r.size
      BY <1>2, <1>4, <3>1, WordIs
    <3>3. r.size # 0 => FieldAt(4).data = r.data
      <4>. SUFFICES ASSUME r.size # 0 PROVE FieldAt(4).data = r.data
        OBVIOUS
      <4>1. /\ EventField(at + 32, r).at = p + 4
            /\ EventField(at + 32, r).data = r.data
        BY <3>1 DEF EventField
      <4>2. FieldAt(4) = EventField(at + 32, r)
        BY <1>2, <1>4, <4>1, FieldIs
      <4>. QED BY <4>1, <4>2
    <3>. QED BY <1>6, <2>2, <3>1, <3>2, <3>3, SpecIdType
  <2>. QED BY <1>5, <2>1, <2>2
<1>. HIDE DEF x
<1>9. Completed \in Phantoms
  <2>1. Completed = [entry EXCEPT !.size = v, !.eventData = x]
    BY DEF Completed, x
  <2>. HIDE DEF v
  <2>2. entry \in Entries /\ entry.eventType \notin VariableTypes
    BY <1>5 DEF Phantoms
  <2>3. [entry EXCEPT !.size = v, !.eventData = x] \in Entries
        /\ [entry EXCEPT !.size = v, !.eventData = x].eventType = entry.eventType
    BY <1>8, <2>2 DEF Entries
  <2>. QED BY <2>1, <2>2, <2>3 DEF Phantoms
<1>10. remaining >= 4 /\ v <= remaining - 4
  BY <1>1 DEF DataFits
<1>. HIDE DEF v
<1>11. /\ p' \in Nat /\ remaining' \in Nat /\ p' + remaining' = rawLog.size
  <2>. DEFINE z == rawLog.size
  <2>1. /\ p \in Nat /\ remaining \in Nat /\ z \in Nat /\ v \in Nat
        /\ p + remaining = z /\ p' = p + (4 + v)
        /\ remaining' = remaining - (4 + v) /\ v <= remaining - 4
    BY <1>1, <1>2, <1>8, <1>10 DEF v
  <2>. HIDE DEF z
  <2>2. p' \in Nat /\ remaining' \in Nat /\ p' + remaining' = z
    BY ONLY <2>1
  <2>. QED BY <2>2 DEF z
<1>12. p' = p + (4 + v)
  BY <1>1 DEF v
<1>13. CASE p = at + 12
  <2>1. p' = at + 16 /\ p # at
    BY <1>4, <1>8, <1>12, <1>13
  <2>2. OldInv(k)'
    BY <1>1, <1>4, <1>5, <2>1 DEF OldInv, n, at, r
  <2>. QED BY <1>9, <1>11, <2>2
<1>14. CASE p = at + 28
  <2>1. p' = OldEnds(rawLog)[k + 1]
    BY <1>4, <1>6, <1>8, <1>12, <1>14
  <2>2. OldInv(k + 1)'
    BY <1>1, <1>7, <2>1 DEF OldInv, n
  <2>. QED BY <1>7, <1>9, <1>11, <2>2
<1>. QED BY <1>5, <1>13, <1>14

\* The event data of a record, and with it the entry.
LEMMA ReadDataNext ==
  ASSUME LogInv, ReadData PROVE WalkInv'
<1>1. /\ pc = "data" /\ pc' = "entry" /\ entries' = Append(entries, Completed)
      /\ rawLog' = rawLog /\ digestsLeft' = digestsLeft
  BY DEF ReadData, Completed, readVars
<1>2. digestsLeft' \in 0..8 /\ rawLog.format \in {"agile", "legacy"}
  BY <1>1, WalkFacts DEF LogInv, WalkInv, Reading
<1>3. CASE rawLog.format = "agile" /\ Whole(rawLog, 0)
  <2>. DEFINE k == Len(entries)
              g == [i \in 1..(k + 1) |-> EntryOf(rawLog.records[i])]
  <2>1. /\ k \in Nat
        /\ AgileInv(k)
        /\ k + 1 \in 1..Len(rawLog.records)
        /\ Completed = EntryOf(rawLog.records[k + 1])
        /\ Whole(rawLog, k + 1)
        /\ p' = RecordEnds("agile", rawLog.records)[k + 1]
        /\ p' \in Nat /\ remaining' \in Nat
        /\ p' + remaining' = rawLog.size
    BY <1>3, AgileData
  <2>2. entries = [i \in 1..k |-> EntryOf(rawLog.records[i])]
    BY <2>1 DEF AgileInv
  <2>3. entries = [i \in 1..k |-> g[i]] /\ g[k + 1] = Completed
    BY <2>1, <2>2
  <2>4. g = [i \in 1..(k + 1) |-> g[i]]
    OBVIOUS
  <2>. HIDE DEF k, g
  <2>5. entries' = g /\ Len(entries') = k + 1
    BY <1>1, <2>1, <2>3, <2>4, AppendNext
  <2>6. k + 1 \in 0..Len(rawLog.records)
    BY <2>1
  <2>7. AgileInv(Len(entries))'
    BY <1>1, <2>1, <2>5, <2>6 DEF AgileInv, g
  <2>. QED BY <1>1, <1>2, <1>3, <2>1, <2>5, <2>7 DEF WalkInv, Reading, Headed
<1>4. CASE ~ Headed(rawLog)
  <2>1. /\ Completed \in Phantoms
        /\ p' \in Nat /\ remaining' \in Nat /\ p' + remaining' = rawLog.size
        /\ \E k \in Nat : OldInv(k)'
    BY <1>4, OldData
  <2>2. entries \in Seq(Phantoms)
    BY <1>1, <1>4 DEF LogInv, WalkInv
  <2>3. entries' \in Seq(Phantoms)
    BY <1>1, <2>1, <2>2
  <2>. QED BY <1>1, <1>2, <1>4, <2>1, <2>3 DEF WalkInv, Reading
<1>. QED BY <1>3, <1>4 DEF Headed

\* Where the walk ends nothing more can be read.
LEMMA AgileEnds ==
  ASSUME LogInv, WalkEnds, rawLog.format = "agile", Whole(rawLog, 0)
  PROVE  EntriesOf(rawLog) = entries
<1>0. /\ pc \in {"entry", "digest", "data"}
      /\ pc = "entry" => ~ EntryFits
      /\ pc = "digest" => ~ DigestFits
      /\ pc = "data" => ~ DataFits
  BY DEF WalkEnds
<1>2. /\ IsLog(rawLog)
      /\ p \in Nat /\ remaining \in Nat /\ p + remaining = rawLog.size
      /\ rawLog.size \in Nat /\ Len(rawLog.records) \in Nat
      /\ rawLog.records \in Seq(Measurements)
  BY <1>0, WalkFacts DEF Reading
<1>. DEFINE k == Len(entries)
            r == rawLog.records[k + 1]
            n == Len(r.digests)
            j == n - digestsLeft
            end == RecordEnds("agile", rawLog.records)
<1>3. AgileInv(k)
  BY <1>0 DEF LogInv, WalkInv, Headed
<1>4. /\ k \in 0..Len(rawLog.records) /\ Whole(rawLog, k)
      /\ entries = [i \in 1..k |-> EntryOf(rawLog.records[i])]
  BY <1>3 DEF AgileInv
<1>. SUFFICES ASSUME k < Len(rawLog.records), Whole(rawLog, k + 1) PROVE FALSE
  BY <1>2, <1>4, EntriesStop
<1>5. k \in Nat /\ k + 1 \in 1..Len(rawLog.records) /\ (k + 1) - 1 = k
  BY <1>2, <1>4
<1>6. /\ r \in Measurements /\ end[k] \in Nat
      /\ end[k + 1] = end[k] + RecordBytes("agile", r)
  <2>1. r \in Measurements /\ end[k] \in Nat
    BY <1>2, <1>4, <1>5, RecordEndsDef
  <2>2. end[k + 1] = end[(k + 1) - 1] + RecordBytes("agile", r)
    BY <1>2, <1>5, RecordEndsDef
  <2>. QED BY <1>5, <2>1, <2>2
<1>7. /\ n \in Nat /\ DOMAIN r.digests = 1..n
      /\ DigestEnds(r)[n] \in Nat /\ SizeAt(r) = 12 + DigestEnds(r)[n]
  <2>1. n \in Nat
    BY <1>6, DigestEndsDef
  <2>. QED BY <1>6, <2>1, DigestEndsDef
<1>8. r.size \in Nat /\ RecordBytes("agile", r) = SizeAt(r) + 4 + r.size
  BY <1>6 DEF Measurements, RecordBytes
<1>9. n <= 8 /\ \A i \in 1..n : r.digests[i] \in KnownAlgorithms
  <2>1. Readable(r)
    BY <1>5 DEF Whole
  <2>. QED BY <1>7, <2>1 DEF Readable, ToSet
<1>10. end[k] + ((12 + DigestEnds(r)[n]) + 4 + r.size) <= rawLog.size
  BY <1>6, <1>7, <1>8 DEF Whole
<1>11. CASE pc = "entry"
  <2>1. p = end[k]
    BY <1>3, <1>11 DEF AgileInv
  <2>2. remaining >= 12
    <3>. DEFINE d == DigestEnds(r)[n]
                z == rawLog.size
                s == r.size
    <3>1. /\ p \in Nat /\ remaining \in Nat /\ p + remaining = z /\ d \in Nat
          /\ s \in Nat /\ z \in Nat /\ p + ((12 + d) + 4 + s) <= z
      BY <1>2, <1>7, <1>8, <1>10, <2>1
    <3>. HIDE DEF d, z, s
    <3>. QED BY ONLY <3>1
  <2>3. Word(p + 8, n) \in rawLog.fields
    BY <1>2, <1>3, <1>11, <2>2, AgileReads
  <2>4. FieldAt(8).value = n
    BY <1>2, <2>3, WordIs
  <2>. QED BY <1>0, <1>9, <1>11, <2>2, <2>4 DEF EntryFits
<1>12. CASE pc = "digest"
  <2>1. /\ digestsLeft \in 0..n /\ digestsLeft # 0
        /\ p = end[k] + 12 + DigestEnds(r)[j]
    BY <1>3, <1>12 DEF AgileInv
  <2>2. j + 1 \in 1..n /\ (j + 1) - 1 = j /\ j + 1 \in 0..n /\ n \in 0..n
        /\ j + 1 <= n
    <3>. HIDE DEF n
    <3>1. n \in Nat
      BY <1>7
    <3>. QED BY <2>1, <3>1 DEF j
  <2>. DEFINE alg == r.digests[j + 1]
  <2>3. AlgField(p, alg) \in rawLog.fields
    BY <1>2, <1>3, <1>12, AgileReads
  <2>4. FieldAt(0).value = alg
    <3>1. AlgField(p, alg).at = p + 0 /\ AlgField(p, alg).value = alg
      BY <1>2 DEF AlgField
    <3>2. FieldAt(0) = AlgField(p, alg)
      BY <1>2, <2>3, <3>1, FieldIs
    <3>. QED BY <3>1, <3>2
  <2>. HIDE DEF j
  <2>5. /\ SizeOf(alg) \in Nat /\ SizeOf(alg) >= 20
        /\ DigestEnds(r)[j] \in Nat
        /\ DigestEnds(r)[j + 1] = DigestEnds(r)[j] + (2 + SizeOf(alg))
        /\ DigestEnds(r)[j + 1] <= DigestEnds(r)[n]
    <3>. HIDE DEF n
    <3>1. \A i \in 1..n :
            /\ SizeOf(r.digests[i]) \in Nat
            /\ SizeOf(r.digests[i]) >= 20
            /\ DigestEnds(r)[i - 1] \in Nat
            /\ DigestEnds(r)[i] = DigestEnds(r)[i - 1] + (2 + SizeOf(r.digests[i]))
      BY <1>6, DigestEndsDef DEF n
    <3>2. \A a, b \in 0..n : a <= b => DigestEnds(r)[a] <= DigestEnds(r)[b]
      BY <1>6, DigestEndsDef DEF n
    <3>. QED BY <2>2, <3>1, <3>2
  <2>6. DigestSize(alg) = SizeOf(alg)
    BY <1>9, <2>2 DEF DigestSize
  <2>7. remaining >= 2 /\ remaining - 2 >= SizeOf(alg) /\ SizeOf(alg) # 0
    <3>. DEFINE a == DigestEnds(r)[j]
                b == SizeOf(alg)
                d == DigestEnds(r)[n]
                e == end[k]
                z == rawLog.size
                s == r.size
    <3>1. /\ p \in Nat /\ remaining \in Nat /\ p + remaining = z
          /\ a \in Nat /\ b \in Nat /\ b >= 20 /\ d \in Nat /\ e \in Nat
          /\ s \in Nat /\ z \in Nat /\ p = e + 12 + a /\ a + (2 + b) <= d
          /\ e + ((12 + d) + 4 + s) <= z
      BY <1>2, <1>6, <1>7, <1>8, <1>10, <2>1, <2>5
    <3>. HIDE DEF a, b, d, e, z, s
    <3>2. remaining >= 2 /\ remaining - 2 >= b /\ b # 0
      BY ONLY <3>1
    <3>. QED BY <3>2 DEF b
  <2>. QED BY <1>0, <1>12, <2>4, <2>6, <2>7 DEF DigestFits
<1>13. CASE pc = "data"
  <2>1. /\ p = end[k] + 12 + DigestEnds(r)[n - 0] /\ n - 0 = n
    BY <1>3, <1>7, <1>13 DEF AgileInv
  <2>2. Word(p + 0, r.size) \in rawLog.fields
    <3>1. p + 0 = p
      BY <1>2
    <3>. QED BY <1>2, <1>3, <1>13, <3>1, AgileReads
  <2>3. FieldAt(0).value = r.size
    BY <1>2, <2>2, WordIs
  <2>4. remaining >= 4 /\ r.size <= remaining - 4
    <3>. DEFINE d == DigestEnds(r)[n]
                e == end[k]
                z == rawLog.size
                s == r.size
    <3>1. /\ p \in Nat /\ remaining \in Nat /\ p + remaining = z /\ d \in Nat
          /\ e \in Nat /\ s \in Nat /\ z \in Nat /\ p = e + 12 + d
          /\ e + ((12 + d) + 4 + s) <= z
      BY <1>2, <1>6, <1>7, <1>8, <1>10, <2>1
    <3>. HIDE DEF d, e, z, s
    <3>2. remaining >= 4 /\ s <= remaining - 4
      BY ONLY <3>1
    <3>. QED BY <3>2 DEF s
  <2>. QED BY <1>0, <1>13, <2>3, <2>4 DEF DataFits
<1>. QED BY <1>0, <1>11, <1>12, <1>13

\* Where the walk ends, the entries it has are those of the log, or no variables.
LEMMA WalkEndsNext ==
  ASSUME LogInv, WalkEnds PROVE WalkInv'
<1>1. /\ pc \in {"entry", "digest", "data"}
      /\ pc' = "parsed" /\ digestsLeft' = 0 /\ rawLog' = rawLog
      /\ p' = p /\ remaining' = remaining /\ entries' = entries
  BY DEF WalkEnds, readVars
<1>2. p \in Nat /\ remaining \in Nat
  BY <1>1, WalkFacts DEF Reading
<1>3. CASE Headed(rawLog)
  <2>1. entries = EntriesOf(rawLog)
    BY <1>3, AgileEnds DEF Headed
  <2>. QED BY <1>1, <1>2, <1>3, <2>1 DEF WalkInv, Reading
<1>4. CASE ~ Headed(rawLog)
  BY <1>1, <1>2, <1>4 DEF LogInv, WalkInv, Reading
<1>. QED BY <1>3, <1>4

\* A log that could not be read has no header and holds no entry.
LEMMA NoEntries == ~ Headed(EmptyLog) /\ EntriesOf(EmptyLog) = <<>>
<1>1. EmptyLog.format = "agile" /\ EmptyLog.records = <<>> /\ EmptyLog.size = 0
  BY DEF EmptyLog
<1>2. RecordEnds("agile", <<>>)[0] = 65
  <2>1. <<>> \in Seq(Measurements)
    OBVIOUS
  <2>. QED BY <2>1, RecordEndsDef DEF FirstAt
<1>3. ~ Headed(EmptyLog)
  BY <1>1, <1>2 DEF Whole, Headed
<1>. QED BY <1>3 DEF EntriesOf

\* What firmware and Windows write is a log.
LEMMA FirmwareIsLog ==
  ASSUME NEW format \in {"agile", "legacy"}, NEW records \in Seq(Measurements)
  PROVE  /\ IsLog(FirmwareLog(format, records))
         /\ FirmwareLog(format, records).records = records
<1>. DEFINE F == FirmwareLog(format, records)
            end == RecordEnds(format, records)
<1>1. F.format = format /\ F.records = records /\ F.size = end[Len(records)]
  BY DEF FirmwareLog
<1>2. end[Len(records)] \in Nat
  BY RecordEndsDef
<1>3. F = Cut(F, F.size)
  BY DEF Cut, FirmwareLog
<1>. HIDE DEF F
<1>4. F.size \in 0..F.size
  BY <1>1, <1>2
<1>5. F = FirmwareLog(F.format, F.records)
  BY <1>1 DEF F
<1>. QED BY <1>1, <1>3, <1>4, <1>5 DEF IsLog, F

\* Before the log is fetched.
LEMMA LogInvInit == LogInit => LogInv
<1>. SUFFICES ASSUME LogInit PROVE LogInv
  OBVIOUS
<1>1. Known(measured)
  BY EventLogAssumption DEF LogInit, Known, KnownRecords
<1>2. ReadInv
  BY <1>1, EventLogAssumption DEF LogInit, ReadInv, Reading
<1>3. WalkInv
  BY DEF LogInit, WalkInv, Reading
<1>. QED BY <1>2, <1>3 DEF LogInv

\* A log that changes in the TPM driver leaves the walk alone.
LEMMA LogChangesNext ==
  ASSUME LogInv, LogChanges PROVE LogInv'
<1>1. /\ pc \in {"size", "contents"} /\ changes < MaxChanges
      /\ changes' = changes + 1
      /\ served' = served \cup {measured'}
      /\ pc' = pc /\ logSize' = logSize /\ rawLog' = rawLog
      /\ UNCHANGED walkVars
  BY DEF LogChanges
<1>2. IsLog(measured) /\ ToSet(measured.records) \subseteq KnownRecords
  BY DEF LogInv, ReadInv, Known
<1>3. /\ measured.format \in {"agile", "legacy"}
      /\ measured.records \in Seq(Measurements)
  BY <1>2, LogShape
<1>4. Known(measured')
  <2>1. CASE \E r \in OsRecords :
               measured' = FirmwareLog(measured.format,
                                       Append(measured.records, r))
    <3>1. PICK r \in OsRecords :
            measured' = FirmwareLog(measured.format, Append(measured.records, r))
      BY <2>1
    <3>. DEFINE rs == Append(measured.records, r)
    <3>2. r \in Measurements
      BY EventLogAssumption
    <3>3. rs \in Seq(Measurements)
      BY <1>3, <3>2
    <3>4. ToSet(rs) \subseteq ToSet(measured.records) \cup {r}
      BY <1>3, <3>2 DEF ToSet
    <3>. HIDE DEF rs
    <3>5. IsLog(measured') /\ measured'.records = rs
      BY <1>3, <3>1, <3>3, FirmwareIsLog DEF rs
    <3>. QED BY <1>2, <3>4, <3>5 DEF Known, KnownRecords
  <2>2. CASE /\ measured.records # <<>>
             /\ measured' = FirmwareLog(measured.format,
                                        <<Head(measured.records)>>)
    <3>. DEFINE rs == <<Head(measured.records)>>
    <3>1. /\ Head(measured.records) \in Measurements
          /\ Head(measured.records) \in ToSet(measured.records)
      BY <1>3, <2>2 DEF ToSet
    <3>2. rs \in Seq(Measurements) /\ ToSet(rs) = {Head(measured.records)}
      BY <3>1 DEF ToSet
    <3>. HIDE DEF rs
    <3>3. IsLog(measured') /\ measured'.records = rs
      BY <1>3, <2>2, <3>2, FirmwareIsLog DEF rs
    <3>. QED BY <1>2, <3>1, <3>2, <3>3 DEF Known
  <2>. QED BY <2>1, <2>2 DEF LogChanges
<1>5. changes' \in 0..MaxChanges
  BY <1>1, EventLogAssumption DEF LogInv, ReadInv
<1>6. ReadInv'
  BY <1>1, <1>4, <1>5 DEF LogInv, ReadInv, Reading
<1>7. WalkInv'
  BY <1>1 DEF LogInv, WalkInv, walkVars, Reading
<1>. QED BY <1>6, <1>7 DEF LogInv

\* Every step of ReadEventLog and ParseAndAnalyzeEventLog.
LEMMA LogStepNext ==
  ASSUME LogInv, LogStep PROVE LogInv'
<1>1. CASE GetLogSize
  <2>1. measured.size \in Nat
    BY LogShape DEF LogInv, ReadInv, Known
  <2>2. ReadInv'
    BY <1>1, <2>1 DEF GetLogSize, LogInv, ReadInv, Reading
  <2>3. WalkInv'
    BY <1>1 DEF GetLogSize, LogInv, WalkInv, walkVars, Reading
  <2>. QED BY <2>2, <2>3 DEF LogInv
<1>2. CASE GetLogContents
  <2>1. measured.size \in Nat
    BY LogShape DEF LogInv, ReadInv, Known
  <2>2. ReadInv'
    BY <1>2 DEF GetLogContents, LogInv, ReadInv, Reading
  <2>3. WalkInv'
    BY <1>2, <2>1 DEF GetLogContents, LogInv, WalkInv, Reading
  <2>. QED BY <2>2, <2>3 DEF LogInv
<1>3. CASE NoEventLog
  <2>1. ReadInv'
    BY <1>3 DEF NoEventLog, LogInv, ReadInv, readVars, Reading
  <2>2. rawLog' = EmptyLog /\ entries' = <<>>
    BY <1>3 DEF NoEventLog, LogInv, ReadInv, WalkInv, readVars, walkVars
  <2>3. WalkInv'
    BY <1>3, <2>2, NoEntries DEF NoEventLog, LogInv, WalkInv, walkVars, Reading
  <2>. QED BY <2>1, <2>3 DEF LogInv
<1>4. CASE SkipHeader \/ KeepHeader
  <2>1. ReadInv'
    BY <1>4 DEF SkipHeader, KeepHeader, LogInv, ReadInv, readVars, Reading
  <2>. QED BY <1>4, <2>1, SkipHeaderNext, KeepHeaderNext DEF LogInv
<1>5. CASE ReadEntry
  <2>1. ReadInv'
    BY <1>5 DEF ReadEntry, LogInv, ReadInv, readVars, Reading
  <2>. QED BY <1>5, <2>1, ReadEntryNext DEF LogInv
<1>6. CASE ReadDigest
  <2>1. ReadInv'
    BY <1>6 DEF ReadDigest, LogInv, ReadInv, readVars, Reading
  <2>. QED BY <1>6, <2>1, ReadDigestNext DEF LogInv
<1>7. CASE ReadData
  <2>1. ReadInv'
    BY <1>7 DEF ReadData, LogInv, ReadInv, readVars, Reading
  <2>. QED BY <1>7, <2>1, ReadDataNext DEF LogInv
<1>8. CASE WalkEnds
  <2>1. ReadInv'
    BY <1>8 DEF WalkEnds, LogInv, ReadInv, readVars, Reading
  <2>. QED BY <1>8, <2>1, WalkEndsNext DEF LogInv
<1>. QED BY <1>1, <1>2, <1>3, <1>4, <1>5, <1>6, <1>7, <1>8 DEF LogStep

-----------------------------------------------------------------------------
(* The cursor *)

FieldBegins(n, width) ==
  \E f \in rawLog.fields : f.at = p + n /\ f.width = width

\* A word is a field of four bytes.
LEMMA WordBegins ==
  ASSUME NEW n, NEW v, Word(p + n, v) \in rawLog.fields
  PROVE  FieldBegins(n, 4)
<1>1. Word(p + n, v).at = p + n /\ Word(p + n, v).width = 4
  BY DEF Word
<1>. QED BY <1>1 DEF FieldBegins

\* The reads that look for the Spec ID event are of words of the log.
LEMMA HeaderReads ==
  ASSUME LogInv, pc = "header", remaining >= 32
  PROVE  FieldBegins(4, 4) /\ FieldBegins(28, 4)
<1>1. IsLog(rawLog) /\ p = 0 /\ rawLog.size >= 32
  BY WalkFacts DEF Reading, LogInv, WalkInv
<1>. DEFINE r == OldRecords(rawLog)[1]
<1>2. Word(4, r.type) \in rawLog.fields /\ Word(28, r.size) \in rawLog.fields
  BY <1>1, HeaderWords
<1>. HIDE DEF r
<1>3. /\ Word(p + 4, r.type) \in rawLog.fields
      /\ Word(p + 28, r.size) \in rawLog.fields
  BY <1>1, <1>2
<1>. QED BY <1>3, WordBegins

\* The reads of the walk over crypto-agile records.
LEMMA AgileCursor ==
  ASSUME LogInv, rawLog.format = "agile", Whole(rawLog, 0)
  PROVE  /\ pc = "entry" /\ remaining >= 12 =>
              FieldBegins(0, 4) /\ FieldBegins(4, 4) /\ FieldBegins(8, 4)
         /\ pc = "digest" => FieldBegins(0, 2)
         /\ pc = "data" =>
              /\ FieldBegins(0, 4)
              /\ FieldAt(0).value \in 1..(remaining - 4) =>
                   FieldBegins(4, FieldAt(0).value)
<1>. SUFFICES ASSUME pc \in {"entry", "digest", "data"}
              PROVE  /\ pc = "entry" /\ remaining >= 12 =>
                          FieldBegins(0, 4) /\ FieldBegins(4, 4) /\ FieldBegins(8, 4)
                     /\ pc = "digest" => FieldBegins(0, 2)
                     /\ pc = "data" =>
                          /\ FieldBegins(0, 4)
                          /\ FieldAt(0).value \in 1..(remaining - 4) =>
                               FieldBegins(4, FieldAt(0).value)
  OBVIOUS
<1>1. /\ IsLog(rawLog) /\ p \in Nat /\ remaining \in Nat
      /\ p + remaining = rawLog.size /\ p + 0 = p
  BY WalkFacts DEF Reading
<1>. DEFINE k == Len(entries)
            r == rawLog.records[k + 1]
            alg == r.digests[Len(r.digests) - digestsLeft + 1]
<1>2. AgileInv(k)
  BY DEF LogInv, WalkInv, Headed
<1>3. /\ pc = "entry" /\ remaining >= 12 =>
           /\ Word(p, r.pcr) \in rawLog.fields
           /\ Word(p + 4, r.type) \in rawLog.fields
           /\ Word(p + 8, Len(r.digests)) \in rawLog.fields
      /\ pc = "digest" => AlgField(p, alg) \in rawLog.fields
      /\ pc = "data" =>
           /\ Word(p, r.size) \in rawLog.fields
           /\ r.size # 0 => EventField(p + 4, r) \in rawLog.fields
  BY <1>1, <1>2, AgileReads
<1>. HIDE DEF r, alg
<1>4. CASE pc = "entry" /\ remaining >= 12
  BY <1>1, <1>3, <1>4, WordBegins
<1>5. CASE pc = "digest"
  <2>1. AlgField(p, alg).at = p /\ AlgField(p, alg).width = 2
    BY DEF AlgField
  <2>. QED BY <1>1, <1>3, <1>5, <2>1 DEF FieldBegins
<1>6. CASE pc = "data"
  <2>1. FieldBegins(0, 4) /\ FieldAt(0).value = r.size
    BY <1>1, <1>3, <1>6, WordBegins, WordIs
  <2>2. ASSUME r.size \in 1..(remaining - 4) PROVE FieldBegins(4, r.size)
    <3>1. r.size # 0
      BY <1>1, <2>2
    <3>2. EventField(p + 4, r).at = p + 4 /\ EventField(p + 4, r).width = r.size
      BY DEF EventField
    <3>. QED BY <1>3, <1>6, <3>1, <3>2 DEF FieldBegins
  <2>. QED BY <1>6, <2>1, <2>2
<1>. QED BY <1>4, <1>5, <1>6

\* The cursor stays in the log, and in step with crypto-agile records.
LEMMA CursorOk ==
  ASSUME LogInv PROVE CursorInStep
<1>1. Reading => p + remaining = rawLog.size /\ remaining >= 0
  BY DEF LogInv, WalkInv
<1>2. pc = "header" /\ remaining >= 32 => FieldBegins(4, 4) /\ FieldBegins(28, 4)
  BY HeaderReads
<1>3. ASSUME Headed(rawLog)
      PROVE  /\ pc = "entry" /\ remaining >= 12 =>
                  FieldBegins(0, 4) /\ FieldBegins(4, 4) /\ FieldBegins(8, 4)
             /\ pc = "digest" => FieldBegins(0, 2)
             /\ pc = "data" =>
                  /\ FieldBegins(0, 4)
                  /\ FieldAt(0).value \in 1..(remaining - 4) =>
                       FieldBegins(4, FieldAt(0).value)
  BY <1>3, AgileCursor DEF Headed
<1>4. Headed(rawLog) /\ pc = "entry" /\ remaining >= 12 =>
        \A n \in {0, 4, 8} : FieldBegins(n, 4)
  BY <1>3
<1>. QED BY <1>1, <1>2, <1>3, <1>4 DEF CursorInStep, FieldBegins

-----------------------------------------------------------------------------
(* The stream of records *)

\* The entries of the leading records of a log.
LEMMA LeadingEntries ==
  ASSUME NEW log, Known(log), NEW k \in 0..Len(log.records)
  PROVE  LET s == [i \in 1..k |-> EntryOf(log.records[i])]
         IN s \in Seq(Records) /\ Len(s) = k
<1>1. log.records \in Seq(Measurements) /\ Len(log.records) \in Nat
  BY LogShape DEF Known
<1>2. k \in Nat /\ \A i \in 1..k : i \in DOMAIN log.records
  BY <1>1
<1>3. \A i \in 1..k : log.records[i] \in KnownRecords
  BY <1>2 DEF Known, ToSet
<1>4. \A i \in 1..k : EntryOf(log.records[i]) \in Records
  BY <1>3 DEF Records, KnownRecords
<1>5. [i \in 1..k |-> EntryOf(log.records[i])] \in [1..k -> Records]
  BY <1>4
<1>. QED BY <1>2, <1>5, FunctionIsSeq

\* The entries of a log are records of the stream.
LEMMA EntriesType ==
  ASSUME NEW log, Known(log)
  PROVE  EntriesOf(log) \in Seq(Records)
<1>1. IsLog(log)
  BY DEF Known
<1>2. CASE Headed(log)
  <2>1. PICK m \in 0..Len(log.records) :
          EntriesOf(log) = [i \in 1..m |-> EntryOf(log.records[i])]
    BY <1>1, <1>2, EntriesShape DEF Headed
  <2>. QED BY <2>1, LeadingEntries
<1>3. CASE ~ Headed(log)
  <2>1. EntriesOf(log) = <<>>
    BY <1>3 DEF EntriesOf
  <2>. QED BY <2>1
<1>. QED BY <1>2, <1>3

\* What is read so far of a log with its Spec ID event is a part of what it holds.
LEMMA EntriesSoFar ==
  ASSUME LogInv, Reading, Headed(rawLog)
  PROVE  /\ entries \in Seq(Records)
         /\ EntriesOf(rawLog) \in Seq(Records)
         /\ Len(entries) <= Len(EntriesOf(rawLog))
<1>1. Known(rawLog) /\ IsLog(rawLog) /\ rawLog.format = "agile"
  BY DEF LogInv, ReadInv, Known, Headed
<1>2. EntriesOf(rawLog) \in Seq(Records)
  BY <1>1, EntriesType
<1>3. CASE pc = "header"
  <2>1. entries = <<>> /\ Len(entries) = 0
    BY <1>3 DEF LogInv, WalkInv
  <2>. QED BY <1>2, <2>1
<1>4. CASE pc \in {"entry", "digest", "data"}
  <2>. DEFINE k == Len(entries)
  <2>1. /\ k \in 0..Len(rawLog.records) /\ Whole(rawLog, k)
        /\ entries = [i \in 1..k |-> EntryOf(rawLog.records[i])]
    BY <1>4 DEF LogInv, WalkInv, AgileInv
  <2>. HIDE DEF k
  <2>2. entries \in Seq(Records) /\ k <= Len(EntriesOf(rawLog))
    BY <1>1, <2>1, LeadingEntries, EntriesGo
  <2>. QED BY <1>2, <2>2 DEF k
<1>. QED BY <1>3, <1>4 DEF Reading

\* The entry of a record has the type of an entry.
LEMMA EntryOfType ==
  ASSUME NEW r \in Measurements PROVE EntryOf(r) \in Entries
<1>1. /\ r.pcr \in Nat /\ r.type \in Nat /\ r.size \in Nat
      /\ r.digests \in Seq(Nat) /\ r.data \in VariableData
  BY DEF Measurements
<1>2. ToSet(r.digests) \in SUBSET Nat
  BY <1>1 DEF ToSet
<1>. DEFINE x == IF r.size = 0 THEN NoData ELSE r.data
<1>3. x \in VariableData
  BY <1>1, SpecIdType
<1>. HIDE DEF x
<1>4. [pcrIndex |-> r.pcr, eventType |-> r.type, digests |-> ToSet(r.digests),
       size |-> r.size, eventData |-> x] \in Entries
  BY <1>1, <1>2, <1>3 DEF Entries
<1>. QED BY <1>4 DEF EntryOf, x

\* Records of the stream are such entries.
LEMMA RecordsAreEntries == Records \subseteq Entries
<1>. SUFFICES ASSUME NEW e \in Records PROVE e \in Entries
  OBVIOUS
<1>1. PICK r \in KnownRecords : e = EntryOf(r)
  BY DEF Records, KnownRecords
<1>2. r \in Measurements
  <2>1. CASE r \in OsRecords
    BY <2>1, EventLogAssumption
  <2>2. CASE r \notin OsRecords
    <3>1. PICK log \in Logs : r \in ToSet(log.records)
      BY <1>1, <2>2 DEF KnownRecords
    <3>2. log.records \in Seq(Measurements)
      BY EventLogAssumption DEF IsLog
    <3>. QED BY <3>1, <3>2 DEF ToSet
  <2>. QED BY <2>1, <2>2
<1>. QED BY <1>1, <1>2, EntryOfType

\* Whatever is read is of that type.
LEMMA EntriesTyped ==
  ASSUME LogInv PROVE entries \in Seq(Entries)
<1>1. ASSUME entries \in Seq(Phantoms) PROVE entries \in Seq(Entries)
  <2>1. Phantoms \subseteq Entries
    BY DEF Phantoms
  <2>. HIDE DEF Phantoms, Entries
  <2>. QED BY <1>1, <2>1
<1>2. ASSUME entries \in Seq(Records) PROVE entries \in Seq(Entries)
  <2>. QED BY <1>2, RecordsAreEntries
<1>3. CASE pc \in {"size", "contents", "header"}
  <2>1. entries = <<>>
    BY <1>3 DEF LogInv, WalkInv
  <2>. QED BY <2>1
<1>4. CASE pc \in {"entry", "digest", "data"} /\ Headed(rawLog)
  BY <1>2, <1>4, EntriesSoFar DEF Reading
<1>5. CASE /\ pc \notin {"size", "contents", "header", "entry", "digest", "data"}
           /\ Headed(rawLog)
  <2>1. entries = EntriesOf(rawLog) /\ Known(rawLog)
    BY <1>5, NoEntries DEF LogInv, WalkInv, ReadInv
  <2>. QED BY <1>2, <2>1, EntriesType
<1>6. CASE ~ Headed(rawLog) /\ pc \notin {"size", "contents", "header"}
  BY <1>1, <1>6 DEF LogInv, WalkInv
<1>. QED BY <1>3, <1>4, <1>5, <1>6

\* The entry that ReadData completes is the next of those the log holds.
LEMMA EntryTaken ==
  ASSUME LogInv, ReadData, Headed(rawLog)
  PROVE  /\ Len(entries) < Len(EntriesOf(rawLog))
         /\ Completed = EntriesOf(rawLog)[Len(entries) + 1]
<1>1. IsLog(rawLog) /\ rawLog.format = "agile" /\ Whole(rawLog, 0)
  BY WalkFacts DEF Reading, ReadData, Headed
<1>. DEFINE k == Len(entries)
<1>2. /\ k \in Nat /\ k + 1 \in 1..Len(rawLog.records)
      /\ Completed = EntryOf(rawLog.records[k + 1])
      /\ Whole(rawLog, k + 1)
  BY <1>1, AgileData
<1>. HIDE DEF k
<1>3. k + 1 \in 0..Len(rawLog.records) /\ k + 1 \in 1..(k + 1)
  BY <1>2
<1>4. /\ Len(EntriesOf(rawLog)) \in Nat
      /\ k + 1 <= Len(EntriesOf(rawLog))
      /\ EntriesOf(rawLog)[k + 1] = EntryOf(rawLog.records[k + 1])
  BY <1>1, <1>2, <1>3, EntriesGo
<1>. QED BY <1>2, <1>4 DEF k

\* What the walk is to the stream.
Stage ==
  IF pc \in {"size", "contents"} THEN "closed"
  ELSE IF Reading THEN "open" ELSE "ended"

Pending ==
  IF Reading
  THEN SubSeq(EntriesOf(rawLog), Len(entries) + 1, Len(EntriesOf(rawLog)))
  ELSE <<>>

\* Of other logs than those that begin with a whole Spec ID event nothing is taken.
Taken == IF Headed(rawLog) THEN entries ELSE <<>>

\* There is nothing to take from a log without a whole Spec ID event.
LEMMA NothingPending ==
  ASSUME NEW log, ~ Headed(log), NEW n \in Nat
  PROVE  SubSeq(EntriesOf(log), n + 1, Len(EntriesOf(log))) = <<>>
<1>1. EntriesOf(log) = <<>> /\ Len(<<>>) = 0
  BY DEF EntriesOf
<1>2. n + 1 \in Nat /\ 0 \in Nat /\ 0 < n + 1
  OBVIOUS
<1>3. SubSeq(<<>>, n + 1, 0) = <<>>
  BY <1>2, SubSeqEmpty
<1>. QED BY <1>1, <1>3

\* ReadData takes the next record of the stream.
LEMMA TakeStep ==
  ASSUME LogInv, ReadData, Headed(rawLog)
  PROVE  /\ Stage = "open" /\ Stage' = "open"
         /\ Pending # <<>>
         /\ entries' = Append(entries, Head(Pending))
         /\ Pending' = Tail(Pending)
<1>. DEFINE E == EntriesOf(rawLog)
            n == Len(entries)
<1>1. /\ pc = "data" /\ pc' = "entry" /\ entries' = Append(entries, Completed)
      /\ rawLog' = rawLog
  BY DEF ReadData, Completed, readVars
<1>2. entries \in Seq(Records) /\ E \in Seq(Records)
  BY <1>1, EntriesSoFar DEF Reading
<1>3. n < Len(E) /\ Completed = E[n + 1]
  BY EntryTaken
<1>4. n \in Nat /\ Len(E) \in Nat /\ n + 1 \in 1..Len(E)
      /\ Len(E) \in (n + 1)..Len(E) /\ (n + 1) + 1 = n + 2
  BY <1>2, <1>3
<1>5. Completed \in Records
  BY <1>2, <1>3, <1>4
<1>6. Len(entries') = n + 1
  BY <1>1, <1>2, <1>5
<1>. HIDE DEF E, n
<1>7. /\ Head(SubSeq(E, n + 1, Len(E))) = E[n + 1]
      /\ Tail(SubSeq(E, n + 1, Len(E))) = SubSeq(E, (n + 1) + 1, Len(E))
  BY <1>2, <1>4, HeadTailOfSubSeq
<1>8. Len(SubSeq(E, n + 1, Len(E))) # 0
  <2>1. \A i \in (n + 1)..Len(E) : E[i] \in Records
    BY <1>2, <1>4
  <2>2. Len(SubSeq(E, n + 1, Len(E))) =
          IF n + 1 <= Len(E) THEN Len(E) - (n + 1) + 1 ELSE 0
    BY <1>4, <2>1, SubSeqProperties
  <2>. DEFINE m == Len(E)
  <2>3. m \in Nat /\ n \in Nat /\ n + 1 \in 1..m
    BY <1>4
  <2>. HIDE DEF m
  <2>4. (IF n + 1 <= m THEN m - (n + 1) + 1 ELSE 0) # 0
    BY ONLY <2>3
  <2>. QED BY <2>2, <2>4 DEF m
<1>9. SubSeq(E, n + 1, Len(E)) # <<>>
  <2>1. Len(<<>>) = 0
    OBVIOUS
  <2>. QED BY <1>8, <2>1, Zenon
<1>10. Pending = SubSeq(E, n + 1, Len(E))
  BY <1>1 DEF Pending, Reading, E, n
<1>11. Pending' = SubSeq(E, (n + 1) + 1, Len(E))
  BY <1>1, <1>6 DEF Pending, Reading, E
<1>. QED BY <1>1, <1>3, <1>7, <1>9, <1>10, <1>11 DEF Stage, Reading

\* The walk ends only when no record is left.
LEMMA EndStep ==
  ASSUME LogInv, WalkEnds, Headed(rawLog)
  PROVE  /\ Stage = "open" /\ Stage' = "ended"
         /\ Pending = <<>> /\ Pending' = <<>>
         /\ entries' = entries
<1>. DEFINE E == EntriesOf(rawLog)
<1>1. /\ pc \in {"entry", "digest", "data"} /\ pc' = "parsed"
      /\ entries' = entries /\ rawLog' = rawLog
  BY DEF WalkEnds, readVars
<1>2. entries = E /\ E \in Seq(Records)
  BY <1>1, AgileEnds, EntriesSoFar DEF Reading, Headed
<1>3. Len(E) \in Nat /\ Len(E) < Len(E) + 1
  BY <1>2
<1>. HIDE DEF E
<1>4. SubSeq(E, Len(E) + 1, Len(E)) = <<>>
  BY <1>3, SubSeqEmpty
<1>5. Pending = <<>>
  BY <1>1, <1>2, <1>4 DEF Pending, E
<1>. QED BY <1>1, <1>5 DEF Stage, Pending, Reading

\* GetLogContents opens the stream of the records of the log it fetched.
LEMMA OpenStep ==
  ASSUME LogInv, LogInv', GetLogContents
  PROVE  /\ Stage = "closed" /\ Stage' = "open"
         /\ Pending' \in Seq(Records)
         /\ entries' = entries
<1>. DEFINE E == EntriesOf(rawLog)'
<1>1. /\ pc = "contents" /\ pc' = "header" /\ entries = <<>>
      /\ entries' = entries
  BY DEF GetLogContents, LogInv, WalkInv
<1>2. E \in Seq(Records)
  BY <1>1, EntriesType DEF LogInv, ReadInv, Reading
<1>3. Len(entries') + 1 = 1
  BY <1>1
<1>4. Pending' = SubSeq(E, 1, Len(E))
  BY <1>1, <1>3 DEF Pending, Reading
<1>. HIDE DEF E
<1>5. SubSeq(E, 1, Len(E)) = E
  BY <1>2, SubSeqFull
<1>. QED BY <1>1, <1>2, <1>4, <1>5 DEF Stage, Reading

\* Steps that the stream does not see.
LEMMA QuietStep ==
  ASSUME rawLog' = rawLog, entries' = entries,
         \/ pc \in {"size", "contents"} /\ pc' \in {"size", "contents"}
         \/ Reading /\ Reading'
         \/ /\ pc \notin {"size", "contents"} /\ pc' \notin {"size", "contents"}
            /\ ~ Reading /\ ~ Reading'
  PROVE  UNCHANGED Stream!streamVars
BY DEF Stream!streamVars, Reading

\* Every step of the walk is a step of the stream, or none.
LEMMA StreamStep ==
  ASSUME LogInv, LogInv', LogStep
  PROVE  [Stream!StreamNext]_(Stream!streamVars)
<1>1. CASE GetLogSize
  <2>1. /\ rawLog' = rawLog /\ entries' = entries
        /\ pc \in {"size", "contents"} /\ pc' \in {"size", "contents"}
    BY <1>1 DEF GetLogSize, walkVars
  <2>. QED BY <2>1, QuietStep
<1>2. CASE GetLogContents
  <2>1. entries = <<>> /\ Taken = <<>> /\ Taken' = <<>>
    BY <1>2, OpenStep DEF GetLogContents, LogInv, WalkInv, Taken
  <2>2. Stream!Open
    BY <1>2, <2>1, OpenStep DEF Stream!Open, Stage, Pending, Taken
  <2>. QED BY <2>2 DEF Stream!StreamNext
<1>3. CASE NoEventLog
  <2>1. /\ pc \in {"size", "contents"} /\ pc' = "unavailable"
        /\ entries' = entries /\ rawLog' = rawLog
    BY <1>3 DEF NoEventLog, walkVars, readVars
  <2>2. Stream!End
    BY <2>1 DEF Stream!End, Reading
  <2>. QED BY <2>2 DEF Stream!StreamNext
<1>4. CASE SkipHeader \/ KeepHeader \/ ReadEntry \/ ReadDigest
  <2>1. rawLog' = rawLog /\ entries' = entries /\ Reading /\ Reading'
    BY <1>4 DEF SkipHeader, KeepHeader, ReadEntry, ReadDigest, readVars,
                walkVars, Reading
  <2>. QED BY <2>1, QuietStep
<1>5. CASE ReadData /\ Headed(rawLog)
  <2>1. rawLog' = rawLog
    BY <1>5 DEF ReadData, readVars
  <2>2. Stream!Take
    BY <1>5, <2>1, TakeStep DEF Stream!Take, Stage, Pending
  <2>. QED BY <2>2 DEF Stream!StreamNext
<1>6. CASE WalkEnds /\ Headed(rawLog)
  <2>1. rawLog' = rawLog
    BY <1>6 DEF WalkEnds, readVars
  <2>2. Stream!End
    BY <1>6, <2>1, EndStep DEF Stream!End, Stage, Pending
  <2>. QED BY <2>2 DEF Stream!StreamNext
<1>7. CASE (ReadData \/ WalkEnds) /\ ~ Headed(rawLog)
  <2>1. rawLog' = rawLog /\ ~ Headed(rawLog')
    BY <1>7 DEF ReadData, WalkEnds, readVars
  <2>2. Taken = <<>> /\ Taken' = <<>>
    BY <1>7, <2>1 DEF Taken
  <2>3. Len(entries) \in Nat /\ Len(entries') \in Nat
    <3>1. entries \in Seq(Entries)
      BY EntriesTyped
    <3>2. entries' = entries \/ \E e : entries' = Append(entries, e)
      BY <1>7 DEF ReadData, WalkEnds
    <3>3. Len(entries) \in Nat
      BY <3>1
    <3>4. \A e : Len(Append(entries, e)) = Len(entries) + 1
      BY <3>1, AppendProperties
    <3>. QED BY <3>2, <3>3, <3>4
  <2>4. Pending = <<>>
    BY <1>7, <2>3, NothingPending DEF Pending
  <2>5. Pending' = <<>>
    BY <2>1, <2>3, NothingPending DEF Pending
  <2>6. CASE ReadData
    <3>1. Stage' = Stage
      BY <2>6 DEF ReadData, Stage, Reading
    <3>. QED BY <2>2, <2>4, <2>5, <3>1
             DEF Stream!streamVars, Stage, Pending, Taken
  <2>7. CASE WalkEnds
    <3>1. Stage = "open" /\ Stage' = "ended"
      BY <2>7 DEF WalkEnds, Stage, Reading
    <3>2. Stream!End
      BY <2>2, <2>4, <2>5, <3>1 DEF Stream!End, Stage, Pending, Taken
    <3>. QED BY <3>2 DEF Stream!StreamNext
  <2>. QED BY <1>7, <2>6, <2>7
<1>. QED BY <1>1, <1>2, <1>3, <1>4, <1>5, <1>6, <1>7 DEF LogStep
=============================================================================
