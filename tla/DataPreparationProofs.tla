------------------------ MODULE DataPreparationProofs ------------------------
(***************************************************************************)
(* Proofs about DataPreparation for every set of sources and commands, any *)
(* number of workers, builds and crashes.                                  *)
(***************************************************************************)
EXTENDS DataPreparation, SequenceTheorems, FiniteSetTheorems,
        WellFoundedInduction, TLAPS

-------------------------------------------------------------------------------
(* Numbers, finite sets and what Keep keeps.                                 *)

LEMMA LeastNumber ==
    ASSUME NEW T \in SUBSET Nat, T # {}
    PROVE  \E x \in T : \A y \in T : x <= y
  <1>1. PICK x \in T : \A y \in T : ~ (<<y, x>> \in OpToRel(<, Nat))
    BY NatLessThanWellFounded, WFMin
  <1>2. \A y \in T : ~ (y < x)
    BY <1>1 DEF OpToRel
  <1> QED BY <1>2

\* Keep(s, at) lists the elements of s at the positions at, each once.
LEMMA KeepIs ==
    ASSUME NEW R, NEW s \in Seq(R), NEW at \in SUBSET DOMAIN s
    PROVE  /\ IsFiniteSet(at) /\ Cardinality(at) \in Nat
           /\ Keep(s, at) \in Seq(R) /\ Len(Keep(s, at)) = Cardinality(at)
           /\ \E q \in [1 .. Cardinality(at) -> at] :
                /\ \A k \in 1 .. Cardinality(at) : Keep(s, at)[k] = s[q[k]]
                /\ \A k, l \in 1 .. Cardinality(at) : k # l => q[k] # q[l]
                /\ \A i \in at : \E k \in 1 .. Cardinality(at) : q[k] = i
<1> DEFINE below(i) == {j \in at : j <= i}
           rank(i) == Cardinality(below(i))
           c == Cardinality(at)
           q == [k \in 1 .. c |-> CHOOSE i \in at : rank(i) = k]
           r == [i \in at |-> rank(i)]
<1>1. Len(s) \in Nat /\ DOMAIN s = 1 .. Len(s) /\ at \subseteq Nat
  OBVIOUS
<1>2. IsFiniteSet(at) /\ c \in Nat
  <2>1. IsFiniteSet(1 .. Len(s))
    BY <1>1, FS_Interval
  <2> QED BY <1>1, <2>1, FS_Subset, FS_CardinalityType
<1>3. \A i \in at : IsFiniteSet(below(i)) /\ rank(i) \in Nat /\ rank(i) <= c
  BY <1>2, FS_Subset, FS_CardinalityType
<1>4. ASSUME NEW i \in at PROVE rank(i) # 0
  <2>1. i \in below(i) BY <1>1
  <2> QED BY <2>1, <1>3, FS_EmptySet
<1>4a. \A i \in at : rank(i) \in 1 .. c
  <2> SUFFICES ASSUME NEW i \in at PROVE rank(i) \in 1 .. c
    OBVIOUS
  <2>1. rank(i) \in Nat /\ rank(i) <= c /\ rank(i) # 0
    BY <1>3, <1>4
  <2> HIDE DEF rank, c
  <2> QED BY <1>2, <2>1
<1>5. ASSUME NEW i \in at, NEW j \in at, i < j PROVE rank(i) # rank(j)
  <2>1. below(i) \subseteq below(j) /\ j \in below(j) /\ j \notin below(i)
    BY <1>1, <1>5
  <2> QED BY <1>3, <2>1, FS_Subset
<1>6. r \in Injection(at, 1 .. c)
  <2>1. \A i \in at : r[i] \in 1 .. c
    <3> HIDE DEF rank
    <3> QED BY <1>4a
  <2>2. \A i, j \in at : r[i] = r[j] => i = j
    <3> HIDE DEF rank
    <3> QED BY <1>5, <1>1
  <2> QED BY <2>1, <2>2 DEF Injection, IsInjective
<1>7. r \in Surjection(at, 1 .. c)
  <2>1. IsFiniteSet(1 .. c) /\ Cardinality(1 .. c) = c
    BY <1>2, FS_Interval
  <2> HIDE DEF r, c
  <2> QED BY <1>6, <2>1, FS_Injection DEF c
<1>8. \A k \in 1 .. c : \E i \in at : rank(i) = k
  <2> HIDE DEF rank, c
  <2> QED BY <1>7 DEF Surjection
<1>9. \A k \in 1 .. c : q[k] \in at /\ rank(q[k]) = k
  <2> HIDE DEF rank, c
  <2> QED BY <1>8
<1>10. \A k, l \in 1 .. c : k # l => q[k] # q[l]
  <2> HIDE DEF rank, c, q
  <2> QED BY <1>9
<1>11. ASSUME NEW i \in at PROVE \E k \in 1 .. c : q[k] = i
  <2>1. rank(i) \in 1 .. c
    <3> HIDE DEF rank, c
    <3> QED BY <1>4a
  <2>2. q[rank(i)] \in at /\ rank(q[rank(i)]) = rank(i)
    <3> HIDE DEF rank, c, q
    <3> QED BY <1>9, <2>1
  <2>3. q[rank(i)] = i
    <3> HIDE DEF rank, q
    <3> QED BY <2>2, <1>5, <1>1
  <2> QED BY <2>1, <2>3
<1>12. Keep(s, at) = [k \in 1 .. c |-> s[q[k]]]
  BY DEF Keep
<1>13. \A k \in 1 .. c : s[q[k]] \in R
  <2> HIDE DEF rank, c, q
  <2> QED BY <1>1, <1>9
<1>14. Keep(s, at) \in Seq(R) /\ Len(Keep(s, at)) = c
  <2> HIDE DEF rank, c, q
  <2> QED BY <1>2, <1>12, <1>13
<1>15. q \in [1 .. c -> at]
  <2> HIDE DEF rank, c
  <2> QED BY <1>9
<1>16. \A k \in 1 .. c : Keep(s, at)[k] = s[q[k]]
  BY <1>12
<1> HIDE DEF rank, q
<1> QED BY <1>2, <1>14, <1>15, <1>16, <1>10, <1>11

-------------------------------------------------------------------------------
(* Normalization of one source.                                              *)

LEMMA Sources ==
    ASSUME NEW c \in Commands
    PROVE  /\ c.role \in {"sft", "grpo", "unify"} /\ c.limit \in Nat \ {0}
           /\ c.sources \in Seq(Seq(SourceRows))
           /\ c.role # "unify" => Len(c.sources) = 1
  BY PreparationAssumption

\* What normalization has taken after n rows.
TakenBy(g, n, rows, requireProof, limit) ==
    g = [k \in 0 .. n |->
            IF k = 0 THEN [records |-> <<>>, keys |-> {}, ids |-> {}]
            ELSE TakeRow(g[k - 1], rows[k], requireProof, limit)]

LEMMA TakenExists ==
    ASSUME NEW rows, NEW b, NEW limit, NEW n \in Nat
    PROVE  \E g : TakenBy(g, n, rows, b, limit)
<1> DEFINE Bad == {m \in Nat : ~ \E g : TakenBy(g, m, rows, b, limit)}
<1>1. SUFFICES ASSUME Bad # {} PROVE FALSE
  OBVIOUS
<1>2. PICK m \in Bad : \A y \in Bad : m <= y
  BY <1>1, LeastNumber
<1>3. m # 0
  <2> DEFINE g == [k \in 0 .. 0 |-> [records |-> <<>>, keys |-> {}, ids |-> {}]]
  <2>1. TakenBy(g, 0, rows, b, limit)
    BY DEF TakenBy
  <2> QED BY <2>1, <1>2
<1>4. m - 1 \in Nat /\ m - 1 \notin Bad
  BY <1>2, <1>3
<1>5. PICK g : TakenBy(g, m - 1, rows, b, limit)
  BY <1>4
<1> DEFINE h == [k \in 0 .. m |-> IF k = m THEN TakeRow(g[m - 1], rows[m], b, limit) ELSE g[k]]
<1>6. ASSUME NEW k \in 0 .. m
      PROVE  h[k] = IF k = 0 THEN [records |-> <<>>, keys |-> {}, ids |-> {}]
                    ELSE TakeRow(h[k - 1], rows[k], b, limit)
  <2>1. CASE k = m
    <3>1. h[k] = TakeRow(g[m - 1], rows[m], b, limit) /\ h[k - 1] = g[m - 1]
      BY <1>4, <1>3, <2>1
    <3> QED BY <3>1, <2>1, <1>3
  <2>2. CASE k # m
    <3>1. k \in 0 .. m - 1 /\ h[k] = g[k] /\ (k # 0 => h[k - 1] = g[k - 1])
      BY <1>4, <2>2
    <3>2. g[k] = IF k = 0 THEN [records |-> <<>>, keys |-> {}, ids |-> {}]
                 ELSE TakeRow(g[k - 1], rows[k], b, limit)
      BY <1>5, <3>1 DEF TakenBy
    <3> QED BY <3>1, <3>2
  <2> QED BY <2>1, <2>2
<1>7. TakenBy(h, m, rows, b, limit)
  BY <1>6 DEF TakenBy
<1> QED BY <1>2, <1>7

LEMMA NormalizeIs ==
    ASSUME NEW R, NEW rows \in Seq(R), NEW b, NEW limit
    PROVE  \E g : TakenBy(g, Len(rows), rows, b, limit)
                  /\ Normalize(rows, b, limit) = g[Len(rows)].records
<1> DEFINE n == Len(rows)
           taken == CHOOSE g : TakenBy(g, n, rows, b, limit)
<1>1. n \in Nat
  OBVIOUS
<1>2. TakenBy(taken, n, rows, b, limit)
  BY <1>1, TakenExists
<1>3. Normalize(rows, b, limit) = taken[n].records
  BY DEF Normalize, TakenBy
<1> QED BY <1>2, <1>3

\* What content keys, the identifiers of records, can be.
ContentKeys == UNION {{ContentKey(row, b) : row \in SourceRows} : b \in BOOLEAN}
RecordIds ==
    {row.id : row \in SourceRows}
        \cup {x[1].id \o x[2] : x \in SourceRows \X (ContentKeys \X Nat)}
Records == [id : RecordIds, stmt : {row.stmt : row \in SourceRows},
            proof : {row.proof : row \in SourceRows}, verified : BOOLEAN]

\* A record is a row of its source; it is attested there, or was accepted here.
Sound(r, requireProof) == \E row \in SourceRows :
    /\ r.stmt = row.stmt /\ r.proof = row.proof
    /\ requireProof /\ r.verified =>
          row.attested \/ Reaction(Declaration(row, TRUE)) = "accepts"
SoundRecords(requireProof) == {r \in Records : Sound(r, requireProof)}

\* Records are told apart by their identifiers and by their contents.
Distinct(rs, requireProof) == \A i, j \in DOMAIN rs : i # j =>
    /\ rs[i].id # rs[j].id
    /\ ContentKey(rs[i], requireProof) # ContentKey(rs[j], requireProof)

TakenOK(s, requireProof, limit) ==
    /\ s \in [records : Seq(SoundRecords(requireProof)),
              keys : SUBSET ContentKeys, ids : SUBSET RecordIds]
    /\ Distinct(s.records, requireProof)
    /\ Len(s.records) <= limit /\ IsFiniteSet(s.ids)
    /\ \A i \in DOMAIN s.records :
        s.records[i].id \in s.ids /\ ContentKey(s.records[i], requireProof) \in s.keys

\* A repeated identifier is given a suffix that is not in use.
LEMMA FreshIsFresh ==
    ASSUME NEW row \in SourceRows, NEW b \in BOOLEAN, NEW ids, IsFiniteSet(ids)
    PROVE  /\ FreshId(row.id, ContentKey(row, b), ids) \in RecordIds
           /\ FreshId(row.id, ContentKey(row, b), ids) \notin ids
<1> DEFINE key == ContentKey(row, b)
           id == row.id
           m == Cardinality(ids) + 1
           numbered(n) == id \o <<key, n>>
           free == {n \in 1 .. m : numbered(n) \notin ids}
<1>1. CASE id \notin ids
  BY <1>1 DEF FreshId, RecordIds
<1>2. CASE id \in ids
  <2>0. m \in Nat /\ m > Cardinality(ids)
    BY FS_CardinalityType
  <2>1. id \in Seq(Range(id))
    BY PreparationAssumption
  <2>2. \A n \in 1 .. m : numbered(n)[Len(id) + 2] = n
    <3> SUFFICES ASSUME NEW n \in 1 .. m PROVE numbered(n)[Len(id) + 2] = n
      OBVIOUS
    <3> DEFINE X == Range(id) \cup {key} \cup Nat
    <3>1. id \in Seq(X) /\ <<key, n>> \in Seq(X)
      BY <2>0, <2>1
    <3> HIDE DEF X, key, id
    <3> QED BY <3>1
  <2>3. free # {}
    <3>1. SUFFICES ASSUME \A n \in 1 .. m : numbered(n) \in ids PROVE FALSE
      OBVIOUS
    <3> DEFINE f == [n \in 1 .. m |-> numbered(n)]
    <3> HIDE DEF numbered
    <3>2. f \in [1 .. m -> ids]
      BY <3>1
    <3>3. \A k, n \in 1 .. m : f[k] = f[n] => k = n
      BY <2>2
    <3>4. f \in Injection(1 .. m, ids)
      <4> HIDE DEF f, m
      <4> QED BY <3>2, <3>3 DEF Injection, IsInjective
    <3>5. Cardinality(1 .. m) <= Cardinality(ids)
      BY <3>4, FS_Injection
    <3>6. Cardinality(1 .. m) = m
      BY <2>0, FS_Interval
    <3> QED BY <2>0, <3>5, <3>6, FS_CardinalityType
  <2>4. PICK n \in free : \A k \in free : n <= k
    <3>1. free \in SUBSET Nat
      BY <2>0
    <3> HIDE DEF free
    <3> QED BY <2>3, <3>1, LeastNumber
  <2> DEFINE chosen == CHOOSE k \in free : \A l \in free : k <= l
  <2>5. chosen \in free
    <3> HIDE DEF free
    <3> QED BY <2>4
  <2>6. FreshId(id, key, ids) = numbered(chosen)
    BY <1>2 DEF FreshId
  <2>7. numbered(chosen) \notin ids
    BY <2>5
  <2>8. chosen \in Nat
    BY <2>0, <2>5
  <2>9. numbered(chosen) \in RecordIds
    <3> HIDE DEF chosen
    <3> DEFINE x == <<row, <<key, chosen>>>>
    <3>1. x \in SourceRows \X (ContentKeys \X Nat)
      BY <2>8 DEF ContentKeys
    <3>2. numbered(chosen) = x[1].id \o x[2]
      OBVIOUS
    <3> HIDE DEF x
    <3> QED BY <3>1, <3>2 DEF RecordIds
  <2> HIDE DEF chosen, numbered
  <2> QED BY <2>6, <2>7, <2>9
<1> QED BY <1>1, <1>2

\* One more row keeps what normalization has taken sound and distinct.
LEMMA TakeRowKeeps ==
    ASSUME NEW b \in BOOLEAN, NEW limit \in Nat \ {0}, NEW s, TakenOK(s, b, limit),
           NEW row \in SourceRows
    PROVE  TakenOK(TakeRow(s, row, b, limit), b, limit)
<1> DEFINE key == ContentKey(row, b)
           fresh == [id |-> FreshId(row.id, key, s.ids), stmt |-> row.stmt,
                     proof |-> row.proof, verified |-> row.attested]
           seen == [s EXCEPT !.keys = @ \cup {key}, !.ids = @ \cup {fresh.id}]
           more == [seen EXCEPT !.records = Append(@, fresh)]
           T == [records : Seq(SoundRecords(b)), keys : SUBSET ContentKeys, ids : SUBSET RecordIds]
<1>1. s \in T /\ s.records \in Seq(SoundRecords(b)) /\ Len(s.records) \in Nat
  BY DEF TakenOK
<1>2. /\ key \in ContentKeys
      /\ fresh.id \in RecordIds /\ fresh.id \notin s.ids
      /\ IsFiniteSet(s.ids \cup {fresh.id})
  BY FreshIsFresh, FS_AddElement DEF TakenOK, ContentKeys
<1>3. fresh \in SoundRecords(b)
  BY <1>2, PreparationAssumption DEF SoundRecords, Sound, Records
<1>4. /\ seen \in T /\ seen.records = s.records
      /\ seen.keys = s.keys \cup {key} /\ seen.ids = s.ids \cup {fresh.id}
  <2> HIDE DEF fresh, key
  <2> QED BY <1>1, <1>2
<1>5. /\ more \in T /\ more.records = Append(s.records, fresh)
      /\ more.keys = s.keys \cup {key} /\ more.ids = s.ids \cup {fresh.id}
  <2> HIDE DEF fresh, key, seen
  <2>1. Append(seen.records, fresh) \in Seq(SoundRecords(b))
    BY <1>1, <1>3, <1>4
  <2>2. /\ more \in T /\ more.records = Append(seen.records, fresh)
        /\ more.keys = seen.keys /\ more.ids = seen.ids
    BY <1>4, <2>1
  <2> QED BY <1>4, <2>2
<1>6. \/ TakeRow(s, row, b, limit) = s
      \/ /\ key \notin s.keys /\ Len(s.records) < limit
         /\ TakeRow(s, row, b, limit) \in {seen, more}
  <2>1. Len(s.records) <= limit
    BY DEF TakenOK
  <2> QED BY <2>1, <1>1 DEF TakeRow
<1>7. CASE TakeRow(s, row, b, limit) = seen
  <2> HIDE DEF fresh, key, seen
  <2> QED BY <1>2, <1>4, <1>7 DEF TakenOK
<1>8. CASE /\ key \notin s.keys /\ Len(s.records) < limit
           /\ TakeRow(s, row, b, limit) = more
  <2> DEFINE rs == Append(s.records, fresh)
             n == Len(s.records)
  <2>1. ContentKey(fresh, b) = key
    BY DEF ContentKey
  <2>2. /\ rs \in Seq(SoundRecords(b)) /\ Len(rs) = n + 1 /\ DOMAIN rs = 1 .. n + 1
        /\ rs[n + 1] = fresh /\ \A i \in 1 .. n : rs[i] = s.records[i]
        /\ DOMAIN s.records = 1 .. n
    <3> HIDE DEF fresh
    <3> QED BY <1>1, <1>3
  <2>3. \A i \in 1 .. n : /\ s.records[i].id \in s.ids
                          /\ ContentKey(s.records[i], b) \in s.keys
    BY <2>2 DEF TakenOK
  <2>4. \A i \in 1 .. n + 1 : i = n + 1 \/ i \in 1 .. n
    BY <1>1
  <2> HIDE DEF fresh, key, rs, n
  <2>5. Distinct(rs, b)
    <3>1. \A i, j \in 1 .. n : i # j =>
              /\ rs[i].id # rs[j].id /\ ContentKey(rs[i], b) # ContentKey(rs[j], b)
      BY <2>2 DEF TakenOK, Distinct
    <3>2. \A i \in 1 .. n :
              /\ rs[i].id # rs[n + 1].id
              /\ ContentKey(rs[i], b) # ContentKey(rs[n + 1], b)
      BY <2>1, <2>2, <2>3, <1>2, <1>8
    <3> QED BY <3>1, <3>2, <2>4, <2>2 DEF Distinct
  <2>6. \A i \in DOMAIN rs : rs[i].id \in s.ids \cup {fresh.id}
                             /\ ContentKey(rs[i], b) \in s.keys \cup {key}
    BY <2>1, <2>2, <2>3, <2>4
  <2>7. Len(rs) <= limit
    BY <1>1, <1>8, <2>2 DEF n
  <2> HIDE DEF more, T
  <2> QED BY <1>2, <1>5, <1>8, <2>5, <2>6, <2>7 DEF TakenOK, rs, T
<1> QED BY <1>6, <1>7, <1>8

LEMMA NormalizeKeeps ==
    ASSUME NEW rows \in Seq(SourceRows), NEW b \in BOOLEAN, NEW limit \in Nat \ {0}
    PROVE  /\ Normalize(rows, b, limit) \in Seq(SoundRecords(b))
           /\ Distinct(Normalize(rows, b, limit), b)
<1>1. PICK g : /\ TakenBy(g, Len(rows), rows, b, limit)
               /\ Normalize(rows, b, limit) = g[Len(rows)].records
  BY NormalizeIs
<1> DEFINE Bad == {k \in 0 .. Len(rows) : ~ TakenOK(g[k], b, limit)}
<1>2. Len(rows) \in Nat
  OBVIOUS
<1>3. ASSUME Bad # {} PROVE FALSE
  <2>1. PICK m \in Bad : \A y \in Bad : m <= y
    <3>1. Bad \in SUBSET Nat BY <1>2
    <3> QED BY <1>3, <3>1, LeastNumber
  <2>2. m # 0
    <3>1. g[0] = [records |-> <<>>, keys |-> {}, ids |-> {}]
      BY <1>1, <1>2 DEF TakenBy
    <3>2. TakenOK(g[0], b, limit)
      BY <3>1, FS_EmptySet DEF TakenOK, Distinct
    <3> QED BY <3>2
  <2>3. m - 1 \in 0 .. Len(rows) /\ TakenOK(g[m - 1], b, limit)
    BY <1>2, <2>1, <2>2
  <2>4. g[m] = TakeRow(g[m - 1], rows[m], b, limit)
    BY <1>1, <1>2, <2>2 DEF TakenBy
  <2>5. rows[m] \in SourceRows
    BY <1>2, <2>2
  <2>6. TakenOK(g[m], b, limit)
    BY <2>3, <2>4, <2>5, TakeRowKeeps
  <2> QED BY <2>1, <2>6
<1>4. TakenOK(g[Len(rows)], b, limit)
  BY <1>2, <1>3
<1> QED BY <1>1, <1>4 DEF TakenOK
-------------------------------------------------------------------------------
(* The rows of a command: its sources put together, de-duplicated or reduced.*)

LEMMA FlattenIs ==
    ASSUME NEW R, NEW seqs \in Seq(Seq(R))
    PROVE  /\ FlattenSeq(seqs) \in Seq(R)
           /\ Len(seqs) = 1 => FlattenSeq(seqs) = seqs[1]
<1> DEFINE n == Len(seqs)
           F(g, m) == g = [i \in 1 .. m |-> IF i = 1 THEN seqs[i] ELSE g[i - 1] \o seqs[i]]
           Bad == {m \in Nat : ~ \E g : F(g, m)}
<1>1. n \in Nat /\ \A i \in 1 .. n : seqs[i] \in Seq(R)
  OBVIOUS
<1>2. CASE n = 0
  <2>1. seqs = <<>>
    BY <1>2, EmptySeq
  <2> QED BY <1>2, <2>1 DEF FlattenSeq
<1>3. CASE n # 0
  <2>1. ASSUME Bad # {} PROVE FALSE
    <3>1. PICK m \in Bad : \A y \in Bad : m <= y
      BY <2>1, LeastNumber
    <3>2. m # 0
      <4>1. F([i \in 1 .. 0 |-> seqs[i]], 0)
        OBVIOUS
      <4> QED BY <4>1, <3>1
    <3>3. m - 1 \in Nat /\ m - 1 \notin Bad
      <4> HIDE DEF F
      <4> QED BY <3>1, <3>2
    <3>4. PICK g : F(g, m - 1)
      BY <3>3
    <3> DEFINE last == IF m = 1 THEN seqs[m] ELSE g[m - 1] \o seqs[m]
               h == [i \in 1 .. m |-> IF i = m THEN last ELSE g[i]]
    <3>5. ASSUME NEW i \in 1 .. m
          PROVE  h[i] = IF i = 1 THEN seqs[i] ELSE h[i - 1] \o seqs[i]
      <4>1. CASE i = m
        <5>1. h[i] = last /\ (i # 1 => h[i - 1] = g[i - 1])
          BY <3>3, <4>1
        <5> QED BY <4>1, <5>1
      <4>2. CASE i # m
        <5>1. i \in 1 .. m - 1 /\ h[i] = g[i] /\ (i # 1 => h[i - 1] = g[i - 1])
          BY <3>3, <4>2
        <5>2. g[i] = IF i = 1 THEN seqs[i] ELSE g[i - 1] \o seqs[i]
          BY <3>4, <5>1
        <5> QED BY <5>1, <5>2
      <4> QED BY <4>1, <4>2
    <3>6. F(h, m)
      BY <3>5
    <3> QED BY <3>1, <3>6
  <2> DEFINE flatten == CHOOSE g : F(g, n)
  <2>2. F(flatten, n)
    BY <1>1, <2>1
  <2>3. FlattenSeq(seqs) = flatten[n]
    BY <1>3 DEF FlattenSeq
  <2> HIDE DEF flatten
  <2>4. \A i \in 1 .. n : flatten[i] = IF i = 1 THEN seqs[i] ELSE flatten[i - 1] \o seqs[i]
    BY <2>2
  <2> DEFINE Odd == {i \in 1 .. n : flatten[i] \notin Seq(R)}
  <2>5. ASSUME Odd # {} PROVE FALSE
    <3>1. Odd \in SUBSET Nat
      BY <1>1
    <3>2. PICK i \in Odd : \A y \in Odd : i <= y
      BY <2>5, <3>1, LeastNumber
    <3>3. CASE i = 1
      BY <1>1, <2>4, <3>2, <3>3
    <3>4. CASE i # 1
      <4>1. i - 1 \in 1 .. n /\ i - 1 \notin Odd
        BY <1>1, <3>2, <3>4
      <4>2. flatten[i - 1] \in Seq(R) /\ seqs[i] \in Seq(R)
        BY <1>1, <3>2, <4>1
      <4>3. flatten[i - 1] \o seqs[i] \in Seq(R)
        BY <4>2
      <4>4. flatten[i] = flatten[i - 1] \o seqs[i]
        BY <2>4, <3>2, <3>4
      <4> QED BY <3>2, <4>3, <4>4
    <3> QED BY <3>3, <3>4
  <2>6. n \in 1 .. n /\ (n = 1 => flatten[n] = seqs[1])
    BY <1>1, <1>3, <2>4
  <2> QED BY <2>3, <2>5, <2>6
<1> QED BY <1>2, <1>3

\* What a command begins with comes from its sources; the records of one source
\* are told apart; no GRPO record is left that has to be excluded.
LEMMA RowsOfCommand ==
    ASSUME NEW c \in Commands
    PROVE  /\ NormalizedRows(c) \in Seq(SoundRecords(RequiresProof(c)))
           /\ c.role = "sft" => Distinct(NormalizedRows(c), TRUE)
           /\ c.role = "grpo" /\ c.exclude =>
                \A i \in DOMAIN NormalizedRows(c) : ~ Excluded(NormalizedRows(c)[i])
<1> DEFINE b == RequiresProof(c)
           each == [k \in DOMAIN c.sources |-> Normalize(c.sources[k], b, c.limit)]
           rows == FlattenSeq(each)
           R == SoundRecords(b)
           same(r, q) == r.stmt = q.stmt /\ Completion(r.proof) = Completion(q.proof)
           first == {i \in DOMAIN rows : \A j \in 1 .. i - 1 : ~ same(rows[j], rows[i])}
           kept == {i \in DOMAIN rows : ~ Excluded(rows[i])}
<1>1. b \in BOOLEAN /\ b = (c.role # "grpo")
  BY DEF RequiresProof
<1>2. \A k \in DOMAIN c.sources :
        /\ Normalize(c.sources[k], b, c.limit) \in Seq(R)
        /\ Distinct(Normalize(c.sources[k], b, c.limit), b)
  <2>1. \A k \in DOMAIN c.sources : c.sources[k] \in Seq(SourceRows)
    BY Sources
  <2> QED BY <1>1, <2>1, Sources, NormalizeKeeps
<1>3. each \in Seq(Seq(R)) /\ Len(each) = Len(c.sources)
  <2>1. DOMAIN c.sources = 1 .. Len(c.sources) /\ Len(c.sources) \in Nat
    BY Sources
  <2> HIDE DEF R, b
  <2> QED BY <1>2, <2>1
<1>4. rows \in Seq(R)
  BY <1>3, FlattenIs
<1>5. c.role # "unify" => rows = each[1] /\ Distinct(rows, b)
  <2> SUFFICES ASSUME c.role # "unify" PROVE rows = each[1] /\ Distinct(rows, b)
    OBVIOUS
  <2>1. Len(each) = 1 /\ 1 \in DOMAIN c.sources
    BY <1>3, Sources
  <2>2. rows = each[1]
    BY <1>3, <2>1, FlattenIs
  <2> QED BY <1>2, <2>1, <2>2
<1>6. NormalizedRows(c) = CASE c.role = "unify" -> Keep(rows, first)
                            [] c.role = "grpo" /\ c.exclude -> Keep(rows, kept)
                            [] OTHER -> rows
  BY DEF NormalizedRows, DropRepeated
<1> HIDE DEF rows
<1>7. Keep(rows, first) \in Seq(R)
  <2>1. first \in SUBSET DOMAIN rows
    OBVIOUS
  <2> HIDE DEF first
  <2> QED BY <1>4, <2>1, KeepIs
<1>8. Keep(rows, kept) \in Seq(R)
      /\ \A k \in DOMAIN Keep(rows, kept) : ~ Excluded(Keep(rows, kept)[k])
  <2>1. kept \in SUBSET DOMAIN rows /\ \A i \in kept : ~ Excluded(rows[i])
    OBVIOUS
  <2> HIDE DEF kept, R
  <2>2. PICK q \in [1 .. Cardinality(kept) -> kept] :
          \A k \in 1 .. Cardinality(kept) : Keep(rows, kept)[k] = rows[q[k]]
    BY <1>4, <2>1, KeepIs
  <2>3. /\ Keep(rows, kept) \in Seq(R)
        /\ DOMAIN Keep(rows, kept) = 1 .. Cardinality(kept)
    BY <1>4, <2>1, KeepIs
  <2> QED BY <2>1, <2>2, <2>3
<1> HIDE DEF first, kept, R
<1>9. CASE c.role = "unify"
  BY <1>6, <1>7, <1>9 DEF R
<1>10. CASE c.role = "grpo" /\ c.exclude
  BY <1>6, <1>8, <1>10 DEF R
<1>11. CASE c.role # "unify" /\ ~ (c.role = "grpo" /\ c.exclude)
  BY <1>1, <1>4, <1>5, <1>6, <1>11 DEF R
<1> QED BY <1>9, <1>10, <1>11
-------------------------------------------------------------------------------
(* The inductive invariant.                                                  *)

Taken(t) == \E r \in SourceRows :
    /\ t = [stmt |-> r.stmt, completion |-> Completion(r.proof)]
    /\ r.attested \/ Reaction(Declaration(r, TRUE)) = "accepts"
    /\ \/ Reworded(r.proof)
       \/ r.attested /\ t.completion = r.proof
       \/ Reaction(<<t.stmt, t.completion>>) = "accepts"

\* What was accepted is what Lean accepts, at its own position.
Judged == pc = "verify" =>
    /\ pending \cup accepted \subseteq DOMAIN records
    /\ \A i \in accepted : Reaction(TaskOf(records, i)) = "accepts"

\* What is written, and what is still to write, comes from these records.
Written == pc = "write" =>
    /\ left \in Seq(FileNames) /\ left # <<>>
    /\ Range(left) \subseteq Range(FilesOf(command))
    /\ DOMAIN outputs = Range(FilesOf(command))
    /\ \A name \in DOMAIN outputs :
        outputs[name] \in Seq(SoundRecords(RequiresProof(command)))
TrainFile == \A i \in DOMAIN files["train"] : Taken(files["train"][i])

Split(train, validation) ==
    LET total == Len(train) + Len(validation)
    IN /\ \A i \in DOMAIN train, j \in DOMAIN validation :
            ContentKey(train[i], TRUE) # ContentKey(validation[j], TRUE)
       /\ total = Cardinality({r.id : r \in Range(train) \cup Range(validation)})
       /\ total >= 2 => Len(validation) = ValidationCount(total)
Divided == command.role = "sft" =>
    /\ pc \in {"verify", "divide"} => Distinct(records, TRUE)
    /\ pc \in {"write", "done"} /\ command.divide =>
          Split(outputs["train"], outputs["validation"])

NoneExcluded(rs) == \A i \in DOMAIN rs : ~ Excluded(rs[i])
Excluding == command.role = "grpo" /\ command.exclude =>
    /\ pc \in {"verify", "divide"} => NoneExcluded(records)
    /\ pc = "write" => \A name \in DOMAIN outputs : NoneExcluded(outputs[name])
    /\ pc \in {"write", "done"} =>
          \A name \in Range(FilesOf(command)) \ Range(left) : NoneExcluded(files[name])
    /\ pc = "done" => left = <<>>

PrepTypes ==
    /\ command \in Commands /\ DOMAIN files = FileNames
    /\ records \in Seq(SoundRecords(RequiresProof(command)))
PrepInv ==
    /\ PrepTypes /\ Judged /\ Written /\ TrainFile /\ Divided /\ Excluding
    /\ InnocentVerdict /\ TrainsOnVerified

LEMMA Prepared == ASSUME Init PROVE PrepInv
<1>1. \A name \in FileNames : files[name] = <<>>
  BY DEF Init
<1>2. records = <<>> /\ pc = "idle" /\ rejected = {} /\ trained = {}
      /\ command \in Commands /\ DOMAIN files = FileNames
  BY DEF Init
<1>3. "train" \in FileNames
  BY DEF FileNames
<1>4. <<>> \in Seq(SoundRecords(RequiresProof(command)))
  OBVIOUS
<1>5. PrepTypes /\ Judged /\ Written /\ Excluding /\ Divided
  BY <1>2, <1>4 DEF PrepTypes, Judged, Written, Excluding, Divided
<1>6. TrainFile
  BY <1>1, <1>3 DEF TrainFile
<1>7. InnocentVerdict /\ TrainsOnVerified
  BY <1>2 DEF InnocentVerdict, TrainsOnVerified
<1> QED BY <1>5, <1>6, <1>7 DEF PrepInv

LEMMA RecordsOf ==
    ASSUME NEW b, NEW rs \in Seq(SoundRecords(b)), NEW i \in DOMAIN rs
    PROVE  rs[i] \in Records /\ Sound(rs[i], b)
  BY DEF SoundRecords

\* A record's declaration is that of its row.
LEMMA TaskIsOfRow ==
    ASSUME NEW b \in BOOLEAN, NEW r, NEW row, r.stmt = row.stmt, r.proof = row.proof
    PROVE  Declaration(r, b) = Declaration(row, b)
  BY DEF Declaration

-------------------------------------------------------------------------------
(* Verification.                                                             *)

\* The worker's verdict is Lean's: a time-out or a dead server is put down to
\* the source that caused it, for a server found dead is replaced first.
LEMMA VerifyHonest ==
    ASSUME NEW server, NEW task, Reaction(task.source) \in Reactions,
           NEW o \in Verify(server, task)
    PROVE  /\ o[1] = "accepted" => Reaction(task.source) = "accepts"
           /\ o[1] = "timeout" => Reaction(task.source) = "times_out"
           /\ o[1] = "gone" => Reaction(task.source) = "kills"
<1> DEFINE V(s) == Check(s, task.source, task.rejectForbidden)
<1>1. ASSUME NEW s, NEW p \in V(s)
      PROVE  /\ p[1] = "accepted" => Reaction(task.source) = "accepts"
             /\ p[1] = "timeout" => Reaction(task.source) = "times_out"
             /\ p[1] = "gone" => Reaction(task.source) = "kills" \/ s = "down"
  BY <1>1 DEF Check, Reactions
<1>2. \/ o[1] = "uncovered" \/ o[1] = "raises"
      \/ o \in V(server) /\ ~ ShouldRestart(o[1])
      \/ o \in V("up")
  <2> HIDE DEF V
  <2>1. CASE ~ Covered(task.imports, task.serverImports)
    BY <2>1 DEF Verify
  <2>2. CASE Covered(task.imports, task.serverImports)
    BY <2>2 DEF Verify, V
  <2> QED BY <2>1, <2>2
<1> QED BY <1>1, <1>2 DEF ShouldRestart

LEMMA ReactionTo ==
    ASSUME PrepTypes, NEW i \in DOMAIN records
    PROVE  /\ Task(i).source = TaskOf(records, i)
           /\ Reaction(TaskOf(records, i)) \in Reactions
<1>1. RequiresProof(command) \in BOOLEAN
  BY DEF RequiresProof
<1>2. PICK row \in SourceRows : records[i].stmt = row.stmt /\ records[i].proof = row.proof
  BY RecordsOf DEF PrepTypes, Sound
<1>3. TaskOf(records, i) = Declaration(row, RequiresProof(command))
  BY <1>1, <1>2, TaskIsOfRow DEF TaskOf
<1> QED BY <1>1, <1>3, ReactionAssumption DEF Task

LEMMA JudgeKeeps ==
    ASSUME PrepInv, NEW w \in Workers, NEW i \in pending, Judge(w, i)
    PROVE  PrepInv'
<1>1. /\ UNCHANGED <<pc, command, records, outputs, left, disk, trained>>
      /\ pc = "verify" /\ UNCHANGED <<files, written>>
  BY DEF Judge, disk
<1>2. PICK o \in Verify(servers[w], Task(i)) :
        \/ UNCHANGED <<pending, accepted, rejected>>
        \/ /\ pending' = pending \ {i}
           /\ accepted' = IF Succeeds(o[1]) THEN accepted \cup {i} ELSE accepted
           /\ rejected' = IF Succeeds(o[1]) THEN rejected ELSE rejected \cup {<<i, o[1]>>}
  BY DEF Judge
<1>3. i \in DOMAIN records /\ pending \cup accepted \subseteq DOMAIN records
      /\ \A j \in accepted : Reaction(TaskOf(records, j)) = "accepts"
  BY <1>1 DEF PrepInv, Judged
<1>4. /\ Task(i).source = TaskOf(records, i)
      /\ Reaction(TaskOf(records, i)) \in Reactions
  BY <1>3, ReactionTo DEF PrepInv
<1>5. /\ o[1] = "accepted" => Reaction(TaskOf(records, i)) = "accepts"
      /\ o[1] = "timeout" => Reaction(TaskOf(records, i)) = "times_out"
      /\ o[1] = "gone" => Reaction(TaskOf(records, i)) = "kills"
  BY <1>2, <1>4, VerifyHonest
<1>6. \A j : TaskOf(records, j)' = TaskOf(records, j)
  BY <1>1 DEF TaskOf, RequiresProof
<1>7. Judged'
  <2>1. /\ pending' \cup accepted' \subseteq DOMAIN records
        /\ \A j \in accepted' : j \in accepted \/ (j = i /\ o[1] = "accepted")
    BY <1>2, <1>3 DEF Succeeds
  <2>2. \A j \in accepted' : Reaction(TaskOf(records, j)) = "accepts"
    BY <1>3, <1>5, <2>1
  <2> QED BY <1>1, <1>6, <2>1, <2>2 DEF Judged
<1>8. InnocentVerdict'
  <2>1. \A v \in rejected' : v \in rejected \/ v = <<i, o[1]>>
    BY <1>2
  <2>2. \A v \in rejected' : v[2] \in {"gone", "timeout"} =>
            Reaction(TaskOf(records, v[1])) \in {"times_out", "kills"}
    BY <1>5, <2>1 DEF PrepInv, InnocentVerdict
  <2> QED BY <1>6, <2>2 DEF InnocentVerdict
<1>9. (PrepTypes /\ Written /\ TrainFile /\ Divided /\ Excluding /\ TrainsOnVerified)'
  BY <1>1 DEF PrepInv, PrepTypes, Written, TrainFile, Divided, Excluding, NoneExcluded,
              Excluded, TrainsOnVerified, SoundRecords, Sound, RequiresProof
<1> QED BY <1>7, <1>8, <1>9 DEF PrepInv
\* The steps that stop a build.
LEMMA StopKeeps ==
    ASSUME PrepInv, PoolFails \/ Crash
    PROVE  PrepInv'
<1>1. /\ UNCHANGED <<command, records, files, trained>> /\ rejected' = {}
      /\ pc' \in {"idle", "failed"}
  BY DEF PoolFails, Crash, disk
<1>2. (PrepTypes /\ TrainFile /\ TrainsOnVerified /\ InnocentVerdict)'
  BY <1>1 DEF PrepInv, PrepTypes, TrainFile, TrainsOnVerified, InnocentVerdict
<1>3. (Judged /\ Written /\ Divided /\ Excluding)'
  BY <1>1 DEF Judged, Written, Divided, Excluding
<1> QED BY <1>2, <1>3 DEF PrepInv

\* Keeping rows of a list keeps what is said of every row, and of every two.
LEMMA KeepKeeps ==
    ASSUME NEW b, NEW rs \in Seq(SoundRecords(b)), NEW at \in SUBSET DOMAIN rs
    PROVE  /\ Keep(rs, at) \in Seq(SoundRecords(b))
           /\ Distinct(rs, TRUE) => Distinct(Keep(rs, at), TRUE)
           /\ NoneExcluded(rs) => NoneExcluded(Keep(rs, at))
<1> DEFINE kept == Keep(rs, at)
           c == Cardinality(at)
<1>1. PICK q \in [1 .. c -> at] :
        /\ \A k \in 1 .. c : kept[k] = rs[q[k]]
        /\ \A k, l \in 1 .. c : k # l => q[k] # q[l]
  BY KeepIs
<1>2. kept \in Seq(SoundRecords(b)) /\ DOMAIN kept = 1 .. c
  BY KeepIs
<1> HIDE DEF kept, c
<1>3. Distinct(rs, TRUE) => Distinct(kept, TRUE)
  <2> SUFFICES ASSUME Distinct(rs, TRUE), NEW k \in 1 .. c, NEW l \in 1 .. c, k # l
               PROVE  /\ kept[k].id # kept[l].id
                      /\ ContentKey(kept[k], TRUE) # ContentKey(kept[l], TRUE)
    BY <1>2 DEF Distinct
  <2>1. q[k] \in DOMAIN rs /\ q[l] \in DOMAIN rs /\ q[k] # q[l]
    BY <1>1
  <2>2. /\ rs[q[k]].id # rs[q[l]].id
        /\ ContentKey(rs[q[k]], TRUE) # ContentKey(rs[q[l]], TRUE)
    BY <2>1 DEF Distinct
  <2>3. kept[k] = rs[q[k]] /\ kept[l] = rs[q[l]]
    BY <1>1
  <2> QED BY <2>2, <2>3
<1>4. NoneExcluded(rs) => NoneExcluded(kept)
  BY <1>1, <1>2 DEF NoneExcluded
<1> QED BY <1>2, <1>3, <1>4 DEF kept

\* A record Lean accepted may be marked so.
LEMMA AcceptedIsSound ==
    ASSUME NEW b \in BOOLEAN, NEW r \in SoundRecords(b), Reaction(Declaration(r, b)) = "accepts"
    PROVE  [r EXCEPT !.verified = TRUE] \in SoundRecords(b)
<1> DEFINE s == [r EXCEPT !.verified = TRUE]
<1>1. PICK row \in SourceRows : r.stmt = row.stmt /\ r.proof = row.proof
  BY DEF SoundRecords, Sound
<1>2. s \in Records /\ s.stmt = r.stmt /\ s.proof = r.proof
  BY DEF SoundRecords, Records
<1>3. b => Reaction(Declaration(row, TRUE)) = "accepts"
  BY <1>1, TaskIsOfRow
<1>4. Sound(s, b)
  <2> HIDE DEF s
  <2> QED BY <1>1, <1>2, <1>3 DEF Sound
<1> QED BY <1>2, <1>4 DEF SoundRecords

LEMMA AllJudgedKeeps ==
    ASSUME PrepInv, AllJudged
    PROVE  PrepInv'
<1> DEFINE b == RequiresProof(command)
           kept == Keep(records, accepted)
           c == Cardinality(accepted)
           marked == [k \in DOMAIN kept |-> [kept[k] EXCEPT !.verified = TRUE]]
<1>1. /\ UNCHANGED <<command, files, trained>> /\ pc = "verify" /\ pc' = "divide"
      /\ rejected' = {} /\ records' = marked
  BY DEF AllJudged, disk
<1>2. records \in Seq(SoundRecords(b)) /\ b \in BOOLEAN
  BY DEF PrepInv, PrepTypes, RequiresProof
<1>3. accepted \in SUBSET DOMAIN records
      /\ \A i \in accepted : Reaction(Declaration(records[i], b)) = "accepts"
  BY <1>1 DEF PrepInv, Judged, TaskOf
<1>4. /\ kept \in Seq(SoundRecords(b))
      /\ Distinct(records, TRUE) => Distinct(kept, TRUE)
      /\ NoneExcluded(records) => NoneExcluded(kept)
  BY <1>2, <1>3, KeepKeeps
<1>5. PICK q \in [1 .. c -> accepted] : \A k \in 1 .. c : kept[k] = records[q[k]]
  <2> DEFINE R == SoundRecords(b)
  <2>1. records \in Seq(R) /\ accepted \in SUBSET DOMAIN records
    BY <1>2, <1>3
  <2> HIDE DEF R, b, marked
  <2>2. \E f \in [1 .. Cardinality(accepted) -> accepted] :
            /\ \A k \in 1 .. Cardinality(accepted) : Keep(records, accepted)[k] = records[f[k]]
            /\ \A k, l \in 1 .. Cardinality(accepted) : k # l => f[k] # f[l]
            /\ \A i \in accepted : \E k \in 1 .. Cardinality(accepted) : f[k] = i
    BY <2>1, KeepIs
  <2> QED BY <2>2
<1>6. DOMAIN kept = 1 .. c /\ c \in Nat
  BY <1>2, <1>3, KeepIs
<1> HIDE DEF kept, c
<1>7. \A k \in 1 .. c : Reaction(Declaration(kept[k], b)) = "accepts"
                        /\ kept[k] \in SoundRecords(b)
  BY <1>3, <1>4, <1>5, <1>6
<1>8. \A k \in 1 .. c :
        /\ [kept[k] EXCEPT !.verified = TRUE] \in SoundRecords(b)
        /\ [kept[k] EXCEPT !.verified = TRUE].id = kept[k].id
        /\ [kept[k] EXCEPT !.verified = TRUE].stmt = kept[k].stmt
        /\ [kept[k] EXCEPT !.verified = TRUE].proof = kept[k].proof
  BY <1>2, <1>7, AcceptedIsSound DEF SoundRecords, Records
<1>9. /\ marked \in Seq(SoundRecords(b)) /\ DOMAIN marked = 1 .. c
      /\ \A k \in 1 .. c : marked[k].id = kept[k].id /\ marked[k].stmt = kept[k].stmt
                           /\ marked[k].proof = kept[k].proof
  <2> DEFINE mark(k) == [kept[k] EXCEPT !.verified = TRUE]
  <2>1. marked = [k \in 1 .. c |-> mark(k)]
    BY <1>6
  <2> HIDE DEF b, mark
  <2>2. \A k \in 1 .. c : /\ mark(k) \in SoundRecords(b) /\ mark(k).id = kept[k].id
                         /\ mark(k).stmt = kept[k].stmt /\ mark(k).proof = kept[k].proof
    BY <1>8 DEF mark
  <2> HIDE DEF marked
  <2> QED BY <1>6, <2>1, <2>2
<1> HIDE DEF marked
<1>10. PrepTypes'
  BY <1>1, <1>9 DEF PrepInv, PrepTypes, RequiresProof
<1>11. Divided'
  <2>1. \A k \in 1 .. c : ContentKey(marked[k], TRUE) = ContentKey(kept[k], TRUE)
    BY <1>9 DEF ContentKey
  <2>2. command.role = "sft" => Distinct(marked, TRUE)
    <3> SUFFICES ASSUME command.role = "sft" PROVE Distinct(marked, TRUE)
      OBVIOUS
    <3>1. Distinct(kept, TRUE)
      BY <1>1, <1>4 DEF PrepInv, Divided
    <3> QED BY <1>6, <1>9, <2>1, <3>1 DEF Distinct
  <2> QED BY <1>1, <2>2 DEF Divided
<1>12. Excluding'
  <2>1. command.role = "grpo" /\ command.exclude => NoneExcluded(marked)
    BY <1>1, <1>4, <1>6, <1>9 DEF PrepInv, Excluding, NoneExcluded, Excluded
  <2> QED BY <1>1, <2>1 DEF Excluding, NoneExcluded, Excluded
<1>13. (Judged /\ Written /\ TrainFile /\ TrainsOnVerified /\ InnocentVerdict)'
  BY <1>1 DEF PrepInv, Judged, Written, TrainFile, TrainsOnVerified, InnocentVerdict
<1> QED BY <1>10, <1>11, <1>12, <1>13 DEF PrepInv

-------------------------------------------------------------------------------
(* A build begins.                                                           *)

LEMMA BuildKeeps ==
    ASSUME PrepInv, NEW c \in Commands, Build(c)
    PROVE  PrepInv'
<1> DEFINE rs == NormalizedRows(c)
           refused == {i \in DOMAIN rs : Quotes(rs[i].stmt)}
<1>1. /\ command' = c /\ records' = rs /\ UNCHANGED <<files, trained>>
      /\ pc' \in {"failed", "verify", "divide"}
      /\ pending' \subseteq DOMAIN rs /\ accepted' = {}
      /\ rejected' \in {refused \X {"forbidden"}, {}}
  BY DEF Build, disk
<1>2. /\ rs \in Seq(SoundRecords(RequiresProof(c)))
      /\ c.role = "sft" => Distinct(rs, TRUE)
      /\ c.role = "grpo" /\ c.exclude => NoneExcluded(rs)
  BY RowsOfCommand DEF NoneExcluded
<1> HIDE DEF rs
<1>3. PrepTypes'
  BY <1>1, <1>2 DEF PrepInv, PrepTypes, RequiresProof
<1>4. Divided'
  BY <1>1, <1>2 DEF Divided
<1>5. Excluding'
  BY <1>1, <1>2 DEF Excluding, NoneExcluded, Excluded
<1>6. InnocentVerdict'
  <2>1. \A v \in rejected' : v[2] = "forbidden"
    BY <1>1
  <2> QED BY <2>1 DEF InnocentVerdict
<1>7. (Judged /\ Written /\ TrainFile /\ TrainsOnVerified)'
  BY <1>1 DEF PrepInv, Judged, Written, TrainFile, TrainsOnVerified
<1> QED BY <1>3, <1>4, <1>5, <1>6, <1>7 DEF PrepInv
-------------------------------------------------------------------------------
(* Division.                                                                 *)

LEMMA Concat ==
    ASSUME NEW S, NEW s \in Seq(S), NEW t \in Seq(S)
    PROVE  /\ s \o t \in Seq(S) /\ Len(s \o t) = Len(s) + Len(t)
           /\ Range(s \o t) = Range(s) \cup Range(t)
<1> DEFINE u == s \o t
<1>1. u \in Seq(S) /\ Len(u) = Len(s) + Len(t)
  OBVIOUS
<1>2. /\ \A i \in 1 .. Len(s) : u[i] = s[i]
      /\ \A i \in 1 .. Len(t) : u[Len(s) + i] = t[i]
  OBVIOUS
<1>3. \A i \in 1 .. Len(u) : i \in 1 .. Len(s)
                              \/ \E k \in 1 .. Len(t) : i = Len(s) + k
  <2> SUFFICES ASSUME NEW i \in 1 .. Len(u), i \notin 1 .. Len(s)
               PROVE  i - Len(s) \in 1 .. Len(t) /\ i = Len(s) + (i - Len(s))
    OBVIOUS
  <2> QED BY <1>1
<1>4. DOMAIN u = 1 .. Len(u) /\ DOMAIN s = 1 .. Len(s) /\ DOMAIN t = 1 .. Len(t)
  BY <1>1
<1>5. \A k \in 1 .. Len(t) : Len(s) + k \in 1 .. Len(u)
  BY <1>1
<1>6. \A k \in 1 .. Len(s) : k \in 1 .. Len(u)
  BY <1>1
<1> HIDE DEF u
<1>7. ASSUME NEW x \in Range(u) PROVE x \in Range(s) \cup Range(t)
  <2>1. PICK i \in 1 .. Len(u) : x = u[i]
    BY <1>4 DEF Range
  <2>2. CASE i \in 1 .. Len(s)
    BY <1>2, <1>4, <2>1, <2>2 DEF Range
  <2>3. CASE \E k \in 1 .. Len(t) : i = Len(s) + k
    <3>1. PICK k \in 1 .. Len(t) : i = Len(s) + k
      BY <2>3
    <3>2. x = t[k]
      BY <1>2, <2>1, <3>1
    <3> QED BY <1>4, <3>2 DEF Range
  <2> QED BY <1>3, <2>2, <2>3
<1>8. ASSUME NEW x \in Range(s) \cup Range(t) PROVE x \in Range(u)
  <2>1. CASE x \in Range(s)
    <3>1. PICK k \in 1 .. Len(s) : x = s[k]
      BY <1>4, <2>1 DEF Range
    <3>2. x = u[k] /\ k \in 1 .. Len(u)
      BY <1>2, <1>6, <3>1
    <3> QED BY <1>4, <3>2 DEF Range
  <2>2. CASE x \in Range(t)
    <3>1. PICK k \in 1 .. Len(t) : x = t[k]
      BY <1>4, <2>2 DEF Range
    <3>2. x = u[Len(s) + k] /\ Len(s) + k \in 1 .. Len(u)
      BY <1>2, <1>5, <3>1
    <3> QED BY <1>4, <3>2 DEF Range
  <2> QED BY <1>8, <2>1, <2>2
<1>9. Range(u) = Range(s) \cup Range(t)
  BY <1>7, <1>8
<1> QED BY <1>1, <1>9 DEF u

LEMMA Names ==
    ASSUME NEW c \in Commands
    PROVE  /\ FilesOf(c) \in Seq(FileNames) /\ FilesOf(c) # <<>>
           /\ "train" \in Range(FilesOf(c)) => c.role # "grpo"
           /\ c.role = "grpo" => "manifest" \notin Range(FilesOf(c))
           /\ c.role = "sft" => "train" \in Range(FilesOf(c))
           /\ c.role = "sft" /\ c.divide => "validation" \in Range(FilesOf(c))
<1>1. CASE c.role = "unify"
  <2>1. FilesOf(c) = <<"manifest", "train">>
    BY <1>1 DEF FilesOf
  <2> QED BY <1>1, <2>1 DEF Range, FileNames
<1>2. CASE c.role = "sft"
  <2> DEFINE always == <<"train", "manifest">>
             more == IF c.divide THEN <<"validation", "validation.manifest">> ELSE <<>>
  <2>1. FilesOf(c) = always \o more
    BY <1>2 DEF FilesOf
  <2>2. /\ always \in Seq(FileNames) /\ Len(always) = 2 /\ "train" \in Range(always)
        /\ more \in Seq(FileNames) /\ (c.divide => "validation" \in Range(more))
    <3>1. always \in Seq(FileNames) /\ Len(always) = 2 /\ more \in Seq(FileNames)
      <4>1. c.divide => more = <<"validation", "validation.manifest">>
        OBVIOUS
      <4>2. ~ c.divide => more = <<>>
        OBVIOUS
      <4>3. <<"validation", "validation.manifest">> \in Seq(FileNames)
        BY DEF FileNames
      <4>4. always \in Seq(FileNames) /\ Len(always) = 2
        BY DEF FileNames
      <4>5. <<>> \in Seq(FileNames)
        OBVIOUS
      <4> HIDE DEF more
      <4> QED BY <4>1, <4>2, <4>3, <4>4, <4>5
    <3>2. /\ 1 \in DOMAIN always /\ always[1] = "train"
          /\ c.divide => 1 \in DOMAIN more /\ more[1] = "validation"
      OBVIOUS
    <3> QED BY <3>1, <3>2 DEF Range
  <2> HIDE DEF always, more
  <2>3. /\ FilesOf(c) \in Seq(FileNames) /\ Len(FilesOf(c)) = Len(always) + Len(more)
        /\ Range(FilesOf(c)) = Range(always) \cup Range(more)
    <3>1. always \in Seq(FileNames) /\ more \in Seq(FileNames)
      BY <2>2
    <3> QED BY <2>1, <3>1, Concat
  <2>4. FilesOf(c) # <<>>
    BY <2>2, <2>3
  <2> QED BY <1>2, <2>2, <2>3, <2>4
<1>3. CASE c.role = "grpo"
  <2> DEFINE always == <<"grpo", "grpo.manifest">>
             more == IF c.divide THEN <<"grpo.validation">> ELSE <<>>
  <2>1. FilesOf(c) = always \o more
    BY <1>3 DEF FilesOf
  <2>2. /\ always \in Seq(FileNames) /\ Len(always) = 2
        /\ more \in Seq(FileNames)
        /\ "train" \notin Range(always) \cup Range(more)
        /\ "manifest" \notin Range(always) \cup Range(more)
    BY DEF FileNames, Range
  <2> HIDE DEF always, more
  <2>3. /\ FilesOf(c) \in Seq(FileNames) /\ Len(FilesOf(c)) = Len(always) + Len(more)
        /\ Range(FilesOf(c)) = Range(always) \cup Range(more)
    <3>1. always \in Seq(FileNames) /\ more \in Seq(FileNames)
      BY <2>2
    <3> QED BY <2>1, <3>1, Concat
  <2>4. FilesOf(c) # <<>>
    BY <2>2, <2>3
  <2> QED BY <1>3, <2>2, <2>3, <2>4
<1> QED BY <1>1, <1>2, <1>3, Sources

\* Rows with distinct identifiers are divided: none is on both sides, none is
\* lost, and the share is the one asked for.
LEMMA DivisionSplits ==
    ASSUME command.divide, NEW b, NEW rows \in Seq(SoundRecords(b)), Distinct(rows, TRUE),
           NEW ids \in Divisions(rows)
    PROVE  Split(Held(rows, ids, FALSE), Held(rows, ids, TRUE))
<1> DEFINE n == Len(rows)
           P == {i \in DOMAIN rows : (rows[i].id \in ids) = FALSE}
           Q == {i \in DOMAIN rows : (rows[i].id \in ids) = TRUE}
           train == Keep(rows, P)
           validation == Keep(rows, Q)
           I == {rows[i].id : i \in 1 .. n}
           p == Cardinality(P)
           q == Cardinality(Q)
<1>1. n \in Nat /\ DOMAIN rows = 1 .. n /\ IsFiniteSet(1 .. n) /\ Cardinality(1 .. n) = n
  <2>1. n \in Nat /\ DOMAIN rows = 1 .. n
    OBVIOUS
  <2> QED BY <2>1, FS_Interval
<1>2. P \in SUBSET DOMAIN rows /\ Q \in SUBSET DOMAIN rows
      /\ P = (1 .. n) \ Q /\ (1 .. n) \cap Q = Q
  BY <1>1
<1>3. p = n - q /\ p \in Nat /\ q \in Nat
  <2> HIDE DEF P, Q, n
  <2>1. IsFiniteSet(P) /\ IsFiniteSet(Q)
    BY <1>1, <1>2, FS_Subset
  <2>2. p \in Nat /\ q \in Nat
    BY <2>1, FS_CardinalityType
  <2>3. Cardinality((1 .. n) \ Q) = Cardinality(1 .. n) - Cardinality((1 .. n) \cap Q)
    BY <1>1, FS_Difference
  <2> QED BY <1>1, <1>2, <2>2, <2>3
<1>4. n >= 2 => q = ValidationCount(n)
  <2> SUFFICES ASSUME n >= 2 PROVE q = ValidationCount(n)
    OBVIOUS
  <2>1. ids \in {{rows[i].id : i \in picked} :
            picked \in {s \in SUBSET DOMAIN rows : Cardinality(s) = ValidationCount(Len(rows))}}
    BY <1>1 DEF Divisions
  <2>2. PICK picked \in SUBSET DOMAIN rows :
            /\ Cardinality(picked) = ValidationCount(n)
            /\ ids = {rows[i].id : i \in picked}
    BY <2>1
  <2>3. \A i \in DOMAIN rows : rows[i].id \in ids <=> i \in picked
    BY <2>2 DEF Distinct
  <2>4. Q = picked
    BY <2>2, <2>3
  <2> QED BY <2>2, <2>4
<1>5. \E m \in [1 .. Cardinality(P) -> P] :
        /\ \A k \in 1 .. Cardinality(P) : Keep(rows, P)[k] = rows[m[k]]
        /\ \A k, l \in 1 .. Cardinality(P) : k # l => m[k] # m[l]
        /\ \A i \in P : \E k \in 1 .. Cardinality(P) : m[k] = i
  <2>1. P \in SUBSET DOMAIN rows
    BY <1>2
  <2> HIDE DEF P, Q, I, n
  <2> QED BY <2>1, KeepIs
<1>6. \E m \in [1 .. Cardinality(Q) -> Q] :
        /\ \A k \in 1 .. Cardinality(Q) : Keep(rows, Q)[k] = rows[m[k]]
        /\ \A k, l \in 1 .. Cardinality(Q) : k # l => m[k] # m[l]
        /\ \A i \in Q : \E k \in 1 .. Cardinality(Q) : m[k] = i
  <2>1. Q \in SUBSET DOMAIN rows
    BY <1>2
  <2> HIDE DEF P, Q, I, n
  <2> QED BY <2>1, KeepIs
<1>7. /\ train \in Seq(SoundRecords(b)) /\ Len(train) = p
      /\ validation \in Seq(SoundRecords(b)) /\ Len(validation) = q
  <2> HIDE DEF P, Q
  <2> QED BY <1>2, KeepIs
<1>8. DOMAIN train = 1 .. p /\ DOMAIN validation = 1 .. q
  <2> HIDE DEF train, validation, p, q
  <2> QED BY <1>7
<1>9. PICK f \in [1 .. p -> P] :
        /\ \A k \in 1 .. p : train[k] = rows[f[k]]
        /\ \A i \in P : \E k \in 1 .. p : f[k] = i
  <2> HIDE DEF P, Q, I, n
  <2> QED BY <1>5
<1>10. PICK g \in [1 .. q -> Q] :
        /\ \A k \in 1 .. q : validation[k] = rows[g[k]]
        /\ \A i \in Q : \E k \in 1 .. q : g[k] = i
  <2> HIDE DEF P, Q, I, n
  <2> QED BY <1>6
<1> HIDE DEF train, validation, p, q
<1>11. \A i \in DOMAIN train, j \in DOMAIN validation :
        ContentKey(train[i], TRUE) # ContentKey(validation[j], TRUE)
  <2> SUFFICES ASSUME NEW i \in 1 .. p, NEW j \in 1 .. q
               PROVE  ContentKey(train[i], TRUE) # ContentKey(validation[j], TRUE)
    BY <1>8
  <2>1. f[i] \in P /\ g[j] \in Q
    BY <1>9, <1>10
  <2>2. f[i] \in DOMAIN rows /\ g[j] \in DOMAIN rows /\ f[i] # g[j]
    BY <2>1
  <2>3. ContentKey(rows[f[i]], TRUE) # ContentKey(rows[g[j]], TRUE)
    BY <2>2 DEF Distinct
  <2> QED BY <1>9, <1>10, <2>3
<1>12. I = {r.id : r \in Range(train) \cup Range(validation)}
  <2>1. ASSUME NEW r \in Range(train) \cup Range(validation)
        PROVE  \E i \in 1 .. n : r.id = rows[i].id
    <3>1. CASE r \in Range(train)
      <4>1. PICK k \in 1 .. p : r = train[k]
        BY <1>8, <3>1 DEF Range
      <4>2. f[k] \in 1 .. n
        BY <1>1, <1>9
      <4> QED BY <1>9, <4>1, <4>2
    <3>2. CASE r \in Range(validation)
      <4>1. PICK k \in 1 .. q : r = validation[k]
        BY <1>8, <3>2 DEF Range
      <4>2. g[k] \in 1 .. n
        BY <1>1, <1>10
      <4> QED BY <1>10, <4>1, <4>2
    <3> QED BY <2>1, <3>1, <3>2
  <2>2. ASSUME NEW i \in 1 .. n
        PROVE  \E r \in Range(train) \cup Range(validation) : rows[i].id = r.id
    <3>1. i \in P \/ i \in Q
      BY <1>2
    <3>2. CASE i \in P
      <4>1. PICK k \in 1 .. p : f[k] = i
        BY <1>9, <3>2
      <4>2. train[k] \in Range(train)
        BY <1>8, <4>1 DEF Range
      <4> QED BY <1>9, <4>1, <4>2
    <3>3. CASE i \in Q
      <4>1. PICK k \in 1 .. q : g[k] = i
        BY <1>10, <3>3
      <4>2. validation[k] \in Range(validation)
        BY <1>8, <4>1 DEF Range
      <4> QED BY <1>10, <4>1, <4>2
    <3> QED BY <3>1, <3>2, <3>3
  <2> DEFINE both == Range(train) \cup Range(validation)
  <2> HIDE DEF both
  <2>3. /\ \A r \in both : \E i \in 1 .. n : r.id = rows[i].id
        /\ \A i \in 1 .. n : \E r \in both : rows[i].id = r.id
    BY <2>1, <2>2 DEF both
  <2>4. I = {r.id : r \in both}
    <3>1. ASSUME NEW x \in I PROVE x \in {r.id : r \in both}
      <4>1. PICK i \in 1 .. n : x = rows[i].id
        OBVIOUS
      <4>2. PICK r \in both : rows[i].id = r.id
        BY <2>3
      <4> QED BY <4>1, <4>2
    <3>2. ASSUME NEW x \in {r.id : r \in both} PROVE x \in I
      <4>1. PICK r \in both : x = r.id
        OBVIOUS
      <4>2. PICK i \in 1 .. n : r.id = rows[i].id
        BY <2>3
      <4> QED BY <4>1, <4>2
    <3> QED BY <3>1, <3>2
  <2> QED BY <2>4 DEF both
<1>13. Cardinality(I) = n
  <2> DEFINE h == [i \in 1 .. n |-> rows[i].id]
  <2>1. \A i, j \in 1 .. n : h[i] = h[j] => i = j
    BY <1>1 DEF Distinct
  <2>2. h \in [1 .. n -> I] /\ \A x \in I : \E i \in 1 .. n : h[i] = x
    OBVIOUS
  <2>3. h \in Bijection(1 .. n, I)
    <3> HIDE DEF h, I
    <3> QED BY <2>1, <2>2 DEF Bijection, Injection, Surjection, IsInjective
  <2> HIDE DEF h, I, n
  <2> QED BY <1>1, <2>3, FS_Bijection DEF ExistsBijection
<1>14. Len(train) + Len(validation) = n
  BY <1>1, <1>3, <1>7
<1>15. Held(rows, ids, FALSE) = train /\ Held(rows, ids, TRUE) = validation
  BY DEF Held, train, validation
<1> HIDE DEF I
<1>16. Split(train, validation)
  BY <1>4, <1>7, <1>11, <1>12, <1>13, <1>14 DEF Split
<1> QED BY <1>15, <1>16

LEMMA DivideKeeps ==
    ASSUME PrepInv, Divide
    PROVE  PrepInv'
<1> DEFINE b == RequiresProof(command)
           fits == {i \in DOMAIN records : Fits(records[i])}
           rows == IF command.role = "unify" THEN records ELSE Keep(records, fits)
           held(name) == name \in {"validation", "validation.manifest", "grpo.validation"}
<1>1. /\ UNCHANGED <<command, records, files, trained, rejected>>
      /\ pc = "divide" /\ pc' = "write" /\ left' = FilesOf(command)
  BY DEF Divide, disk, pool
<1>2. PICK ids \in Divisions(rows) :
        outputs' = [name \in Range(FilesOf(command)) |-> Held(rows, ids, held(name))]
  BY DEF Divide
<1>3. /\ rows \in Seq(SoundRecords(b))
      /\ Distinct(records, TRUE) => Distinct(rows, TRUE)
      /\ NoneExcluded(records) => NoneExcluded(rows)
  <2>1. fits \in SUBSET DOMAIN records /\ records \in Seq(SoundRecords(b))
    BY DEF PrepInv, PrepTypes
  <2> HIDE DEF fits, b
  <2> QED BY <2>1, KeepKeeps
<1> HIDE DEF rows
<1>4. ASSUME NEW h
      PROVE  /\ Held(rows, ids, h) \in Seq(SoundRecords(b))
             /\ NoneExcluded(rows) => NoneExcluded(Held(rows, ids, h))
  <2> DEFINE at == {i \in DOMAIN rows : (rows[i].id \in ids) = h}
  <2>1. at \in SUBSET DOMAIN rows
    OBVIOUS
  <2>2. Held(rows, ids, h) = Keep(rows, at)
    BY DEF Held
  <2> HIDE DEF at, b
  <2> QED BY <1>3, <2>1, <2>2, KeepKeeps
<1> DEFINE names == Range(FilesOf(command))
<1>5. DOMAIN outputs' = names /\ \A name \in names : outputs'[name] = Held(rows, ids, held(name))
  BY <1>2
<1>6. command \in Commands
  BY DEF PrepInv, PrepTypes
<1>7. Written'
  <2>1. \A name \in names : outputs'[name] \in Seq(SoundRecords(b))
    <3> HIDE DEF held, b
    <3> QED BY <1>4, <1>5
  <2>2. Range(left') \subseteq names /\ left' \in Seq(FileNames) /\ left' # <<>>
    BY <1>1, <1>6, Names
  <2>3. command' = command /\ SoundRecords(RequiresProof(command)') = SoundRecords(b)
        /\ Range(FilesOf(command))' = names
    BY <1>1 DEF RequiresProof, FilesOf
  <2> HIDE DEF names, b
  <2> QED BY <1>5, <2>1, <2>2, <2>3 DEF Written
<1>8. Divided'
  <2> SUFFICES ASSUME command.role = "sft", command.divide
               PROVE  Split(outputs'["train"], outputs'["validation"])
    BY <1>1 DEF Divided
  <2>1. "train" \in names /\ "validation" \in names
    BY <1>6, Names
  <2>2. outputs'["train"] = Held(rows, ids, FALSE) /\ outputs'["validation"] = Held(rows, ids, TRUE)
    <3>1. held("train") = FALSE /\ held("validation") = TRUE
      OBVIOUS
    <3> HIDE DEF held
    <3> QED BY <1>5, <2>1, <3>1
  <2>3. Distinct(rows, TRUE)
    BY <1>1, <1>3 DEF PrepInv, Divided
  <2> QED BY <1>2, <1>3, <2>2, <2>3, DivisionSplits
<1>9. Excluding'
  <2> SUFFICES ASSUME command.role = "grpo", command.exclude,
                      NEW name \in names
               PROVE  NoneExcluded(outputs'[name])
    BY <1>1, <1>5 DEF Excluding, NoneExcluded, Excluded
  <2>1. NoneExcluded(rows)
    BY <1>1, <1>3 DEF PrepInv, Excluding
  <2> HIDE DEF held
  <2> QED BY <1>4, <1>5, <2>1
<1>10. (PrepTypes /\ Judged /\ TrainFile /\ TrainsOnVerified /\ InnocentVerdict)'
  BY <1>1 DEF PrepInv, PrepTypes, Judged, TrainFile, TrainsOnVerified, InnocentVerdict,
              RequiresProof, TaskOf
<1> QED BY <1>7, <1>8, <1>9, <1>10 DEF PrepInv
-------------------------------------------------------------------------------
(* The files and the trainer.                                                *)

\* What a sound, verified record says in the train file is what may be taken.
LEMMA LineIsTaken ==
    ASSUME NEW r \in SoundRecords(TRUE), r.verified
    PROVE  Taken(Line("train", r))
<1>1. PICK row \in SourceRows :
        /\ r.stmt = row.stmt /\ r.proof = row.proof
        /\ row.attested \/ Reaction(Declaration(row, TRUE)) = "accepts"
  BY DEF SoundRecords, Sound
<1>2. Line("train", r) = [stmt |-> row.stmt, completion |-> Completion(row.proof)]
  BY <1>1 DEF Line
<1> DEFINE t == Line("train", r)
\* A proof led by `by` is trained as Lean was given it.
<1>3. ASSUME ~ Reworded(row.proof)
      PROVE  /\ t.stmt = row.stmt /\ t.completion = row.proof
             /\ Declaration(row, TRUE) = <<t.stmt, t.completion>>
  <2>1. Completion(row.proof) = row.proof /\ Assembled(row.proof) = row.proof
    BY <1>3 DEF Completion, Assembled, Reworded
  <2>2. t.stmt = row.stmt /\ t.completion = row.proof
    BY <1>2, <2>1
  <2> QED BY <2>1, <2>2 DEF Declaration
<1> HIDE DEF t
<1>4. \/ Reworded(row.proof)
      \/ row.attested /\ t.completion = row.proof
      \/ Reaction(<<t.stmt, t.completion>>) = "accepts"
  BY <1>1, <1>3
<1>5. t = [stmt |-> row.stmt, completion |-> Completion(row.proof)]
  BY <1>2 DEF t
<1>6. Taken(t)
  BY <1>1, <1>4, <1>5 DEF Taken
<1> QED BY <1>6 DEF t

LEMMA HeadTail ==
    ASSUME NEW S, NEW s \in Seq(S), s # <<>>
    PROVE  /\ Head(s) \in Range(s) /\ Tail(s) \in Seq(S)
           /\ Range(Tail(s)) \subseteq Range(s)
           /\ Range(s) \subseteq Range(Tail(s)) \cup {Head(s)}
<1>1. Len(s) \in Nat /\ Len(s) > 0 /\ DOMAIN s = 1 .. Len(s) /\ Head(s) = s[1]
  BY EmptySeq
<1>2. /\ Tail(s) \in Seq(S) /\ Len(Tail(s)) = Len(s) - 1
      /\ \A i \in 1 .. Len(s) - 1 : Tail(s)[i] = s[i + 1]
  BY <1>1
<1>3. DOMAIN Tail(s) = 1 .. Len(s) - 1
  BY <1>2
<1>4. \A x \in Range(Tail(s)) : x \in Range(s)
  <2> SUFFICES ASSUME NEW x \in Range(Tail(s)) PROVE x \in Range(s)
    OBVIOUS
  <2>1. PICK i \in 1 .. Len(s) - 1 : x = Tail(s)[i]
    BY <1>3 DEF Range
  <2>2. i + 1 \in DOMAIN s /\ x = s[i + 1]
    BY <1>1, <1>2, <2>1
  <2> QED BY <2>2 DEF Range
<1>5. \A x \in Range(s) : x = Head(s) \/ x \in Range(Tail(s))
  <2> SUFFICES ASSUME NEW x \in Range(s), x # Head(s) PROVE x \in Range(Tail(s))
    OBVIOUS
  <2>1. PICK i \in DOMAIN s : x = s[i]
    BY DEF Range
  <2>2. i - 1 \in DOMAIN Tail(s)
    BY <1>1, <1>3, <2>1
  <2>3. Tail(s)[i - 1] = s[i]
    BY <1>1, <1>2, <1>3, <2>1, <2>2
  <2> QED BY <2>1, <2>2, <2>3 DEF Range
<1>6. Head(s) \in Range(s)
  BY <1>1 DEF Range
<1> QED BY <1>2, <1>4, <1>5, <1>6

LEMMA WriteFileKeeps ==
    ASSUME PrepInv, WriteFile
    PROVE  PrepInv'
<1> DEFINE name == Head(left)
           rows == outputs[name]
           names == Range(FilesOf(command))
           b == RequiresProof(command)
           lines == [i \in DOMAIN rows |-> Line(name, rows[i])]
<1>1. /\ UNCHANGED <<command, records, trained, outputs, rejected>>
      /\ pc = "write" /\ pc' \in {"write", "done", "failed"}
  BY DEF WriteFile, pool
<1>2. \/ pc' = "failed" /\ left' = <<>> /\ files' = files
      \/ /\ files' = [files EXCEPT ![name] = lines] /\ left' = Tail(left)
         /\ pc' = IF Tail(left) = <<>> THEN "done" ELSE "write"
         /\ NeedsAttestation(name) => \A i \in DOMAIN rows : rows[i].verified
  <2>1. \/ pc' = "failed" /\ left' = <<>> /\ UNCHANGED disk
        \/ /\ files' = [files EXCEPT ![name] = [i \in DOMAIN rows |-> Line(name, rows[i])]]
           /\ left' = Tail(left)
           /\ pc' = IF Tail(left) = <<>> THEN "done" ELSE "write"
           /\ ~ (NeedsAttestation(name) /\ \E i \in DOMAIN rows : ~ rows[i].verified)
    BY DEF WriteFile
  <2> QED BY <2>1 DEF disk
<1>3. /\ left \in Seq(FileNames) /\ left # <<>> /\ Range(left) \subseteq names
      /\ DOMAIN outputs = names
      /\ \A nm \in names : outputs[nm] \in Seq(SoundRecords(b))
  BY <1>1 DEF PrepInv, Written
<1>4. /\ name \in Range(left) /\ Tail(left) \in Seq(FileNames)
      /\ Range(Tail(left)) \subseteq Range(left)
      /\ Range(left) \subseteq Range(Tail(left)) \cup {name}
  BY <1>3, HeadTail
<1>5. command \in Commands /\ DOMAIN files = FileNames
  BY DEF PrepInv, PrepTypes
<1>6. name \in names /\ name \in FileNames /\ rows \in Seq(SoundRecords(b))
  <2>1. name \in FileNames
    <3>1. left[1] \in FileNames /\ Head(left) = left[1]
      BY <1>3
    <3> QED BY <3>1
  <2> QED BY <1>3, <1>4, <2>1
<1>7. PrepTypes'
  BY <1>1, <1>2, <1>5 DEF PrepInv, PrepTypes, RequiresProof
<1>8. TrainFile'
  <2>1. CASE files' = files
    BY <2>1 DEF PrepInv, TrainFile
  <2>2. CASE /\ files' = [files EXCEPT ![name] = lines]
             /\ NeedsAttestation(name) => \A i \in DOMAIN rows : rows[i].verified
    <3>1. CASE name # "train"
      BY <2>2, <3>1, <1>5 DEF PrepInv, TrainFile, FileNames
    <3>2. CASE name = "train"
      <4>1. b = TRUE
        BY <1>5, <1>6, <3>2, Names DEF RequiresProof
      <4>2. \A i \in DOMAIN rows : rows[i].verified
        BY <2>2, <3>2 DEF NeedsAttestation
      <4>3. \A i \in DOMAIN rows : rows[i] \in SoundRecords(TRUE)
        <5> HIDE DEF b, rows
        <5>1. SoundRecords(b) = SoundRecords(TRUE)
          BY <4>1, Zenon
        <5>2. \A i \in DOMAIN rows : rows[i] \in SoundRecords(b)
          BY <1>6
        <5> QED BY <5>1, <5>2, Zenon
      <4>4. \A i \in DOMAIN rows : Taken(Line("train", rows[i]))
        BY <4>2, <4>3, LineIsTaken
      <4>5. files'["train"] = [i \in DOMAIN rows |-> Line("train", rows[i])]
        BY <1>5, <1>6, <2>2, <3>2
      <4> QED BY <4>4, <4>5 DEF TrainFile
    <3> QED BY <3>1, <3>2
  <2> QED BY <1>2, <2>1, <2>2
<1>9. Written'
  <2> SUFFICES ASSUME pc' = "write" PROVE Written'
    BY DEF Written
  <2>1. left' = Tail(left) /\ Tail(left) # <<>>
    BY <1>2
  <2> HIDE DEF name, names
  <2> QED BY <1>1, <1>3, <1>4, <2>1 DEF Written, names, RequiresProof
<1>10. Divided'
  BY <1>1 DEF PrepInv, Divided
<1>11. Excluding'
  <2> SUFFICES ASSUME command.role = "grpo", command.exclude
               PROVE  Excluding'
    BY <1>1 DEF Excluding
  <2>1. CASE pc' = "failed"
    BY <2>1 DEF Excluding
  <2>2. CASE /\ files' = [files EXCEPT ![name] = lines] /\ left' = Tail(left)
             /\ pc' = IF Tail(left) = <<>> THEN "done" ELSE "write"
    <3>1. name # "manifest" /\ "manifest" \in FileNames
      BY <1>5, <1>6, Names DEF FileNames
    <3>2. files'["manifest"] = files["manifest"]
      BY <1>5, <2>2, <3>1
    <3>3. \A r : Excluded(r)' <=> Excluded(r)
      BY <3>2 DEF Excluded
    <3>4. \A nm \in names : NoneExcluded(outputs[nm])
      BY <1>1, <1>3 DEF PrepInv, Excluding
    <3>5. \A i \in DOMAIN rows : ~ Excluded(Line(name, rows[i]))
      <4>1. \A i \in DOMAIN rows : ~ Excluded(rows[i])
        BY <1>6, <3>4 DEF NoneExcluded
      <4>2. \A i \in DOMAIN rows : Line(name, rows[i]).stmt = rows[i].stmt
        BY DEF Line
      <4> HIDE DEF name, rows
      <4> QED BY <4>1, <4>2 DEF Excluded
    <3>6. ASSUME NEW nm \in names, nm \notin Range(Tail(left))
          PROVE  \A i \in DOMAIN files'[nm] : ~ Excluded(files'[nm][i])
      <4>1. CASE nm = name
        <5>1. files'[nm] = lines
          BY <1>5, <1>6, <2>2, <4>1
        <5> HIDE DEF name, rows
        <5> QED BY <3>5, <5>1
      <4>2. CASE nm # name
        <5>1. files'[nm] = files[nm]
          BY <2>2, <4>2, <1>5, Names
        <5>2. nm \notin Range(left)
          BY <1>4, <3>6, <4>2
        <5>3. NoneExcluded(files[nm])
          BY <1>1, <5>2 DEF PrepInv, Excluding
        <5> QED BY <5>1, <5>3 DEF NoneExcluded
      <4> QED BY <4>1, <4>2
    <3>7. (\A nm \in DOMAIN outputs : NoneExcluded(outputs[nm]))'
      BY <1>1, <1>3, <3>3, <3>4 DEF NoneExcluded
    <3>8. (\A nm \in names \ Range(left) : NoneExcluded(files[nm]))'
      <4>1. names' = names
        BY <1>1 DEF FilesOf
      <4> HIDE DEF names
      <4> QED BY <2>2, <3>3, <3>6, <4>1 DEF NoneExcluded
    <3>9. pc' = "done" => left' = <<>>
      BY <2>2
    <3> QED BY <2>2, <3>7, <3>8, <3>9 DEF Excluding
  <2> QED BY <1>2, <2>1, <2>2
<1>12. (Judged /\ TrainsOnVerified /\ InnocentVerdict)'
  BY <1>1 DEF PrepInv, Judged, TrainsOnVerified, InnocentVerdict, TaskOf, RequiresProof
<1> QED BY <1>7, <1>8, <1>9, <1>10, <1>11, <1>12 DEF PrepInv

\* What a build has prepared stays as it is while its state does.
LEMMA SameState ==
    ASSUME PrepInv,
           UNCHANGED <<pc, command, records, pending, accepted, rejected, outputs, left, files>>
    PROVE  (PrepTypes /\ Judged /\ Written /\ TrainFile /\ Divided /\ Excluding
              /\ InnocentVerdict)'
<1>1. (PrepTypes /\ TrainFile)'
  BY DEF PrepInv, PrepTypes, TrainFile, RequiresProof
<1>2. (Judged /\ InnocentVerdict)'
  BY DEF PrepInv, Judged, InnocentVerdict, TaskOf, RequiresProof
<1>3. Written'
  BY DEF PrepInv, Written, RequiresProof
<1>4. Divided'
  BY DEF PrepInv, Divided
<1>5. Excluding'
  BY DEF PrepInv, Excluding, NoneExcluded, Excluded
<1> QED BY <1>1, <1>2, <1>3, <1>4, <1>5

LEMMA TrainKeeps ==
    ASSUME PrepInv, NEW validates \in BOOLEAN, Train(validates)
    PROVE  PrepInv'
<1>1. /\ UNCHANGED <<pc, command, records, pending, accepted, rejected, outputs, left, files>>
      /\ trained' = Range(files["train"])
  BY DEF Train, pool, disk
<1>2. TrainsOnVerified'
  <2>1. \A t \in trained' : Taken(t)
    BY <1>1 DEF PrepInv, TrainFile, Range
  <2> QED BY <2>1 DEF TrainsOnVerified, Taken
<1> QED BY <1>1, <1>2, SameState DEF PrepInv

LEMMA PrepStep ==
    ASSUME PrepInv, [Next]_vars
    PROVE  PrepInv'
<1>1. CASE UNCHANGED vars
  <2>1. UNCHANGED <<pc, command, records, pending, accepted, rejected, outputs, left, files>>
        /\ UNCHANGED trained
    BY <1>1 DEF vars, pool, disk
  <2>2. TrainsOnVerified'
    BY <2>1 DEF PrepInv, TrainsOnVerified
  <2> QED BY <2>1, <2>2, SameState DEF PrepInv
<1> QED BY <1>1, BuildKeeps, JudgeKeeps, StopKeeps, AllJudgedKeeps, DivideKeeps,
           WriteFileKeeps, TrainKeeps DEF Next

LEMMA Preparing == Spec => []PrepInv
  BY Prepared, PrepStep, PTL DEF Spec

-------------------------------------------------------------------------------
(* Theorems.                                                                 *)

\* Whatever builds were run and wherever they died, every row the trainer takes
\* comes from a source row whose proof Lean accepted, here or at its source, and
\* unless normalize_sft_completion reworded it is trained to write that proof.
THEOREM TrainedOnVerified == Spec => []TrainsOnVerified
<1>1. PrepInv => TrainsOnVerified
  BY DEF PrepInv
<1> QED BY <1>1, Preparing, PTL

\* A verdict other than Lean's is given only to a source that timed out or killed
\* the server, never to the one that found it dead.
THEOREM Innocent == Spec => []InnocentVerdict
<1>1. PrepInv => InnocentVerdict
  BY DEF PrepInv
<1> QED BY <1>1, Preparing, PTL

\* A finished division is a partition with the share asked for, although sources
\* repeat identifiers; no GRPO file of a build that excludes the SFT manifest
\* holds a statement of it.
THEOREM DisjointRoles == Spec => []RolesDisjoint
<1>1. ASSUME PrepInv PROVE RolesDisjoint
  <2> SUFFICES ASSUME pc = "done" PROVE RolesDisjoint
    BY DEF RolesDisjoint
  <2>1. command.role = "sft" /\ command.divide => Split(outputs["train"], outputs["validation"])
    BY <1>1 DEF PrepInv, Divided
  <2>2. ASSUME command.role = "grpo", command.exclude, NEW name \in Range(FilesOf(command))
        PROVE  NoneExcluded(files[name])
    <3>1. Range(left) = {}
      BY <1>1, <2>2 DEF PrepInv, Excluding, Range
    <3> QED BY <1>1, <2>2, <3>1 DEF PrepInv, Excluding
  <2> QED BY <2>1, <2>2 DEF RolesDisjoint, Split, NoneExcluded, Excluded
<1> QED BY <1>1, Preparing, PTL
===============================================================================
