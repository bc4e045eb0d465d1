--------------------------- MODULE DispatchProofs ---------------------------
(***************************************************************************)
(* Theorems about WorkflowDispatch, for every number of analyses and of      *)
(* overlapping publishers, every batch size, lease and retry delay.          *)
(***************************************************************************)
EXTENDS WorkflowDispatch, FiniteSetTheorems, SequenceTheorems, TLAPS

-----------------------------------------------------------------------------
(* Numbers, statuses and attempt ids.                                        *)

LEMMA Vocabulary ==
    known_statuses = {"ANALYSIS_IN_PROGRESS", "processing", "waiting",
        "QUEUED_PENDING_DISPATCH", "QUEUED", "WORKER_PROCESSING", "RESULT_READY",
        "FAILED_RETRYABLE", "completed", "FAILED_PERMANENT", "FAILED_RETRY_EXHAUSTED"}
  BY DEF known_statuses, WORKFLOW_TRANSITIONS

\* The clock takes the same from both sides of a comparison.
LEMMA LessKeepsOrder ==
    /\ \A x \in Nat : Less(x) \in Nat /\ Less(x) <= x
    /\ \A x, y \in Nat : x <= y => Less(x) <= Less(y)
    /\ \A x, y \in Nat : x > y /\ y > 0 => Less(x) > Less(y)
  BY DEF Less

LEMMA DelayIsNat ==
    ASSUME NEW tries \in 1..MaxTries
    PROVE  retry_delay(tries) \in Nat
<1> DEFINE power == 2^(tries - 1)
<1>1. tries - 1 \in 0..MaxTries
  BY DispatchAssumption
<1>2. power \in Nat
  BY <1>1, PowersAssumption
<1> HIDE DEF power
<1>3. BaseDelay * power \in Nat /\ MaxRetryDelay \in Nat
  BY <1>2, DispatchAssumption
<1>4. QED
  BY <1>3 DEF retry_delay, power

Seen == [id : Analyses, attempt : Nat, tries : 0..MaxTries]

\* What a function says of a finite set is finite.
LEMMA ImageIsFinite ==
    ASSUME NEW S, IsFiniteSet(S), NEW f, DOMAIN f = S, f = [x \in S |-> f[x]]
    PROVE  IsFiniteSet({f[x] : x \in S})
<1> DEFINE T == {f[x] : x \in S}
<1>1. f \in [S -> T]
  OBVIOUS
<1>2. \A t \in T : \E x \in S : f[x] = t
  OBVIOUS
<1>3. f \in Surjection(S, T)
  BY <1>1, <1>2 DEF Surjection
<1>4. QED
  BY <1>3, FS_Surjection

LEMMA UsedAttemptsAreFinite == ASSUME TypeOK PROVE IsFiniteSet(UsedAttempts)
<1> DEFINE Of(p) == {run[p].todo[i].attempt : i \in DOMAIN run[p].todo} \cup {run[p].attempt}
           Ofs == {Of(p) : p \in Publishers}
           Rows == {row[a].attempt : a \in Analyses}
<1>1. IsFiniteSet(Rows)
  <2> DEFINE f == [a \in Analyses |-> row[a].attempt]
  <2>1. IsFiniteSet({f[a] : a \in Analyses})
    <3> HIDE DEF f
    <3>1. DOMAIN f = Analyses /\ f = [x \in Analyses |-> f[x]]
      BY DEF f
    <3>2. QED
      BY <3>1, DispatchAssumption, ImageIsFinite
  <2>2. {f[a] : a \in Analyses} = Rows
    OBVIOUS
  <2>3. QED
    BY <2>1, <2>2
<1>2. ASSUME NEW p \in Publishers PROVE IsFiniteSet(Of(p))
  <2> DEFINE D == DOMAIN run[p].todo
             f == [i \in D |-> run[p].todo[i].attempt]
  <2>1. IsFiniteSet(D)
    <3>1. run[p].todo \in Seq(Seen)
      BY DEF TypeOK, Run, Seen
    <3>2. Len(run[p].todo) \in Nat /\ D = 1..Len(run[p].todo)
      BY <3>1, LenProperties
    <3>3. QED
      BY <3>2, FS_Interval
  <2>2. IsFiniteSet({f[i] : i \in D})
    <3> HIDE DEF D
    <3>1. DOMAIN f = D /\ f = [x \in D |-> f[x]]
      OBVIOUS
    <3> HIDE DEF f
    <3>2. QED
      BY <2>1, <3>1, ImageIsFinite
  <2>3. {f[i] : i \in D} = {run[p].todo[i].attempt : i \in DOMAIN run[p].todo}
    OBVIOUS
  <2>4. QED
    BY <2>2, <2>3, FS_AddElement
<1>3. IsFiniteSet(Ofs)
  <2> DEFINE f == [p \in Publishers |-> Of(p)]
  <2>1. IsFiniteSet({f[p] : p \in Publishers})
    <3> HIDE DEF f
    <3>1. DOMAIN f = Publishers /\ f = [x \in Publishers |-> f[x]]
      BY DEF f
    <3>2. QED
      BY <3>1, DispatchAssumption, ImageIsFinite
  <2>2. {f[p] : p \in Publishers} = Ofs
    OBVIOUS
  <2>3. QED
    BY <2>1, <2>2
<1>4. IsFiniteSet(UNION Ofs)
  BY <1>2, <1>3, FS_UNION
<1>5. QED
  BY <1>1, <1>4, FS_Union DEF UsedAttempts

\* The attempt id of a claim is one that nobody refers to.
LEMMA AttemptIsFresh ==
    ASSUME TypeOK
    PROVE  FreshAttempt \in Nat /\ FreshAttempt \notin UsedAttempts
<1> DEFINE c == Cardinality(UsedAttempts)
<1>1. IsFiniteSet(UsedAttempts) /\ c \in Nat
  BY UsedAttemptsAreFinite, FS_CardinalityType
<1> HIDE DEF c
<1>2. \E n \in 1..(c + 1) : n \notin UsedAttempts
  <2> SUFFICES ASSUME 1..(c + 1) \subseteq UsedAttempts PROVE FALSE
    OBVIOUS
  <2>1. Cardinality(1..(c + 1)) <= c
    BY <1>1, FS_Subset DEF c
  <2>2. Cardinality(1..(c + 1)) = c + 1
    BY <1>1, FS_Interval
  <2>3. QED
    BY <1>1, <2>1, <2>2
<1>3. FreshAttempt \in 1..(c + 1) /\ FreshAttempt \notin UsedAttempts
  BY <1>2 DEF FreshAttempt, c
<1>4. QED
  BY <1>1, <1>3

-----------------------------------------------------------------------------
(* The index.                                                                *)

Occurs(seq, a) == \E i \in DOMAIN seq : seq[i] = a

Distinct(seq) == \A i, j \in DOMAIN seq : i < j => seq[i] # seq[j]

\* The entries of s come in t in the same order.
Within(s, t) ==
    \A i, j \in DOMAIN s : i < j =>
        \E k, l \in DOMAIN t : k < l /\ s[i] = t[k] /\ s[j] = t[l]

\* A function on 1..n is a sequence of length n.
LEMMA FunctionIsSeq ==
    ASSUME NEW S, NEW n \in Nat, NEW f \in [1..n -> S]
    PROVE  f \in Seq(S) /\ Len(f) = n /\ DOMAIN f = 1..n
<1>1. f \in Seq(S)
  OBVIOUS
<1>2. Len(f) \in Nat /\ DOMAIN f = 1..Len(f)
  BY <1>1, LenProperties
<1>3. QED
  BY <1>1, <1>2

LEMMA WithoutIsTyped ==
    ASSUME NEW seq \in Seq(Analyses), NEW a
    PROVE  Without(seq, a) \in Seq(Analyses)
<1> DEFINE n == Len(seq)
           k == CHOOSE i \in DOMAIN seq : seq[i] = a
           w == [i \in 1..(n - 1) |-> IF i < k THEN seq[i] ELSE seq[i + 1]]
<1>1. n \in Nat /\ DOMAIN seq = 1..n /\ seq \in [1..n -> Analyses]
  BY LenProperties
<1>2. CASE \E i \in DOMAIN seq : seq[i] = a
  <2>1. k \in 1..n /\ n - 1 \in Nat
    BY <1>1, <1>2
  <2> HIDE DEF k, n
  <2>2. w \in [1..(n - 1) -> Analyses]
    BY <1>1, <2>1
  <2>3. w \in Seq(Analyses)
    BY <2>1, <2>2, FunctionIsSeq
  <2>4. QED
    BY <1>2, <2>3 DEF Without, k, n
<1>3. QED
  BY <1>2 DEF Without

\* Without a, a partition keeps its other rows, each once and in their order.
LEMMA WithoutRemoves ==
    ASSUME NEW seq \in Seq(Analyses), NEW a, Distinct(seq)
    PROVE  /\ \A b : Occurs(Without(seq, a), b) <=> Occurs(seq, b) /\ b # a
           /\ Distinct(Without(seq, a)) /\ Within(Without(seq, a), seq)
<1> DEFINE n == Len(seq)
           k == CHOOSE i \in DOMAIN seq : seq[i] = a
           w == [i \in 1..(n - 1) |-> IF i < k THEN seq[i] ELSE seq[i + 1]]
<1>1. n \in Nat /\ DOMAIN seq = 1..n /\ seq \in [1..n -> Analyses]
  BY LenProperties
<1>2. CASE \E i \in DOMAIN seq : seq[i] = a
  <2>1. k \in 1..n /\ seq[k] = a
    BY <1>1, <1>2
  <2>2. Without(seq, a) = w
    BY <1>2 DEF Without
  <2> HIDE DEF k, n
  <2>3. DOMAIN w = 1..(n - 1)
    BY <1>1
  <2>4. \A i \in 1..(n - 1) : w[i] = IF i < k THEN seq[i] ELSE seq[i + 1]
    BY <1>1
  <2> HIDE DEF w
  <2>5. ASSUME NEW i \in 1..n, i # k
        PROVE  \E j \in 1..(n - 1) : w[j] = seq[i]
    <3>1. CASE i < k
      <4>1. i \in 1..(n - 1) /\ w[i] = seq[i]
        BY <1>1, <2>1, <2>4, <2>5, <3>1
      <4>2. QED
        BY <4>1
    <3>2. CASE i > k
      <4>1. i - 1 \in 1..(n - 1) /\ ~(i - 1 < k) /\ (i - 1) + 1 = i
        BY <1>1, <2>1, <2>5, <3>2
      <4>2. w[i - 1] = seq[i]
        BY <2>4, <4>1
      <4>3. QED
        BY <4>1, <4>2
    <3>3. QED
      BY <1>1, <2>1, <2>5, <3>1, <3>2
  <2>6. ASSUME NEW i \in 1..(n - 1)
        PROVE  \E j \in 1..n : j # k /\ w[i] = seq[j]
    BY <1>1, <2>1, <2>4, <2>6
  <2>7. \A i \in 1..n : i # k => seq[i] # a
    BY <1>1, <2>1 DEF Distinct
  <2>8. \A b : Occurs(w, b) <=> Occurs(seq, b) /\ b # a
    <3>1. ASSUME NEW b, Occurs(w, b)
          PROVE  Occurs(seq, b) /\ b # a
      <4>1. PICK i \in 1..(n - 1) : w[i] = b
        BY <2>3, <3>1 DEF Occurs
      <4>2. PICK j \in 1..n : j # k /\ w[i] = seq[j]
        BY <2>6
      <4>3. QED
        BY <1>1, <2>7, <4>1, <4>2 DEF Occurs
    <3>2. ASSUME NEW b, Occurs(seq, b), b # a
          PROVE  Occurs(w, b)
      <4>1. PICK i \in 1..n : seq[i] = b
        BY <1>1, <3>2 DEF Occurs
      <4>2. i # k
        BY <2>1, <3>2, <4>1
      <4>3. PICK j \in 1..(n - 1) : w[j] = seq[i]
        BY <2>5, <4>2
      <4>4. QED
        BY <2>3, <4>1, <4>3 DEF Occurs
    <3>3. QED
      BY <3>1, <3>2
  <2>9. Within(w, seq)
    <3> SUFFICES ASSUME NEW i \in 1..(n - 1), NEW j \in 1..(n - 1), i < j
                 PROVE  \E g, h \in 1..n : g < h /\ w[i] = seq[g] /\ w[j] = seq[h]
      BY <1>1, <2>3 DEF Within
    <3> DEFINE g == IF i < k THEN i ELSE i + 1
               h == IF j < k THEN j ELSE j + 1
    <3>1. g \in 1..n /\ h \in 1..n /\ g < h
      BY <1>1, <2>1
    <3>2. w[i] = seq[g] /\ w[j] = seq[h]
      BY <2>4
    <3>3. QED
      BY <3>1, <3>2
  <2>10. Distinct(w)
    BY <1>1, <2>3, <2>9 DEF Within, Distinct
  <2>11. QED
    BY <2>2, <2>8, <2>9, <2>10
<1>3. CASE ~(\E i \in DOMAIN seq : seq[i] = a)
  <2>1. Without(seq, a) = seq
    BY <1>3 DEF Without
  <2>2. Within(seq, seq)
    BY DEF Within
  <2>3. QED
    BY <1>3, <2>1, <2>2 DEF Occurs
<1>4. QED
  BY <1>2, <1>3

LEMMA WithIsTyped ==
    ASSUME NEW seq \in Seq(Analyses), NEW a \in Analyses, NEW k \in 1..(Len(seq) + 1)
    PROVE  /\ With(seq, k, a) \in Seq(Analyses)
           /\ DOMAIN With(seq, k, a) = 1..(Len(seq) + 1)
<1> DEFINE n == Len(seq)
           w == [i \in 1..(n + 1) |-> IF i < k THEN seq[i] ELSE IF i = k THEN a ELSE seq[i - 1]]
<1>1. n \in Nat /\ DOMAIN seq = 1..n /\ seq \in [1..n -> Analyses] /\ k \in 1..(n + 1)
  BY LenProperties
<1> HIDE DEF n
<1>2. w \in [1..(n + 1) -> Analyses] /\ n + 1 \in Nat
  BY <1>1
<1>3. With(seq, k, a) = w
  BY DEF With, n
<1> HIDE DEF w
<1>4. w \in Seq(Analyses) /\ DOMAIN w = 1..(n + 1)
  BY <1>2, FunctionIsSeq
<1>5. QED
  BY <1>3, <1>4 DEF n

\* A row that comes to place k is listed there, the others around it as before.
LEMMA WithAdds ==
    ASSUME NEW seq \in Seq(Analyses), NEW a \in Analyses, NEW k \in 1..(Len(seq) + 1),
           Distinct(seq), ~Occurs(seq, a)
    PROVE  /\ \A b : Occurs(With(seq, k, a), b) <=> Occurs(seq, b) \/ b = a
           /\ Distinct(With(seq, k, a))
           /\ \A i, j \in DOMAIN With(seq, k, a) : i < j =>
                 \/ \E g, h \in DOMAIN seq :
                       g < h /\ With(seq, k, a)[i] = seq[g] /\ With(seq, k, a)[j] = seq[h]
                 \/ /\ With(seq, k, a)[i] = a
                    /\ \E h \in DOMAIN seq : h >= k /\ With(seq, k, a)[j] = seq[h]
                 \/ /\ With(seq, k, a)[j] = a
                    /\ \E g \in DOMAIN seq : g < k /\ With(seq, k, a)[i] = seq[g]
<1> DEFINE n == Len(seq)
           w == With(seq, k, a)
<1>1. n \in Nat /\ DOMAIN seq = 1..n /\ k \in 1..(n + 1)
  BY LenProperties
<1>2. DOMAIN w = 1..(n + 1)
  BY WithIsTyped
<1>3. \A i \in 1..(n + 1) : w[i] = IF i < k THEN seq[i] ELSE IF i = k THEN a ELSE seq[i - 1]
  BY DEF With
<1> HIDE DEF n, w
<1>4. \A b : Occurs(w, b) <=> Occurs(seq, b) \/ b = a
  <2>1. ASSUME NEW i \in 1..n PROVE \E j \in 1..(n + 1) : w[j] = seq[i]
    <3>1. CASE i < k
      <4>1. i \in 1..(n + 1) /\ w[i] = seq[i]
        BY <1>1, <1>3, <2>1, <3>1
      <4>2. QED
        BY <4>1
    <3>2. CASE i >= k
      <4>1. i + 1 \in 1..(n + 1) /\ ~(i + 1 < k) /\ i + 1 # k /\ (i + 1) - 1 = i
        BY <1>1, <2>1, <3>2
      <4>2. w[i + 1] = seq[i]
        BY <1>3, <4>1
      <4>3. QED
        BY <4>1, <4>2
    <3>3. QED
      BY <1>1, <2>1, <3>1, <3>2
  <2>2. w[k] = a
    BY <1>1, <1>3
  <2>3. ASSUME NEW i \in 1..(n + 1), w[i] # a PROVE \E j \in 1..n : w[i] = seq[j]
    BY <1>1, <1>3, <2>3
  <2>4. ASSUME NEW b, Occurs(w, b), b # a PROVE Occurs(seq, b)
    <3>1. PICK i \in 1..(n + 1) : w[i] = b
      BY <1>2, <2>4 DEF Occurs
    <3>2. PICK j \in 1..n : w[i] = seq[j]
      BY <2>3, <2>4, <3>1
    <3>3. QED
      BY <1>1, <3>1, <3>2 DEF Occurs
  <2>5. ASSUME NEW b, Occurs(seq, b) PROVE Occurs(w, b)
    <3>1. PICK i \in 1..n : seq[i] = b
      BY <1>1, <2>5 DEF Occurs
    <3>2. PICK j \in 1..(n + 1) : w[j] = seq[i]
      BY <2>1
    <3>3. QED
      BY <1>2, <3>1, <3>2 DEF Occurs
  <2>6. Occurs(w, a)
    BY <1>1, <1>2, <2>2 DEF Occurs
  <2>7. QED
    BY <2>4, <2>5, <2>6
<1>5. ASSUME NEW i \in 1..(n + 1), NEW j \in 1..(n + 1), i < j
      PROVE  \/ \E g, h \in 1..n : g < h /\ w[i] = seq[g] /\ w[j] = seq[h]
             \/ w[i] = a /\ \E h \in 1..n : h >= k /\ w[j] = seq[h]
             \/ w[j] = a /\ \E g \in 1..n : g < k /\ w[i] = seq[g]
  <2>1. CASE i = k
    <3>1. w[i] = a /\ w[j] = seq[j - 1] /\ j - 1 \in 1..n /\ j - 1 >= k
      BY <1>1, <1>3, <1>5, <2>1
    <3>2. QED
      BY <3>1
  <2>2. CASE j = k
    <3>1. w[j] = a /\ w[i] = seq[i] /\ i \in 1..n /\ i < k
      BY <1>1, <1>3, <1>5, <2>2
    <3>2. QED
      BY <3>1
  <2>3. CASE i # k /\ j # k
    <3> DEFINE g == IF i < k THEN i ELSE i - 1
               h == IF j < k THEN j ELSE j - 1
    <3>1. g \in 1..n /\ h \in 1..n /\ g < h
      BY <1>1, <1>5, <2>3
    <3>2. w[i] = seq[g] /\ w[j] = seq[h]
      BY <1>3, <1>5, <2>3
    <3>3. QED
      BY <3>1, <3>2
  <2>4. QED
    BY <2>1, <2>2, <2>3
<1>6. Distinct(w)
  <2>1. \A i \in 1..n : seq[i] # a
    BY <1>1 DEF Occurs
  <2>2. \A g, h \in 1..n : g < h => seq[g] # seq[h]
    BY <1>1 DEF Distinct
  <2>3. ASSUME NEW i \in 1..(n + 1), NEW j \in 1..(n + 1), i < j PROVE w[i] # w[j]
    BY <1>5, <2>1, <2>2, <2>3
  <2>4. QED
    BY <1>2, <2>3 DEF Distinct
<1>7. QED
  BY <1>1, <1>2, <1>4, <1>5, <1>6 DEF w

\* The entries of seq are in the order of their times.
Ordered(seq) == \A i, j \in DOMAIN seq : i < j => row[seq[i]].due <= row[seq[j]].due

LEMMA MoveToIsTyped ==
    ASSUME TypeOK, NEW part \in Partition, NEW a \in Analyses, NEW due,
           MoveTo(part, a, due)
    PROVE  index' \in [Partition -> Seq(Analyses)]
<1> DEFINE others == [q \in Partition |-> Without(index[q], a)]
<1>1. \A q \in Partition : others[q] \in Seq(Analyses)
  BY WithoutIsTyped DEF TypeOK
<1>2. PICK k \in 1..(Len(others[part]) + 1) :
         index' = [others EXCEPT ![part] = With(@, k, a)]
  BY DEF MoveTo
<1> HIDE DEF others
<1>3. With(others[part], k, a) \in Seq(Analyses)
  BY <1>1, WithIsTyped
<1>4. others \in [Partition -> Seq(Analyses)]
  BY <1>1 DEF others
<1>5. QED
  BY <1>2, <1>3, <1>4

\* The row is listed in the partition it moves to and nowhere else, and every
\* partition stays in the order of its times.
LEMMA MoveToMoves ==
    ASSUME TypeOK, NEW part \in Partition, NEW a \in Analyses, NEW due \in Nat,
           MoveTo(part, a, due), row'[a].due = due,
           \A b \in Analyses : b # a => row'[b] = row[b],
           \A q \in Partition : Distinct(index[q]) /\ Ordered(index[q])
    PROVE  /\ \A q \in Partition : Distinct(index'[q]) /\ Ordered(index[q])'
           /\ \A q \in Partition, b \in Analyses :
                 Occurs(index'[q], b) <=> IF b = a THEN q = part ELSE Occurs(index[q], b)
<1> DEFINE others == [q \in Partition |-> Without(index[q], a)]
<1>1. \A q \in Partition : index[q] \in Seq(Analyses)
  BY DEF TypeOK
<1>2. \A q \in Partition :
         /\ others[q] \in Seq(Analyses)
         /\ \A b : Occurs(others[q], b) <=> Occurs(index[q], b) /\ b # a
         /\ Distinct(others[q]) /\ Within(others[q], index[q])
  BY <1>1, WithoutIsTyped, WithoutRemoves
<1>3. PICK k \in 1..(Len(others[part]) + 1) :
         /\ \A i \in DOMAIN others[part] : i < k <=> row[others[part][i]].due <= due
         /\ index' = [others EXCEPT ![part] = With(@, k, a)]
  BY DEF MoveTo
<1>4. others = [q \in Partition |-> others[q]]
  OBVIOUS
<1> HIDE DEF others
<1>5. /\ index'[part] = With(others[part], k, a)
      /\ \A q \in Partition : q # part => index'[q] = others[q]
  BY <1>3, <1>4
<1>6. ASSUME NEW q \in Partition
      PROVE  \A i \in DOMAIN others[q] :
                /\ others[q][i] \in Analyses /\ others[q][i] # a
                /\ row'[others[q][i]] = row[others[q][i]]
                /\ row[others[q][i]].due \in Nat
  <2>1. \A i \in DOMAIN others[q] : others[q][i] \in Analyses
    BY <1>2, ElementOfSeq, LenProperties
  <2>2. \A i \in DOMAIN others[q] : others[q][i] # a
    BY <1>2 DEF Occurs
  <2>3. QED
    BY <2>1, <2>2 DEF TypeOK, Row
<1>7. ASSUME NEW q \in Partition
      PROVE  \A i, j \in DOMAIN others[q] : i < j =>
                row'[others[q][i]].due <= row'[others[q][j]].due
  BY <1>2, <1>6 DEF Within, Ordered
<1>8. ASSUME NEW q \in Partition, q # part
      PROVE  /\ Distinct(index'[q]) /\ Ordered(index[q])'
             /\ \A b : Occurs(index'[q], b) <=> Occurs(index[q], b) /\ b # a
  BY <1>2, <1>5, <1>7, <1>8 DEF Ordered
<1>9. /\ Distinct(index'[part])
      /\ \A b : Occurs(index'[part], b) <=> Occurs(index[part], b) \/ b = a
  <2>1. others[part] \in Seq(Analyses) /\ Distinct(others[part]) /\ ~Occurs(others[part], a)
    BY <1>2
  <2>2. /\ \A b : Occurs(With(others[part], k, a), b) <=> Occurs(others[part], b) \/ b = a
        /\ Distinct(With(others[part], k, a))
    BY <2>1, WithAdds
  <2>3. \A b : Occurs(others[part], b) <=> Occurs(index[part], b) /\ b # a
    BY <1>2
  <2>4. QED
    BY <1>5, <2>2, <2>3
<1>10. Ordered(index[part])'
  <2> DEFINE w == With(others[part], k, a)
  <2> SUFFICES ASSUME NEW i \in DOMAIN w, NEW j \in DOMAIN w, i < j
               PROVE  row'[w[i]].due <= row'[w[j]].due
    BY <1>5 DEF Ordered
  <2>1. \/ \E g, h \in DOMAIN others[part] :
              g < h /\ w[i] = others[part][g] /\ w[j] = others[part][h]
        \/ w[i] = a /\ \E h \in DOMAIN others[part] : h >= k /\ w[j] = others[part][h]
        \/ w[j] = a /\ \E g \in DOMAIN others[part] : g < k /\ w[i] = others[part][g]
    <3>1. /\ others[part] \in Seq(Analyses) /\ Distinct(others[part])
          /\ ~Occurs(others[part], a)
      BY <1>2
    <3>2. QED
      BY <3>1, WithAdds
  <2> HIDE DEF w
  <2>2. CASE \E g, h \in DOMAIN others[part] :
                g < h /\ w[i] = others[part][g] /\ w[j] = others[part][h]
    BY <1>7, <2>2
  <2>3. CASE w[i] = a /\ \E h \in DOMAIN others[part] : h >= k /\ w[j] = others[part][h]
    <3>1. PICK h \in DOMAIN others[part] : h >= k /\ w[j] = others[part][h]
      BY <2>3
    <3>2. ~(h < k)
      BY <1>2, <3>1, LenProperties
    <3>3. ~(row[others[part][h]].due <= due)
      BY <1>3, <3>2
    <3>4. QED
      BY <1>6, <2>3, <3>1, <3>3
  <2>4. CASE w[j] = a /\ \E g \in DOMAIN others[part] : g < k /\ w[i] = others[part][g]
    BY <1>3, <1>6, <2>4
  <2>5. QED
    BY <2>1, <2>2, <2>3, <2>4
<1>11. QED
  BY <1>8, <1>9, <1>10

\* A query returns rows of the partition, as they were when it was answered.
LEMMA QueryIsTyped ==
    ASSUME TypeOK, NEW part \in Partition, NEW todo \in Query(part)
    PROVE  todo \in Seq(Seen)
<1>1. PICK n \in 0..BatchSize : n <= Len(index[part]) /\ todo = Listing(part, n)
  BY DEF Query
<1>2. index[part] \in Seq(Analyses) /\ n \in Nat
  BY DispatchAssumption DEF TypeOK
<1>3. Len(index[part]) \in Nat
  BY <1>2, LenProperties
<1>4. \A i \in 1..n : i \in 1..Len(index[part])
  BY <1>1, <1>2, <1>3
<1>5. \A i \in 1..n : index[part][i] \in Analyses
  BY <1>2, <1>4, ElementOfSeq
<1>6. \A a \in Analyses : row[a].attempt \in Nat /\ row[a].tries \in 0..MaxTries
  BY DEF TypeOK, Row
<1>7. 0 \in 0..MaxTries
  BY DispatchAssumption
<1>8. todo \in [1..n -> Seen]
  BY <1>1, <1>5, <1>6, <1>7 DEF Listing, Seen
<1>9. QED
  BY <1>2, <1>8, FunctionIsSeq

-----------------------------------------------------------------------------
(* Types, and what a step of a publisher does, the rest left alone.          *)

\* A run that holds a claim is at a row it has claimed.
RunsAreAtRows ==
    \A p \in Publishers : Holds(p) => run[p].todo # <<>> /\ run[p].tries # 0

TypeInv == TypeOK /\ RunsAreAtRows

OthersRest(p) ==
    \A q \in Publishers : q # p => run'[q] = run[q] /\ runLeft'[q] = runLeft[q]

\* Row a is written, the others are not.
Writes(a, r) == row'[a] = r /\ \A b \in Analyses : b # a => row'[b] = row[b]

\* The run stays at its row.
Stays(p) ==
    /\ run'[p].todo = run[p].todo /\ run'[p].attempt = run[p].attempt
    /\ runLeft'[p] = runLeft[p]

Looks(p) == ~Holds(p) /\ ~Holds(p)' /\ UNCHANGED <<row, index, sent, faults>>

Ends(p) ==
    /\ ~Holds(p)' /\ UNCHANGED <<row, index, sent>>
    /\ faults' = faults + 1 \/ (faults' = faults /\ run[p].phase # "mark")

PendingRow(a, due) == [row[a] EXCEPT !.dispatch = "PENDING", !.attempt = 0, !.due = due]

Recovers(p) ==
    /\ ~Holds(p) /\ ~Holds(p)' /\ UNCHANGED <<sent, faults>>
    /\ Current(p) \in Analyses /\ ClaimExpired(p)
    /\ Writes(Current(p), PendingRow(Current(p), 0))
    /\ MoveTo("PENDING", Current(p), 0)

Claims(p) ==
    /\ ~Holds(p) /\ UNCHANGED sent
    /\ Current(p) \in Analyses /\ ClaimCondition(p)
    /\ Writes(Current(p), ClaimedRow(p))
    /\ MoveTo("CLAIMED", Current(p), Lease)
    /\ \/ /\ run'[p].phase = "send" /\ run'[p].todo = run[p].todo
          /\ run'[p].attempt = FreshAttempt
          /\ runLeft'[p] = runLeft[p] /\ faults' = faults
       \/ ~Holds(p)' /\ faults' = faults + 1

Sends(p) ==
    /\ run[p].phase = "send" /\ Stays(p) /\ Current(p) \in Analyses
    /\ UNCHANGED <<row, index>>
    /\ \A b \in Analyses : b # Current(p) => sent'[b] = sent[b]
    /\ \/ /\ sent'[Current(p)] = sent[Current(p)] + 1
          /\ run'[p].phase = "mark" /\ faults' = faults
       \/ /\ sent'[Current(p)] \in {sent[Current(p)], sent[Current(p)] + 1}
          /\ run'[p].phase = "release" /\ faults' = faults + 1

Marks(p) ==
    /\ run[p].phase = "mark" /\ Current(p) \in Analyses
    /\ UNCHANGED <<index, sent>>
    /\ \/ /\ MarkCondition(p) /\ Writes(Current(p), DispatchedRow(Current(p)))
          /\ ~Holds(p)' /\ faults' = faults
       \/ /\ ~MarkCondition(p) /\ UNCHANGED row
          /\ run'[p].phase = "release" /\ Stays(p) /\ faults' = faults
       \/ /\ MarkCondition(p)
          /\ Writes(Current(p), DispatchedRow(Current(p))) \/ UNCHANGED row
          /\ run'[p].phase = "release" /\ Stays(p) /\ faults' = faults + 1

Releases(p) ==
    /\ run[p].phase = "release" /\ ~Holds(p)' /\ UNCHANGED <<sent, faults>>
    /\ Current(p) \in Analyses /\ OwnsClaim(p)
    /\ \E due \in Nat :
          /\ Writes(Current(p), PendingRow(Current(p), due))
          /\ MoveTo("PENDING", Current(p), due)

PublisherMoves(p) ==
    /\ OthersRest(p)
    /\ \/ Looks(p) \/ Ends(p) \/ Recovers(p) \/ Claims(p) \/ Sends(p) \/ Marks(p)
       \/ Releases(p)

LEMMA RunTyped ==
    ASSUME TypeInv, NEW p \in Publishers
    PROVE  /\ run[p] \in Run /\ run[p].todo \in Seq(Seen)
           /\ runLeft[p] \in 0..RunTimeout
           /\ run[p].attempt \in Nat /\ run[p].tries \in 0..MaxTries
           /\ run[p].todo # <<>> =>
                 /\ Head(run[p].todo) \in Seen /\ Current(p) \in Analyses
                 /\ Tail(run[p].todo) \in Seq(Seen)
           /\ Holds(p) => run[p].todo # <<>> /\ run[p].tries \in 1..MaxTries
<1>1. /\ run[p] \in Run /\ run[p].todo \in Seq(Seen)
      /\ runLeft[p] \in 0..RunTimeout
      /\ run[p].attempt \in Nat /\ run[p].tries \in 0..MaxTries
  BY DEF TypeInv, TypeOK, Run, Seen
<1>2. ASSUME run[p].todo # <<>>
      PROVE  /\ Head(run[p].todo) \in Seen /\ Current(p) \in Analyses
             /\ Tail(run[p].todo) \in Seq(Seen)
  <2>1. Head(run[p].todo) \in Seen /\ Tail(run[p].todo) \in Seq(Seen)
    BY <1>1, <1>2, HeadTailProperties
  <2>2. Current(p) \in Analyses
    BY <2>1 DEF Seen, Current
  <2>3. QED
    BY <2>1, <2>2
<1>3. Holds(p) => run[p].todo # <<>> /\ run[p].tries \in 1..MaxTries
  BY <1>1, DispatchAssumption DEF TypeInv, RunsAreAtRows
<1>4. QED
  BY <1>1, <1>2, <1>3

LEMMA RunIsSet ==
    ASSUME TypeInv, NEW p \in Publishers, NEW r \in Run, run' = [run EXCEPT ![p] = r],
           r.phase \in {"send", "mark", "release"} => r.todo # <<>> /\ r.tries # 0
    PROVE  /\ run' \in [Publishers -> Run] /\ run'[p] = r
           /\ \A q \in Publishers : q # p => run'[q] = run[q]
           /\ RunsAreAtRows'
<1>1. run \in [Publishers -> Run]
  BY DEF TypeInv, TypeOK
<1>2. /\ run' \in [Publishers -> Run] /\ run'[p] = r
      /\ \A q \in Publishers : q # p => run'[q] = run[q]
  BY <1>1
<1>3. RunsAreAtRows'
  BY <1>2 DEF TypeInv, RunsAreAtRows, Holds
<1>4. QED
  BY <1>2, <1>3

LEMMA NewRunsAreRuns ==
    ASSUME NEW todo \in Seq(Seen), NEW ph \in {"idle", "recover", "claim"}
    PROVE  /\ Idle \in Run
           /\ [Idle EXCEPT !.phase = ph, !.todo = todo] \in Run
           /\ [Idle EXCEPT !.phase = ph, !.todo = todo].phase = ph
<1>1. Run = [phase : {"idle", "recover", "claim", "send", "mark", "release"},
             todo : Seq(Seen), attempt : Nat, tries : 0..MaxTries]
  BY DEF Run, Seen
<1>2. <<>> \in Seq(Seen) /\ 0 \in 0..MaxTries
  BY DispatchAssumption, EmptySeq
<1>3. QED
  BY <1>1, <1>2 DEF Idle

LEMMA RowIsSet ==
    ASSUME TypeInv, NEW a \in Analyses, NEW r \in Row, row' = [row EXCEPT ![a] = r]
    PROVE  row' \in [Analyses -> Row] /\ Writes(a, r)
  BY DEF TypeInv, TypeOK, Writes

LEMMA FaultIsTyped ==
    ASSUME TypeInv, Fault
    PROVE  faults' \in 0..MaxFaults /\ faults' = faults + 1
  BY DispatchAssumption DEF TypeInv, TypeOK, Fault

LEMMA FinishIsTyped ==
    ASSUME TypeInv, NEW p \in Publishers, Finish(p)
    PROVE  /\ run' \in [Publishers -> Run] /\ RunsAreAtRows'
           /\ runLeft' \in [Publishers -> 0..RunTimeout]
           /\ ~Holds(p)' /\ OthersRest(p)
<1>1. Idle \in Run /\ Idle.phase = "idle"
  BY NewRunsAreRuns, EmptySeq DEF Idle
<1>2. /\ run' \in [Publishers -> Run] /\ run'[p] = Idle /\ RunsAreAtRows'
      /\ \A q \in Publishers : q # p => run'[q] = run[q]
  BY <1>1, RunIsSet DEF Finish
<1>3. /\ runLeft' \in [Publishers -> 0..RunTimeout]
      /\ \A q \in Publishers : q # p => runLeft'[q] = runLeft[q]
  BY DispatchAssumption DEF TypeInv, TypeOK, Finish
<1>4. QED
  BY <1>1, <1>2, <1>3 DEF OthersRest, Holds

\* The listings and the rows that are passed over.
LEMMA LookMoves ==
    ASSUME TypeInv, NEW p \in Publishers,
           Begin(p) \/ SkipRecovery(p) \/ FindPending(p) \/ SkipClaim(p)
    PROVE  TypeInv' /\ PublisherMoves(p)
<1>1. UNCHANGED <<row, index, sent, faults>> /\ ~Holds(p)
  BY DEF Begin, SkipRecovery, FindPending, SkipClaim, Holds
<1>2. /\ runLeft' \in [Publishers -> 0..RunTimeout]
      /\ \A q \in Publishers : q # p => runLeft'[q] = runLeft[q]
  <2>1. runLeft' = [runLeft EXCEPT ![p] = RunTimeout] \/ runLeft' = runLeft
    BY DEF Begin, SkipRecovery, FindPending, SkipClaim
  <2>2. runLeft \in [Publishers -> 0..RunTimeout] /\ RunTimeout \in 0..RunTimeout
    BY DispatchAssumption DEF TypeInv, TypeOK
  <2>3. QED
    BY <2>1, <2>2
<1>3. \E r \in Run : r.phase \in {"recover", "claim"} /\ run' = [run EXCEPT ![p] = r]
  <2>1. CASE Begin(p)
    <3>1. PICK todo \in Query("CLAIMED") :
             run' = [run EXCEPT ![p] = [Idle EXCEPT !.phase = "recover", !.todo = todo]]
      BY <2>1 DEF Begin
    <3>2. todo \in Seq(Seen)
      BY QueryIsTyped DEF TypeInv, Partition
    <3>3. QED
      BY <3>1, <3>2, NewRunsAreRuns
  <2>2. CASE FindPending(p)
    <3>1. PICK todo \in Query("PENDING") :
             run' = [run EXCEPT ![p].phase = "claim", ![p].todo = todo]
      BY <2>2 DEF FindPending
    <3>2. todo \in Seq(Seen)
      BY QueryIsTyped DEF TypeInv, Partition
    <3> DEFINE r == [run[p] EXCEPT !.phase = "claim", !.todo = todo]
    <3>3. r \in Run /\ r.phase = "claim"
      BY <3>2, RunTyped DEF Run, Seen
    <3>4. run' = [run EXCEPT ![p] = r]
      BY <3>1 DEF TypeInv, TypeOK
    <3>5. QED
      BY <3>3, <3>4
  <2>3. CASE SkipRecovery(p) \/ SkipClaim(p)
    <3>1. run[p].todo # <<>> /\ run[p].phase \in {"recover", "claim"}
      BY <2>3 DEF SkipRecovery, SkipClaim
    <3>2. Tail(run[p].todo) \in Seq(Seen)
      BY <3>1, RunTyped
    <3> DEFINE r == [run[p] EXCEPT !.todo = Tail(@)]
    <3>3. r \in Run /\ r.phase = run[p].phase
      BY <3>2, RunTyped DEF Run, Seen
    <3>4. run' = [run EXCEPT ![p] = r]
      BY <2>3 DEF SkipRecovery, SkipClaim, Skip, TypeInv, TypeOK
    <3>5. QED
      BY <3>1, <3>3, <3>4
  <2>4. QED
    BY <2>1, <2>2, <2>3
<1>4. PICK r \in Run : r.phase \in {"recover", "claim"} /\ run' = [run EXCEPT ![p] = r]
  BY <1>3
<1>5. /\ run' \in [Publishers -> Run] /\ run'[p] = r /\ RunsAreAtRows'
      /\ \A q \in Publishers : q # p => run'[q] = run[q]
  BY <1>4, RunIsSet
<1>6. ~Holds(p)' /\ OthersRest(p)
  BY <1>2, <1>4, <1>5 DEF Holds, OthersRest
<1>7. TypeOK'
  BY <1>1, <1>2, <1>5 DEF TypeInv, TypeOK
<1>8. QED
  BY <1>1, <1>5, <1>6, <1>7 DEF TypeInv, PublisherMoves, Looks

\* The end of an invocation, by itself or by a fault.
LEMMA EndMoves ==
    ASSUME TypeInv, NEW p \in Publishers, End(p) \/ ReleaseRefused(p) \/ Crash(p)
    PROVE  TypeInv' /\ PublisherMoves(p)
<1>1. /\ run' \in [Publishers -> Run] /\ RunsAreAtRows'
      /\ runLeft' \in [Publishers -> 0..RunTimeout]
      /\ ~Holds(p)' /\ OthersRest(p)
  BY FinishIsTyped DEF End, ReleaseRefused, Crash
<1>2. /\ UNCHANGED <<row, index, sent>> /\ faults' \in 0..MaxFaults
      /\ faults' = faults + 1 \/ (faults' = faults /\ run[p].phase # "mark")
  BY FaultIsTyped DEF End, ReleaseRefused, Crash, TypeInv, TypeOK
<1>3. QED
  BY <1>1, <1>2 DEF TypeInv, TypeOK, PublisherMoves, Ends

\* An expired claim goes back to the pending rows.
LEMMA RecoverMoves ==
    ASSUME TypeInv, NEW p \in Publishers, Recover(p)
    PROVE  TypeInv' /\ PublisherMoves(p)
<1> DEFINE a == Current(p)
           r == [run[p] EXCEPT !.todo = Tail(@)]
<1>1. run[p].todo # <<>> /\ run[p].phase = "recover" /\ ClaimExpired(p)
  BY DEF Recover
<1>2. a \in Analyses /\ Tail(run[p].todo) \in Seq(Seen)
  BY <1>1, RunTyped
<1>3. r \in Run /\ r.phase = "recover"
  BY <1>1, <1>2, RunTyped DEF Run, Seen
<1>4. run' = [run EXCEPT ![p] = r]
  BY DEF Recover, Skip, TypeInv, TypeOK
<1>5. /\ run' \in [Publishers -> Run] /\ run'[p] = r /\ RunsAreAtRows'
      /\ \A q \in Publishers : q # p => run'[q] = run[q]
  BY <1>3, <1>4, RunIsSet
<1>6. row[a] \in Row /\ row[a].due = 0
  BY <1>1, <1>2 DEF ClaimExpired, Current, TypeInv, TypeOK
<1>7. PendingRow(a, 0) \in Row /\ row' = [row EXCEPT ![a] = PendingRow(a, 0)]
  <2>1. PendingRow(a, 0) \in Row
    BY <1>6 DEF PendingRow, Row
  <2>2. PendingRow(a, 0) = [row[a] EXCEPT !.dispatch = "PENDING", !.attempt = 0]
    BY <1>6 DEF PendingRow, Row
  <2>3. row' = [row EXCEPT ![a] = [row[a] EXCEPT !.dispatch = "PENDING", !.attempt = 0]]
    BY <1>2 DEF Recover, TypeInv, TypeOK
  <2>4. QED
    BY <2>1, <2>2, <2>3
<1>8. row' \in [Analyses -> Row] /\ Writes(a, PendingRow(a, 0))
  BY <1>2, <1>7, RowIsSet
<1>9. MoveTo("PENDING", a, 0) /\ UNCHANGED <<runLeft, sent, faults>>
  BY DEF Recover
<1>10. index' \in [Partition -> Seq(Analyses)]
  BY <1>2, <1>9, MoveToIsTyped DEF TypeInv, Partition
<1>11. ~Holds(p) /\ ~Holds(p)' /\ OthersRest(p)
  BY <1>1, <1>3, <1>5, <1>9 DEF Holds, OthersRest
<1>12. TypeOK'
  BY <1>5, <1>8, <1>9, <1>10 DEF TypeInv, TypeOK
<1>13. QED
  BY <1>1, <1>2, <1>5, <1>8, <1>9, <1>11, <1>12 DEF TypeInv, PublisherMoves, Recovers

\* The claim, with its response or without.
LEMMA ClaimMoves ==
    ASSUME TypeInv, NEW p \in Publishers, Claim(p)
    PROVE  TypeInv' /\ PublisherMoves(p)
<1> DEFINE a == Current(p)
<1>1. run[p].todo # <<>> /\ run[p].phase = "claim" /\ ClaimCondition(p)
  BY DEF Claim
<1>2. a \in Analyses /\ Head(run[p].todo) \in Seen
  BY <1>1, RunTyped
<1>3. FreshAttempt \in Nat
  BY AttemptIsFresh DEF TypeInv
<1>4. row[a] \in Row /\ Head(run[p].todo).tries \in 0..MaxTries
  BY <1>2 DEF TypeInv, TypeOK, Seen
<1>5. ClaimedRow(p) \in Row /\ ClaimedRow(p).tries \in 1..MaxTries
  <2> DEFINE tries == Head(run[p].todo).tries
             t == IF tries < MaxTries THEN tries + 1 ELSE tries
  <2>1. t \in 1..MaxTries /\ Lease \in Nat
    BY <1>4, DispatchAssumption
  <2>2. ClaimedRow(p) = [row[a] EXCEPT !.dispatch = "CLAIMED", !.attempt = FreshAttempt,
                                       !.due = Lease, !.tries = t]
    BY DEF ClaimedRow
  <2> HIDE DEF t
  <2>3. t \in 0..MaxTries
    BY <2>1, DispatchAssumption
  <2>4. ClaimedRow(p) \in Row
    BY <1>3, <1>4, <2>1, <2>2, <2>3 DEF Row
  <2>5. ClaimedRow(p).tries = t
    BY <1>4, <2>2 DEF Row
  <2>6. QED
    BY <2>1, <2>4, <2>5
<1>6. row' = [row EXCEPT ![a] = ClaimedRow(p)] /\ MoveTo("CLAIMED", a, Lease) /\ UNCHANGED sent
  BY DEF Claim
<1>7. row' \in [Analyses -> Row] /\ Writes(a, ClaimedRow(p))
  BY <1>2, <1>5, <1>6, RowIsSet
<1>8. index' \in [Partition -> Seq(Analyses)]
  BY <1>2, <1>6, MoveToIsTyped DEF TypeInv, Partition
<1>9. ~Holds(p)
  BY <1>1 DEF Holds
<1>10. CASE /\ run' = [run EXCEPT ![p].phase = "send", ![p].attempt = FreshAttempt,
                                  ![p].tries = row'[a].tries]
            /\ UNCHANGED <<runLeft, faults>>
  <2> DEFINE t == ClaimedRow(p).tries
             new == FreshAttempt
             r == [run[p] EXCEPT !.phase = "send", !.attempt = new, !.tries = t]
  <2>0. t \in 0..MaxTries /\ t # 0 /\ new \in Nat
    BY <1>3, <1>5, DispatchAssumption
  <2> HIDE DEF t, new
  <2>1. r \in Run /\ r.phase = "send" /\ r.todo = run[p].todo /\ r.tries # 0
        /\ r.attempt = new
    BY <2>0, RunTyped DEF Run
  <2>2. run' = [run EXCEPT ![p] = r]
    BY <1>7, <1>10 DEF TypeInv, TypeOK, Writes, t, new
  <2>3. /\ run' \in [Publishers -> Run] /\ run'[p] = r /\ RunsAreAtRows'
        /\ \A q \in Publishers : q # p => run'[q] = run[q]
    BY <1>1, <2>1, <2>2, RunIsSet
  <2> HIDE DEF r
  <2>4. TypeOK'
    BY <1>6, <1>7, <1>8, <1>10, <2>3 DEF TypeInv, TypeOK
  <2>5. Claims(p) /\ OthersRest(p)
    BY <1>1, <1>2, <1>6, <1>7, <1>9, <1>10, <2>1, <2>3 DEF Claims, OthersRest, new
  <2>6. QED
    BY <2>3, <2>4, <2>5 DEF TypeInv, PublisherMoves
<1>11. CASE Finish(p) /\ Fault
  <2>1. /\ run' \in [Publishers -> Run] /\ RunsAreAtRows'
        /\ runLeft' \in [Publishers -> 0..RunTimeout]
        /\ ~Holds(p)' /\ OthersRest(p)
    BY <1>11, FinishIsTyped
  <2>2. faults' \in 0..MaxFaults /\ faults' = faults + 1
    BY <1>11, FaultIsTyped
  <2>3. TypeOK'
    BY <1>6, <1>7, <1>8, <2>1, <2>2 DEF TypeInv, TypeOK
  <2>4. Claims(p)
    BY <1>1, <1>2, <1>6, <1>7, <1>9, <2>1, <2>2 DEF Claims
  <2>5. QED
    BY <2>1, <2>3, <2>4 DEF TypeInv, PublisherMoves
<1>12. QED
  BY <1>10, <1>11 DEF Claim

LEMMA StayIsTyped ==
    ASSUME TypeInv, NEW p \in Publishers, Holds(p), NEW ph \in {"mark", "release"},
           run' = [run EXCEPT ![p].phase = ph], UNCHANGED runLeft
    PROVE  /\ run' \in [Publishers -> Run] /\ RunsAreAtRows'
           /\ run'[p].phase = ph /\ Stays(p) /\ OthersRest(p)
<1> DEFINE r == [run[p] EXCEPT !.phase = ph]
<1>1. /\ r \in Run /\ r.phase = ph /\ r.todo = run[p].todo /\ r.attempt = run[p].attempt
      /\ r.tries = run[p].tries
  BY RunTyped DEF Run
<1>2. run' = [run EXCEPT ![p] = r]
  BY DEF TypeInv, TypeOK
<1>3. r.todo # <<>> /\ r.tries # 0
  BY <1>1, RunTyped
<1> HIDE DEF r
<1>4. /\ run' \in [Publishers -> Run] /\ run'[p] = r /\ RunsAreAtRows'
      /\ \A q \in Publishers : q # p => run'[q] = run[q]
  BY <1>1, <1>2, <1>3, RunIsSet
<1>5. QED
  BY <1>1, <1>4 DEF Stays, OthersRest

LEMMA NextRowIsTyped ==
    ASSUME TypeInv, NEW p \in Publishers, Holds(p), NextRow(p), UNCHANGED runLeft
    PROVE  /\ run' \in [Publishers -> Run] /\ RunsAreAtRows'
           /\ ~Holds(p)' /\ OthersRest(p)
<1> DEFINE r == [Idle EXCEPT !.phase = "claim", !.todo = Tail(run[p].todo)]
<1>1. r \in Run /\ r.phase = "claim"
  BY RunTyped, NewRunsAreRuns
<1>2. run' = [run EXCEPT ![p] = r]
  BY DEF NextRow
<1> HIDE DEF r
<1>3. /\ run' \in [Publishers -> Run] /\ run'[p] = r /\ RunsAreAtRows'
      /\ \A q \in Publishers : q # p => run'[q] = run[q]
  BY <1>1, <1>2, RunIsSet
<1>4. QED
  BY <1>1, <1>3 DEF Holds, OthersRest

\* The send, accepted or not.
LEMMA SendMoves ==
    ASSUME TypeInv, NEW p \in Publishers, Send(p) \/ SendFails(p)
    PROVE  TypeInv' /\ PublisherMoves(p)
<1> DEFINE a == Current(p)
<1>1. Holds(p) /\ run[p].phase = "send" /\ UNCHANGED <<row, index, runLeft>>
  BY DEF Send, SendFails, Holds
<1>2. a \in Analyses
  BY <1>1, RunTyped
<1>3. sent \in [Analyses -> Nat]
  BY DEF TypeInv, TypeOK
<1>4. /\ sent' \in [Analyses -> Nat]
      /\ \A b \in Analyses : b # a => sent'[b] = sent[b]
      /\ sent'[a] \in {sent[a], sent[a] + 1}
      /\ Send(p) => sent'[a] = sent[a] + 1
  <2>1. sent' = [sent EXCEPT ![a] = @ + 1] \/ (SendFails(p) /\ ~Send(p) /\ sent' = sent)
    BY DEF Send, SendFails
  <2>2. QED
    BY <1>2, <1>3, <2>1
<1>5. CASE Send(p)
  <2>1. /\ run' \in [Publishers -> Run] /\ RunsAreAtRows'
        /\ run'[p].phase = "mark" /\ Stays(p) /\ OthersRest(p)
    BY <1>1, <1>5, StayIsTyped DEF Send
  <2>2. faults' = faults
    BY <1>5 DEF Send
  <2>3. QED
    BY <1>1, <1>2, <1>4, <1>5, <2>1, <2>2
    DEF TypeInv, TypeOK, PublisherMoves, Sends
<1>6. CASE SendFails(p)
  <2>1. /\ run' \in [Publishers -> Run] /\ RunsAreAtRows'
        /\ run'[p].phase = "release" /\ Stays(p) /\ OthersRest(p)
    BY <1>1, <1>6, StayIsTyped DEF SendFails
  <2>2. faults' \in 0..MaxFaults /\ faults' = faults + 1
    BY <1>6, FaultIsTyped DEF SendFails
  <2>3. QED
    BY <1>1, <1>2, <1>4, <2>1, <2>2
    DEF TypeInv, TypeOK, PublisherMoves, Sends
<1>7. QED
  BY <1>5, <1>6

\* The mark, written, refused or lost.
LEMMA MarkMoves ==
    ASSUME TypeInv, NEW p \in Publishers,
           MarkDispatched(p) \/ MarkRefused(p) \/ MarkFails(p)
    PROVE  TypeInv' /\ PublisherMoves(p)
<1> DEFINE a == Current(p)
<1>1. Holds(p) /\ run[p].phase = "mark" /\ UNCHANGED <<index, runLeft, sent>>
  BY DEF MarkDispatched, MarkRefused, MarkFails, Holds
<1>2. a \in Analyses
  BY <1>1, RunTyped
<1>3. row[a] \in Row
  BY <1>2 DEF TypeInv, TypeOK
<1>4. DispatchedRow(a) \in Row
  BY <1>3, Vocabulary DEF DispatchedRow, Row
<1>5. row' = [row EXCEPT ![a] = DispatchedRow(a)] =>
         row' \in [Analyses -> Row] /\ Writes(a, DispatchedRow(a))
  BY <1>2, <1>4, RowIsSet
<1>6. UNCHANGED row => row' \in [Analyses -> Row]
  BY DEF TypeInv, TypeOK
<1>7. CASE MarkDispatched(p)
  <2>1. /\ run' \in [Publishers -> Run] /\ RunsAreAtRows'
        /\ ~Holds(p)' /\ OthersRest(p)
    BY <1>1, <1>7, NextRowIsTyped DEF MarkDispatched
  <2>2. /\ faults' = faults /\ MarkCondition(p)
        /\ row' \in [Analyses -> Row] /\ Writes(a, DispatchedRow(a))
    BY <1>5, <1>7 DEF MarkDispatched
  <2>3. QED
    BY <1>1, <1>2, <2>1, <2>2 DEF TypeInv, TypeOK, PublisherMoves, Marks
<1>8. CASE MarkRefused(p)
  <2>1. /\ run' \in [Publishers -> Run] /\ RunsAreAtRows'
        /\ run'[p].phase = "release" /\ Stays(p) /\ OthersRest(p)
    BY <1>1, <1>8, StayIsTyped DEF MarkRefused
  <2>2. faults' = faults /\ ~MarkCondition(p) /\ UNCHANGED row
    BY <1>8 DEF MarkRefused
  <2>3. QED
    BY <1>1, <1>2, <1>6, <2>1, <2>2 DEF TypeInv, TypeOK, PublisherMoves, Marks
<1>9. CASE MarkFails(p)
  <2>1. /\ run' \in [Publishers -> Run] /\ RunsAreAtRows'
        /\ run'[p].phase = "release" /\ Stays(p) /\ OthersRest(p)
    BY <1>1, <1>9, StayIsTyped DEF MarkFails
  <2>2. faults' \in 0..MaxFaults /\ faults' = faults + 1 /\ MarkCondition(p)
    BY <1>9, FaultIsTyped DEF MarkFails
  <2>3. /\ row' \in [Analyses -> Row]
        /\ Writes(a, DispatchedRow(a)) \/ UNCHANGED row
    BY <1>5, <1>6, <1>9 DEF MarkFails
  <2>4. QED
    BY <1>1, <1>2, <2>1, <2>2, <2>3 DEF TypeInv, TypeOK, PublisherMoves, Marks
<1>10. QED
  BY <1>7, <1>8, <1>9

\* The release for a retry.
LEMMA ReleaseMoves ==
    ASSUME TypeInv, NEW p \in Publishers, Release(p)
    PROVE  TypeInv' /\ PublisherMoves(p)
<1> DEFINE a == Current(p)
           due == retry_delay(run[p].tries)
<1>1. /\ Holds(p) /\ run[p].phase = "release" /\ OwnsClaim(p) /\ NextRow(p)
      /\ MoveTo("PENDING", a, due) /\ UNCHANGED <<runLeft, sent, faults>>
  BY DEF Release, Holds
<1>2. a \in Analyses /\ due \in Nat
  BY <1>1, RunTyped, DelayIsNat
<1>3. row[a] \in Row
  BY <1>2 DEF TypeInv, TypeOK
<1>4. row' = [row EXCEPT ![a] = PendingRow(a, due)]
  BY <1>2, <1>3 DEF Release, PendingRow, TypeInv, TypeOK
<1> HIDE DEF due
<1>5. PendingRow(a, due) \in Row
  BY <1>2, <1>3 DEF PendingRow, Row
<1>6. row' \in [Analyses -> Row] /\ Writes(a, PendingRow(a, due))
  BY <1>2, <1>4, <1>5, RowIsSet
<1>7. index' \in [Partition -> Seq(Analyses)]
  BY <1>1, <1>2, MoveToIsTyped DEF TypeInv, Partition
<1>8. /\ run' \in [Publishers -> Run] /\ RunsAreAtRows'
      /\ ~Holds(p)' /\ OthersRest(p)
  BY <1>1, NextRowIsTyped
<1>9. TypeOK'
  BY <1>1, <1>6, <1>7, <1>8 DEF TypeInv, TypeOK
<1>10. Releases(p)
  BY <1>1, <1>2, <1>6, <1>8 DEF Releases
<1>11. QED
  BY <1>8, <1>9, <1>10 DEF TypeInv, PublisherMoves

\* Every step of a publisher.
LEMMA PublisherStep ==
    ASSUME TypeInv, NEW p \in Publishers, Begin(p) \/ RunStep(p) \/ RunFault(p)
    PROVE  TypeInv' /\ PublisherMoves(p)
  BY LookMoves, EndMoves, RecoverMoves, ClaimMoves, SendMoves, MarkMoves, ReleaseMoves
  DEF RunStep, RunFault

\* The API and the workers write the status of one row.
RowMoves(a) ==
    /\ UNCHANGED <<run, runLeft, sent, faults>>
    /\ \/ /\ row[a].status = "absent" /\ MoveTo("PENDING", a, 0)
          /\ Writes(a, [row[a] EXCEPT !.status = "QUEUED_PENDING_DISPATCH"])
       \/ /\ row[a].status # "absent" /\ UNCHANGED index
          /\ \E s \in {"WORKER_PROCESSING", "completed", "FAILED_RETRYABLE"} :
                Writes(a, [row[a] EXCEPT !.status = s])

LEMMA RowStep ==
    ASSUME TypeInv, NEW a \in Analyses, Submit(a) \/ WorkerClaims(a) \/ WorkerEnds(a)
    PROVE  TypeInv' /\ RowMoves(a)
<1>1. row[a] \in Row /\ UNCHANGED <<run, runLeft, sent, faults>>
  BY DEF TypeInv, TypeOK, Submit, WorkerClaims, WorkerEnds, SetStatus
<1>2. RunsAreAtRows'
  BY <1>1 DEF TypeInv, RunsAreAtRows, Holds
<1>3. \A s \in known_statuses : [row[a] EXCEPT !.status = s] \in Row
  BY <1>1 DEF Row
<1>4. CASE Submit(a)
  <2> DEFINE r == [row[a] EXCEPT !.status = "QUEUED_PENDING_DISPATCH"]
  <2>1. r \in Row
    BY <1>3, Vocabulary
  <2>2. row' = [row EXCEPT ![a] = r]
    BY <1>4 DEF Submit, TypeInv, TypeOK
  <2>3. row' \in [Analyses -> Row] /\ Writes(a, r)
    BY <2>1, <2>2, RowIsSet
  <2>4. row[a].status = "absent" /\ MoveTo("PENDING", a, 0)
    BY <1>4 DEF Submit
  <2>5. index' \in [Partition -> Seq(Analyses)]
    BY <2>4, MoveToIsTyped DEF TypeInv, Partition
  <2>6. QED
    BY <1>1, <1>2, <2>3, <2>4, <2>5 DEF TypeInv, TypeOK, RowMoves
<1>5. CASE WorkerClaims(a) \/ WorkerEnds(a)
  <2>1. row[a].status # "absent" /\ UNCHANGED index
    BY <1>5 DEF WorkerClaims, WorkerEnds, claimable_statuses, SetStatus
  <2>2. PICK s \in {"WORKER_PROCESSING", "completed", "FAILED_RETRYABLE"} :
           row' = [row EXCEPT ![a].status = s]
    BY <1>5 DEF WorkerClaims, WorkerEnds, SetStatus
  <2> DEFINE r == [row[a] EXCEPT !.status = s]
  <2>3. r \in Row
    BY <1>3, Vocabulary
  <2>4. row' = [row EXCEPT ![a] = r]
    BY <2>2 DEF TypeInv, TypeOK
  <2>5. row' \in [Analyses -> Row] /\ Writes(a, r)
    BY <2>3, <2>4, RowIsSet
  <2>6. QED
    BY <1>1, <1>2, <2>1, <2>5 DEF TypeInv, TypeOK, RowMoves
<1>6. QED
  BY <1>4, <1>5

\* The clock runs the countdowns down, and only while no run is out of time.
TickMoves ==
    /\ UNCHANGED <<index, run, sent, faults>>
    /\ \A p \in Publishers :
          /\ run[p].phase # "idle" => runLeft[p] > 0
          /\ runLeft'[p] = Less(runLeft[p])
    /\ \A a \in Analyses :
          /\ row'[a].status = row[a].status /\ row'[a].dispatch = row[a].dispatch
          /\ row'[a].attempt = row[a].attempt /\ row'[a].due = Less(row[a].due)

LEMMA ClockStep == ASSUME TypeInv, Tick PROVE TypeInv' /\ TickMoves
<1>1. \A a \in Analyses :
         /\ [row[a] EXCEPT !.due = Less(@)] \in Row
         /\ row'[a] = [row[a] EXCEPT !.due = Less(@)]
  BY LessKeepsOrder DEF TypeInv, TypeOK, Row, Tick
<1>2. \A a \in Analyses :
         /\ row'[a].status = row[a].status /\ row'[a].dispatch = row[a].dispatch
         /\ row'[a].attempt = row[a].attempt /\ row'[a].due = Less(row[a].due)
  BY <1>1 DEF TypeInv, TypeOK, Row
<1>3. row' \in [Analyses -> Row]
  BY <1>1 DEF Tick
<1>4. \A p \in Publishers : Less(runLeft[p]) \in 0..RunTimeout
  BY LessKeepsOrder, DispatchAssumption DEF TypeInv, TypeOK
<1>5. runLeft' \in [Publishers -> 0..RunTimeout]
  BY <1>4 DEF Tick
<1>6. UNCHANGED <<index, run, sent, faults>>
      /\ \A p \in Publishers :
            /\ run[p].phase # "idle" => runLeft[p] > 0
            /\ runLeft'[p] = Less(runLeft[p])
  BY DEF Tick
<1>7. QED
  BY <1>2, <1>3, <1>5, <1>6 DEF TypeInv, TypeOK, RunsAreAtRows, Holds, TickMoves

LEMMA EveryStepMoves ==
    ASSUME TypeInv, [Next]_vars
    PROVE  \/ \E p \in Publishers : PublisherMoves(p)
           \/ \E a \in Analyses : RowMoves(a)
           \/ TickMoves
           \/ UNCHANGED vars
  BY PublisherStep, RowStep, ClockStep DEF Next

LEMMA TypesAreKept == Spec => []TypeInv
<1>1. Init => TypeInv
  <2> SUFFICES ASSUME Init PROVE TypeInv
    OBVIOUS
  <2>1. Idle \in Run /\ Idle.phase = "idle" /\ 0 \in 0..MaxTries /\ 0 \in 0..MaxFaults
        /\ 0 \in 0..RunTimeout
    <3>1. <<>> \in Seq(Seen)
      BY EmptySeq
    <3>2. Idle \in Run
      BY <3>1, NewRunsAreRuns
    <3>3. QED
      BY <3>2, DispatchAssumption DEF Idle
  <2>2. row \in [Analyses -> Row]
    BY <2>1 DEF Init, Row
  <2>3. index \in [Partition -> Seq(Analyses)]
    BY EmptySeq DEF Init
  <2>4. QED
    BY <2>1, <2>2, <2>3 DEF Init, TypeInv, TypeOK, RunsAreAtRows, Holds
<1>2. TypeInv /\ [Next]_vars => TypeInv'
  <2> SUFFICES ASSUME TypeInv, [Next]_vars PROVE TypeInv'
    OBVIOUS
  <2>1. CASE UNCHANGED vars
    BY <2>1 DEF vars, TypeInv, TypeOK, RunsAreAtRows, Holds
  <2>2. QED
    BY <2>1, PublisherStep, RowStep, ClockStep DEF Next
<1>3. QED
  BY <1>1, <1>2, PTL DEF Spec

\* The row, the index and the runs keep their types: a status or a dispatch state
\* is never written to the other's field.
THEOREM TypeCorrect == Spec => []TypeOK
  BY TypesAreKept, PTL DEF TypeInv

-----------------------------------------------------------------------------
(* The index.  IndexMatchesDispatch becomes inductive with what is known of  *)
(* the rows that are not stored yet, and with the index written in terms of  *)
(* the lemmas above.                                                         *)

NewRows ==
    \A a \in Analyses : row[a].status = "absent" =>
        row[a].dispatch = "PENDING" /\ row[a].due = 0

Belongs(a, part) ==
    row[a].status # "absent" /\ (row[a].dispatch = "PENDING" <=> part = "PENDING")

IndexInv ==
    /\ NewRows
    /\ \A part \in Partition : Distinct(index[part]) /\ Ordered(index[part])
    /\ \A part \in Partition, a \in Analyses : Occurs(index[part], a) <=> Belongs(a, part)

\* What the writes of the dispatcher make of a row.
LEMMA WrittenRows ==
    ASSUME NEW a, row[a] \in Row, NEW due
    PROVE  /\ PendingRow(a, due).status = row[a].status
           /\ PendingRow(a, due).dispatch = "PENDING"
           /\ PendingRow(a, due).due = due
           /\ DispatchedRow(a).status = "QUEUED"
           /\ DispatchedRow(a).dispatch = "DISPATCHED"
           /\ DispatchedRow(a).due = row[a].due
           /\ \A p : Current(p) = a =>
                 /\ ClaimedRow(p).status = row[a].status
                 /\ ClaimedRow(p).dispatch = "CLAIMED"
                 /\ ClaimedRow(p).due = Lease
                 /\ ClaimedRow(p).attempt = FreshAttempt
           /\ \A s : /\ [row[a] EXCEPT !.status = s].status = s
                     /\ [row[a] EXCEPT !.status = s].dispatch = row[a].dispatch
                     /\ [row[a] EXCEPT !.status = s].attempt = row[a].attempt
                     /\ [row[a] EXCEPT !.status = s].due = row[a].due
  BY DEF Row, PendingRow, DispatchedRow, ClaimedRow

\* A row that moves is stored, and is written where it is listed.
LEMMA MovedRow ==
    ASSUME TypeInv, IndexInv, NEW a \in Analyses, NEW r, NEW due \in Nat,
           NEW part \in Partition, MoveTo(part, a, due), Writes(a, r),
           r.due = due, r.status # "absent", r.dispatch = "PENDING" <=> part = "PENDING"
    PROVE  IndexInv'
<1>1. /\ row'[a] = r /\ \A b \in Analyses : b # a => row'[b] = row[b]
      /\ row'[a].due = due
  BY DEF Writes
<1>2. /\ \A q \in Partition : Distinct(index'[q]) /\ Ordered(index[q])'
      /\ \A q \in Partition, b \in Analyses :
            Occurs(index'[q], b) <=> IF b = a THEN q = part ELSE Occurs(index[q], b)
  BY <1>1, MoveToMoves DEF TypeInv, IndexInv
<1>3. NewRows'
  BY <1>1 DEF IndexInv, NewRows
<1>4. ASSUME NEW q \in Partition, NEW b \in Analyses
      PROVE  Occurs(index'[q], b) <=> Belongs(b, q)'
  <2>1. CASE b = a
    <3>1. q = part <=> (r.dispatch = "PENDING" <=> q = "PENDING")
      BY DEF Partition
    <3>2. QED
      BY <1>1, <1>2, <2>1, <3>1 DEF Belongs
  <2>2. CASE b # a
    BY <1>1, <1>2, <2>2 DEF Belongs, IndexInv
  <2>3. QED
    BY <2>1, <2>2
<1>5. QED
  BY <1>2, <1>3, <1>4 DEF IndexInv

\* A row that is not moved keeps its time and its partition.
LEMMA UnmovedRows ==
    ASSUME TypeInv, IndexInv, UNCHANGED index,
           \A a \in Analyses :
              /\ row'[a].status = "absent" <=> row[a].status = "absent"
              /\ row'[a].dispatch = "PENDING" <=> row[a].dispatch = "PENDING",
           \/ \A a \in Analyses : row'[a].due = row[a].due
           \/ \A a \in Analyses : row'[a].due = Less(row[a].due)
    PROVE  IndexInv'
<1>1. \A part \in Partition : \A i \in DOMAIN index[part] : index[part][i] \in Analyses
  BY ElementOfSeq, LenProperties DEF TypeInv, TypeOK
<1>2. \A a \in Analyses : row[a].due \in Nat
  BY DEF TypeInv, TypeOK, Row
<1>3. \A a, b \in Analyses : row[a].due <= row[b].due => row'[a].due <= row'[b].due
  BY <1>2, LessKeepsOrder
<1>4. \A part \in Partition : Distinct(index'[part]) /\ Ordered(index[part])'
  BY <1>1, <1>3 DEF IndexInv, Ordered
<1>5. NewRows'
  BY <1>2 DEF IndexInv, NewRows, Less
<1>6. QED
  BY <1>4, <1>5 DEF IndexInv, Belongs

\* No step takes a row out of the listing its dispatch state calls for: not the
\* fault between a claim and its response, nor the race for the row.
LEMMA IndexIsKept == Spec => []IndexInv
<1>1. Init => IndexInv
  <2> SUFFICES ASSUME Init PROVE IndexInv
    OBVIOUS
  <2>1. \A a \in Analyses : row[a].status = "absent" /\ row[a].dispatch = "PENDING"
                               /\ row[a].due = 0
    BY DEF Init
  <2>2. \A part \in Partition : index[part] = <<>> /\ DOMAIN index[part] = {}
    BY DEF Init
  <2>3. QED
    BY <2>1, <2>2 DEF IndexInv, NewRows, Distinct, Ordered, Occurs, Belongs
<1>2. TypeInv /\ TypeInv' /\ IndexInv /\ [Next]_vars => IndexInv'
  <2> SUFFICES ASSUME TypeInv, TypeInv', IndexInv, [Next]_vars PROVE IndexInv'
    OBVIOUS
  <2>1. ASSUME NEW p \in Publishers, PublisherMoves(p) PROVE IndexInv'
    <3>1. Current(p) \in Analyses => row[Current(p)] \in Row
      BY DEF TypeInv, TypeOK
    <3>2. CASE Looks(p) \/ Ends(p) \/ Sends(p)
      <4>1. UNCHANGED <<row, index>>
        BY <3>2 DEF Looks, Ends, Sends
      <4>2. QED
        BY <4>1, UnmovedRows
    <3>3. CASE Recovers(p)
      <4>1. row[Current(p)].dispatch = "CLAIMED"
        BY <3>3 DEF Recovers, ClaimExpired, Current
      <4>2. row[Current(p)].status # "absent"
        BY <3>3, <4>1 DEF Recovers, IndexInv, NewRows
      <4>3. QED
        BY <3>1, <3>3, <4>2, WrittenRows, MovedRow DEF Recovers, Partition
    <3>4. CASE Claims(p)
      <4>1. row[Current(p)].status # "absent" /\ Lease \in Nat
        BY <3>4, DispatchAssumption DEF Claims, ClaimCondition
      <4>2. QED
        BY <3>1, <3>4, <4>1, WrittenRows, MovedRow DEF Claims, Partition
    <3>5. CASE Marks(p)
      <4>1. UNCHANGED row \/ (Writes(Current(p), DispatchedRow(Current(p))) /\ MarkCondition(p))
        BY <3>5 DEF Marks
      <4>2. CASE UNCHANGED row
        <5>1. UNCHANGED index
          BY <3>5 DEF Marks
        <5>2. QED
          BY <4>2, <5>1, UnmovedRows
      <4>3. CASE Writes(Current(p), DispatchedRow(Current(p))) /\ MarkCondition(p)
        <5>1. /\ row[Current(p)].dispatch = "CLAIMED"
              /\ row[Current(p)].status = "QUEUED_PENDING_DISPATCH"
          BY <4>3 DEF MarkCondition, OwnsClaim
        <5>2. UNCHANGED index /\ Current(p) \in Analyses
          BY <3>5 DEF Marks
        <5>3. \A b \in Analyses :
                 /\ row'[b].status = "absent" <=> row[b].status = "absent"
                 /\ row'[b].dispatch = "PENDING" <=> row[b].dispatch = "PENDING"
                 /\ row'[b].due = row[b].due
          <6>1. /\ row'[Current(p)].status = "QUEUED"
                /\ row'[Current(p)].dispatch = "DISPATCHED"
                /\ row'[Current(p)].due = row[Current(p)].due
            BY <3>1, <4>3, <5>2, WrittenRows DEF Writes
          <6>2. \A b \in Analyses : b # Current(p) => row'[b] = row[b]
            BY <4>3 DEF Writes
          <6>3. QED
            BY <5>1, <6>1, <6>2
        <5>4. QED
          BY <5>2, <5>3, UnmovedRows
      <4>4. QED
        BY <4>1, <4>2, <4>3
    <3>6. CASE Releases(p)
      <4>1. PICK due \in Nat :
               /\ Writes(Current(p), PendingRow(Current(p), due))
               /\ MoveTo("PENDING", Current(p), due)
        BY <3>6 DEF Releases
      <4>2. row[Current(p)].dispatch = "CLAIMED" /\ Current(p) \in Analyses
        BY <3>6 DEF Releases, OwnsClaim
      <4>3. row[Current(p)].status # "absent"
        BY <4>2 DEF IndexInv, NewRows
      <4>4. QED
        BY <3>1, <4>1, <4>2, <4>3, WrittenRows, MovedRow DEF Partition
    <3>7. QED
      BY <2>1, <3>2, <3>3, <3>4, <3>5, <3>6 DEF PublisherMoves
  <2>2. ASSUME NEW a \in Analyses, RowMoves(a) PROVE IndexInv'
    <3>1. row[a] \in Row
      BY DEF TypeInv, TypeOK
    <3>2. CASE /\ row[a].status = "absent" /\ MoveTo("PENDING", a, 0)
               /\ Writes(a, [row[a] EXCEPT !.status = "QUEUED_PENDING_DISPATCH"])
      <4>1. row[a].dispatch = "PENDING" /\ row[a].due = 0
        BY <3>2 DEF IndexInv, NewRows
      <4> DEFINE r == [row[a] EXCEPT !.status = "QUEUED_PENDING_DISPATCH"]
      <4>2. r.due = 0 /\ r.status # "absent" /\ r.dispatch = "PENDING"
        BY <3>1, <4>1, WrittenRows
      <4>3. Writes(a, r)
        BY <3>2
      <4> HIDE DEF r
      <4>4. QED
        BY <3>2, <4>2, <4>3, MovedRow DEF Partition
    <3>3. CASE /\ row[a].status # "absent" /\ UNCHANGED index
               /\ \E s \in {"WORKER_PROCESSING", "completed", "FAILED_RETRYABLE"} :
                     Writes(a, [row[a] EXCEPT !.status = s])
      <4>1. PICK s \in {"WORKER_PROCESSING", "completed", "FAILED_RETRYABLE"} :
               Writes(a, [row[a] EXCEPT !.status = s])
        BY <3>3
      <4>2. row'[a] = [row[a] EXCEPT !.status = s]
            /\ \A b \in Analyses : b # a => row'[b] = row[b]
        BY <4>1 DEF Writes
      <4>3. row'[a].status # "absent" /\ row'[a].dispatch = row[a].dispatch
            /\ row'[a].due = row[a].due
        BY <3>1, <4>2, WrittenRows
      <4>4. \A b \in Analyses :
               /\ row'[b].status = "absent" <=> row[b].status = "absent"
               /\ row'[b].dispatch = row[b].dispatch
               /\ row'[b].due = row[b].due
        BY <3>3, <4>2, <4>3
      <4>5. QED
        BY <3>3, <4>4, UnmovedRows
    <3>4. QED
      BY <2>2, <3>2, <3>3 DEF RowMoves
  <2>3. CASE TickMoves \/ UNCHANGED vars
    <3>1. UNCHANGED index /\ \A a \in Analyses :
             row'[a].status = row[a].status /\ row'[a].dispatch = row[a].dispatch
      BY <2>3 DEF TickMoves, vars
    <3>2. \/ \A a \in Analyses : row'[a].due = row[a].due
          \/ \A a \in Analyses : row'[a].due = Less(row[a].due)
      BY <2>3 DEF TickMoves, vars
    <3>3. QED
      BY <3>1, <3>2, UnmovedRows
  <2>4. QED
    BY <2>1, <2>2, <2>3, EveryStepMoves
<1>3. QED
  BY <1>1, <1>2, TypesAreKept, PTL DEF Spec

\* A pending row can always be found by find_pending, a claimed one by
\* find_expired_claims, and the oldest first: each is listed once, under the
\* partition of its dispatch state, in the order of its times.  No timing is
\* assumed.
THEOREM IndexMatches == Spec => []IndexMatchesDispatch
<1>1. IndexInv => IndexMatchesDispatch
  BY DEF IndexInv, IndexMatchesDispatch, Occurs, Belongs, Distinct, Ordered
<1>2. QED
  BY <1>1, IndexIsKept, PTL


-----------------------------------------------------------------------------
(* What a step makes of the rows and of the messages.                        *)

\* A publisher rewrites the status of a row in one way only.
LEMMA PublisherWrites ==
    ASSUME TypeInv, NEW p \in Publishers, PublisherMoves(p), NEW a \in Analyses
    PROVE  \/ row'[a] = row[a]
           \/ /\ a = Current(p) /\ row'[a].status = row[a].status
              /\ row'[a].dispatch \in {"PENDING", "CLAIMED"}
           \/ /\ a = Current(p) /\ run[p].phase = "mark" /\ MarkCondition(p)
              /\ row'[a].status = "QUEUED" /\ row'[a].dispatch = "DISPATCHED"
<1>1. Current(p) \in Analyses => row[Current(p)] \in Row
  BY DEF TypeInv, TypeOK
<1>2. CASE Looks(p) \/ Ends(p) \/ Sends(p)
  BY <1>2 DEF Looks, Ends, Sends
<1>3. CASE Recovers(p)
  BY <1>1, <1>3, WrittenRows DEF Recovers, Writes
<1>4. CASE Claims(p)
  BY <1>1, <1>4, WrittenRows DEF Claims, Writes
<1>5. CASE Marks(p)
  BY <1>1, <1>5, WrittenRows DEF Marks, Writes
<1>6. CASE Releases(p)
  BY <1>1, <1>6, WrittenRows DEF Releases, Writes
<1>7. QED
  BY <1>2, <1>3, <1>4, <1>5, <1>6 DEF PublisherMoves

LEMMA RowWrites ==
    ASSUME TypeInv, NEW b \in Analyses, RowMoves(b), NEW a \in Analyses
    PROVE  /\ row'[a].dispatch = row[a].dispatch /\ row'[a].attempt = row[a].attempt
           /\ row'[a].due = row[a].due \/ row[a].status = "absent"
           /\ \/ row'[a].status = row[a].status
              \/ row[a].status = "absent" /\ row'[a].status = "QUEUED_PENDING_DISPATCH"
              \/ /\ row[a].status # "absent"
                 /\ row'[a].status \in {"WORKER_PROCESSING", "completed", "FAILED_RETRYABLE"}
<1>1. row[b] \in Row
  BY DEF TypeInv, TypeOK
<1>2. CASE a # b
  BY <1>2 DEF RowMoves, Writes
<1>3. CASE a = b
  <2>1. CASE /\ row[a].status = "absent"
             /\ row'[a] = [row[a] EXCEPT !.status = "QUEUED_PENDING_DISPATCH"]
    BY <1>1, <1>3, <2>1, WrittenRows
  <2>2. CASE /\ row[a].status # "absent"
             /\ \E s \in {"WORKER_PROCESSING", "completed", "FAILED_RETRYABLE"} :
                   row'[a] = [row[a] EXCEPT !.status = s]
    BY <1>1, <1>3, <2>2, WrittenRows
  <2>3. QED
    BY <1>3, <2>1, <2>2 DEF RowMoves, Writes
<1>4. QED
  BY <1>2, <1>3

\* Messages are only added, and only by the run that is sending.
LEMMA SentGrows ==
    ASSUME TypeInv, [Next]_vars
    PROVE  \A a \in Analyses : sent'[a] \in {sent[a], sent[a] + 1}
<1>1. ASSUME NEW p \in Publishers, PublisherMoves(p), NEW a \in Analyses
      PROVE  sent'[a] \in {sent[a], sent[a] + 1}
  BY <1>1 DEF PublisherMoves, Looks, Ends, Recovers, Claims, Sends, Marks, Releases
<1>2. ASSUME NEW b \in Analyses, RowMoves(b) PROVE UNCHANGED sent
  BY <1>2 DEF RowMoves
<1>3. QED
  BY <1>1, <1>2, EveryStepMoves DEF TickMoves, vars

\* MR-013: mark_dispatched takes an analysis from QUEUED_PENDING_DISPATCH to
\* QUEUED and nowhere else, however late it comes and whatever a worker has made
\* of the row meanwhile.  No timing is assumed.
THEOREM OnlyAdvances == Spec => DispatchOnlyAdvances
<1> DEFINE Advances == \A a \in Analyses :
          row'[a].status = "QUEUED" /\ row[a].status # "QUEUED"
              => row[a].status = "QUEUED_PENDING_DISPATCH"
<1>1. TypeInv /\ [Next]_vars => [Advances]_vars
  <2> SUFFICES ASSUME TypeInv, [Next]_vars, NEW a \in Analyses,
                      row'[a].status = "QUEUED", row[a].status # "QUEUED"
               PROVE  row[a].status = "QUEUED_PENDING_DISPATCH"
    OBVIOUS
  <2>1. ASSUME NEW p \in Publishers, PublisherMoves(p)
        PROVE  row[a].status = "QUEUED_PENDING_DISPATCH"
    BY <2>1, PublisherWrites DEF MarkCondition
  <2>2. ASSUME NEW b \in Analyses, RowMoves(b)
        PROVE  row[a].status = "QUEUED_PENDING_DISPATCH"
    BY <2>2, RowWrites
  <2>3. ~TickMoves /\ ~UNCHANGED vars
    BY DEF TickMoves, vars
  <2>4. QED
    BY <2>1, <2>2, <2>3, EveryStepMoves
<1>2. QED
  BY <1>1, TypesAreKept, PTL DEF Spec, DispatchOnlyAdvances

-----------------------------------------------------------------------------
(* A row is marked only by a run whose message the queue has accepted.       *)

SentInv ==
    /\ DispatchedWasSent
    /\ \A p \in Publishers : run[p].phase = "mark" => sent[Current(p)] > 0

LEMMA MarkedWasSent == Spec => []SentInv
<1>1. Init => SentInv
  BY DEF Init, SentInv, DispatchedWasSent, Idle
<1>2. TypeInv /\ TypeInv' /\ SentInv /\ [Next]_vars => SentInv'
  <2> SUFFICES ASSUME TypeInv, TypeInv', SentInv, [Next]_vars PROVE SentInv'
    OBVIOUS
  <2>1. \A a \in Analyses : sent[a] \in Nat /\ (sent[a] > 0 => sent'[a] > 0)
    <3>1. \A a \in Analyses : sent[a] \in Nat /\ sent'[a] \in {sent[a], sent[a] + 1}
      BY SentGrows DEF TypeInv, TypeOK
    <3>2. \A m \in Nat : \A n \in {m, m + 1} : m > 0 => n > 0
      OBVIOUS
    <3>3. QED
      BY <3>1, <3>2
  <2>2. \A p \in Publishers : Holds(p) => Current(p) \in Analyses
    BY RunTyped
  <2>3. ASSUME NEW p \in Publishers, PublisherMoves(p) PROVE SentInv'
    <3>1. ASSUME NEW a \in Analyses, row'[a].dispatch = "DISPATCHED"
          PROVE  sent'[a] > 0
      BY <2>1, <2>3, <3>1, PublisherWrites DEF SentInv, DispatchedWasSent
    <3>2. ASSUME NEW q \in Publishers, q # p, run'[q].phase = "mark"
          PROVE  sent'[Current(q)'] > 0
      <4>1. run'[q] = run[q]
        BY <2>3, <3>2 DEF PublisherMoves, OthersRest
      <4>2. Current(q)' = Current(q) /\ run[q].phase = "mark"
        BY <3>2, <4>1 DEF Current
      <4>3. Current(q) \in Analyses
        BY <2>2, <4>2 DEF Holds
      <4>4. QED
        BY <2>1, <4>2, <4>3 DEF SentInv
    <3>3. ASSUME run'[p].phase = "mark" PROVE sent'[Current(p)'] > 0
      <4>1. Sends(p)
        BY <2>3, <3>3 DEF PublisherMoves, Looks, Ends, Recovers, Claims, Marks, Releases, Holds
      <4>2. sent'[Current(p)] = sent[Current(p)] + 1 /\ Current(p) \in Analyses
        BY <3>3, <4>1 DEF Sends
      <4>3. Current(p)' = Current(p)
        BY <4>1 DEF Sends, Stays, Current
      <4>4. QED
        BY <2>1, <4>2, <4>3
    <3>4. QED
      BY <3>1, <3>2, <3>3 DEF SentInv, DispatchedWasSent
  <2>4. ASSUME UNCHANGED <<run, sent>>,
               \A a \in Analyses : row'[a].dispatch = row[a].dispatch
        PROVE  SentInv'
    BY <2>4 DEF SentInv, DispatchedWasSent, Current
  <2>5. QED
    <3>1. ASSUME NEW b \in Analyses, RowMoves(b) PROVE SentInv'
      BY <2>4, <3>1, RowWrites DEF RowMoves
    <3>2. CASE TickMoves
      BY <2>4, <3>2 DEF TickMoves
    <3>3. CASE UNCHANGED vars
      BY <2>4, <3>3 DEF vars
    <3>4. QED
      BY <2>3, <3>1, <3>2, <3>3, EveryStepMoves
<1>3. QED
  BY <1>1, <1>2, TypesAreKept, PTL DEF Spec

\* Whoever reads DISPATCHED can rely on the message: no crash, failed call or late
\* mark makes a row DISPATCHED without one.  No timing is assumed.
THEOREM DispatchesWereSent == Spec => []DispatchedWasSent
  BY MarkedWasSent, PTL DEF SentInv

-----------------------------------------------------------------------------
(* The lease.  OneDispatcher becomes inductive with what a run knows of its  *)
(* claim: the row still carries its attempt and a lease that outlives the    *)
(* run, or reads DISPATCHED since the mark whose response was lost.          *)

ClaimHeld(p) ==
    \/ OwnsClaim(p) /\ row[Current(p)].due > runLeft[p]
    \/ run[p].phase = "release" /\ row[Current(p)].dispatch = "DISPATCHED"

ClaimsAreHeld == \A p \in Publishers : Holds(p) => ClaimHeld(p)

LeaseInv == OneDispatcher /\ ClaimsAreHeld

\* A held row is neither pending nor up for recovery.
LEMMA HeldRow ==
    ASSUME TypeInv, IndexInv, LeaseInv, NEW p \in Publishers, Holds(p)
    PROVE  /\ Current(p) \in Analyses /\ row[Current(p)].dispatch # "PENDING"
           /\ row[Current(p)].status # "absent"
           /\ row[Current(p)].due \in Nat /\ runLeft[p] \in Nat
           /\ row[Current(p)].dispatch = "CLAIMED" =>
                 OwnsClaim(p) /\ row[Current(p)].due > runLeft[p] /\ row[Current(p)].due # 0
<1>1. Current(p) \in Analyses /\ ClaimHeld(p) /\ runLeft[p] \in 0..RunTimeout
  BY RunTyped DEF LeaseInv, ClaimsAreHeld
<1>2. row[Current(p)].due \in Nat /\ runLeft[p] \in Nat
  BY <1>1, DispatchAssumption DEF TypeInv, TypeOK, Row
<1>3. row[Current(p)].dispatch # "PENDING"
  BY <1>1 DEF ClaimHeld, OwnsClaim
<1>4. row[Current(p)].dispatch = "CLAIMED" =>
         OwnsClaim(p) /\ row[Current(p)].due > runLeft[p] /\ row[Current(p)].due # 0
  BY <1>1, <1>2 DEF ClaimHeld
<1>5. QED
  BY <1>1, <1>2, <1>3, <1>4 DEF IndexInv, NewRows

\* Hence no other run gets at it.
LEMMA HeldRowIsLeft ==
    ASSUME TypeInv, IndexInv, LeaseInv, NEW p \in Publishers, NEW q \in Publishers,
           q # p, Holds(q), PublisherMoves(p)
    PROVE  row'[Current(q)] = row[Current(q)]
<1>1. /\ Current(q) \in Analyses /\ row[Current(q)].dispatch # "PENDING"
      /\ row[Current(q)].dispatch = "CLAIMED" => row[Current(q)].due # 0
  BY HeldRow
<1>2. CASE Looks(p) \/ Ends(p) \/ Sends(p)
  BY <1>2 DEF Looks, Ends, Sends
<1>3. CASE Recovers(p)
  <2>1. Current(p) # Current(q)
    BY <1>1, <1>3 DEF Recovers, ClaimExpired, Current
  <2>2. QED
    BY <1>1, <1>3, <2>1 DEF Recovers, Writes
<1>4. CASE Claims(p)
  <2>1. Current(p) # Current(q)
    BY <1>1, <1>4 DEF Claims, ClaimCondition
  <2>2. QED
    BY <1>1, <1>4, <2>1 DEF Claims, Writes
<1>5. CASE Marks(p) \/ Releases(p)
  <2>1. Holds(p)
    BY <1>5 DEF Marks, Releases, Holds
  <2>2. Current(p) # Current(q)
    BY <2>1 DEF LeaseInv, OneDispatcher
  <2>3. QED
    BY <1>1, <1>5, <2>2 DEF Marks, Releases, Writes
<1>6. QED
  BY <1>2, <1>3, <1>4, <1>5 DEF PublisherMoves

\* The moving run itself keeps its claim, has just made it, or is done.
LEMMA OwnClaim ==
    ASSUME TypeInv, TypeInv', IndexInv, LeaseInv, RunTimeout < Lease,
           NEW p \in Publishers, PublisherMoves(p), Holds(p)'
    PROVE  /\ ClaimHeld(p)' /\ Current(p)' = Current(p)
           /\ \/ Holds(p)
              \/ Current(p) \in Analyses /\ row[Current(p)].dispatch = "PENDING"
<1>1. /\ Current(p) \in Analyses => row[Current(p)] \in Row
      /\ runLeft[p] \in 0..RunTimeout
  BY DEF TypeInv, TypeOK
<1>2. CASE Claims(p)
  <2>1. /\ run'[p].phase = "send" /\ run'[p].todo = run[p].todo
        /\ run'[p].attempt = FreshAttempt /\ runLeft'[p] = runLeft[p]
        /\ Current(p) \in Analyses /\ Writes(Current(p), ClaimedRow(p))
        /\ row[Current(p)].dispatch = "PENDING"
    BY <1>2 DEF Claims, ClaimCondition
  <2>2. /\ row'[Current(p)].dispatch = "CLAIMED" /\ row'[Current(p)].attempt = FreshAttempt
        /\ row'[Current(p)].due = Lease
    BY <1>1, <2>1, WrittenRows DEF Writes
  <2>3. Current(p)' = Current(p)
    BY <2>1 DEF Current
  <2>4. Lease > runLeft[p]
    BY <1>1, DispatchAssumption
  <2>5. QED
    BY <2>1, <2>2, <2>3, <2>4 DEF ClaimHeld, OwnsClaim
<1>3. CASE Sends(p) \/ Marks(p)
  <2>1. /\ Holds(p) /\ run[p].phase \in {"send", "mark"} /\ Stays(p)
        /\ run'[p].phase \in {"mark", "release"} /\ Current(p) \in Analyses
    BY <1>3 DEF Sends, Marks, Holds
  <2>2. Current(p)' = Current(p) /\ OwnsClaim(p) /\ row[Current(p)].due > runLeft[p]
    BY <2>1 DEF Stays, Current, LeaseInv, ClaimsAreHeld, ClaimHeld
  <2>3. \/ UNCHANGED row
        \/ run'[p].phase = "release" /\ Writes(Current(p), DispatchedRow(Current(p)))
    BY <1>3 DEF Sends, Marks
  <2>4. CASE UNCHANGED row
    BY <2>1, <2>2, <2>4 DEF ClaimHeld, OwnsClaim, Stays
  <2>5. CASE run'[p].phase = "release" /\ Writes(Current(p), DispatchedRow(Current(p)))
    <3>1. row'[Current(p)].dispatch = "DISPATCHED"
      BY <1>1, <2>1, <2>5, WrittenRows DEF Writes
    <3>2. QED
      BY <2>1, <2>2, <2>5, <3>1 DEF ClaimHeld
  <2>6. QED
    BY <2>1, <2>2, <2>3, <2>4, <2>5
<1>4. QED
  BY <1>2, <1>3 DEF PublisherMoves, Looks, Ends, Recovers, Releases

LEMMA LeasesAreKept == ASSUME RunTimeout < Lease PROVE Spec => []LeaseInv
<1>1. Init => LeaseInv
  BY DEF Init, LeaseInv, OneDispatcher, ClaimsAreHeld, Holds, Idle
<1>2. TypeInv /\ TypeInv' /\ IndexInv /\ LeaseInv /\ [Next]_vars => LeaseInv'
  <2> SUFFICES ASSUME TypeInv, TypeInv', IndexInv, LeaseInv, [Next]_vars PROVE LeaseInv'
    OBVIOUS
  <2>1. ASSUME NEW p \in Publishers, PublisherMoves(p) PROVE LeaseInv'
    <3>1. ASSUME NEW q \in Publishers, q # p, Holds(q)'
          PROVE  Holds(q) /\ Current(q)' = Current(q) /\ ClaimHeld(q)'
      <4>1. run'[q] = run[q] /\ runLeft'[q] = runLeft[q]
        BY <2>1, <3>1 DEF PublisherMoves, OthersRest
      <4>2. Holds(q) /\ Current(q)' = Current(q)
        BY <3>1, <4>1 DEF Holds, Current
      <4>3. row'[Current(q)] = row[Current(q)] /\ ClaimHeld(q)
        BY <2>1, <3>1, <4>2, HeldRowIsLeft DEF LeaseInv, ClaimsAreHeld
      <4>4. QED
        BY <4>1, <4>2, <4>3 DEF ClaimHeld, OwnsClaim
    <3>2. \A q \in Publishers : Holds(q)' => ClaimHeld(q)' /\ Current(q)' = Current(q)
      BY <2>1, <3>1, OwnClaim
    <3>3. ASSUME NEW q \in Publishers, q # p, Holds(q)', Holds(p)', Current(q) = Current(p)
          PROVE  FALSE
      <4>1. Holds(q) /\ row[Current(q)].dispatch # "PENDING"
        BY <3>1, <3>3, HeldRow
      <4>2. Holds(p)
        BY <2>1, <3>3, <4>1, OwnClaim
      <4>3. QED
        BY <3>3, <4>1, <4>2 DEF LeaseInv, OneDispatcher
    <3>4. ASSUME NEW q \in Publishers, NEW r \in Publishers, Holds(q)', Holds(r)',
                 Current(q) = Current(r)
          PROVE  q = r
      <4>1. CASE q = p \/ r = p
        BY <3>3, <3>4, <4>1
      <4>2. CASE q # p /\ r # p
        BY <3>1, <3>4, <4>2 DEF LeaseInv, OneDispatcher
      <4>3. QED
        BY <4>1, <4>2
    <3>5. OneDispatcher'
      BY <3>2, <3>4 DEF OneDispatcher
    <3>6. QED
      BY <3>2, <3>5 DEF LeaseInv, ClaimsAreHeld
  <2>2. ASSUME UNCHANGED run,
               \A q \in Publishers : Holds(q) =>
                  /\ row'[Current(q)].dispatch = row[Current(q)].dispatch
                  /\ row'[Current(q)].attempt = row[Current(q)].attempt
                  /\ row[Current(q)].due > runLeft[q] => row'[Current(q)].due > runLeft'[q]
        PROVE  LeaseInv'
    <3>1. \A q \in Publishers :
             Current(q)' = Current(q) /\ (Holds(q)' <=> Holds(q))
      BY <2>2 DEF Current, Holds
    <3>2. OneDispatcher'
      BY <3>1 DEF LeaseInv, OneDispatcher
    <3>3. ASSUME NEW q \in Publishers, Holds(q)' PROVE ClaimHeld(q)'
      <4>1. Holds(q) /\ ClaimHeld(q) /\ Current(q)' = Current(q)
        BY <3>1, <3>3 DEF LeaseInv, ClaimsAreHeld
      <4>2. QED
        BY <2>2, <4>1 DEF ClaimHeld, OwnsClaim
    <3>4. QED
      BY <3>2, <3>3 DEF LeaseInv, ClaimsAreHeld
  <2>3. ASSUME NEW b \in Analyses, RowMoves(b) PROVE LeaseInv'
    <3>1. UNCHANGED <<run, runLeft>>
      BY <2>3 DEF RowMoves
    <3>2. ASSUME NEW q \in Publishers, Holds(q)
          PROVE  /\ row'[Current(q)].dispatch = row[Current(q)].dispatch
                 /\ row'[Current(q)].attempt = row[Current(q)].attempt
                 /\ row'[Current(q)].due = row[Current(q)].due
      BY <2>3, <3>2, HeldRow, RowWrites
    <3>3. QED
      BY <2>2, <3>1, <3>2
  <2>4. CASE TickMoves
    <3>1. ASSUME NEW q \in Publishers, Holds(q)
          PROVE  /\ row'[Current(q)].dispatch = row[Current(q)].dispatch
                 /\ row'[Current(q)].attempt = row[Current(q)].attempt
                 /\ row'[Current(q)].due = Less(row[Current(q)].due)
                 /\ runLeft'[q] = Less(runLeft[q]) /\ runLeft[q] > 0
                 /\ row[Current(q)].due \in Nat /\ runLeft[q] \in Nat
      BY <2>4, <3>1, HeldRow DEF TickMoves, Holds
    <3>2. ASSUME NEW q \in Publishers, Holds(q), row[Current(q)].due > runLeft[q]
          PROVE  row'[Current(q)].due > runLeft'[q]
      <4>1. Less(row[Current(q)].due) > Less(runLeft[q])
        BY <3>1, <3>2, LessKeepsOrder
      <4>2. QED
        BY <3>1, <3>2, <4>1
    <3>3. QED
      BY <2>2, <2>4, <3>1, <3>2 DEF TickMoves
  <2>5. CASE UNCHANGED vars
    BY <2>2, <2>5 DEF vars
  <2>6. QED
    BY <2>1, <2>3, <2>4, <2>5, EveryStepMoves
<1>3. QED
  BY <1>1, <1>2, TypesAreKept, IndexIsKept, PTL DEF Spec

\* However many publishers overlap, whatever crashes and however stale their
\* listings are, one analysis is in one pair of hands, provided that Lambda kills
\* an invocation before a lease it took can run out.
THEOREM DispatchersAreExclusive ==
    ASSUME RunTimeout < Lease PROVE Spec => []OneDispatcher
  BY LeasesAreKept, PTL DEF LeaseInv

-----------------------------------------------------------------------------
(* One message.  SentOnce becomes inductive with the place of the extra      *)
(* message: an analysis that still waits for dispatch, or is about to be     *)
(* sent, has none beyond the faults, unless a run is about to mark it.       *)

Marking(a) == \E p \in Publishers : run[p].phase = "mark" /\ Current(p) = a

SendInv ==
    /\ SentOnce
    /\ \A a \in Analyses :
          row[a].status \in {"absent", "QUEUED_PENDING_DISPATCH"} /\ ~Marking(a)
              => sent[a] <= faults
    /\ \A p \in Publishers : run[p].phase = "send" => sent[Current(p)] <= faults

LEMMA PrimedSendInv ==
    ASSUME \A p \in Publishers : Holds(p)' => Current(p)' \in Analyses,
           faults' \in Nat, \A a \in Analyses : sent'[a] \in Nat /\ sent'[a] <= faults'
    PROVE  SendInv'
<1>1. \A a \in Analyses : sent'[a] <= 1 + faults'
  <2>1. \A m, n \in Nat : m <= n => m <= 1 + n
    OBVIOUS
  <2>2. QED
    BY <2>1
<1>2. \A p \in Publishers : run'[p].phase = "send" => sent'[Current(p)'] <= faults'
  BY DEF Holds
<1>3. QED
  BY <1>1, <1>2 DEF SendInv, SentOnce

\* A step without a fault adds a message only for a run that marks it next.
LEMMA QuietSendInv ==
    ASSUME TypeInv, SendInv, faults' = faults,
           NEW p \in Publishers, PublisherMoves(p), UNCHANGED sent,
           run'[p].phase # "mark",
           run'[p].phase = "send" => sent[Current(p)'] <= faults,
           \A a \in Analyses :
              /\ row'[a].status \in {"absent", "QUEUED_PENDING_DISPATCH"} =>
                    row[a].status = row'[a].status
              /\ run[p].phase = "mark" /\ Current(p) = a =>
                    row'[a].status \notin {"absent", "QUEUED_PENDING_DISPATCH"}
    PROVE  SendInv'
<1>1. \A q \in Publishers : q # p => run'[q] = run[q] /\ Current(q)' = Current(q)
  BY DEF PublisherMoves, OthersRest, Current
<1>2. SentOnce'
  BY DEF SendInv, SentOnce
<1>3. ASSUME NEW a \in Analyses, ~Marking(a)',
             row'[a].status \in {"absent", "QUEUED_PENDING_DISPATCH"}
      PROVE  sent'[a] <= faults'
  <2>1. ~(run[p].phase = "mark" /\ Current(p) = a)
    BY <1>3
  <2>2. ~Marking(a)
    BY <1>1, <1>3, <2>1 DEF Marking
  <2>3. QED
    BY <1>3, <2>2 DEF SendInv
<1>4. \A q \in Publishers : run'[q].phase = "send" => sent'[Current(q)'] <= faults'
  BY <1>1 DEF SendInv
<1>5. QED
  BY <1>2, <1>3, <1>4 DEF SendInv

LEMMA SendsAreKept == ASSUME RunTimeout < Lease PROVE Spec => []SendInv
<1>1. Init => SendInv
  BY DEF Init, SendInv, SentOnce, Idle
<1>2. TypeInv /\ TypeInv' /\ IndexInv /\ LeaseInv /\ SendInv /\ [Next]_vars => SendInv'
  <2> SUFFICES ASSUME TypeInv, TypeInv', IndexInv, LeaseInv, SendInv, [Next]_vars
               PROVE  SendInv'
    OBVIOUS
  <2>1. /\ faults \in Nat /\ faults' \in Nat
        /\ \A a \in Analyses : sent[a] \in Nat /\ sent'[a] \in Nat /\ sent[a] <= 1 + faults
    BY DispatchAssumption DEF TypeInv, TypeOK, SendInv, SentOnce
  <2>2. ASSUME NEW p \in Publishers, PublisherMoves(p) PROVE SendInv'
    <3>1. \A q \in Publishers : Holds(q)' => Current(q)' \in Analyses
      <4>1. \A q \in Publishers : Holds(q)' => run'[q].todo # <<>> /\ run'[q].todo \in Seq(Seen)
        BY DEF TypeInv, TypeOK, RunsAreAtRows, Run, Seen
      <4>2. \A q \in Publishers : Holds(q)' => Head(run'[q].todo) \in Seen
        BY <4>1, HeadTailProperties
      <4>3. QED
        BY <4>2 DEF Current, Seen
    <3>2. \A q \in Publishers : Holds(q) => Current(q) \in Analyses
      BY RunTyped
    <3>3. CASE faults' = faults + 1 /\ UNCHANGED sent
      <4>1. \A a \in Analyses : sent'[a] <= faults'
        <5>1. \A m, f \in Nat : m <= 1 + f => m <= f + 1
          OBVIOUS
        <5>2. QED
          BY <2>1, <3>3, <5>1
      <4>2. QED
        BY <2>1, <3>1, <4>1, PrimedSendInv
    <3>4. CASE Looks(p) \/ Recovers(p) \/ Releases(p)
               \/ (Ends(p) /\ faults' = faults /\ run[p].phase # "mark")
      <4>1. /\ UNCHANGED <<sent, faults>> /\ ~Holds(p)' /\ run[p].phase # "mark"
        BY <3>4 DEF Looks, Recovers, Releases, Ends, Holds
      <4>2. \A a \in Analyses : row'[a].status = row[a].status
        BY <2>2, <4>1, PublisherWrites
      <4>3. QED
        BY <2>2, <4>1, <4>2, QuietSendInv DEF Holds
    <3>5. CASE Claims(p)
      <4>1. UNCHANGED sent /\ ~Holds(p) /\ Current(p) \in Analyses /\ ClaimCondition(p)
        BY <3>5 DEF Claims
      <4>2. \/ run'[p].phase = "send" /\ run'[p].todo = run[p].todo /\ faults' = faults
            \/ faults' = faults + 1
        BY <3>5 DEF Claims
      <4>3. CASE run'[p].phase = "send" /\ run'[p].todo = run[p].todo /\ faults' = faults
        <5>1. \A a \in Analyses : row'[a].status = row[a].status
          BY <2>2, <4>1, PublisherWrites DEF Holds
        <5>2. ~Marking(Current(p))
          BY <4>1, HeldRow DEF Marking, Holds, ClaimCondition
        <5>3. Current(p)' = Current(p) /\ sent[Current(p)] <= faults
          BY <4>1, <4>3, <5>2 DEF Current, SendInv, ClaimCondition
        <5>4. QED
          BY <2>2, <4>1, <4>3, <5>1, <5>3, QuietSendInv DEF Holds
      <4>4. QED
        BY <3>3, <4>1, <4>2, <4>3
    <3>6. CASE Sends(p)
      <4> DEFINE c == Current(p)
      <4>1. /\ c \in Analyses /\ run[p].phase = "send" /\ UNCHANGED row
            /\ \A b \in Analyses : b # c => sent'[b] = sent[b]
            /\ Current(p)' = c
        BY <3>6 DEF Sends, Stays, Current
      <4>2. sent[c] <= faults
        BY <4>1 DEF SendInv
      <4>3. ASSUME NEW q \in Publishers, q # p
            PROVE  /\ run'[q] = run[q] /\ Current(q)' = Current(q)
                   /\ Holds(q) => Current(q) # c
        <5>1. run'[q] = run[q] /\ Current(q)' = Current(q)
          BY <2>2, <4>3 DEF PublisherMoves, OthersRest, Current
        <5>2. Holds(p)
          BY <4>1 DEF Holds
        <5>3. QED
          BY <4>3, <5>1, <5>2 DEF LeaseInv, OneDispatcher
      <4> HIDE DEF c
      <4>4. CASE sent'[c] = sent[c] + 1 /\ run'[p].phase = "mark" /\ faults' = faults
        <5>1. \A a \in Analyses : sent'[a] <= 1 + faults'
          <6>1. \A m, f \in Nat : m <= f => m + 1 <= 1 + f
            OBVIOUS
          <6>2. QED
            BY <2>1, <4>1, <4>2, <4>4, <6>1
        <5>2. ASSUME NEW a \in Analyses, ~Marking(a)',
                     row'[a].status \in {"absent", "QUEUED_PENDING_DISPATCH"}
              PROVE  sent'[a] <= faults'
          <6>1. a # c
            BY <4>1, <4>4, <5>2 DEF Marking
          <6>2. ~Marking(a)
            BY <4>1, <4>3, <5>2 DEF Marking
          <6>3. QED
            BY <4>1, <4>4, <5>2, <6>1, <6>2 DEF SendInv
        <5>3. ASSUME NEW q \in Publishers, run'[q].phase = "send"
              PROVE  sent'[Current(q)'] <= faults'
          <6>1. q # p
            BY <4>4, <5>3
          <6>2. run[q].phase = "send" /\ Current(q)' = Current(q) /\ Current(q) # c
                /\ Current(q) \in Analyses
            BY <3>2, <4>3, <5>3, <6>1 DEF Holds
          <6>3. QED
            BY <4>1, <4>4, <6>2 DEF SendInv
        <5>4. QED
          BY <5>1, <5>2, <5>3 DEF SendInv, SentOnce
      <4>5. CASE sent'[c] \in {sent[c], sent[c] + 1} /\ faults' = faults + 1
        <5>1. \A m, f \in Nat : m <= f => m <= f + 1 /\ m + 1 <= f + 1
          OBVIOUS
        <5>2. sent'[c] <= faults'
          BY <2>1, <4>1, <4>2, <4>5, <5>1
        <5>3. \A m, f \in Nat : m <= 1 + f => m <= f + 1
          OBVIOUS
        <5>4. \A b \in Analyses : b # c => sent'[b] <= faults'
          BY <2>1, <4>1, <4>5, <5>3
        <5>5. QED
          BY <2>1, <3>1, <5>2, <5>4, PrimedSendInv
      <4>6. QED
        BY <3>6, <4>4, <4>5 DEF Sends, c
    <3>7. CASE Marks(p)
      <4>1. /\ UNCHANGED sent /\ Current(p) \in Analyses /\ run[p].phase = "mark"
            /\ run'[p].phase \notin {"send", "mark"}
        BY <3>7 DEF Marks, Holds
      <4>2. Holds(p) /\ OwnsClaim(p) /\ row[Current(p)].status # "absent"
        <5>1. Holds(p)
          BY <4>1 DEF Holds
        <5>2. ClaimHeld(p)
          BY <5>1 DEF LeaseInv, ClaimsAreHeld
        <5>3. QED
          BY <4>1, <5>1, <5>2, HeldRow DEF ClaimHeld
      <4>3. CASE faults' = faults
        <5>1. \A a \in Analyses :
                 /\ row'[a].status \in {"absent", "QUEUED_PENDING_DISPATCH"} =>
                       row[a].status = row'[a].status
                 /\ Current(p) = a =>
                       row'[a].status \notin {"absent", "QUEUED_PENDING_DISPATCH"}
          <6>1. CASE Writes(Current(p), DispatchedRow(Current(p)))
            <7>1. row[Current(p)] \in Row
              BY <4>1 DEF TypeInv, TypeOK
            <7>2. row'[Current(p)].status = "QUEUED"
              BY <6>1, <7>1, WrittenRows DEF Writes
            <7>3. QED
              BY <6>1, <7>2 DEF Writes
          <6>2. CASE ~MarkCondition(p) /\ UNCHANGED row
            BY <4>2, <6>2 DEF MarkCondition
          <6>3. faults' # faults + 1
            BY <2>1, <4>3
          <6>4. QED
            BY <3>7, <6>1, <6>2, <6>3 DEF Marks
        <5>2. QED
          BY <2>2, <4>1, <4>3, <5>1, QuietSendInv
      <4>4. QED
        BY <3>3, <3>7, <4>1, <4>3 DEF Marks
    <3>8. QED
      BY <2>2, <3>3, <3>4, <3>5, <3>6, <3>7 DEF PublisherMoves, Ends
  <2>3. ASSUME UNCHANGED <<run, sent, faults>>,
               \A a \in Analyses :
                  row'[a].status \in {"absent", "QUEUED_PENDING_DISPATCH"} =>
                     row[a].status \in {"absent", "QUEUED_PENDING_DISPATCH"}
        PROVE  SendInv'
    <3>1. \A a : Marking(a)' <=> Marking(a)
      BY <2>3 DEF Marking, Current
    <3>2. QED
      BY <2>3, <3>1 DEF SendInv, SentOnce, Current
  <2>4. ASSUME NEW b \in Analyses, RowMoves(b) PROVE SendInv'
    <3>1. \A a \in Analyses :
             row'[a].status \in {"absent", "QUEUED_PENDING_DISPATCH"} =>
                row[a].status \in {"absent", "QUEUED_PENDING_DISPATCH"}
      BY <2>4, RowWrites
    <3>2. QED
      BY <2>3, <2>4, <3>1 DEF RowMoves
  <2>5. CASE TickMoves \/ UNCHANGED vars
    BY <2>3, <2>5 DEF TickMoves, vars
  <2>6. QED
    BY <2>2, <2>4, <2>5, EveryStepMoves
<1>3. QED
  BY <1>1, <1>2, TypesAreKept, IndexIsKept, LeasesAreKept, PTL DEF Spec

\* Every message of an analysis beyond the first is paid for by a crash or a
\* failed call: overlapping invocations, stale listings, releases for retry and
\* races with a worker never send one, provided that Lambda kills an invocation
\* before a lease it took can run out.
THEOREM DispatchedOnce ==
    ASSUME RunTimeout < Lease PROVE Spec => []SentOnce
  BY SendsAreKept, PTL DEF SendInv
=============================================================================
