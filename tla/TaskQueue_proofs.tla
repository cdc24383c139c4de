---------------------------- MODULE TaskQueue_proofs ----------------------------
(***************************************************************************)
(* Machine-checked facts about TaskQueue, for every value of its constants.*)
(***************************************************************************)
EXTENDS TaskQueueSerial, FiniteSetTheorems, SequenceTheorems, TLAPS

-----------------------------------------------------------------------------
(* The queue as memory.                                                    *)

\* Whatever prev pointer queue_enter read, the header reaches a list of elements.
LEMMA LinkedType ==
  ASSUME NEW q \in Seq(Node), NEW prev, NEW n \in Node
  PROVE  Linked(q, prev, n) \in Seq(Node)
<1>1. CASE prev = QHead
  BY <1>1 DEF Linked
<1>2. CASE prev # QHead /\ \E i \in DOMAIN q : q[i] = prev
  <2>1. PICK i \in 1 .. Len(q) : i = CHOOSE k \in DOMAIN q : q[k] = prev
    BY <1>2
  <2>2. \A k \in 1 .. i : q[k] \in Node
    BY <2>1
  <2>3. SubSeq(q, 1, i) \in Seq(Node)
    BY <2>2, SubSeqProperties
  <2> QED
    BY <1>2, <2>1, <2>3 DEF Linked
<1>3. CASE prev # QHead /\ ~(\E i \in DOMAIN q : q[i] = prev)
  BY <1>3 DEF Linked
<1> QED
  BY <1>1, <1>2, <1>3

\* queue_enter through an up-to-date prev pointer appends.
LEMMA LinkedAppends ==
  ASSUME NEW q \in Seq(Node), NEW last, NEW n \in Node,
         q = <<>> => last = QHead,
         q # <<>> => last = q[Len(q)],
         \A i, j \in DOMAIN q : i # j => q[i] # q[j]
  PROVE  Linked(q, last, n) = Append(q, n)
<1>1. CASE q = <<>>
  BY <1>1 DEF Linked
<1>2. CASE q # <<>>
  <2>1. Len(q) \in DOMAIN q /\ last = q[Len(q)] /\ last \in Node
    BY <1>2
  <2>2. last # QHead
    BY <2>1, HeadAssumption
  <2>3. (CHOOSE i \in DOMAIN q : q[i] = last) = Len(q)
    BY <2>1
  <2>4. SubSeq(q, 1, Len(q)) = q
    OBVIOUS
  <2> QED
    BY <2>1, <2>2, <2>3, <2>4 DEF Linked
<1> QED
  BY <1>1, <1>2

-----------------------------------------------------------------------------
(* The tags at some places of a queue, in order.                           *)

\* The places of a queue can be counted.
LEMMA PlacesFinite ==
  ASSUME NEW n \in Nat, NEW P \in SUBSET (1 .. n)
  PROVE  IsFiniteSet(P) /\ Cardinality(P) \in Nat
<1>1. IsFiniteSet(1 .. n)
  BY FS_Interval
<1> QED
  BY <1>1, FS_Subset, FS_CardinalityType

\* Ranks number the places from the front, without a gap.
LEMMA Ranks ==
  ASSUME NEW n \in Nat, NEW P \in SUBSET (1 .. n)
  PROVE  /\ \A i \in P : Rank(P, i) \in 1 .. Cardinality(P)
         /\ \A i, j \in P : i < j => Rank(P, i) < Rank(P, j)
         /\ \A k \in 1 .. Cardinality(P) : \E i \in P : Rank(P, i) = k
<1> DEFINE Upto(i) == {j \in P : j <= i}
<1>1. IsFiniteSet(P) /\ Cardinality(P) \in Nat
  BY PlacesFinite
<1>2. \A i : /\ Upto(i) \in SUBSET P
             /\ IsFiniteSet(Upto(i))
             /\ Cardinality(Upto(i)) \in Nat
             /\ Cardinality(Upto(i)) <= Cardinality(P)
             /\ Rank(P, i) = Cardinality(Upto(i))
  <2> TAKE i
  <2>1. Upto(i) \in SUBSET P
    OBVIOUS
  <2>2. IsFiniteSet(Upto(i)) /\ Cardinality(Upto(i)) <= Cardinality(P)
    BY <1>1, <2>1, FS_Subset
  <2> QED
    BY <2>1, <2>2, FS_CardinalityType DEF Rank
<1>3. \A i \in P : Rank(P, i) \in 1 .. Cardinality(P)
  <2> TAKE i \in P
  <2>1. i \in Upto(i)
    OBVIOUS
  <2>2. Cardinality(Upto(i)) # 0
    BY <1>2, <2>1, FS_EmptySet
  <2> HIDE DEF Upto
  <2> QED
    BY <1>1, <1>2, <2>2
<1>4. \A i, j \in P : i < j => Rank(P, i) < Rank(P, j)
  <2> SUFFICES ASSUME NEW i \in P, NEW j \in P, i < j
               PROVE  Rank(P, i) < Rank(P, j)
    OBVIOUS
  <2>1. Upto(i) \in SUBSET Upto(j)
    <3>1. \A m \in P : m <= i => m <= j
      OBVIOUS
    <3> QED
      BY <3>1
  <2>2. j \in Upto(j) /\ j \notin Upto(i)
    OBVIOUS
  <2>3. Cardinality(Upto(i)) <= Cardinality(Upto(j)) /\ Cardinality(Upto(i)) # Cardinality(Upto(j))
    <3> HIDE DEF Upto
    <3> QED
      BY <1>2, <2>1, <2>2, FS_Subset
  <2> HIDE DEF Upto
  <2> QED
    BY <1>2, <2>3
<1>5. \A k \in 1 .. Cardinality(P) : \E i \in P : Rank(P, i) = k
  <2> DEFINE f == [i \in P |-> Rank(P, i)]
             K == 1 .. Cardinality(P)
  <2>1. f \in [P -> K]
    BY <1>3
  <2>2. \A i, j \in P : f[i] = f[j] => i = j
    <3> SUFFICES ASSUME NEW i \in P, NEW j \in P, Rank(P, i) = Rank(P, j), i # j
                 PROVE  FALSE
      OBVIOUS
    <3>1. i < j \/ j < i
      OBVIOUS
    <3> QED
      BY <1>3, <1>4, <3>1
  <2>3. f \in Injection(P, K)
    <3> HIDE DEF f, K
    <3> QED
      BY <2>1, <2>2 DEF Injection, IsInjective
  <2>4. IsFiniteSet(K) /\ Cardinality(K) = Cardinality(P)
    BY <1>1, FS_Interval
  <2>5. f \in Surjection(P, K)
    <3> HIDE DEF f, K
    <3> QED
      BY <2>3, <2>4, FS_Injection
  <2>6. \A k \in K : \E i \in P : f[i] = k
    <3> HIDE DEF f, K
    <3> QED
      BY <2>5 DEF Surjection
  <2> QED
    BY <2>6
<1> QED
  BY <1>3, <1>4, <1>5

\* Each entry of TagsAt is the tag of the place with its rank.
LEMMA TagsAtEntry ==
  ASSUME NEW q, NEW n \in Nat, NEW P \in SUBSET (1 .. n), NEW i \in P
  PROVE  TagsAt(q, P)[Rank(P, i)] = q[i].tag
<1>1. Rank(P, i) \in 1 .. Cardinality(P)
  BY Ranks
<1>2. {j \in P : Rank(P, j) = Rank(P, i)} = {i}
  <2>1. \A j \in P : j # i => j < i \/ i < j
    OBVIOUS
  <2>2. \A j \in P : Rank(P, j) \in Int
    <3>1. \A j \in P : Rank(P, j) \in 1 .. Cardinality(P)
      BY Ranks
    <3> QED
      BY <3>1
  <2>3. \A j \in P : j # i => Rank(P, j) # Rank(P, i)
    <3> SUFFICES ASSUME NEW j \in P, j # i
                 PROVE  Rank(P, j) # Rank(P, i)
      OBVIOUS
    <3>1. Rank(P, j) < Rank(P, i) \/ Rank(P, i) < Rank(P, j)
      BY <2>1, Ranks
    <3> QED
      BY <2>2, <3>1
  <2> QED
    BY <2>3
<1>3. {q[j].tag : j \in {j \in P : Rank(P, j) = Rank(P, i)}} = {q[i].tag}
  BY <1>2
<1> QED
  BY <1>1, <1>3 DEF TagsAt, Only

\* A sequence is TagsAt when it has its length and each place's tag at its rank.
LEMMA TagsAtIs ==
  ASSUME NEW q, NEW T, NEW n \in Nat, NEW P \in SUBSET (1 .. n), NEW s \in Seq(T),
         Len(s) = Cardinality(P),
         \A i \in P : s[Rank(P, i)] = q[i].tag
  PROVE  s = TagsAt(q, P)
<1>1. Cardinality(P) \in Nat
  BY PlacesFinite
<1>2. \A k \in 1 .. Cardinality(P) : s[k] = TagsAt(q, P)[k]
  <2> TAKE k \in 1 .. Cardinality(P)
  <2>1. PICK i \in P : Rank(P, i) = k
    BY Ranks
  <2> QED
    BY <2>1, TagsAtEntry
<1>3. TagsAt(q, P) = [k \in 1 .. Cardinality(P) |-> TagsAt(q, P)[k]]
  BY DEF TagsAt
<1>4. s = [k \in 1 .. Cardinality(P) |-> s[k]]
  BY <1>1
<1> QED
  BY <1>2, <1>3, <1>4

\* TagsAt is a sequence of the tags it picks.
LEMMA TagsAtType ==
  ASSUME NEW q, NEW T, NEW n \in Nat, NEW P \in SUBSET (1 .. n),
         \A i \in P : q[i].tag \in T
  PROVE  /\ TagsAt(q, P) \in Seq(T)
         /\ Len(TagsAt(q, P)) = Cardinality(P)
<1>1. Cardinality(P) \in Nat
  BY PlacesFinite
<1>2. \A k \in 1 .. Cardinality(P) : \E i \in P : TagsAt(q, P)[k] = q[i].tag
  <2> TAKE k \in 1 .. Cardinality(P)
  <2>1. PICK i \in P : Rank(P, i) = k
    BY Ranks
  <2> QED
    BY <2>1, TagsAtEntry
<1>3. TagsAt(q, P) = [k \in 1 .. Cardinality(P) |-> TagsAt(q, P)[k]]
  BY DEF TagsAt
<1> HIDE DEF TagsAt
<1>4. \A k \in 1 .. Cardinality(P) : TagsAt(q, P)[k] \in T
  BY <1>2
<1> QED
  BY <1>1, <1>3, <1>4

\* A place behind all others adds its tag at the end.
LEMMA TagsAtAppend ==
  ASSUME NEW q, NEW n \in Nat, NEW P \in SUBSET (1 .. n)
  PROVE  TagsAt(q, P \cup {n + 1}) = Append(TagsAt(q, P), q[n + 1].tag)
<1> DEFINE Q == P \cup {n + 1}
           T == {q[i].tag : i \in Q}
           s == TagsAt(q, P)
           e == q[n + 1].tag
<1>0. (\A i \in P : q[i].tag \in T) /\ e \in T
  OBVIOUS
<1> HIDE DEF T
<1>1. /\ s \in Seq(T) /\ Len(s) = Cardinality(P)
      /\ Cardinality(P) \in Nat /\ IsFiniteSet(P)
  BY <1>0, TagsAtType, PlacesFinite
<1>2. Q \in SUBSET (1 .. n + 1) /\ n + 1 \notin P
  OBVIOUS
<1>3. Cardinality(Q) = Cardinality(P) + 1
  BY <1>1, <1>2, FS_AddElement
<1>4. \A i \in P : Rank(Q, i) = Rank(P, i)
  <2> TAKE i \in P
  <2>1. {j \in Q : j <= i} = {j \in P : j <= i}
    OBVIOUS
  <2> QED
    BY <2>1 DEF Rank
<1>5. Rank(Q, n + 1) = Cardinality(Q)
  <2>1. \A j \in Q : j <= n + 1
    OBVIOUS
  <2>2. {j \in Q : j <= n + 1} = Q
    BY <2>1
  <2> HIDE DEF Q
  <2> QED
    BY <2>2 DEF Rank
<1>6. /\ Append(s, e) \in Seq(T)
      /\ Len(Append(s, e)) = Cardinality(P) + 1
      /\ \A k \in 1 .. Cardinality(P) : Append(s, e)[k] = s[k]
      /\ Append(s, e)[Cardinality(P) + 1] = e
  <2> HIDE DEF s, e
  <2> QED
    BY <1>0, <1>1
<1>7. \A i \in Q : Append(s, e)[Rank(Q, i)] = q[i].tag
  <2> SUFFICES ASSUME NEW i \in Q
               PROVE  Append(s, e)[Rank(Q, i)] = q[i].tag
    OBVIOUS
  <2>1. CASE i \in P
    <3>1. Rank(P, i) \in 1 .. Cardinality(P) /\ s[Rank(P, i)] = q[i].tag
      BY <2>1, Ranks, TagsAtEntry
    <3> HIDE DEF s, e, Q
    <3> QED
      BY <1>4, <1>6, <2>1, <3>1
  <2>2. CASE i = n + 1
    BY <1>3, <1>5, <1>6, <2>2
  <2> QED
    BY <2>1, <2>2
<1> DEFINE m == n + 1
<1>8. m \in Nat /\ Q \in SUBSET (1 .. m)
  BY <1>2
<1> HIDE DEF s, e, Q, m
<1> DEFINE w == Append(s, e)
<1>9. /\ w \in Seq(T) /\ Len(w) = Cardinality(Q)
      /\ \A i \in Q : w[Rank(Q, i)] = q[i].tag
  BY <1>3, <1>6, <1>7
<1> HIDE DEF w
<1>10. w = TagsAt(q, Q)
  BY <1>8, <1>9, TagsAtIs
<1> QED
  BY <1>10 DEF s, e, Q, w

\* A place in front of all others has the first tag.
LEMMA TagsAtFirst ==
  ASSUME NEW q, NEW n \in Nat, NEW R \in SUBSET (2 .. n)
  PROVE  TagsAt(q, {1} \cup R) = <<q[1].tag>> \o TagsAt(q, R)
<1> DEFINE Q == R \cup {1}
           T == {q[i].tag : i \in Q}
           s == TagsAt(q, R)
           e == q[1].tag
<1>0. (\A i \in R : q[i].tag \in T) /\ e \in T
  OBVIOUS
<1> HIDE DEF T
<1>1. R \in SUBSET (1 .. n) /\ 1 \notin R /\ Q \in SUBSET (1 .. n + 1)
  OBVIOUS
<1>2. /\ s \in Seq(T) /\ Len(s) = Cardinality(R)
      /\ Cardinality(R) \in Nat /\ IsFiniteSet(R)
  BY <1>0, <1>1, TagsAtType, PlacesFinite
<1>3. Cardinality(Q) = Cardinality(R) + 1
  BY <1>1, <1>2, FS_AddElement
<1>4. \A i \in R : Rank(Q, i) = Rank(R, i) + 1
  <2> TAKE i \in R
  <2> DEFINE U == {j \in R : j <= i}
  <2>1. {j \in Q : j <= i} = U \cup {1}
    OBVIOUS
  <2>2. U \in SUBSET R /\ 1 \notin U
    OBVIOUS
  <2>3. IsFiniteSet(U)
    BY <1>2, <2>2, FS_Subset
  <2> QED
    BY <2>1, <2>2, <2>3, FS_AddElement DEF Rank
<1>5. Rank(Q, 1) = 1
  <2>1. 1 \in Q /\ \A j \in Q : j <= 1 <=> j = 1
    OBVIOUS
  <2>2. {j \in Q : j <= 1} = {1}
    BY <2>1
  <2> HIDE DEF Q
  <2> QED
    BY <2>2, FS_Singleton DEF Rank
<1>6. /\ <<e>> \o s \in Seq(T)
      /\ Len(<<e>> \o s) = Cardinality(R) + 1
      /\ \A k \in 1 .. Cardinality(R) : (<<e>> \o s)[k + 1] = s[k]
      /\ (<<e>> \o s)[1] = e
  <2> HIDE DEF s, e
  <2> QED
    BY <1>0, <1>2
<1>7. \A i \in Q : (<<e>> \o s)[Rank(Q, i)] = q[i].tag
  <2> SUFFICES ASSUME NEW i \in Q
               PROVE  (<<e>> \o s)[Rank(Q, i)] = q[i].tag
    OBVIOUS
  <2>1. CASE i \in R
    <3>1. Rank(R, i) \in 1 .. Cardinality(R)
      BY <1>1, <2>1, Ranks
    <3>2. s[Rank(R, i)] = q[i].tag
      BY <1>1, <2>1, TagsAtEntry
    <3> HIDE DEF s, e, Q
    <3> QED
      BY <1>4, <1>6, <2>1, <3>1, <3>2
  <2>2. CASE i = 1
    BY <1>5, <1>6, <2>2
  <2> QED
    BY <2>1, <2>2
<1> DEFINE m == n + 1
<1>8. m \in Nat /\ Q \in SUBSET (1 .. m)
  BY <1>1
<1> HIDE DEF s, e, Q, m
<1> DEFINE w == <<e>> \o s
<1>9. /\ w \in Seq(T) /\ Len(w) = Cardinality(Q)
      /\ \A i \in Q : w[Rank(Q, i)] = q[i].tag
  BY <1>3, <1>6, <1>7
<1> HIDE DEF w
<1>10. w = TagsAt(q, Q)
  BY <1>8, <1>9, TagsAtIs
<1>11. Q = {1} \cup R
  BY DEF Q
<1> QED
  BY <1>10, <1>11 DEF s, e, w

\* Moving every place one step to the front changes no tag.
LEMMA TagsAtShift ==
  ASSUME NEW q, NEW r,
         NEW n \in Nat, NEW P \in SUBSET (1 .. n), NEW R \in SUBSET (2 .. n),
         \A i \in 1 .. n : i \in P <=> i + 1 \in R,
         \A i \in P : r[i].tag = q[i + 1].tag
  PROVE  TagsAt(r, P) = TagsAt(q, R)
<1> DEFINE s == TagsAt(q, R)
           T == {q[i].tag : i \in R}
<1>0. \A i \in R : q[i].tag \in T
  OBVIOUS
<1> HIDE DEF T
<1>1. R \in SUBSET (1 .. n)
  OBVIOUS
<1>2. s \in Seq(T) /\ Len(s) = Cardinality(R)
  BY <1>0, <1>1, TagsAtType
<1>3. \A i \in R : i - 1 \in P /\ (i - 1) + 1 = i
  <2> SUFFICES ASSUME NEW i \in R
               PROVE  i - 1 \in P /\ (i - 1) + 1 = i
    OBVIOUS
  <2>1. i - 1 \in 1 .. n /\ (i - 1) + 1 = i
    OBVIOUS
  <2> QED
    BY <2>1
<1>4. \A m \in Int : {j \in P : j <= m} = {j \in P : j + 1 <= m + 1}
  OBVIOUS
<1>5. ASSUME NEW A \in SUBSET P, NEW B \in SUBSET R,
             \A i \in P : i \in A <=> i + 1 \in B
      PROVE  Cardinality(A) = Cardinality(B)
  <2> DEFINE f == [i \in A |-> i + 1]
  <2>1. f \in [A -> B]
    BY <1>5
  <2>2. \A i, j \in A : f[i] = f[j] => i = j
    OBVIOUS
  <2>3. \A b \in B : \E i \in A : f[i] = b
    <3> SUFFICES ASSUME NEW b \in B
                 PROVE  \E i \in A : f[i] = b
      OBVIOUS
    <3>1. b - 1 \in P /\ (b - 1) + 1 = b
      BY <1>3
    <3>2. b - 1 \in A
      BY <1>5, <3>1
    <3>3. f[b - 1] = b
      BY <3>1, <3>2
    <3> QED
      BY <3>2, <3>3
  <2>4. f \in Bijection(A, B)
    <3> HIDE DEF f
    <3> QED
      BY <2>1, <2>2, <2>3 DEF Bijection, Injection, IsInjective, Surjection
  <2>5. ExistsBijection(A, B) 
    BY <2>4 DEF ExistsBijection
  <2>6. IsFiniteSet(A)
    BY FS_Subset, PlacesFinite
  <2> QED
    BY <2>5, <2>6, FS_Bijection
<1>6. Cardinality(P) = Cardinality(R)
  <2>1. \A i \in P : i \in P <=> i + 1 \in R
    OBVIOUS
  <2> QED
    BY <1>5, <2>1
<1>7. \A i \in P : i + 1 \in R /\ Rank(P, i) = Rank(R, i + 1)
  <2> SUFFICES ASSUME NEW i \in P
               PROVE  i + 1 \in R /\ Rank(P, i) = Rank(R, i + 1)
    OBVIOUS
  <2> DEFINE A == {j \in P : j <= i}
             B == {j \in R : j <= i + 1}
  <2>1. A \in SUBSET P /\ B \in SUBSET R
    OBVIOUS
  <2>2. \A j \in P : j \in A <=> j + 1 \in B
    OBVIOUS
  <2>3. Cardinality(A) = Cardinality(B)
    <3> HIDE DEF A, B
    <3> QED
      BY <1>5, <2>1, <2>2
  <2> QED
    BY <2>3 DEF Rank
<1>8. \A i \in P : s[Rank(P, i)] = r[i].tag
  <2> TAKE i \in P
  <2>1. i + 1 \in R /\ Rank(P, i) = Rank(R, i + 1)
    BY <1>7
  <2>2. s[Rank(R, i + 1)] = q[i + 1].tag
    BY <1>1, <2>1, TagsAtEntry
  <2> HIDE DEF s
  <2> QED
    BY <2>1, <2>2
<1> HIDE DEF s
<1>9. s = TagsAt(r, P)
  <2>1. s \in Seq(T) /\ Len(s) = Cardinality(P)
    BY <1>2, <1>6
  <2> QED
    BY <1>8, <2>1, TagsAtIs
<1> QED
  BY <1>9 DEF s

\* The same tags at the same places are the same sequence.
LEMMA TagsAtSame ==
  ASSUME NEW q, NEW r, NEW P, \A i \in P : r[i].tag = q[i].tag
  PROVE  TagsAt(r, P) = TagsAt(q, P)
<1>1. \A k : {q[i].tag : i \in {i \in P : Rank(P, i) = k}}
             = {r[i].tag : i \in {i \in P : Rank(P, i) = k}}
  OBVIOUS
<1> QED
  BY <1>1 DEF TagsAt

-----------------------------------------------------------------------------
(* Type correctness.                                                       *)

\* queueTask keeps the types of the queue it writes.
LEMMA QueueTaskNowType ==
  ASSUME TypeOK, NEW n \in Node, QueueTaskNow(n)
  PROVE  /\ taskQueue' \in Seq(Node)
         /\ tail' \in Node \cup {QHead}
         /\ newTask' \in BOOLEAN
BY LinkedType DEF TypeOK, QueueTaskNow

\* Removing the head of a queue that has one keeps the types of the queue.
LEMMA RemoveFirstType ==
  ASSUME TypeOK, taskQueue # <<>>, RemoveFirst
  PROVE  /\ taskQueue' \in Seq(Node)
         /\ tail' \in Node \cup {QHead}
BY DEF TypeOK, RemoveFirst

\* The latency measurement that a transfer may lead to keeps the types.
LEMMA MeasureTransferType ==
  ASSUME TypeOK, NEW t \in Tasks, MeasureTransfer(t)
  PROVE  /\ taskQueue' \in Seq(Node)
         /\ tail' \in Node \cup {QHead}
         /\ newTask' \in BOOLEAN
         /\ use' \in [Tags -> Nat]
         /\ historyIdx' \in 0 .. Window - 1
<1>1. [tag |-> Latency, use |-> use[Latency] + 1] \in Node
  BY DEF TypeOK, Node, Tags
<1>2. (historyIdx + 1) % Window \in 0 .. Window - 1
  BY ConstantsAssumption DEF TypeOK
<1>3. historyIdx' \in 0 .. Window - 1
  BY <1>2 DEF MeasureTransfer, TypeOK
<1>4. CASE t \in DataTasks /\ historyIdx' = 0
  <2>1. QueueTaskNow([tag |-> Latency, use |-> use[Latency] + 1])
    BY <1>4 DEF MeasureTransfer
  <2>2. use' \in [Tags -> Nat]
    BY <1>4 DEF MeasureTransfer, TypeOK, Tags
  <2> QED
    BY <1>1, <1>3, <2>1, <2>2, QueueTaskNowType
<1>5. CASE ~(t \in DataTasks /\ historyIdx' = 0)
  BY <1>3, <1>5 DEF MeasureTransfer, TypeOK, queueVars
<1> QED
  BY <1>4, <1>5

\* CompleteParallelTask keeps the types of everything it writes.
LEMMA CompleteTaskType ==
  ASSUME TypeOK, NEW t \in Tasks, CompleteTask(t)
  PROVE  /\ taskQueue' \in Seq(Node)
         /\ tail' \in Node \cup {QHead}
         /\ newTask' \in BOOLEAN
         /\ scsi' \in [Tasks -> {"free", "active"}]
         /\ use' \in [Tags -> Nat]
         /\ sent' \in [Tasks -> Nat]
         /\ armed' \subseteq Tasks
         /\ historyIdx' \in 0 .. Window - 1
BY MeasureTransferType DEF CompleteTask, TypeOK

\* BeginTaskOnWorkloopThread keeps the types of everything it writes.
LEMMA BeginTaskType ==
  ASSUME TypeOK, NEW n \in Node, BeginTask(n)
  PROVE  /\ sent' \in [Tasks -> Nat]
         /\ armed' \subseteq Tasks
         /\ atTarget' \subseteq Command
         /\ pings' \in Nat
         /\ enabled' \in BOOLEAN
         /\ \/ workloop' = workloop /\ resume' = resume
            \/ workloop' = [pc |-> "drain", tag |-> NoTask] /\ resume' = Idle
<1>1. n.tag \in Tags
  BY DEF Node
<1>2. CASE BeginLatency(n)
  BY <1>2 DEF BeginLatency, TypeOK
<1>3. CASE TaskNotFound(n)
  BY <1>3 DEF TaskNotFound, TypeOK
<1>4. CASE SendCommand(n)
  <2>1. n.tag \in Tasks
    BY <1>1, <1>4 DEF SendCommand, Tags
  <2>2. [tag |-> n.tag, use |-> use[n.tag], copy |-> sent[n.tag] + 1] \in Command
    BY <2>1 DEF TypeOK, Command, Tags
  <2> QED
    BY <1>4, <2>1, <2>2 DEF SendCommand, TypeOK
<1>5. CASE SendFails(n)
  BY <1>1, <1>5 DEF SendFails, StartDrain, TypeOK, Tags
<1> QED
  BY <1>2, <1>3, <1>4, <1>5 DEF BeginTask

\* Every step preserves the type invariant.
LEMMA TypeStep == TypeOK /\ [Next]_vars => TypeOK'
<1> SUFFICES ASSUME TypeOK, [Next]_vars
             PROVE  TypeOK'
  OBVIOUS
<1> USE DEF queueVars, stackVars, targetVars
<1>1. ASSUME NEW t \in Tasks, SubmitOnThread(t)
      PROVE  TypeOK'
  <2>1. [tag |-> t, use |-> use[t] + 1] \in Node
    BY DEF TypeOK, Node, Tags
  <2>2. /\ taskQueue' \in Seq(Node)
        /\ tail' \in Node \cup {QHead}
        /\ newTask' \in BOOLEAN
    BY <1>1, <2>1, QueueTaskNowType DEF SubmitOnThread
  <2>3. /\ scsi' \in [Tasks -> {"free", "active"}]
        /\ use' \in [Tags -> Nat]
        /\ sent' \in [Tasks -> Nat]
    BY <1>1 DEF SubmitOnThread, Issue, TypeOK, Tags
  <2> QED
    BY <1>1, <2>2, <2>3 DEF SubmitOnThread, TypeOK
<1>2. ASSUME NEW t \in Tasks, SubmitOffThread(t)
      PROVE  TypeOK'
  <2>1. [caller[t] EXCEPT !.pc = "check"] \in CallerState
    <3>1. caller[t] \in CallerState
      BY DEF TypeOK
    <3> QED
      BY <3>1 DEF CallerState
  <2>2. caller' = [caller EXCEPT ![t] = [caller[t] EXCEPT !.pc = "check"]]
    BY <1>2 DEF SubmitOffThread
  <2>3. caller' \in [Tasks -> CallerState]
    BY <2>1, <2>2 DEF TypeOK
  <2>4. /\ scsi' \in [Tasks -> {"free", "active"}]
        /\ use' \in [Tags -> Nat]
        /\ sent' \in [Tasks -> Nat]
    BY <1>2 DEF SubmitOffThread, Issue, TypeOK, Tags
  <2> QED
    BY <1>2, <2>3, <2>4 DEF SubmitOffThread, TypeOK
<1>3. ASSUME NEW t \in Tasks, QueueTaskCheck(t)
      PROVE  TypeOK'
  <2> DEFINE c == [caller[t] EXCEPT !.pc = "enter", !.first = (taskQueue = <<>>)]
  <2>1. \A b \in BOOLEAN : [caller[t] EXCEPT !.pc = "enter", !.first = b] \in CallerState
    <3>1. caller[t] \in CallerState
      BY DEF TypeOK
    <3> QED
      BY <3>1 DEF CallerState
  <2>2. caller' = [caller EXCEPT ![t] = c]
    BY <1>3 DEF QueueTaskCheck, TypeOK
  <2>3. caller' \in [Tasks -> CallerState]
    BY <2>1, <2>2 DEF TypeOK
  <2> QED
    BY <1>3, <2>3 DEF QueueTaskCheck, TypeOK
<1>4. ASSUME NEW t \in Tasks, QueueTaskEnter(t)
      PROVE  TypeOK'
  <2> DEFINE c == [caller[t] EXCEPT !.pc = "link", !.prev = tail]
  <2>1. c \in CallerState
    <3>1. caller[t] \in CallerState /\ tail \in Node \cup {QHead}
      BY DEF TypeOK
    <3> QED
      BY <3>1 DEF CallerState
  <2>2. caller' = [caller EXCEPT ![t] = c]
    BY <1>4 DEF QueueTaskEnter, TypeOK
  <2>3. caller' \in [Tasks -> CallerState]
    BY <2>1, <2>2 DEF TypeOK
  <2> QED
    BY <1>4, <2>3 DEF QueueTaskEnter, TypeOK
<1>5. ASSUME NEW t \in Tasks, QueueTaskLink(t)
      PROVE  TypeOK'
  <2>1. [tag |-> t, use |-> use[t]] \in Node
    BY DEF TypeOK, Node, Tags
  <2>2. taskQueue' \in Seq(Node)
    BY <1>5, <2>1, LinkedType DEF QueueTaskLink, TypeOK
  <2>3. tail' \in Node
    BY <1>5, <2>1 DEF QueueTaskLink
  <2>4. caller' \in [Tasks -> CallerState]
    <3>1. caller[t] \in CallerState
      BY DEF TypeOK
    <3>2. [caller[t] EXCEPT !.pc = "signal"] \in CallerState
      BY <3>1 DEF CallerState
    <3>3. Returned \in CallerState
      BY DEF CallerState, Returned
    <3> QED
      BY <1>5, <3>2, <3>3 DEF QueueTaskLink, TypeOK
  <2> QED
    BY <1>5, <2>2, <2>3, <2>4 DEF QueueTaskLink, TypeOK
<1>6. ASSUME NEW t \in Tasks, QueueTaskSignal(t)
      PROVE  TypeOK'
  <2>1. Returned \in CallerState
    BY DEF CallerState, Returned
  <2> QED
    BY <1>6, <2>1 DEF QueueTaskSignal, TypeOK
<1>7. CASE CheckForWork
  <2>1. CASE taskQueue = <<>>
    BY <1>7, <2>1 DEF CheckForWork, TypeOK
  <2>2. CASE taskQueue # <<>>
    <3>1. taskQueue[1] \in Node
      BY <2>2 DEF TypeOK
    <3>2. BeginTask(taskQueue[1])
      BY <1>7, <2>2 DEF CheckForWork
    <3>3. /\ workloop' \in WorkloopState /\ workloop'.pc \in {"idle", "drain"}
          /\ resume' \in ResumeState
      BY <1>7, <3>1, <3>2, BeginTaskType DEF CheckForWork, TypeOK, WorkloopState, ResumeState
    <3> QED
      BY <1>7, <3>1, <3>2, <3>3, BeginTaskType DEF CheckForWork, TypeOK
  <2> QED
    BY <2>1, <2>2
<1>8. ASSUME NEW c \in atTarget, ProcessSCSIResponse(c)
      PROVE  TypeOK'
  <2>1. c.tag \in Tasks
    BY DEF TypeOK, Command
  <2>2. CASE Outstanding(c.tag)
    <3>1. workloop' \in WorkloopState /\ workloop'.pc = "pop"
      BY <1>8, <2>1, <2>2 DEF ProcessSCSIResponse, WorkloopState, Tags
    <3> QED
      BY <1>8, <2>1, <2>2, <3>1, CompleteTaskType DEF ProcessSCSIResponse, TypeOK
  <2>3. CASE ~Outstanding(c.tag)
    BY <1>8, <2>3 DEF ProcessSCSIResponse, TypeOK
  <2> QED
    BY <2>2, <2>3
<1>9. ASSUME NEW c \in atTarget, ProcessEmptyDataIn(c)
      PROVE  TypeOK'
  BY <1>9 DEF ProcessEmptyDataIn, TypeOK
<1>22. ASSUME NEW c \in atTarget, ReceiveFails(c)
       PROVE  TypeOK'
  <2>1. c.tag \in Tasks
    BY DEF TypeOK, Command
  <2>2. PICK next \in AfterReceive(c) : StartDrain(next)
    BY <1>22 DEF ReceiveFails
  <2>3. next \in ResumeState
    BY <2>1 DEF AfterReceive, ResumeState
  <2>4. workloop' \in WorkloopState /\ workloop'.pc = "drain" /\ resume' \in ResumeState
    BY <2>2, <2>3 DEF StartDrain, WorkloopState
  <2> QED
    BY <1>22, <2>2, <2>4 DEF ReceiveFails, StartDrain, TypeOK
<1>23. CASE ResumeResponse
  <2>1. workloop.tag \in Tasks
    BY <1>23 DEF ResumeResponse, TypeOK
  <2>2. CASE Outstanding(workloop.tag)
    <3>1. workloop' \in WorkloopState /\ workloop'.pc = "pop"
      BY <1>23, <2>2 DEF ResumeResponse, WorkloopState, TypeOK
    <3> QED
      BY <1>23, <2>1, <2>2, <3>1, CompleteTaskType DEF ResumeResponse, TypeOK
  <2>3. CASE ~Outstanding(workloop.tag)
    <3>1. /\ workloop' \in WorkloopState /\ workloop'.pc \in {"idle", "drain"}
          /\ enabled' \in BOOLEAN
          /\ resume' \in ResumeState
      <4>1. \/ StartDrain(Idle)
            \/ workloop' = Idle /\ UNCHANGED <<enabled, resume>>
        BY <1>23, <2>3 DEF ResumeResponse
      <4>2. /\ Idle \in WorkloopState /\ Idle.pc = "idle" /\ Idle \in ResumeState
            /\ [pc |-> "drain", tag |-> NoTask] \in WorkloopState
        BY DEF Idle, WorkloopState, ResumeState
      <4>3. enabled' \in BOOLEAN
        BY <4>1 DEF StartDrain, TypeOK
      <4>4. workloop' \in WorkloopState /\ workloop'.pc \in {"idle", "drain"}
        BY <4>1, <4>2 DEF StartDrain
      <4>5. resume' \in ResumeState
        BY <4>1, <4>2 DEF StartDrain, TypeOK
      <4> QED
        BY <4>3, <4>4, <4>5
    <3> QED
      BY <1>23, <2>3, <3>1 DEF ResumeResponse, TypeOK
  <2> QED
    BY <2>2, <2>3
<1>24. CASE ResumeDataIn
  <2>1. workloop.tag \in Tasks
    BY <1>24 DEF ResumeDataIn, TypeOK
  <2>2. workloop' \in WorkloopState /\ workloop'.pc = "pop"
    BY <1>24 DEF ResumeDataIn, WorkloopState, TypeOK
  <2>3. CASE \E t \in Tasks : CompleteTask(t)
    BY <1>24, <2>2, <2>3, CompleteTaskType DEF ResumeDataIn, TypeOK
  <2>4. CASE MeasureTransfer(workloop.tag) /\ UNCHANGED <<scsi, sent, armed>>
    BY <1>24, <2>1, <2>2, <2>4, MeasureTransferType DEF ResumeDataIn, TypeOK
  <2> QED
    BY <1>24, <2>1, <2>3, <2>4 DEF ResumeDataIn, CompleteAgain
<1>10. CASE ProcessNOPIn
  <2>1. workloop' \in WorkloopState /\ workloop'.pc = "pop"
    BY <1>10 DEF ProcessNOPIn, WorkloopState, Tags
  <2> QED
    BY <1>10, <2>1 DEF ProcessNOPIn, TypeOK
<1>11. CASE TaskMgmtRequest
  <2>1. tmfs' = [made |-> tmfs.made + 1, answered |-> tmfs.answered]
    BY <1>11 DEF TaskMgmtRequest, TypeOK
  <2>2. tmfs' \in [made : Nat, answered : Nat]
    BY <2>1 DEF TypeOK
  <2> QED
    BY <1>11, <2>2 DEF TaskMgmtRequest, TypeOK
<1>12. CASE ProcessTaskMgmtRsp
  <2>1. tmfs' = [made |-> tmfs.made, answered |-> tmfs.answered + 1]
    BY <1>12 DEF ProcessTaskMgmtRsp, TypeOK
  <2>2. tmfs' \in [made : Nat, answered : Nat]
    BY <2>1 DEF TypeOK
  <2>3. workloop' \in WorkloopState /\ workloop'.pc = "pop"
    BY <1>12 DEF ProcessTaskMgmtRsp, WorkloopState
  <2> QED
    BY <1>12, <2>2, <2>3 DEF ProcessTaskMgmtRsp, TypeOK
<1>13. ASSUME NEW t \in Tasks, HandleTimeout(t)
       PROVE  TypeOK'
  <2>1. workloop' \in WorkloopState /\ workloop'.pc = "pop"
    BY <1>13 DEF HandleTimeout, WorkloopState, Tags
  <2> QED
    BY <1>13, <2>1 DEF HandleTimeout, TypeOK
<1>14. CASE HandleConnectionTimeout
  <2>1. /\ workloop' \in WorkloopState /\ workloop'.pc = "drain"
        /\ resume' \in ResumeState
    BY <1>14 DEF HandleConnectionTimeout, StartDrain, WorkloopState, ResumeState
  <2> QED
    BY <1>14, <2>1 DEF HandleConnectionTimeout, StartDrain, TypeOK
<1>21. ASSUME workloop' = AfterPop
       PROVE  /\ workloop' \in WorkloopState
              /\ workloop'.pc \in {"fail", "idle"}
              /\ workloop'.pc = "fail" => workloop'.tag \in Tasks
  BY <1>21 DEF AfterPop, Idle, WorkloopState, TypeOK
<1>15. CASE PopTask
  <2>1. CASE taskQueue = <<>>
    <3>1. /\ workloop' = AfterPop
          /\ UNCHANGED <<taskQueue, tail, newTask, enabled, resume, caller, scsi, use, sent, armed,
                         atTarget, pings, tmfs, historyIdx>>
      BY <1>15, <2>1 DEF PopTask
    <3> QED
      BY <1>21, <3>1 DEF TypeOK
  <2>2. CASE taskQueue # <<>>
    <3>1. workloop' \in WorkloopState /\ workloop'.pc = "signal"
      BY <1>15, <2>2 DEF PopTask, WorkloopState, TypeOK
    <3> QED
      BY <1>15, <2>2, <3>1, RemoveFirstType DEF PopTask, TypeOK
  <2> QED
    BY <2>1, <2>2
<1>16. CASE SignalNext
  <2>1. newTask' \in BOOLEAN
    BY <1>16 DEF SignalNext, TypeOK
  <2>2. /\ workloop' = AfterPop
        /\ UNCHANGED <<taskQueue, tail, enabled, resume, caller, scsi, use, sent, armed,
                       atTarget, pings, tmfs, historyIdx>>
    BY <1>16 DEF SignalNext
  <2> QED
    BY <1>21, <2>1, <2>2 DEF TypeOK
<1>17. CASE FailTimedOutTask
  <2>1. workloop.tag \in Tasks
    BY <1>17 DEF FailTimedOutTask, TypeOK
  <2>2. workloop' \in WorkloopState /\ workloop'.pc = "idle"
    BY <1>17 DEF FailTimedOutTask, Idle, WorkloopState
  <2> QED
    BY <1>17, <2>1, <2>2, CompleteTaskType DEF FailTimedOutTask, TypeOK
<1>25. ASSUME DrainEnds
       PROVE  /\ workloop' \in WorkloopState
              /\ workloop'.pc \in {"idle", "lookUp", "dataIn", "stale"}
              /\ workloop'.pc \in {"lookUp", "dataIn", "stale"} => workloop'.tag \in Tasks
              /\ resume' \in ResumeState
  BY <1>25 DEF DrainEnds, Idle, ResumeState, WorkloopState, Tags, TypeOK
<1>18. CASE DrainTask
  <2>1. CASE taskQueue = <<>>
    <3>1. DrainEnds
      BY <1>18, <2>1 DEF DrainTask
    <3> QED
      BY <1>18, <1>25, <2>1, <3>1 DEF DrainTask, TypeOK
  <2>2. CASE taskQueue # <<>>
    <3>0. taskQueue[1] \in Node
      BY <2>2 DEF TypeOK
    <3>1. taskQueue[1].tag \in Tags
      BY <3>0 DEF Node
    <3>2. CASE DrainEnds
      BY <1>18, <1>25, <2>2, <3>2, RemoveFirstType DEF DrainTask, TypeOK
    <3>3. CASE ~DrainEnds
      <4>1. /\ workloop' \in WorkloopState
            /\ workloop'.pc = "reject" /\ workloop'.tag \in Tags
            /\ resume' = resume
        BY <1>18, <2>2, <3>1, <3>3 DEF DrainTask, WorkloopState
      <4> QED
        BY <1>18, <2>2, <4>1, RemoveFirstType DEF DrainTask, TypeOK
    <3> QED
      BY <3>2, <3>3
  <2> QED
    BY <2>1, <2>2
<1>19. CASE RejectTask
  <2>0. workloop' \in WorkloopState /\ workloop'.pc = "drain"
    BY <1>19 DEF RejectTask, WorkloopState
  <2>1. CASE workloop.tag # Latency /\ Outstanding(workloop.tag)
    <3>1. workloop.tag \in Tasks
      BY <1>19, <2>1 DEF RejectTask, TypeOK, Tags
    <3>2. resume' \in ResumeState
      BY <1>19, <2>1, <3>1 DEF RejectTask, ResumeState, TypeOK
    <3> QED
      BY <1>19, <2>0, <2>1, <3>1, <3>2, CompleteTaskType DEF RejectTask, TypeOK
  <2>2. CASE ~(workloop.tag # Latency /\ Outstanding(workloop.tag))
    BY <1>19, <2>0, <2>2 DEF RejectTask, TypeOK
  <2> QED
    BY <2>1, <2>2
<1>20. CASE UNCHANGED vars
  BY <1>20 DEF vars, TypeOK
<1> QED
  BY <1>1, <1>2, <1>3, <1>4, <1>5, <1>6, <1>7, <1>8, <1>9, <1>10, <1>11, <1>12,
     <1>13, <1>14, <1>15, <1>16, <1>17, <1>18, <1>19, <1>20, <1>22, <1>23, <1>24
  DEF Next, Submit, QueueTaskStep, HandlerStep

\* The initial state satisfies the type invariant.
LEMMA TypeInit ==
  ASSUME Init
  PROVE  TypeOK
<1>1. taskQueue \in Seq(Node)
  BY EmptySeq DEF Init
<1>2. caller \in [Tasks -> CallerState]
  BY DEF Init, CallerState, Returned
<1>3. workloop \in WorkloopState /\ workloop.pc = "idle"
  BY DEF Init, WorkloopState, Idle
<1>4. historyIdx \in 0 .. Window - 1
  BY ConstantsAssumption DEF Init
<1>5. resume \in ResumeState
  BY DEF Init, ResumeState
<1> QED
  BY <1>1, <1>2, <1>3, <1>4, <1>5 DEF Init, TypeOK

\* Every variable stays in its type, whatever threads and faults there are
\* (iSCSITaskQueue and its callers in iSCSIVirtualHBA).
THEOREM TypeCorrect == Spec => []TypeOK
<1>1. Init => TypeOK
  BY TypeInit
<1>2. TypeOK /\ [Next]_vars => TypeOK'
  BY TypeStep
<1> QED
  BY <1>1, <1>2, PTL DEF Spec
=============================================================================
