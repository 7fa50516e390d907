--------------------------- MODULE Converge_proofs ---------------------------
(***************************************************************************)
(* Proofs about converge runs, for any definitions, any state the          *)
(* collections may start in, any number of runs and whatever the others    *)
(* do: what a wait found ready serves its declaration, and only indexes    *)
(* that were reviewed, or stand in the way of a reviewed rebuild, go.      *)
(***************************************************************************)
EXTENDS Converge, FiniteSetTheorems, SequenceTheorems, TLAPS

-----------------------------------------------------------------------------
(* Sequences, whatever they hold.                                          *)

LEMMA SequenceParts ==
  ASSUME NEW s, IsSequence(s)
  PROVE  /\ Len(s) \in Nat /\ DOMAIN s = 1..Len(s)
         /\ \A k \in DOMAIN s : s[k] \in ToSet(s)
         /\ \A x \in ToSet(s) : \E k \in DOMAIN s : s[k] = x
  BY DEF IsSequence, ToSet

LEMMA SequenceOf ==
  ASSUME NEW S, NEW s \in Seq(S)
  PROVE  IsSequence(s) /\ ToSet(s) \subseteq S
  BY DEF IsSequence, ToSet

LEMMA EmptyIsSequence == IsSequence(<<>>) /\ ToSet(<<>>) = {} /\ DOMAIN <<>> = {}
  BY DEF IsSequence, ToSet

LEMMA OneIsSequence ==
  ASSUME NEW x
  PROVE  IsSequence(<<x>>) /\ DOMAIN <<x>> = {1} /\ <<x>>[1] = x /\ ToSet(<<x>>) = {x}
  BY DEF IsSequence, ToSet

LEMMA TailOf ==
  ASSUME NEW s, IsSequence(s), s # <<>>
  PROVE  /\ IsSequence(Tail(s)) /\ 1 \in DOMAIN s /\ Head(s) = s[1]
         /\ \A k \in DOMAIN Tail(s) : k + 1 \in DOMAIN s /\ Tail(s)[k] = s[k + 1]
         /\ \A k \in DOMAIN s : k # 1 => k - 1 \in DOMAIN Tail(s) /\ Tail(s)[k - 1] = s[k]
<1>1. /\ Tail(s) \in Seq(ToSet(s)) /\ Len(Tail(s)) = Len(s) - 1
      /\ \A i \in 1..Len(Tail(s)) : Tail(s)[i] = s[i + 1]
  BY HeadTailProperties DEF IsSequence
<1>2. IsSequence(Tail(s)) BY <1>1, SequenceOf
<1>3. Len(s) \in Nat \ {0} /\ DOMAIN s = 1..Len(s)
  BY EmptySeq, SequenceParts DEF IsSequence
<1>4. Len(Tail(s)) \in Nat /\ DOMAIN Tail(s) = 1..Len(Tail(s)) BY <1>2, SequenceParts
<1>5. Head(s) = s[1] BY <1>3 DEF IsSequence
<1> QED BY <1>1, <1>2, <1>3, <1>4, <1>5

LEMMA ConcatOf ==
  ASSUME NEW s, NEW t, IsSequence(s), IsSequence(t)
  PROVE  /\ IsSequence(s \o t) /\ Len(s \o t) = Len(s) + Len(t)
         /\ \A k \in DOMAIN (s \o t) : \/ k \in DOMAIN s /\ (s \o t)[k] = s[k]
                                       \/ k - Len(s) \in DOMAIN t /\ (s \o t)[k] = t[k - Len(s)]
         /\ \A k \in DOMAIN s : k \in DOMAIN (s \o t) /\ (s \o t)[k] = s[k]
         /\ \A k \in DOMAIN t : /\ Len(s) + k \in DOMAIN (s \o t)
                                /\ (s \o t)[Len(s) + k] = t[k]
<1> DEFINE S == ToSet(s) \cup ToSet(t)
<1>1. s \in Seq(S) /\ t \in Seq(S) BY SeqMonotonic DEF IsSequence
<1> HIDE DEF S
<1>2. /\ s \o t \in Seq(S) /\ Len(s \o t) = Len(s) + Len(t)
      /\ \A i \in 1 .. Len(s) + Len(t) :
           (s \o t)[i] = IF i <= Len(s) THEN s[i] ELSE t[i - Len(s)]
  BY <1>1, ConcatProperties
<1>3. /\ Len(s) \in Nat /\ DOMAIN s = 1..Len(s) /\ Len(t) \in Nat /\ DOMAIN t = 1..Len(t)
      /\ IsSequence(s \o t)
  BY <1>2, SequenceParts, SequenceOf
<1>4. DOMAIN (s \o t) = 1..(Len(s) + Len(t)) BY <1>2, <1>3, SequenceParts
<1> QED BY <1>2, <1>3, <1>4

\* What a concatenation holds is what its parts hold.
LEMMA ConcatHolds ==
  ASSUME NEW s, NEW t, IsSequence(s), IsSequence(t)
  PROVE  ToSet(s \o t) = ToSet(s) \cup ToSet(t)
<1>1. ASSUME NEW x \in ToSet(s \o t) PROVE x \in ToSet(s) \cup ToSet(t)
  <2>1. PICK k \in DOMAIN (s \o t) : (s \o t)[k] = x BY DEF ToSet
  <2> QED BY <2>1, ConcatOf, SequenceParts
<1>2. ASSUME NEW x \in ToSet(s) PROVE x \in ToSet(s \o t)
  <2>1. PICK k \in DOMAIN s : s[k] = x BY DEF ToSet
  <2>2. k \in DOMAIN (s \o t) /\ (s \o t)[k] = x BY <2>1, ConcatOf
  <2> QED BY <2>2 DEF ToSet
<1>3. ASSUME NEW x \in ToSet(t) PROVE x \in ToSet(s \o t)
  <2>1. PICK k \in DOMAIN t : t[k] = x BY DEF ToSet
  <2>2. Len(s) + k \in DOMAIN (s \o t) /\ (s \o t)[Len(s) + k] = x BY <2>1, ConcatOf
  <2> QED BY <2>2 DEF ToSet
<1> QED BY <1>1, <1>2, <1>3

\* A function on the positions of a sequence is a sequence.
LEMMA MapOf ==
  ASSUME NEW s, IsSequence(s), NEW t, DOMAIN t = DOMAIN s, t = [k \in DOMAIN s |-> t[k]]
  PROVE  IsSequence(t)
<1>1. Len(s) \in Nat /\ DOMAIN s = 1..Len(s) BY SequenceParts
<1>2. t \in [1..Len(s) -> ToSet(t)] BY <1>1 DEF ToSet
<1> QED BY <1>1, <1>2 DEF IsSequence

LEMMA RangeFinite ==
  ASSUME NEW s, IsSequence(s)
  PROVE  IsFiniteSet(ToSet(s))
<1>1. Len(s) \in Nat /\ DOMAIN s = 1..Len(s) BY SequenceParts
<1>2. s \in Surjection(1..Len(s), ToSet(s)) BY <1>1 DEF Surjection, ToSet, IsSequence
<1>3. IsFiniteSet(1..Len(s)) BY <1>1, FS_Interval
<1> QED BY <1>2, <1>3, FS_Surjection

-----------------------------------------------------------------------------
(* Enumerations of finite sets.                                            *)

\* `SetToSeq` lists every element of a finite set, once.
LEMMA ListsAll ==
  ASSUME NEW S, IsFiniteSet(S)
  PROVE  /\ IsSequence(SetToSeq(S)) /\ ToSet(SetToSeq(S)) = S
         /\ \A k, l \in DOMAIN SetToSeq(S) : SetToSeq(S)[k] = SetToSeq(S)[l] => k = l
<1>1. Cardinality(S) \in Nat /\ ExistsBijection(1..Cardinality(S), S) BY FS_CardinalityType
<1>2. \E f \in [1..Cardinality(S) -> S] : IsInjective(f)
  BY <1>1 DEF ExistsBijection, Bijection, Injection
<1> DEFINE f == SetToSeq(S)
<1>3. f \in [1..Cardinality(S) -> S] /\ IsInjective(f) BY <1>2 DEF SetToSeq
<1>4. IsFiniteSet(1..Cardinality(S)) /\ Cardinality(1..Cardinality(S)) = Cardinality(S)
  BY <1>1, FS_Interval
<1>5. f \in Injection(1..Cardinality(S), S) BY <1>3 DEF Injection
<1>6. f \in Surjection(1..Cardinality(S), S) BY <1>4, <1>5, FS_Injection
<1>7. f \in Seq(S) BY <1>1, <1>3
<1>8. S \subseteq ToSet(f) BY <1>3, <1>6 DEF Surjection, ToSet
<1> QED BY <1>3, <1>7, <1>8, SequenceOf DEF IsInjective

\* How many of K are no later than k: the place of k when K is in order.
Place(K, k) == Cardinality({j \in K : j <= k})

LEMMA PlaceGrows ==
  ASSUME NEW K, IsFiniteSet(K), K \subseteq Nat, NEW j \in K, NEW k \in K
  PROVE  /\ Place(K, k) \in 1..Cardinality(K)
         /\ j < k => Place(K, j) < Place(K, k)
<1> DEFINE Upto(x) == {i \in K : i <= x}
<1>1. \A x \in Nat : IsFiniteSet(Upto(x)) /\ Cardinality(Upto(x)) <= Cardinality(K)
  BY FS_Subset
<1>2. \A x \in Nat : Cardinality(Upto(x)) \in Nat BY <1>1, FS_CardinalityType
<1>3. Upto(k) # {} OBVIOUS
<1>4. Cardinality(Upto(k)) # 0 BY <1>1, <1>3, FS_EmptySet
<1>5. Cardinality(K) \in Nat BY FS_CardinalityType
<1>6. ASSUME j < k PROVE Cardinality(Upto(j)) < Cardinality(Upto(k))
  <2>1. Upto(j) \subseteq Upto(k) \ {k}
    <3> SUFFICES ASSUME NEW i \in K, i <= j PROVE i <= k /\ i # k OBVIOUS
    <3>1. i \in Nat /\ j \in Nat /\ k \in Nat OBVIOUS
    <3> QED BY <1>6, <3>1
  <2>2. Cardinality(Upto(k) \ {k}) = Cardinality(Upto(k)) - 1 /\ IsFiniteSet(Upto(k) \ {k})
    <3>1. k \in Upto(k) /\ IsFiniteSet(Upto(k)) BY <1>1
    <3> HIDE DEF Upto
    <3> QED BY <3>1, FS_RemoveElement
  <2>3. Cardinality(Upto(j)) <= Cardinality(Upto(k) \ {k})
    <3> HIDE DEF Upto
    <3> QED BY <2>1, <2>2, FS_Subset
  <2> QED BY <1>2, <2>2, <2>3
<1> QED BY <1>1, <1>2, <1>4, <1>5, <1>6 DEF Place

\* `InOrder` lists every number of a finite set, in order.
LEMMA OrderExists ==
  ASSUME NEW K, IsFiniteSet(K), K \subseteq Nat
  PROVE  /\ IsSequence(InOrder(K)) /\ ToSet(InOrder(K)) = K
         /\ DOMAIN InOrder(K) = 1..Cardinality(K)
         /\ \A i, j \in DOMAIN InOrder(K) : i < j => InOrder(K)[i] < InOrder(K)[j]
<1> DEFINE n == Cardinality(K)
           place == [k \in K |-> Place(K, k)]
<1>1. n \in Nat BY FS_CardinalityType
<1>2. \A j, k \in K : Place(K, k) \in 1..n /\ (j < k => Place(K, j) < Place(K, k))
  BY PlaceGrows
<1>3. place \in Injection(K, 1..n) BY <1>1, <1>2 DEF Injection, IsInjective
<1>4. IsFiniteSet(1..n) /\ Cardinality(1..n) = n BY <1>1, FS_Interval
<1>5. place \in Surjection(K, 1..n) BY <1>3, <1>4, FS_Injection
<1>6. \A i \in 1..n : \E k \in K : place[k] = i BY <1>5 DEF Surjection
<1> DEFINE s == [i \in 1..n |-> CHOOSE k \in K : place[k] = i]
<1>7. \A i \in 1..n : s[i] \in K /\ Place(K, s[i]) = i BY <1>6
<1>8. s \in [1..n -> K] BY <1>7
<1>9. \A i, j \in 1..n : i < j => s[i] < s[j]
  <2> TAKE i, j \in 1..n
  <2>1. s[i] \in K /\ s[j] \in K /\ Place(K, s[i]) = i /\ Place(K, s[j]) = j BY <1>7
  <2> HIDE DEF s
  <2>2. s[i] \in Nat /\ s[j] \in Nat BY <2>1
  <2>3. s[j] < s[i] => j < i BY <1>2, <2>1
  <2> QED BY <1>1, <2>1, <2>2, <2>3
<1> HIDE DEF s
<1> DEFINE f == InOrder(K)
<1>10. f \in [1..n -> K] /\ \A i, j \in 1..n : i < j => f[i] < f[j] BY <1>8, <1>9 DEF InOrder
<1> HIDE DEF f
<1>11. \A i, j \in 1..n : f[i] \in Nat /\ (f[i] = f[j] => i = j)
  <2> TAKE i, j \in 1..n
  <2>1. f[i] \in Nat /\ f[j] \in Nat BY <1>10
  <2>2. (i < j => f[i] < f[j]) /\ (j < i => f[j] < f[i]) BY <1>10
  <2> QED BY <1>1, <2>1, <2>2
<1>12. f \in Injection(1..n, K) BY <1>10, <1>11 DEF Injection, IsInjective
<1>13. f \in Surjection(1..n, K) BY <1>4, <1>12, FS_Injection
<1>14. f \in Seq(K) BY <1>1, <1>10
<1>15. K \subseteq ToSet(f) BY <1>10, <1>13 DEF Surjection, ToSet
<1> QED BY <1>10, <1>14, <1>15, SequenceOf DEF f

-----------------------------------------------------------------------------
(* What a plan of indexes is made of.                                      *)

LEMMA DeclaredAtOf ==
  ASSUME NEW p, IsSequence(p.declared), NEW K \in SUBSET DOMAIN p.declared
  PROVE  /\ IsSequence(DeclaredAt(p, K))
         /\ ToSet(DeclaredAt(p, K)) = {p.declared[k] : k \in K}
         /\ DOMAIN DeclaredAt(p, K) = DOMAIN InOrder(K)
         /\ \A n \in DOMAIN InOrder(K) : /\ InOrder(K)[n] \in K
                                         /\ DeclaredAt(p, K)[n] = p.declared[InOrder(K)[n]]
<1>1. Len(p.declared) \in Nat /\ DOMAIN p.declared = 1..Len(p.declared) BY SequenceParts
<1>2. IsFiniteSet(K) /\ K \subseteq Nat
  <2>1. IsFiniteSet(1..Len(p.declared)) BY <1>1, FS_Interval
  <2> QED BY <1>1, <2>1, FS_Subset
<1> DEFINE s == InOrder(K)
           t == DeclaredAt(p, K)
<1>3. IsSequence(s) /\ ToSet(s) = K BY <1>2, OrderExists
<1>5. DOMAIN s = 1..Cardinality(K) BY <1>2, OrderExists
<1>6. t = [n \in DOMAIN s |-> p.declared[s[n]]] BY <1>5 DEF DeclaredAt
<1> HIDE DEF s, t
<1>7. DOMAIN t = DOMAIN s /\ \A n \in DOMAIN s : t[n] = p.declared[s[n]] BY <1>6
<1>8. \A n \in DOMAIN s : s[n] \in K BY <1>3, SequenceParts
<1>9. IsSequence(t)
  <2>1. t = [n \in DOMAIN s |-> t[n]] BY <1>6, <1>7
  <2> QED BY <1>3, <1>7, <2>1, MapOf
<1>10. ToSet(t) = {p.declared[k] : k \in K}
  <2>1. \A k \in K : \E n \in DOMAIN s : s[n] = k BY <1>3, SequenceParts
  <2> QED BY <1>7, <1>8, <2>1 DEF ToSet
<1> QED BY <1>7, <1>8, <1>9, <1>10 DEF s, t

\* What planning the indexes of a collection needs to be given.
PlanInput(p) ==
  /\ IsSequence(p.declared) /\ WellDeclared(p.declared)
  /\ IsFiniteSet(p.live)

NewStep(p, s) ==
  /\ s.op = "createIndexes" /\ s.drops = {} /\ s.creates # <<>>
  /\ \A d \in ToSet(s.creates) : d \in ToSet(p.declared) /\ Verdict(p, d) = "create"

ModifyStep(p, s) ==
  /\ s.op \in {"convertUnique", "collMod"} /\ s.drops = {}
  /\ \E d \in ToSet(p.declared) :
       /\ s.creates = <<d>> /\ Verdict(p, d) = "modify"
       /\ s.op = "convertUnique" <=> \E i \in Current(p, d) : d.unique # i.unique

RebuildStep(p, s) ==
  /\ s.op = "rebuild" /\ s.creates # <<>>
  /\ s.drops = UNION {DropsFor(p, d) : d \in ToSet(s.creates)}
  /\ \A d \in ToSet(s.creates) : /\ d \in ToSet(p.declared)
                                 /\ Verdict(p, d) \in {"create", "recreate"}

DropStep(p, s) ==
  /\ s.op = "dropIndex" /\ s.creates = <<>>
  /\ \E i \in Extras(p) : s.drops = {i}

IndexStep(p, s) ==
  /\ DOMAIN s = {"op", "drops", "creates", "on"} /\ s.on = {} /\ IsSequence(s.creates)
  /\ NewStep(p, s) \/ ModifyStep(p, s) \/ RebuildStep(p, s) \/ DropStep(p, s)

LEMMA VerdictCreate ==
  ASSUME NEW p, NEW d, Verdict(p, d) = "create"
  PROVE  DropsFor(p, d) = {}
  BY DEF Verdict, Conflict

LEMMA CreatesSteps ==
  ASSUME NEW p, PlanInput(p)
  PROVE  /\ IsSequence(Creates(p))
         /\ \A s \in ToSet(Creates(p)) : IndexStep(p, s) /\ NewStep(p, s)
<1> DEFINE K == WithVerdict(p, "create") \ InGroup(p, "create")
           free == Apart(p, "create")
<1>1. K \in SUBSET DOMAIN p.declared BY DEF WithVerdict
<1>2. free = DeclaredAt(p, K) BY DEF Apart
<1>3. IsSequence(free) /\ ToSet(free) = {p.declared[k] : k \in K}
  BY <1>1, <1>2, DeclaredAtOf DEF PlanInput
<1>4. \A k \in K : p.declared[k] \in ToSet(p.declared) /\ Verdict(p, p.declared[k]) = "create"
  BY DEF WithVerdict, ToSet
<1> HIDE DEF K, free
<1>5. CASE free = <<>>
  <2>1. Creates(p) = <<>> BY <1>5 DEF Creates, free
  <2> QED BY <2>1, EmptyIsSequence
<1>6. CASE free # <<>>
  <2> DEFINE s == Step("createIndexes", {}, free)
  <2>1. Creates(p) = <<s>> BY <1>6 DEF Creates, free
  <2>2. IndexStep(p, s) /\ NewStep(p, s) BY <1>3, <1>4, <1>6 DEF IndexStep, NewStep, Step
  <2> HIDE DEF s
  <2> QED BY <2>1, <2>2, OneIsSequence
<1> QED BY <1>5, <1>6

LEMMA ModifiesSteps ==
  ASSUME NEW p, PlanInput(p)
  PROVE  /\ IsSequence(Modifies(p))
         /\ \A s \in ToSet(Modifies(p)) : IndexStep(p, s) /\ ModifyStep(p, s)
<1> DEFINE K == WithVerdict(p, "modify")
           changed == DeclaredAt(p, K)
           Op(d) == IF \E i \in Current(p, d) : d.unique # i.unique THEN "convertUnique"
                    ELSE "collMod"
<1>1. K \in SUBSET DOMAIN p.declared BY DEF WithVerdict
<1>3. IsSequence(changed) /\ ToSet(changed) = {p.declared[k] : k \in K}
  BY <1>1, DeclaredAtOf DEF PlanInput
<1>4. \A k \in K : p.declared[k] \in ToSet(p.declared) /\ Verdict(p, p.declared[k]) = "modify"
  BY DEF WithVerdict, ToSet
<1>5. Modifies(p) = [k \in DOMAIN changed |-> Step(Op(changed[k]), {}, <<changed[k]>>)]
  BY DEF Modifies
<1> HIDE DEF K, changed
<1>6. IsSequence(Modifies(p)) BY <1>3, <1>5, MapOf
<1>7. ASSUME NEW s \in ToSet(Modifies(p)) PROVE IndexStep(p, s) /\ ModifyStep(p, s)
  <2>1. PICK k \in DOMAIN changed : s = Step(Op(changed[k]), {}, <<changed[k]>>)
    BY <1>5 DEF ToSet
  <2>2. PICK d \in ToSet(p.declared) : d = changed[k] /\ Verdict(p, d) = "modify"
    BY <1>3, <1>4, SequenceParts
  <2>3. s = [op |-> Op(d), drops |-> {}, creates |-> <<d>>, on |-> {}] BY <2>1, <2>2 DEF Step
  <2>4. IsSequence(<<d>>) BY OneIsSequence
  <2>5. s.op \in {"convertUnique", "collMod"}
        /\ (s.op = "convertUnique" <=> \E i \in Current(p, d) : d.unique # i.unique)
    BY <2>3
  <2>6. ModifyStep(p, s) BY <2>2, <2>3, <2>5 DEF ModifyStep
  <2> QED BY <2>3, <2>4, <2>6 DEF IndexStep
<1> QED BY <1>6, <1>7

LEMMA RebuildsSteps ==
  ASSUME NEW p, PlanInput(p)
  PROVE  /\ IsSequence(Rebuilds(p))
         /\ \A s \in ToSet(Rebuilds(p)) : IndexStep(p, s) /\ RebuildStep(p, s)
<1> DEFINE K == WithVerdict(p, "recreate") \ InGroup(p, "recreate")
           apart == Apart(p, "recreate")
<1>1. K \in SUBSET DOMAIN p.declared BY DEF WithVerdict
<1>2. apart = DeclaredAt(p, K) BY DEF Apart
<1>3. IsSequence(apart) /\ ToSet(apart) = {p.declared[k] : k \in K}
  BY <1>1, <1>2, DeclaredAtOf DEF PlanInput
<1>4. \A k \in K : p.declared[k] \in ToSet(p.declared) /\ Verdict(p, p.declared[k]) = "recreate"
  BY DEF WithVerdict, ToSet
<1>5. Rebuilds(p) = [k \in DOMAIN apart |-> Step("rebuild", DropsFor(p, apart[k]), <<apart[k]>>)]
  BY DEF Rebuilds
<1> HIDE DEF K, apart
<1>6. IsSequence(Rebuilds(p)) BY <1>3, <1>5, MapOf
<1>7. ASSUME NEW s \in ToSet(Rebuilds(p)) PROVE IndexStep(p, s) /\ RebuildStep(p, s)
  <2>1. PICK k \in DOMAIN apart : s = Step("rebuild", DropsFor(p, apart[k]), <<apart[k]>>)
    BY <1>5 DEF ToSet
  <2>2. PICK d \in ToSet(p.declared) : d = apart[k] /\ Verdict(p, d) = "recreate"
    BY <1>3, <1>4, SequenceParts
  <2>3. s = [op |-> "rebuild", drops |-> DropsFor(p, d), creates |-> <<d>>, on |-> {}]
    BY <2>1, <2>2 DEF Step
  <2>4. IsSequence(<<d>>) /\ ToSet(<<d>>) = {d} /\ <<d>> # <<>> BY OneIsSequence
  <2>5. DropsFor(p, d) = UNION {DropsFor(p, e) : e \in {d}} OBVIOUS
  <2>6. RebuildStep(p, s) BY <2>2, <2>3, <2>4, <2>5 DEF RebuildStep
  <2> QED BY <2>3, <2>4, <2>6 DEF IndexStep
<1> QED BY <1>6, <1>7

LEMMA GroupSteps ==
  ASSUME NEW p, PlanInput(p)
  PROVE  /\ IsSequence(Group(p))
         /\ \A s \in ToSet(Group(p)) : IndexStep(p, s) /\ RebuildStep(p, s)
<1> DEFINE K == InGroup(p, "recreate")
           L == InGroup(p, "create")
           first == DeclaredAt(p, K)
           rest == DeclaredAt(p, L)
           drops == UNION {DropsFor(p, p.declared[k]) : k \in K}
<1>1. K \in SUBSET DOMAIN p.declared /\ L \in SUBSET DOMAIN p.declared BY DEF InGroup, WithVerdict
<1>2. /\ IsSequence(first) /\ ToSet(first) = {p.declared[k] : k \in K}
      /\ IsSequence(rest) /\ ToSet(rest) = {p.declared[k] : k \in L}
  BY <1>1, DeclaredAtOf DEF PlanInput
<1>3. /\ \A k \in K : p.declared[k] \in ToSet(p.declared) /\ Verdict(p, p.declared[k]) = "recreate"
      /\ \A k \in L : p.declared[k] \in ToSet(p.declared) /\ Verdict(p, p.declared[k]) = "create"
  BY DEF InGroup, WithVerdict, ToSet
<1>4. CASE K = {}
  <2>1. Group(p) = <<>> BY <1>4 DEF Group
  <2> QED BY <2>1, EmptyIsSequence
<1>5. CASE K # {}
  <2> DEFINE s == Step("rebuild", drops, first \o rest)
  <2>1. Group(p) = <<s>> BY <1>5 DEF Group
  <2> HIDE DEF K, L, first, rest
  <2>2. IsSequence(first \o rest) /\ ToSet(first \o rest) = ToSet(first) \cup ToSet(rest)
    BY <1>2, ConcatOf, ConcatHolds
  <2>3. first \o rest # <<>>
    <3>1. PICK k \in K : TRUE BY <1>5
    <3>2. p.declared[k] \in ToSet(first) BY <1>2
    <3> QED BY <2>2, <3>2, EmptyIsSequence
  <2>4. drops = UNION {DropsFor(p, d) : d \in ToSet(first \o rest)}
    <3>1. \A d \in ToSet(rest) : DropsFor(p, d) = {} BY <1>2, <1>3, VerdictCreate
    <3>2. UNION {DropsFor(p, d) : d \in ToSet(first \o rest)}
            = UNION {DropsFor(p, d) : d \in ToSet(first)}
      BY <2>2, <3>1
    <3> QED BY <1>2, <3>2
  <2>5. \A d \in ToSet(first \o rest) : /\ d \in ToSet(p.declared)
                                        /\ Verdict(p, d) \in {"create", "recreate"}
    BY <1>2, <1>3, <2>2
  <2> HIDE DEF drops
  <2>6. IndexStep(p, s) /\ RebuildStep(p, s)
    BY <2>2, <2>3, <2>4, <2>5 DEF IndexStep, RebuildStep, Step
  <2> HIDE DEF s
  <2> QED BY <2>1, <2>6, OneIsSequence
<1> QED BY <1>4, <1>5

LEMMA DropsSteps ==
  ASSUME NEW p, PlanInput(p)
  PROVE  LET extras == SetToSeq(Extras(p))
             drops == [k \in DOMAIN extras |-> Step("dropIndex", {extras[k]}, <<>>)]
         IN /\ IsSequence(drops)
            /\ \A s \in ToSet(drops) : IndexStep(p, s) /\ DropStep(p, s)
            /\ \A i \in Extras(p) : \E s \in ToSet(drops) : s.op = "dropIndex" /\ s.drops = {i}
<1> DEFINE extras == SetToSeq(Extras(p))
           drops == [k \in DOMAIN extras |-> Step("dropIndex", {extras[k]}, <<>>)]
<1>1. Extras(p) \subseteq p.live BY DEF Extras, Undeclared
<1>2. IsFiniteSet(Extras(p)) BY <1>1, FS_Subset DEF PlanInput
<1>3. IsSequence(extras) /\ ToSet(extras) = Extras(p) BY <1>2, ListsAll
<1> HIDE DEF extras
<1>4. IsSequence(drops) BY <1>3, MapOf
<1>5. ASSUME NEW s \in ToSet(drops) PROVE IndexStep(p, s) /\ DropStep(p, s)
  <2>1. PICK k \in DOMAIN extras : s = Step("dropIndex", {extras[k]}, <<>>) BY DEF ToSet
  <2>2. PICK i \in Extras(p) : i = extras[k] BY <1>3, SequenceParts
  <2>3. s = [op |-> "dropIndex", drops |-> {i}, creates |-> <<>>, on |-> {}]
    BY <2>1, <2>2 DEF Step
  <2>4. DropStep(p, s) BY <2>3 DEF DropStep
  <2> QED BY <2>3, <2>4, EmptyIsSequence DEF IndexStep
<1>6. ASSUME NEW i \in Extras(p) PROVE \E s \in ToSet(drops) : s.op = "dropIndex" /\ s.drops = {i}
  <2>1. PICK k \in DOMAIN extras : extras[k] = i BY <1>3, SequenceParts
  <2>2. drops[k] \in ToSet(drops) /\ drops[k] = Step("dropIndex", {i}, <<>>)
    BY <2>1 DEF ToSet
  <2>3. drops[k].op = "dropIndex" /\ drops[k].drops = {i} BY <2>2 DEF Step
  <2> QED BY <2>2, <2>3
<1> QED BY <1>4, <1>5, <1>6 DEF extras

LEMMA PlanIndexesSteps ==
  ASSUME NEW p, PlanInput(p)
  PROVE  /\ IsSequence(PlanIndexes(p).steps)
         /\ \A s \in ToSet(PlanIndexes(p).steps) : IndexStep(p, s)
         /\ \A i \in Extras(p) : \E s \in ToSet(PlanIndexes(p).steps) : s.drops = {i}
<1> DEFINE extras == SetToSeq(Extras(p))
           drops == [k \in DOMAIN extras |-> Step("dropIndex", {extras[k]}, <<>>)]
           one == Creates(p) \o Modifies(p)
           two == one \o Rebuilds(p)
           three == two \o Group(p)
<1>1. PlanIndexes(p).steps = three \o drops BY DEF PlanIndexes
<1>2. /\ IsSequence(drops)
      /\ \A s \in ToSet(drops) : IndexStep(p, s) /\ DropStep(p, s)
      /\ \A i \in Extras(p) : \E s \in ToSet(drops) : s.op = "dropIndex" /\ s.drops = {i}
  BY DropsSteps
<1> HIDE DEF drops
<1>3. IsSequence(one) /\ ToSet(one) = ToSet(Creates(p)) \cup ToSet(Modifies(p))
  BY CreatesSteps, ModifiesSteps, ConcatOf, ConcatHolds
<1>4. \A s \in ToSet(one) : IndexStep(p, s) BY <1>3, CreatesSteps, ModifiesSteps
<1> HIDE DEF one
<1>5. IsSequence(two) /\ ToSet(two) = ToSet(one) \cup ToSet(Rebuilds(p))
  BY <1>3, RebuildsSteps, ConcatOf, ConcatHolds
<1>6. \A s \in ToSet(two) : IndexStep(p, s) BY <1>4, <1>5, RebuildsSteps
<1> HIDE DEF two
<1>7. IsSequence(three) /\ ToSet(three) = ToSet(two) \cup ToSet(Group(p))
  BY <1>5, GroupSteps, ConcatOf, ConcatHolds
<1>8. \A s \in ToSet(three) : IndexStep(p, s) BY <1>6, <1>7, GroupSteps
<1> HIDE DEF three
<1>9. IsSequence(three \o drops) /\ ToSet(three \o drops) = ToSet(three) \cup ToSet(drops)
  BY <1>2, <1>7, ConcatOf, ConcatHolds
<1> QED BY <1>1, <1>2, <1>8, <1>9

\* The steps that touch no index.
PlainStep(def, live, s) ==
  /\ DOMAIN s = {"op", "drops", "creates", "on"} /\ s.drops = {} /\ s.creates = <<>>
  /\ \/ s.op \in {"createCollection", "validator", "createSearch"}
     \/ s.op = "updateSearch" /\ \E d \in def.search : s.on = {d.name}
     \/ /\ s.op = "dropSearch"
        /\ \E i \in live.listed : s.on = {i.name} /\ \A d \in def.search : d.name # i.name

LEMMA EachSteps ==
  ASSUME NEW op, NEW some, IsFiniteSet(some)
  PROVE  LET each == [k \in DOMAIN SetToSeq(some) |-> SearchStep(op, {SetToSeq(some)[k].name})]
         IN /\ IsSequence(each)
            /\ \A s \in ToSet(each) : \E i \in some : s = SearchStep(op, {i.name})
<1> DEFINE listed == SetToSeq(some)
           each == [k \in DOMAIN listed |-> SearchStep(op, {listed[k].name})]
<1>1. IsSequence(listed) /\ ToSet(listed) = some BY ListsAll
<1> HIDE DEF listed
<1>2. IsSequence(each) BY <1>1, MapOf
<1>3. ASSUME NEW s \in ToSet(each) PROVE \E i \in some : s = SearchStep(op, {i.name})
  <2>1. PICK k \in DOMAIN listed : s = SearchStep(op, {listed[k].name}) BY DEF ToSet
  <2>2. listed[k] \in some BY <1>1, SequenceParts
  <2> QED BY <2>1, <2>2
<1> QED BY <1>2, <1>3 DEF listed

LEMMA PlanSearchSteps ==
  ASSUME NEW def, NEW live, NEW prune, NEW listed \in SUBSET live.listed,
         IsFiniteSet(def.search), IsFiniteSet(live.listed)
  PROVE  LET plan == PlanSearch(def.search, listed, prune)
         IN /\ IsSequence(plan.submit) /\ IsSequence(plan.drops)
            /\ \A s \in ToSet(plan.submit) \cup ToSet(plan.drops) : PlainStep(def, live, s)
            /\ \A row \in plan.rows : row.target = "search"
            /\ def.search = {} => plan.submit = <<>>
<1> DEFINE Judged(verdict) == {d \in def.search : SearchVerdict(d, listed) = verdict}
           extras == IF prune THEN {i \in listed : /\ i.status # "removing"
                                                   /\ \A d \in def.search : d.name # i.name}
                     ELSE {}
           created == {d.name : d \in Judged("create")}
           modified == Judged("modify")
           first == IF created = {} THEN <<>> ELSE <<SearchStep("createSearch", created)>>
           second == [k \in DOMAIN SetToSeq(modified) |->
                        SearchStep("updateSearch", {SetToSeq(modified)[k].name})]
           drops == [k \in DOMAIN SetToSeq(extras) |->
                       SearchStep("dropSearch", {SetToSeq(extras)[k].name})]
           plan == PlanSearch(def.search, listed, prune)
<1>1. plan.submit = first \o second /\ plan.drops = drops BY DEF PlanSearch
<1>2. /\ modified \subseteq def.search
      /\ \A i \in extras : i \in live.listed /\ \A d \in def.search : d.name # i.name
  OBVIOUS
<1>3. IsFiniteSet(modified) /\ IsFiniteSet(extras)
  <2>1. extras \subseteq live.listed OBVIOUS
  <2> HIDE DEF modified, extras
  <2> QED BY <1>2, <2>1, FS_Subset
<1>4. \A row \in plan.rows : row.target = "search" BY DEF PlanSearch, Row
<1>5. def.search = {} => plan.submit = <<>>
  <2> SUFFICES ASSUME def.search = {} PROVE first \o second = <<>> BY <1>1
  <2>1. modified = {} /\ created = {} OBVIOUS
  <2>2. Cardinality(modified) = 0 BY <2>1, FS_EmptySet
  <2>3. IsSequence(SetToSeq(modified)) /\ ToSet(SetToSeq(modified)) = {} BY <1>3, <2>1, ListsAll
  <2>4. DOMAIN SetToSeq(modified) = {} BY <2>3, SequenceParts
  <2>5. second = <<>> BY <2>4
  <2>6. first = <<>> BY <2>1
  <2> QED BY <2>5, <2>6
<1>6. IsSequence(first) /\ \A s \in ToSet(first) : PlainStep(def, live, s)
  <2>1. CASE created = {}
    <3>1. first = <<>> BY <2>1
    <3> HIDE DEF first
    <3> QED BY <3>1, EmptyIsSequence
  <2>2. CASE created # {}
    <3>1. first = <<SearchStep("createSearch", created)>> BY <2>2
    <3> HIDE DEF first, created
    <3>2. PlainStep(def, live, SearchStep("createSearch", created)) BY DEF PlainStep, SearchStep
    <3> QED BY <3>1, <3>2, OneIsSequence
  <2> QED BY <2>1, <2>2
<1> HIDE DEF modified, extras
<1>7. IsSequence(second) /\ \A s \in ToSet(second) : PlainStep(def, live, s)
  <2>1. /\ IsSequence(second)
        /\ \A s \in ToSet(second) : \E i \in modified : s = SearchStep("updateSearch", {i.name})
    BY <1>3, EachSteps
  <2> QED BY <1>2, <2>1 DEF PlainStep, SearchStep
<1>8. IsSequence(drops) /\ \A s \in ToSet(drops) : PlainStep(def, live, s)
  <2>1. /\ IsSequence(drops)
        /\ \A s \in ToSet(drops) : \E i \in extras : s = SearchStep("dropSearch", {i.name})
    BY <1>3, EachSteps
  <2> QED BY <1>2, <2>1 DEF PlainStep, SearchStep
<1> HIDE DEF first, second, drops
<1>9. IsSequence(first \o second) /\ ToSet(first \o second) = ToSet(first) \cup ToSet(second)
  BY <1>6, <1>7, ConcatOf, ConcatHolds
<1> HIDE DEF plan
<1>10. /\ IsSequence(plan.submit) /\ IsSequence(plan.drops)
       /\ \A s \in ToSet(plan.submit) \cup ToSet(plan.drops) : PlainStep(def, live, s)
  BY <1>1, <1>6, <1>7, <1>8, <1>9
<1> QED BY <1>4, <1>5, <1>10 DEF plan

-----------------------------------------------------------------------------
(* What the plan of a collection is made of.                               *)

\* What the planner of indexes is given for a collection.
InputOf(def, live, options) ==
  LET prune == PruneFor(def, options)
  IN [declared |-> def.indexes, live |-> live.indexes, prune |-> prune /\ ~def.partial,
      partial |-> def.partial, rebuildUnique |-> options.rebuildUnique,
      backing |-> options.backing]

\* What a definition and a collection have to be like to be planned.
Plannable(def, live) ==
  /\ IsSequence(def.indexes) /\ WellDeclared(def.indexes) /\ IsFiniteSet(def.search)
  /\ IsFiniteSet(live.indexes) /\ IsFiniteSet(live.listed)
  /\ ~live.exists => live.indexes = {}

LEMMA InputPlanned ==
  ASSUME NEW def, NEW live, NEW options, Plannable(def, live)
  PROVE  LET p == InputOf(def, live, options)
         IN PlanInput(p) /\ p.declared = def.indexes /\ p.live = live.indexes
  BY DEF InputOf, Plannable, PlanInput

\* A collection without indexes has all that are declared created.
LEMMA AllCreated ==
  ASSUME NEW p, p.live = {}, NEW d
  PROVE  Verdict(p, d) = "create" /\ Extras(p) = {}
<1>1. Current(p, d) = {} /\ Undeclared(p) = {} BY DEF Current, Undeclared
<1>2. Pending(p, d) = TRUE /\ Blockers(p, d) = {} BY <1>1 DEF Pending, Blockers
<1>3. DropsFor(p, d) = {} BY <1>1, <1>2 DEF DropsFor
<1>4. Extras(p) = {} BY <1>1 DEF Extras
<1>5. Verdict(p, d) = "create" BY <1>2, <1>3, SMT DEF Verdict
<1> QED BY <1>4, <1>5

\* The rows of the indexes.
IndexRows(p) ==
  {Row("index", d.name, Verdict(p, d)) :
     d \in {e \in ToSet(p.declared) : Verdict(p, e) # "unchanged"}}
  \cup {Row("index", i.name, "drop") : i \in Extras(p)}

LEMMA PlanParts ==
  ASSUME NEW def, NEW live, NEW options, Plannable(def, live)
  PROVE  LET p == InputOf(def, live, options)
             plan == PlanCollection(def, live, options)
         IN /\ IsSequence(plan.steps)
            /\ \A s \in ToSet(plan.steps) : IndexStep(p, s) \/ PlainStep(def, live, s)
            /\ \A i \in Extras(p) : \E s \in ToSet(plan.steps) : s.drops = {i}
            /\ IndexRows(p) \subseteq plan.rows
            /\ \A row \in plan.rows : row.target = "index" => row \in IndexRows(p)
<1> DEFINE p == InputOf(def, live, options)
           plan == PlanCollection(def, live, options)
<1>1. PlanInput(p) /\ p.declared = def.indexes /\ p.live = live.indexes BY InputPlanned
<1>2. CASE live.exists
  <2> DEFINE prune == PruneFor(def, options)
             validator == PlanValidator(def, live)
             search == PlanSearch(def.search, live.listed, prune)
             indexes == PlanIndexes(p)
             one == validator.steps \o search.submit
             two == one \o indexes.steps
  <2>1. /\ plan.rows = validator.rows \cup indexes.rows \cup search.rows
        /\ plan.steps = two \o search.drops
    BY <1>2 DEF PlanCollection, InputOf
  <2>2. /\ IsSequence(search.submit) /\ IsSequence(search.drops)
        /\ \A s \in ToSet(search.submit) \cup ToSet(search.drops) : PlainStep(def, live, s)
        /\ \A row \in search.rows : row.target = "search"
    BY PlanSearchSteps DEF Plannable
  <2>3. IsSequence(validator.steps)
        /\ \A s \in ToSet(validator.steps) : PlainStep(def, live, s)
    <3>1. validator.steps \in {<<>>, <<Step("validator", {}, <<>>)>>} BY DEF PlanValidator
    <3>2. PlainStep(def, live, Step("validator", {}, <<>>)) BY DEF PlainStep, Step
    <3> HIDE DEF validator
    <3> QED BY <3>1, <3>2, EmptyIsSequence, OneIsSequence
  <2>4. \A row \in validator.rows : row.target = "validator" BY DEF PlanValidator, Row
  <2>5. indexes.rows = IndexRows(p) BY DEF PlanIndexes, IndexRows
  <2>6. /\ IsSequence(indexes.steps)
        /\ \A s \in ToSet(indexes.steps) : IndexStep(p, s)
        /\ \A i \in Extras(p) : \E s \in ToSet(indexes.steps) : s.drops = {i}
    BY <1>1, PlanIndexesSteps
  <2> HIDE DEF p, plan, validator, search, indexes
  <2>7. IsSequence(one) /\ ToSet(one) = ToSet(validator.steps) \cup ToSet(search.submit)
    BY <2>2, <2>3, ConcatOf, ConcatHolds
  <2> HIDE DEF one
  <2>8. IsSequence(two) /\ ToSet(two) = ToSet(one) \cup ToSet(indexes.steps)
    BY <2>6, <2>7, ConcatOf, ConcatHolds
  <2> HIDE DEF two
  <2>9. /\ IsSequence(two \o search.drops)
        /\ ToSet(two \o search.drops) = ToSet(two) \cup ToSet(search.drops)
    BY <2>2, <2>8, ConcatOf, ConcatHolds
  <2>10. /\ IsSequence(plan.steps)
         /\ \A s \in ToSet(plan.steps) : IndexStep(p, s) \/ PlainStep(def, live, s)
         /\ \A i \in Extras(p) : \E s \in ToSet(plan.steps) : s.drops = {i}
    BY <2>1, <2>2, <2>3, <2>6, <2>7, <2>8, <2>9
  <2>11. /\ IndexRows(p) \subseteq plan.rows
         /\ \A row \in plan.rows : row.target = "index" => row \in IndexRows(p)
    BY <2>1, <2>2, <2>4, <2>5
  <2> QED BY <2>10, <2>11 DEF p, plan
<1>3. CASE ~live.exists
  <2> DEFINE search == PlanSearch(def.search, {}, FALSE)
             wanted == def.rules \notin {Unset, 0} \/ def.indexes # <<>> \/ def.search # {}
             first == IF wanted THEN <<Step("createCollection", {}, <<>>)>> ELSE <<>>
             last == IF def.indexes = <<>> THEN <<>>
                     ELSE <<Step("createIndexes", {}, def.indexes)>>
             one == first \o search.submit
             some == IF wanted THEN {Row("collection", Unset, "create")} ELSE {}
  <2>1. /\ plan.rows = some \cup {Row("index", d.name, "create") : d \in ToSet(def.indexes)}
                            \cup search.rows
        /\ plan.steps = one \o last
    BY <1>3 DEF PlanCollection, PlanMissing
  <2>2. p.live = {} BY <1>1, <1>3 DEF Plannable
  <2>3. Extras(p) = {} /\ \A d : Verdict(p, d) = "create"
    <3> HIDE DEF p
    <3> QED BY <2>2, AllCreated
  <2>4. IndexRows(p) = {Row("index", d.name, "create") : d \in ToSet(def.indexes)}
    <3> HIDE DEF p
    <3> QED BY <1>1, <2>3 DEF IndexRows
  <2>5. /\ IsSequence(search.submit)
        /\ \A s \in ToSet(search.submit) : PlainStep(def, live, s)
        /\ \A row \in search.rows : row.target = "search"
    <3>1. {} \in SUBSET live.listed OBVIOUS
    <3> QED BY <3>1, PlanSearchSteps DEF Plannable
  <2>6. IsSequence(first) /\ \A s \in ToSet(first) : PlainStep(def, live, s)
    <3>1. first \in {<<>>, <<Step("createCollection", {}, <<>>)>>} OBVIOUS
    <3>2. PlainStep(def, live, Step("createCollection", {}, <<>>)) BY DEF PlainStep, Step
    <3> HIDE DEF first
    <3> QED BY <3>1, <3>2, EmptyIsSequence, OneIsSequence
  <2>7. \A row \in some : row.target = "collection" BY DEF Row
  <2> HIDE DEF first, some
  <2>8. IsSequence(last) /\ \A s \in ToSet(last) : IndexStep(p, s)
    <3>1. CASE def.indexes = <<>>
      <4>1. last = <<>> BY <3>1
      <4> HIDE DEF last
      <4> QED BY <4>1, EmptyIsSequence
    <3>2. CASE def.indexes # <<>>
      <4> DEFINE s == Step("createIndexes", {}, def.indexes)
      <4>1. last = <<s>> BY <3>2
      <4>2. NewStep(p, s)
        <5> HIDE DEF p
        <5> QED BY <1>1, <2>3, <3>2 DEF NewStep, Step
      <4>3. IndexStep(p, s) BY <4>2 DEF IndexStep, Step, Plannable
      <4> HIDE DEF last, s
      <4> QED BY <4>1, <4>3, OneIsSequence
    <3> QED BY <3>1, <3>2
  <2> HIDE DEF p, plan, search, last
  <2>9. IsSequence(one) /\ ToSet(one) = ToSet(first) \cup ToSet(search.submit)
    BY <2>5, <2>6, ConcatOf, ConcatHolds
  <2> HIDE DEF one
  <2>10. IsSequence(one \o last) /\ ToSet(one \o last) = ToSet(one) \cup ToSet(last)
    BY <2>8, <2>9, ConcatOf, ConcatHolds
  <2>11. /\ IsSequence(plan.steps)
         /\ \A s \in ToSet(plan.steps) : IndexStep(p, s) \/ PlainStep(def, live, s)
         /\ \A i \in Extras(p) : \E s \in ToSet(plan.steps) : s.drops = {i}
    BY <2>1, <2>3, <2>5, <2>6, <2>8, <2>9, <2>10
  <2>12. /\ IndexRows(p) \subseteq plan.rows
         /\ \A row \in plan.rows : row.target = "index" => row \in IndexRows(p)
    BY <2>1, <2>4, <2>5, <2>7
  <2> QED BY <2>11, <2>12 DEF p, plan
<1> QED BY <1>2, <1>3

-----------------------------------------------------------------------------
(* The shape of the state.                                                 *)

CollFields == {"exists", "indexes", "prepared", "rules", "below", "dups", "search", "listed"}

CollOK(coll) ==
  /\ DOMAIN coll = CollFields
  /\ IsFiniteSet(coll.indexes) /\ IsFiniteSet(coll.search) /\ IsFiniteSet(coll.listed)
  /\ \A i \in coll.indexes : IsIndex(i)
  /\ OnePerName(coll.indexes)
  /\ \A i \in coll.search \cup coll.listed : IsSearchIndex(i)
  /\ ~coll.exists => coll.indexes = {}

StepOK(def, s) ==
  /\ DOMAIN s = {"op", "drops", "creates", "on"}
  /\ IsSequence(s.creates) /\ ToSet(s.creates) \subseteq ToSet(def.indexes)
  /\ \A i \in s.drops : IsIndex(i)
  /\ \/ s.op \in {"createCollection", "validator", "createSearch", "createIndexes"}
     \/ s.op = "updateSearch" /\ \E d \in def.search : s.on = {d.name}
     \/ s.op = "dropSearch" /\ \E n : s.on = {n} /\ \A d \in def.search : d.name # n
     \/ s.op \in {"convertUnique", "collMod"} /\ \E d \in ToSet(def.indexes) : s.creates = <<d>>
     \/ s.op = "rebuild" /\ s.creates # <<>>
     \/ s.op = "dropIndex" /\ \E i : s.drops = {i}

RunFields == {"pc", "pos", "steps", "aborted", "reviewed", "dropped", "made", "unrestored",
              "kept", "removed", "before", "targets", "unstable", "lost"}

Working == {"next", "running", "converting", "rebuilding", "restoring"}

RunOK(x) ==
  /\ DOMAIN x = RunFields
  /\ IsSequence(x.steps) /\ IsSequence(x.dropped) /\ \A i \in ToSet(x.dropped) : IsIndex(i)
  /\ x.pc \in Working => /\ x.pos \in DOMAIN Order
                         /\ \A s \in ToSet(x.steps) : StepOK(Def[Order[x.pos]], s)
  /\ x.pc \notin Working => x.steps = <<>>
  /\ x.pc = "next" => x.steps = <<>>
  /\ x.pc = "converting" => x.steps # <<>> /\ x.steps[1].op = "convertUnique"
  /\ x.pc \in {"rebuilding", "restoring"} => x.steps # <<>> /\ x.steps[1].op = "rebuild"

Shape ==
  /\ DOMAIN db = Coll /\ \A c \in Coll : CollOK(db[c])
  /\ DOMAIN run = Run /\ \A r \in Run : RunOK(run[r])

LEMMA IdleOK ==
  /\ DOMAIN Idle = RunFields /\ Idle.steps = <<>> /\ Idle.dropped = <<>> /\ Idle.targets = {}
  /\ Idle.pc = "idle" /\ RunOK(Idle)
<1>1. /\ DOMAIN Idle = RunFields /\ Idle.steps = <<>> /\ Idle.dropped = <<>> /\ Idle.targets = {}
      /\ Idle.pc = "idle"
  BY DEF Idle, RunFields
<1>2. RunOK(Idle) BY <1>1, EmptyIsSequence DEF RunOK, Working
<1> QED BY <1>1, <1>2

LEMMA OrderOK ==
  /\ Len(Order) \in Nat \ {0} /\ DOMAIN Order = 1..Len(Order)
  /\ \A k \in DOMAIN Order : Order[k] \in Coll
<1>1. Order \in Seq(Coll) /\ Len(Order) > 0 BY DefinitionsAssumption
<1> QED BY <1>1

LEMMA HereOK ==
  ASSUME Shape, NEW r \in Run, run[r].pc \in Working
  PROVE  Here(r) \in Coll /\ CollOK(db[Here(r)])
  BY OrderOK DEF Shape, RunOK, Here

\* What comes first among the steps.
LEMMA NowOK ==
  ASSUME Shape, NEW r \in Run, run[r].steps # <<>>
  PROVE  /\ run[r].pc \in Working /\ Now(r) = run[r].steps[1] /\ 1 \in DOMAIN run[r].steps
         /\ Now(r) \in ToSet(run[r].steps) /\ StepOK(Def[Here(r)], Now(r))
         /\ IsSequence(Tail(run[r].steps))
         /\ ToSet(Tail(run[r].steps)) \subseteq ToSet(run[r].steps)
<1>1. RunOK(run[r]) BY DEF Shape
<1>2. run[r].pc \in Working /\ IsSequence(run[r].steps) BY <1>1 DEF RunOK
<1> DEFINE s == run[r].steps
<1>3. /\ IsSequence(Tail(s)) /\ 1 \in DOMAIN s /\ Head(s) = s[1]
      /\ \A k \in DOMAIN Tail(s) : k + 1 \in DOMAIN s /\ Tail(s)[k] = s[k + 1]
  BY <1>2, TailOf
<1>4. s[1] \in ToSet(s) BY <1>2, <1>3, SequenceParts
<1>5. ToSet(Tail(s)) \subseteq ToSet(s) BY <1>3 DEF ToSet
<1>6. StepOK(Def[Here(r)], s[1]) BY <1>1, <1>2, <1>4 DEF RunOK, Here
<1> QED BY <1>2, <1>3, <1>4, <1>5, <1>6 DEF Now

LEMMA DefOK ==
  ASSUME NEW c \in Coll
  PROVE  /\ IsSequence(Def[c].indexes) /\ WellDeclared(Def[c].indexes)
         /\ \A d \in ToSet(Def[c].indexes) : IsIndex(d)
         /\ OnePerName(ToSet(Def[c].indexes)) /\ IsFiniteSet(ToSet(Def[c].indexes))
         /\ IsFiniteSet(Def[c].search) /\ OnePerName(Def[c].search)
<1>1. /\ IsSequence(Def[c].indexes) /\ WellDeclared(Def[c].indexes)
      /\ \A d \in ToSet(Def[c].indexes) : IsIndex(d)
      /\ IsFiniteSet(Def[c].search) /\ OnePerName(Def[c].search)
  BY DefinitionsAssumption
<1> DEFINE s == Def[c].indexes
<1>2. OnePerName(ToSet(s)) BY <1>1 DEF WellDeclared, OnePerName, ToSet
<1>3. IsFiniteSet(ToSet(s)) BY <1>1, RangeFinite
<1> QED BY <1>1, <1>2, <1>3

-----------------------------------------------------------------------------
(* What commands make of a collection.                                     *)

\* Indexes that the server may be asked to create together.
NewIndexes(I) == IsFiniteSet(I) /\ OnePerName(I) /\ \A i \in I : IsIndex(i)

LEMMA OneNew ==
  ASSUME NEW i, IsIndex(i)
  PROVE  NewIndexes({i})
  BY FS_Singleton DEF NewIndexes, OnePerName

LEMMA AddedOK ==
  ASSUME NEW coll, CollOK(coll), NEW I, NewIndexes(I), ~Refuses(I, coll)
  PROVE  /\ CollOK(Added(I, coll)) /\ Added(I, coll).indexes = coll.indexes \cup I
         /\ Added(I, coll).search = coll.search /\ Added(I, coll).listed = coll.listed
         /\ Added(I, coll).rules = coll.rules /\ Added(I, coll).exists = TRUE
<1> DEFINE new == Added(I, coll)
<1>1. /\ DOMAIN new = CollFields /\ new.indexes = coll.indexes \cup I /\ new.exists = TRUE
      /\ new.search = coll.search /\ new.listed = coll.listed /\ new.rules = coll.rules
  BY DEF CollOK, CollFields, Added
<1>2. IsFiniteSet(new.indexes) BY <1>1, FS_Union DEF CollOK, NewIndexes
<1>3. \A i \in new.indexes : IsIndex(i) BY <1>1 DEF CollOK, NewIndexes
<1>4. OnePerName(new.indexes)
  <2> SUFFICES ASSUME NEW i \in new.indexes, NEW j \in new.indexes, i.name = j.name PROVE i = j
    BY DEF OnePerName
  <2>1. \A k \in I, l \in coll.indexes : k.name = l.name => k = l BY DEF Refuses, Clashes
  <2> QED BY <1>1, <2>1 DEF CollOK, NewIndexes, OnePerName
<1> HIDE DEF new
<1>5. CollOK(new) BY <1>1, <1>2, <1>3, <1>4 DEF CollOK
<1> QED BY <1>1, <1>5 DEF new

LEMMA WithoutOK ==
  ASSUME NEW coll, CollOK(coll), NEW names
  PROVE  /\ CollOK(Without(names, coll))
         /\ Without(names, coll).indexes = {i \in coll.indexes : i.name \notin names}
         /\ Without(names, coll).search = coll.search
         /\ Without(names, coll).listed = coll.listed
         /\ Without(names, coll).rules = coll.rules
<1> DEFINE new == Without(names, coll)
<1>1. /\ DOMAIN new = CollFields /\ new.indexes = {i \in coll.indexes : i.name \notin names}
      /\ new.search = coll.search /\ new.listed = coll.listed /\ new.rules = coll.rules
      /\ new.exists = coll.exists
  BY DEF CollOK, CollFields, Without
<1> HIDE DEF new
<1>2. new.indexes \subseteq coll.indexes BY <1>1
<1>3. IsFiniteSet(new.indexes) BY <1>2, FS_Subset DEF CollOK
<1>4. OnePerName(new.indexes) BY <1>2 DEF CollOK, OnePerName
<1>5. CollOK(new)
  <2>1. ~new.exists => new.indexes = {} BY <1>1, <1>2 DEF CollOK
  <2> QED BY <1>1, <1>2, <1>3, <1>4, <2>1 DEF CollOK
<1> QED BY <1>1, <1>5 DEF new

\* A change of an index in place: its name and its key stay.
Alters(indexes, new, name) ==
  /\ \A j \in new : \E i \in indexes : /\ j.name = i.name /\ j.key = i.key
                                       /\ i.name # name => j = i
  /\ \A i \in indexes : \E j \in new : /\ j.name = i.name /\ j.key = i.key
                                       /\ i.name # name => j = i

LEMMA AlteredOK ==
  ASSUME NEW coll, CollOK(coll), NEW new, NEW name, NEW f, DOMAIN new = CollFields,
         new.indexes = {f[i] : i \in coll.indexes},
         \A i \in coll.indexes : /\ IsIndex(f[i]) /\ f[i].name = i.name /\ f[i].key = i.key
                                 /\ i.name # name => f[i] = i,
         new.search = coll.search, new.listed = coll.listed, new.exists = coll.exists
  PROVE  CollOK(new) /\ Alters(coll.indexes, new.indexes, name)
<1>1. IsFiniteSet(new.indexes)
  <2> DEFINE g == [i \in coll.indexes |-> f[i]]
  <2>1. g \in Surjection(coll.indexes, new.indexes) BY DEF Surjection
  <2> QED BY <2>1, FS_Surjection DEF CollOK
<1>2. OnePerName(new.indexes) BY DEF CollOK, OnePerName
<1>3. Alters(coll.indexes, new.indexes, name) BY DEF Alters
<1>4. \A i \in new.indexes : IsIndex(i) OBVIOUS
<1>5. ~new.exists => new.indexes = {} BY DEF CollOK
<1> QED BY <1>1, <1>2, <1>3, <1>4, <1>5 DEF CollOK

\* `prepared` is nobody's business here.
LEMMA PreparedOK ==
  ASSUME NEW coll, CollOK(coll), NEW names
  PROVE  LET new == [coll EXCEPT !.prepared = names]
         IN /\ CollOK(new) /\ new.indexes = coll.indexes /\ new.rules = coll.rules
            /\ new.search = coll.search /\ new.listed = coll.listed
  BY DEF CollOK, CollFields

-----------------------------------------------------------------------------
(* Search indexes: what is listed, and what serves.                        *)

\* Served is what was built; what is listed as ready still serves; and what is not yet as
\* declared is listed with its version.
SearchOK(def, coll) ==
  /\ OnePerName(coll.listed) /\ OnePerName(coll.search)
  /\ \A j \in coll.search : j.status = "ready" => j.served = j.body
  /\ \A d \in def.search, i \in coll.listed :
       i.name = d.name /\ i.status = "ready" /\ i.body = d.body =>
         \E j \in coll.search : /\ j.name = d.name /\ j.served = d.body /\ j.body = d.body
                                /\ j.status # "removing"
  /\ \A d \in def.search, j \in coll.search :
       j.name = d.name /\ j.body # d.body =>
         \E i \in coll.listed : i.name = d.name /\ i.version = j.version /\ i.body # d.body

\* Every version of the declared index past `since` is as declared.
AsDeclared(coll, d, since) ==
  \A i \in coll.listed \cup coll.search : i.name = d.name /\ i.version > since => i.body = d.body

\* What the commands and the server may make of the search indexes.
SearchKept(def, coll, new) ==
  /\ SearchOK(def, new)
  /\ \A d \in def.search, since \in Nat : AsDeclared(coll, d, since) => AsDeclared(new, d, since)

LEMMA NothingSearched ==
  ASSUME NEW def, NEW coll, NEW new, SearchOK(def, coll),
         new.search = coll.search, new.listed = coll.listed
  PROVE  SearchKept(def, coll, new)
  BY DEF SearchOK, SearchKept, AsDeclared

LEMMA CollSearched ==
  ASSUME NEW coll, CollOK(coll), NEW new, DOMAIN new = CollFields, new.indexes = coll.indexes,
         new.exists = coll.exists, IsFiniteSet(new.search), IsFiniteSet(new.listed),
         \A i \in new.search \cup new.listed : IsSearchIndex(i)
  PROVE  CollOK(new)
  BY DEF CollOK

\* A search index is created as declared, under a name that was free.
LEMMA SearchCreated ==
  ASSUME NEW def, OnePerName(def.search), IsFiniteSet(def.search),
         NEW coll, CollOK(coll), SearchOK(def, coll), NEW on,
         NEW new, new = [coll EXCEPT !.search = @ \cup {Submitted(d) : d \in {e \in def.search :
                           e.name \in on /\ e.name \notin Names(coll.search)}}]
  PROVE  CollOK(new) /\ SearchKept(def, coll, new) /\ new.rules = coll.rules
         /\ new.indexes = coll.indexes
<1> DEFINE D == {e \in def.search : e.name \in on /\ e.name \notin Names(coll.search)}
           S == {Submitted(d) : d \in D}
<1>1. /\ DOMAIN new = CollFields /\ new.indexes = coll.indexes /\ new.exists = coll.exists
      /\ new.listed = coll.listed /\ new.rules = coll.rules /\ new.search = coll.search \cup S
  BY DEF CollOK, CollFields
<1>2. \A j \in S : /\ IsSearchIndex(j) /\ j.status = "building"
                   /\ \E d \in def.search : d.name = j.name /\ d.body = j.body
                   /\ \A i \in coll.search : i.name # j.name
  BY DEF Submitted, IsSearchIndex, Names
<1>3. \A i, j \in S : i.name = j.name => i = j BY DEF Submitted, OnePerName
<1>4. IsFiniteSet(S)
  <2> DEFINE f == [d \in D |-> Submitted(d)]
  <2>1. f \in Surjection(D, S) BY DEF Surjection
  <2>2. D \subseteq def.search OBVIOUS
  <2> HIDE DEF D
  <2>3. IsFiniteSet(D) BY <2>2, FS_Subset
  <2> QED BY <2>1, <2>3, FS_Surjection
<1> HIDE DEF S, D
<1>5. CollOK(new)
  <2>1. IsFiniteSet(new.search)
    <3>1. IsFiniteSet(coll.search) BY DEF CollOK
    <3>2. IsFiniteSet(coll.search \cup S) BY <1>4, <3>1, FS_Union
    <3> QED BY <1>1, <3>2
  <2>2. \A i \in new.search \cup new.listed : IsSearchIndex(i) BY <1>1, <1>2 DEF CollOK
  <2> QED BY <1>1, <2>1, <2>2, CollSearched DEF CollOK
<1>6. OnePerName(new.search) /\ OnePerName(new.listed)
  BY <1>1, <1>2, <1>3 DEF SearchOK, OnePerName
<1>7. \A d \in def.search, j \in S : j.name = d.name => j.body = d.body
  BY <1>2 DEF OnePerName
<1>8. SearchOK(def, new)
  <2>1. \A j \in new.search : j.status = "ready" => j.served = j.body
    BY <1>1, <1>2 DEF SearchOK
  <2>2. \A d \in def.search, i \in new.listed :
          i.name = d.name /\ i.status = "ready" /\ i.body = d.body =>
            \E j \in new.search : /\ j.name = d.name /\ j.served = d.body /\ j.body = d.body
                                  /\ j.status # "removing"
    BY <1>1 DEF SearchOK
  <2>3. \A d \in def.search, j \in new.search :
          j.name = d.name /\ j.body # d.body =>
            \E i \in new.listed : i.name = d.name /\ i.version = j.version /\ i.body # d.body
    BY <1>1, <1>7 DEF SearchOK
  <2> QED BY <1>6, <2>1, <2>2, <2>3 DEF SearchOK
<1>9. \A d \in def.search, since \in Nat : AsDeclared(coll, d, since) => AsDeclared(new, d, since)
  BY <1>1, <1>7 DEF AsDeclared
<1> QED BY <1>1, <1>5, <1>8, <1>9 DEF SearchKept

\* Replacing the search indexes of a name, one for one.
LEMMA SearchReplaced ==
  ASSUME NEW def, NEW coll, CollOK(coll), SearchOK(def, coll), NEW f,
         NEW new, DOMAIN new = CollFields, new.indexes = coll.indexes,
         new.exists = coll.exists, new.listed = coll.listed,
         new.search = {f[i] : i \in coll.search},
         \A i \in coll.search : IsSearchIndex(f[i]) /\ f[i].name = i.name,
         \A i \in coll.search : f[i].status = "ready" => f[i].served = f[i].body,
         \A d \in def.search, i \in coll.search : i.name = d.name =>
           /\ i.body = d.body => f[i].body = d.body
           /\ i.served = d.body /\ i.body = d.body => f[i].served = d.body
           /\ i.status # "removing" => f[i].status # "removing"
           /\ f[i].body # d.body => f[i].body = i.body /\ f[i].version = i.version
  PROVE  CollOK(new) /\ SearchKept(def, coll, new)
<1>1. IsFiniteSet(new.search)
  <2> DEFINE g == [i \in coll.search |-> f[i]]
  <2>1. g \in Surjection(coll.search, new.search) BY DEF Surjection
  <2> QED BY <2>1, FS_Surjection DEF CollOK
<1>2. CollOK(new)
  <2>1. \A i \in new.search \cup new.listed : IsSearchIndex(i) BY DEF CollOK
  <2> QED BY <1>1, <2>1, CollSearched DEF CollOK
<1>3. OnePerName(new.search) /\ OnePerName(new.listed) BY DEF SearchOK, OnePerName
<1>4. \A d \in def.search, i \in new.listed :
        i.name = d.name /\ i.status = "ready" /\ i.body = d.body =>
          \E j \in new.search : /\ j.name = d.name /\ j.served = d.body /\ j.body = d.body
                                /\ j.status # "removing"
  <2> SUFFICES ASSUME NEW d \in def.search, NEW i \in new.listed,
                      i.name = d.name /\ i.status = "ready" /\ i.body = d.body
               PROVE  \E j \in new.search : /\ j.name = d.name /\ j.served = d.body
                                            /\ j.body = d.body /\ j.status # "removing"
    OBVIOUS
  <2>1. PICK j \in coll.search : /\ j.name = d.name /\ j.served = d.body /\ j.body = d.body
                                 /\ j.status # "removing"
    BY DEF SearchOK
  <2>2. f[j] \in new.search BY <2>1
  <2>3. /\ f[j].name = d.name /\ f[j].served = d.body /\ f[j].body = d.body
        /\ f[j].status # "removing"
    BY <2>1
  <2> QED BY <2>2, <2>3
<1>5. \A d \in def.search, j \in new.search :
        j.name = d.name /\ j.body # d.body =>
          \E i \in new.listed : i.name = d.name /\ i.version = j.version /\ i.body # d.body
  <2> SUFFICES ASSUME NEW d \in def.search, NEW i \in coll.search,
                      f[i].name = d.name, f[i].body # d.body
               PROVE  \E k \in coll.listed : /\ k.name = d.name /\ k.version = f[i].version
                                             /\ k.body # d.body
    OBVIOUS
  <2>1. i.name = d.name OBVIOUS
  <2>2. i.body = f[i].body /\ f[i].version = i.version BY <2>1
  <2> QED BY <2>1, <2>2 DEF SearchOK
<1>6. SearchOK(def, new) BY <1>3, <1>4, <1>5 DEF SearchOK
<1>7. ASSUME NEW d \in def.search, NEW since \in Nat, AsDeclared(coll, d, since)
      PROVE  AsDeclared(new, d, since)
  <2>1. ASSUME NEW i \in coll.search, f[i].name = d.name, f[i].version > since
        PROVE  f[i].body = d.body
    <3> SUFFICES ASSUME f[i].body # d.body PROVE FALSE OBVIOUS
    <3>1. i.name = d.name BY <2>1
    <3>2. i.body = f[i].body /\ f[i].version = i.version BY <3>1
    <3> QED BY <1>7, <2>1, <3>1, <3>2 DEF AsDeclared
  <2> QED BY <1>7, <2>1 DEF AsDeclared
<1> QED BY <1>2, <1>6, <1>7 DEF SearchKept

LEMMA EntryUpdated ==
  ASSUME NEW i, IsSearchIndex(i), NEW body, NEW j,
         j = [i EXCEPT !.body = body, !.version = @ + 1, !.status = "building"]
  PROVE  /\ IsSearchIndex(j) /\ j.name = i.name /\ j.status = "building" /\ j.body = body
         /\ j.served = i.served
  BY DEF IsSearchIndex

LEMMA SearchUpdated ==
  ASSUME NEW def, OnePerName(def.search), NEW coll, CollOK(coll), SearchOK(def, coll),
         NEW e \in def.search, NEW f,
         \A i \in coll.search : i.name # e.name => f[i] = i,
         \A i \in coll.search : i.name = e.name =>
           /\ IsSearchIndex(f[i]) /\ f[i].name = i.name /\ f[i].status = "building"
           /\ f[i].body = e.body /\ f[i].served = i.served,
         NEW new, DOMAIN new = CollFields, new.indexes = coll.indexes,
         new.exists = coll.exists, new.listed = coll.listed, new.rules = coll.rules,
         new.search = {f[i] : i \in coll.search}
  PROVE  CollOK(new) /\ SearchKept(def, coll, new)
<1>1. \A i \in coll.search : IsSearchIndex(i) /\ (i.status = "ready" => i.served = i.body)
  BY DEF CollOK, SearchOK
<1>2. \A i \in coll.search : IsSearchIndex(f[i]) /\ f[i].name = i.name BY <1>1
<1>3. \A i \in coll.search : f[i].status = "ready" => f[i].served = f[i].body BY <1>1
<1>4. \A d \in def.search, i \in coll.search : i.name = d.name =>
        /\ i.body = d.body => f[i].body = d.body
        /\ i.served = d.body /\ i.body = d.body => f[i].served = d.body
        /\ i.status # "removing" => f[i].status # "removing"
        /\ f[i].body # d.body => f[i].body = i.body /\ f[i].version = i.version
  <2> SUFFICES ASSUME NEW d \in def.search, NEW i \in coll.search, i.name = d.name
               PROVE  /\ i.body = d.body => f[i].body = d.body
                      /\ i.served = d.body /\ i.body = d.body => f[i].served = d.body
                      /\ i.status # "removing" => f[i].status # "removing"
                      /\ f[i].body # d.body => f[i].body = i.body /\ f[i].version = i.version
    OBVIOUS
  <2>1. CASE i.name # e.name BY <2>1
  <2>2. CASE i.name = e.name
    <3>1. d = e BY <2>2 DEF OnePerName
    <3> QED BY <2>2, <3>1
  <2> QED BY <2>1, <2>2
<1> QED BY <1>2, <1>3, <1>4, SearchReplaced

LEMMA SearchDropped ==
  ASSUME NEW def, NEW coll, CollOK(coll), SearchOK(def, coll),
         NEW n, \A d \in def.search : d.name # n,
         NEW new, new = Searching(n, LAMBDA i : [i EXCEPT !.status = "removing"], coll)
  PROVE  CollOK(new) /\ SearchKept(def, coll, new) /\ new.rules = coll.rules
         /\ new.indexes = coll.indexes
<1> DEFINE f == [i \in coll.search |->
                   IF i.name = n THEN [i EXCEPT !.status = "removing"] ELSE i]
<1>1. /\ DOMAIN new = CollFields /\ new.indexes = coll.indexes /\ new.exists = coll.exists
      /\ new.listed = coll.listed /\ new.rules = coll.rules
      /\ new.search = {f[i] : i \in coll.search}
  BY DEF CollOK, CollFields, Searching
<1>2. \A i \in coll.search : i.name # n => f[i] = i OBVIOUS
<1>3. \A i \in coll.search : i.name = n =>
        IsSearchIndex(f[i]) /\ f[i].name = i.name /\ f[i].status = "removing"
  BY DEF CollOK, IsSearchIndex
<1>4. \A i \in coll.search : IsSearchIndex(i) /\ (i.status = "ready" => i.served = i.body)
  BY DEF CollOK, SearchOK
<1> HIDE DEF f
<1>5. \A i \in coll.search : IsSearchIndex(f[i]) /\ f[i].name = i.name BY <1>2, <1>3, <1>4
<1>6. \A i \in coll.search : f[i].status = "ready" => f[i].served = f[i].body
  BY <1>2, <1>3, <1>4
<1>7. \A d \in def.search, i \in coll.search : i.name = d.name =>
        /\ i.body = d.body => f[i].body = d.body
        /\ i.served = d.body /\ i.body = d.body => f[i].served = d.body
        /\ i.status # "removing" => f[i].status # "removing"
        /\ f[i].body # d.body => f[i].body = i.body /\ f[i].version = i.version
  BY <1>2
<1>8. CollOK(new) /\ SearchKept(def, coll, new) BY <1>1, <1>5, <1>6, <1>7, SearchReplaced
<1> QED BY <1>1, <1>8

LEMMA SearchBuilt ==
  ASSUME NEW def, NEW coll, CollOK(coll), SearchOK(def, coll),
         NEW i \in coll.search, i.status = "building", NEW k, IsSearchIndex(k),
         k.status \in {"ready", "failed", "stale"}, k.name = i.name, k.body = i.body,
         k.version = i.version, k.served = IF k.status = "failed" THEN i.served ELSE i.body,
         NEW new, DOMAIN new = CollFields, new.indexes = coll.indexes,
         new.exists = coll.exists, new.listed = coll.listed, new.rules = coll.rules,
         new.search = (coll.search \ {i}) \cup {k}
  PROVE  CollOK(new) /\ SearchKept(def, coll, new)
<1> DEFINE f == [j \in coll.search |-> IF j = i THEN k ELSE j]
<1>1. f[i] = k /\ \A j \in coll.search : j # i => f[j] = j OBVIOUS
<1> HIDE DEF f
<1>2. new.search = {f[j] : j \in coll.search} BY <1>1
<1>3. \A j \in coll.search : IsSearchIndex(j) /\ (j.status = "ready" => j.served = j.body)
  BY DEF CollOK, SearchOK
<1>4. \A j \in coll.search : IsSearchIndex(f[j]) /\ f[j].name = j.name BY <1>1, <1>3
<1>5. \A j \in coll.search : f[j].status = "ready" => f[j].served = f[j].body
  BY <1>1, <1>3
<1>6. \A d \in def.search, j \in coll.search : j.name = d.name =>
        /\ j.body = d.body => f[j].body = d.body
        /\ j.served = d.body /\ j.body = d.body => f[j].served = d.body
        /\ j.status # "removing" => f[j].status # "removing"
        /\ f[j].body # d.body => f[j].body = j.body /\ f[j].version = j.version
  BY <1>1
<1> QED BY <1>2, <1>4, <1>5, <1>6, SearchReplaced

LEMMA SearchRemoved ==
  ASSUME NEW def, NEW coll, CollOK(coll), SearchOK(def, coll),
         NEW i \in coll.search, i.status = "removing",
         NEW new, new = [coll EXCEPT !.search = @ \ {i}]
  PROVE  CollOK(new) /\ SearchKept(def, coll, new) /\ new.rules = coll.rules
         /\ new.indexes = coll.indexes
<1>1. /\ DOMAIN new = CollFields /\ new.indexes = coll.indexes /\ new.exists = coll.exists
      /\ new.listed = coll.listed /\ new.rules = coll.rules
      /\ new.search = coll.search \ {i}
  BY DEF CollOK, CollFields
<1>2. CollOK(new)
  <2>1. IsFiniteSet(new.search)
    <3>1. new.search \subseteq coll.search /\ IsFiniteSet(coll.search) BY <1>1 DEF CollOK
    <3> QED BY <3>1, FS_Subset
  <2>2. \A j \in new.search \cup new.listed : IsSearchIndex(j) BY <1>1 DEF CollOK
  <2> QED BY <1>1, <2>1, <2>2, CollSearched DEF CollOK
<1>3. SearchOK(def, new)
  <2>1. OnePerName(new.search) /\ OnePerName(new.listed) BY <1>1 DEF SearchOK, OnePerName
  <2>2. \A j \in new.search : j.status = "ready" => j.served = j.body BY <1>1 DEF SearchOK
  <2>3. \A d \in def.search, k \in new.listed :
          k.name = d.name /\ k.status = "ready" /\ k.body = d.body =>
            \E j \in new.search : /\ j.name = d.name /\ j.served = d.body /\ j.body = d.body
                                  /\ j.status # "removing"
    <3> SUFFICES ASSUME NEW d \in def.search, NEW k \in coll.listed,
                        k.name = d.name /\ k.status = "ready" /\ k.body = d.body
                 PROVE  \E j \in new.search : /\ j.name = d.name /\ j.served = d.body
                                              /\ j.body = d.body /\ j.status # "removing"
      BY <1>1
    <3>1. PICK j \in coll.search : /\ j.name = d.name /\ j.served = d.body /\ j.body = d.body
                                   /\ j.status # "removing"
      BY DEF SearchOK
    <3> QED BY <1>1, <3>1
  <2>4. \A d \in def.search, j \in new.search :
          j.name = d.name /\ j.body # d.body =>
            \E k \in new.listed : k.name = d.name /\ k.version = j.version /\ k.body # d.body
    BY <1>1 DEF SearchOK
  <2> QED BY <2>1, <2>2, <2>3, <2>4 DEF SearchOK
<1>4. \A d \in def.search, since \in Nat : AsDeclared(coll, d, since) => AsDeclared(new, d, since)
  BY <1>1 DEF AsDeclared
<1> QED BY <1>1, <1>2, <1>3, <1>4 DEF SearchKept

LEMMA SearchListed ==
  ASSUME NEW def, NEW coll, CollOK(coll), SearchOK(def, coll),
         NEW new, new = [coll EXCEPT !.listed = coll.search]
  PROVE  CollOK(new) /\ SearchKept(def, coll, new) /\ new.rules = coll.rules
         /\ new.indexes = coll.indexes
<1>1. /\ DOMAIN new = CollFields /\ new.indexes = coll.indexes /\ new.exists = coll.exists
      /\ new.listed = coll.search /\ new.rules = coll.rules /\ new.search = coll.search
  BY DEF CollOK, CollFields
<1>2. CollOK(new)
  <2>1. \A j \in new.search \cup new.listed : IsSearchIndex(j) BY <1>1 DEF CollOK
  <2> QED BY <1>1, <2>1, CollSearched DEF CollOK
<1>3. SearchOK(def, new)
  <2>1. \A d \in def.search, k \in new.listed :
          k.name = d.name /\ k.status = "ready" /\ k.body = d.body =>
            \E j \in new.search : /\ j.name = d.name /\ j.served = d.body /\ j.body = d.body
                                  /\ j.status # "removing"
    <3> SUFFICES ASSUME NEW d \in def.search, NEW k \in coll.search,
                        k.name = d.name /\ k.status = "ready" /\ k.body = d.body
                 PROVE  \E j \in new.search : /\ j.name = d.name /\ j.served = d.body
                                              /\ j.body = d.body /\ j.status # "removing"
      BY <1>1
    <3>1. k.served = d.body /\ k.status # "removing" BY DEF SearchOK
    <3> QED BY <1>1, <3>1
  <2> QED BY <1>1, <2>1 DEF SearchOK
<1>4. \A d \in def.search, since \in Nat : AsDeclared(coll, d, since) => AsDeclared(new, d, since)
  BY <1>1 DEF AsDeclared
<1> QED BY <1>1, <1>2, <1>3, <1>4 DEF SearchKept

-----------------------------------------------------------------------------
(* What a step makes of its collection.                                    *)

IndexEffect(s, coll, new) ==
  \/ /\ s.op \in {"createCollection", "validator", "createSearch", "updateSearch", "dropSearch"}
     /\ new.indexes = coll.indexes
  \/ /\ s.op = "createIndexes" /\ new.indexes = coll.indexes \cup ToSet(s.creates)
     /\ \A d \in ToSet(s.creates) : ~Clashes(d, coll)
  \/ /\ s.op = "dropIndex"
     /\ new.indexes = {i \in coll.indexes : i.name \notin Names(s.drops)}
  \/ /\ s.op = "collMod"
     /\ Alters(coll.indexes, new.indexes, s.creates[1].name)
     /\ \A i \in new.indexes : i.name = s.creates[1].name => i.ttl = s.creates[1].ttl
     /\ \A i \in new.indexes : \E j \in coll.indexes : i.name = j.name /\ i.unique = j.unique

RulesEffect(s, def, coll, new) ==
  new.rules = CASE s.op = "validator" -> def.rules
                [] s.op = "createCollection" /\ def.rules \notin {Unset, 0} -> def.rules
                [] OTHER -> coll.rules

LEMMA EffectOK ==
  ASSUME NEW c \in Coll, NEW coll, CollOK(coll), SearchOK(Def[c], coll),
         NEW s, StepOK(Def[c], s), InOneCommand(s), ~SaysNo(s, Def[c], coll)
  PROVE  LET new == Effect(s, Def[c], coll)
         IN /\ CollOK(new) /\ SearchKept(Def[c], coll, new)
            /\ IndexEffect(s, coll, new) /\ RulesEffect(s, Def[c], coll, new)
<1> DEFINE def == Def[c]
           new == Effect(s, def, coll)
<1>0. /\ \A d \in ToSet(def.indexes) : IsIndex(d)
      /\ OnePerName(ToSet(def.indexes)) /\ IsFiniteSet(ToSet(def.indexes))
      /\ IsFiniteSet(def.search) /\ OnePerName(def.search)
  BY DefOK
<1> HIDE DEF def
<1>a. /\ s.op \notin {"rebuild", "convertUnique"} /\ StepOK(def, s) /\ ~SaysNo(s, def, coll)
      /\ SearchOK(def, coll)
  BY DEF InOneCommand, def
<1>1. CASE s.op = "createCollection"
  <2>1. /\ DOMAIN new = CollFields /\ new.indexes = coll.indexes /\ new.exists = TRUE
        /\ new.search = coll.search /\ new.listed = coll.listed
        /\ new.rules = IF def.rules \in {Unset, 0} THEN coll.rules ELSE def.rules
    BY <1>1 DEF CollOK, CollFields, Effect
  <2> HIDE DEF new
  <2>2. CollOK(new) BY <2>1 DEF CollOK
  <2>3. SearchKept(def, coll, new) BY <1>a, <2>1, NothingSearched
  <2>4. IndexEffect(s, coll, new) /\ RulesEffect(s, def, coll, new)
    BY <1>1, <2>1 DEF IndexEffect, RulesEffect
  <2> QED BY <2>2, <2>3, <2>4 DEF new, def
<1>2. CASE s.op = "validator"
  <2>1. /\ DOMAIN new = CollFields /\ new.indexes = coll.indexes /\ new.exists = coll.exists
        /\ new.search = coll.search /\ new.listed = coll.listed /\ new.rules = def.rules
    BY <1>2 DEF CollOK, CollFields, Effect
  <2> HIDE DEF new
  <2>2. CollOK(new) BY <2>1 DEF CollOK
  <2>3. SearchKept(def, coll, new) BY <1>a, <2>1, NothingSearched
  <2>4. IndexEffect(s, coll, new) /\ RulesEffect(s, def, coll, new)
    BY <1>2, <2>1 DEF IndexEffect, RulesEffect
  <2> QED BY <2>2, <2>3, <2>4 DEF new, def
<1>3. CASE s.op = "createIndexes"
  <2> DEFINE I == ToSet(s.creates)
  <2>1. new = Added(I, coll) /\ ~Refuses(I, coll)
    BY <1>3, <1>a DEF Effect, SaysNo
  <2>2. I \subseteq ToSet(def.indexes) BY <1>a DEF StepOK
  <2>3. NewIndexes(I) BY <1>0, <2>2, FS_Subset DEF NewIndexes, OnePerName
  <2> HIDE DEF new, I
  <2>4. /\ CollOK(new) /\ new.indexes = coll.indexes \cup I
        /\ new.search = coll.search /\ new.listed = coll.listed /\ new.rules = coll.rules
    BY <2>1, <2>3, AddedOK
  <2>5. SearchKept(def, coll, new) BY <1>a, <2>4, NothingSearched
  <2>6. IndexEffect(s, coll, new) BY <1>3, <2>1, <2>4 DEF IndexEffect, Refuses, I
  <2>7. RulesEffect(s, def, coll, new) BY <1>3, <2>4 DEF RulesEffect
  <2> QED BY <2>4, <2>5, <2>6, <2>7 DEF new, def
<1>4. CASE s.op = "collMod"
  <2> DEFINE d == s.creates[1]
             f == [i \in coll.indexes |-> IF i.name = d.name THEN [i EXCEPT !.ttl = d.ttl] ELSE i]
  <2>1. /\ DOMAIN new = CollFields /\ new.indexes = {f[i] : i \in coll.indexes}
        /\ new.search = coll.search /\ new.listed = coll.listed /\ new.exists = coll.exists
        /\ new.rules = coll.rules
    BY <1>4 DEF CollOK, CollFields, Effect, Modified
  <2>2. \A i \in coll.indexes : /\ IsIndex(f[i]) /\ f[i].name = i.name /\ f[i].key = i.key
                                /\ (i.name # d.name => f[i] = i)
                                /\ (i.name = d.name => f[i].ttl = d.ttl)
                                /\ f[i].unique = i.unique
    BY DEF CollOK, IsIndex
  <2> HIDE DEF new, d, f
  <2>3. CollOK(new) /\ Alters(coll.indexes, new.indexes, d.name)
    <3>1. \A i \in coll.indexes : /\ IsIndex(f[i]) /\ f[i].name = i.name /\ f[i].key = i.key
                                  /\ i.name # d.name => f[i] = i
      BY <2>2
    <3> QED BY <2>1, <3>1, AlteredOK
  <2>4. /\ \A i \in new.indexes : i.name = d.name => i.ttl = d.ttl
        /\ \A i \in new.indexes : \E j \in coll.indexes : i.name = j.name /\ i.unique = j.unique
    BY <2>1, <2>2
  <2>5. SearchKept(def, coll, new) BY <1>a, <2>1, NothingSearched
  <2>6. IndexEffect(s, coll, new) BY <1>4, <2>3, <2>4 DEF IndexEffect, d
  <2>7. RulesEffect(s, def, coll, new) BY <1>4, <2>1 DEF RulesEffect
  <2> QED BY <2>3, <2>5, <2>6, <2>7 DEF new, def
<1>5. CASE s.op = "dropIndex"
  <2>1. new = Without(Names(s.drops), coll) BY <1>5 DEF Effect
  <2> HIDE DEF new
  <2>2. /\ CollOK(new) /\ new.indexes = {i \in coll.indexes : i.name \notin Names(s.drops)}
        /\ new.search = coll.search /\ new.listed = coll.listed /\ new.rules = coll.rules
    BY <2>1, WithoutOK
  <2>5. SearchKept(def, coll, new) BY <1>a, <2>2, NothingSearched
  <2>6. IndexEffect(s, coll, new) BY <1>5, <2>2 DEF IndexEffect
  <2>7. RulesEffect(s, def, coll, new) BY <1>5, <2>2 DEF RulesEffect
  <2> QED BY <2>2, <2>5, <2>6, <2>7 DEF new, def
<1>6. CASE s.op = "createSearch"
  <2>1. new = [coll EXCEPT !.search = @ \cup {Submitted(d) : d \in {e \in def.search :
                 e.name \in s.on /\ e.name \notin Names(coll.search)}}]
    BY <1>6 DEF Effect
  <2> HIDE DEF new
  <2>2. CollOK(new) /\ SearchKept(def, coll, new) /\ new.rules = coll.rules
        /\ new.indexes = coll.indexes
    BY <1>0, <1>a, <2>1, SearchCreated
  <2>3. IndexEffect(s, coll, new) /\ RulesEffect(s, def, coll, new)
    BY <1>6, <2>2 DEF IndexEffect, RulesEffect
  <2> QED BY <2>2, <2>3 DEF new, def
<1>7. CASE s.op = "updateSearch"
  <2>1. PICK e \in def.search : s.on = {e.name} BY <1>7, <1>a DEF StepOK
  <2>2. (CHOOSE d \in def.search : d.name \in s.on) = e
    BY <1>0, <2>1 DEF OnePerName
  <2> DEFINE f == [i \in coll.search |->
                     IF i.name = e.name
                     THEN [i EXCEPT !.body = e.body, !.version = @ + 1, !.status = "building"]
                     ELSE i]
  <2>3. new = [coll EXCEPT !.search = {f[i] : i \in coll.search}]
    BY <1>7, <2>2, Zenon DEF Effect, Searching
  <2>4. \A i \in coll.search : i.name # e.name => f[i] = i BY Zenon
  <2>5. \A i \in coll.search : i.name = e.name =>
          f[i] = [i EXCEPT !.body = e.body, !.version = @ + 1, !.status = "building"]
    BY Zenon
  <2> HIDE DEF f, new
  <2>6. \A i \in coll.search : i.name = e.name =>
          /\ IsSearchIndex(f[i]) /\ f[i].name = i.name /\ f[i].status = "building"
          /\ f[i].body = e.body /\ f[i].served = i.served
    <3> SUFFICES ASSUME NEW i \in coll.search, i.name = e.name
                 PROVE  /\ IsSearchIndex(f[i]) /\ f[i].name = i.name /\ f[i].status = "building"
                        /\ f[i].body = e.body /\ f[i].served = i.served
      OBVIOUS
    <3>1. IsSearchIndex(i) BY DEF CollOK
    <3>2. f[i] = [i EXCEPT !.body = e.body, !.version = @ + 1, !.status = "building"]
      BY <2>5
    <3> QED BY <3>1, <3>2 DEF IsSearchIndex
  <2>7. /\ DOMAIN new = CollFields /\ new.indexes = coll.indexes
        /\ new.exists = coll.exists /\ new.listed = coll.listed /\ new.rules = coll.rules
        /\ new.search = {f[i] : i \in coll.search}
    BY <2>3 DEF CollOK, CollFields
  <2>8. CollOK(new) /\ SearchKept(def, coll, new)
    BY <1>0, <1>a, <2>4, <2>6, <2>7, SearchUpdated
  <2>9. IndexEffect(s, coll, new) /\ RulesEffect(s, def, coll, new)
    BY <1>7, <2>7 DEF IndexEffect, RulesEffect
  <2> QED BY <2>8, <2>9 DEF new, def
<1>8. CASE s.op = "dropSearch"
  <2>1. PICK n : s.on = {n} /\ \A d \in def.search : d.name # n BY <1>8, <1>a DEF StepOK
  <2>2. (CHOOSE k \in s.on : TRUE) = n BY <2>1
  <2>3. new = Searching(n, LAMBDA i : [i EXCEPT !.status = "removing"], coll)
    BY <1>8, <2>2 DEF Effect
  <2> HIDE DEF new
  <2>4. CollOK(new) /\ SearchKept(def, coll, new) /\ new.rules = coll.rules
        /\ new.indexes = coll.indexes
    BY <1>a, <2>1, <2>3, SearchDropped
  <2>5. IndexEffect(s, coll, new) /\ RulesEffect(s, def, coll, new)
    BY <1>8, <2>4 DEF IndexEffect, RulesEffect
  <2> QED BY <2>4, <2>5 DEF new, def
<1> QED BY <1>a, <1>1, <1>2, <1>3, <1>4, <1>5, <1>6, <1>7, <1>8 DEF StepOK

-----------------------------------------------------------------------------
(* What one step may do to the runs and to the collections.                *)

Searched == \A c \in Coll : SearchOK(Def[c], db[c])

\* A run that works on no collection (any more).
Ended(x, y) == RunOK(y) /\ y.pc \notin Working /\ y.targets \subseteq x.targets

\* A run that goes on with its collection: no step comes in, and none drops more than before.
Continued(x, y) ==
  /\ RunOK(y) /\ x.pc \in Working /\ y.pc \in Working /\ y.pos = x.pos
  /\ y.reviewed = x.reviewed /\ y.before = x.before /\ y.targets = x.targets
  /\ \A t \in ToSet(y.steps) : \E s \in ToSet(x.steps) : t.op = s.op /\ t.drops \subseteq s.drops

\* A run that turns to a collection that it just planned, either all of them or this one.
Entered(r, y) ==
  \E k \in DOMAIN Order :
    LET c == Order[k]
        plan == Plan(r, c)
    IN /\ RunOK(y) /\ y.pc \in {"next", "running"} /\ y.pos = k /\ y.steps = plan.steps
       /\ y.targets \subseteq run[r].targets \cup Targets(c)
       /\ y.before = IF plan.steps = <<>> THEN {} ELSE db[c].indexes
       /\ \/ y.reviewed = [a \in Coll |-> Reviewed(Plan(r, a))]
          \/ /\ run[r].pc \in Working /\ y.reviewed = run[r].reviewed
             /\ Introduced(r, c, plan) = {}

RunMoved(r) ==
  /\ DOMAIN run' = Run /\ \A q \in Run : q # r => run'[q] = run[q]
  /\ Ended(run[r], run'[r]) \/ Continued(run[r], run'[r]) \/ Entered(r, run'[r])

\* Only its collection changes, and an index leaves only when one of its steps drops it.
CollMoved(r) ==
  \/ db' = db
  \/ /\ run[r].pc \in Working
     /\ \E new : /\ db' = [db EXCEPT ![Here(r)] = new]
                 /\ CollOK(new) /\ SearchKept(Def[Here(r)], db[Here(r)], new)
                 /\ \A i \in db[Here(r)].indexes :
                      \/ \E j \in new.indexes : j.name = i.name
                      \/ \E s \in ToSet(run[r].steps) : \E k \in s.drops : k.name = i.name

LEMMA OverEnds ==
  ASSUME Shape, NEW r \in Run, NEW pc \in {"done", "dead"}, Over(r, pc)
  PROVE  RunMoved(r)
<1>1. run' = [run EXCEPT ![r] = [Idle EXCEPT !.pc = pc]] BY DEF Over
<1> DEFINE y == [Idle EXCEPT !.pc = pc]
<1>2. /\ DOMAIN y = RunFields /\ y.steps = <<>> /\ y.dropped = <<>> /\ y.targets = {} /\ y.pc = pc
  BY IdleOK DEF RunFields
<1>3. DOMAIN run' = Run /\ run'[r] = y /\ \A q \in Run : q # r => run'[q] = run[q]
  BY <1>1 DEF Shape
<1> HIDE DEF y
<1>4. RunOK(y) /\ y.pc \notin Working BY <1>2, EmptyIsSequence DEF RunOK, Working
<1> QED BY <1>2, <1>3, <1>4 DEF RunMoved, Ended

LEMMA FailsEnds ==
  ASSUME Shape, NEW r \in Run, NEW lost, Fails(r, lost)
  PROVE  RunMoved(r)
<1>1. run' = [run EXCEPT ![r] = [Idle EXCEPT !.pc = "failed", !.lost = lost]] BY DEF Fails
<1> DEFINE y == [Idle EXCEPT !.pc = "failed", !.lost = lost]
<1>2. /\ DOMAIN y = RunFields /\ y.steps = <<>> /\ y.dropped = <<>> /\ y.targets = {}
      /\ y.pc = "failed"
  BY IdleOK DEF RunFields
<1>3. DOMAIN run' = Run /\ run'[r] = y /\ \A q \in Run : q # r => run'[q] = run[q]
  BY <1>1 DEF Shape
<1> HIDE DEF y
<1>4. RunOK(y) /\ y.pc \notin Working BY <1>2, EmptyIsSequence DEF RunOK, Working
<1> QED BY <1>2, <1>3, <1>4 DEF RunMoved, Ended

\* Some steps are left, as they were.
LEMMA GoesOn ==
  ASSUME NEW x, RunOK(x), x.pc \in Working, NEW y, DOMAIN y = RunFields, y.pos = x.pos,
         y.reviewed = x.reviewed, y.before = x.before, y.targets = x.targets,
         IsSequence(y.steps), ToSet(y.steps) \subseteq ToSet(x.steps),
         IsSequence(y.dropped), \A i \in ToSet(y.dropped) : IsIndex(i),
         \/ y.pc = "running"
         \/ y.pc = "next" /\ y.steps = <<>>
         \/ y.pc = "converting" /\ y.steps # <<>> /\ y.steps[1].op = "convertUnique"
         \/ y.pc \in {"rebuilding", "restoring"} /\ y.steps # <<>> /\ y.steps[1].op = "rebuild"
  PROVE  Continued(x, y)
<1>1. y.pc \in Working BY DEF Working
<1>2. \A s \in ToSet(y.steps) : StepOK(Def[Order[y.pos]], s) BY DEF RunOK
<1>3. RunOK(y) BY <1>1, <1>2 DEF RunOK, Working
<1> QED BY <1>1, <1>3 DEF Continued

LEMMA MovedOn ==
  ASSUME Shape, NEW r \in Run, NEW y, run' = [run EXCEPT ![r] = y], Continued(run[r], y)
  PROVE  RunMoved(r)
  BY DEF RunMoved, Shape

\* A run only drops what is there when it plans.
LEMMA DropsLive ==
  ASSUME NEW p, NEW d
  PROVE  DropsFor(p, d) \subseteq p.live /\ Extras(p) \subseteq p.live
  BY DEF DropsFor, Current, Blockers, Undeclared, Extras

\* What planning collection `c` in run `r` is given.
Input(r, c) ==
  InputOf(Def[c], db[c],
    [prune |-> Options[r].prune, rebuildUnique |-> Options[r].rebuildUnique,
     backing |-> IF ReadsShardKeys THEN Backing[c] ELSE {}])

LEMMA PlanOK ==
  ASSUME Shape, NEW r, NEW c \in Coll
  PROVE  /\ IsSequence(Plan(r, c).steps)
         /\ \A s \in ToSet(Plan(r, c).steps) :
              IndexStep(Input(r, c), s) \/ PlainStep(Def[c], db[c], s)
         /\ \A i \in Extras(Input(r, c)) : \E s \in ToSet(Plan(r, c).steps) : s.drops = {i}
         /\ IndexRows(Input(r, c)) \subseteq Plan(r, c).rows
         /\ \A row \in Plan(r, c).rows : row.target = "index" => row \in IndexRows(Input(r, c))
         /\ Input(r, c).declared = Def[c].indexes /\ Input(r, c).live = db[c].indexes
<1> DEFINE options == [prune |-> Options[r].prune, rebuildUnique |-> Options[r].rebuildUnique,
                       backing |-> IF ReadsShardKeys THEN Backing[c] ELSE {}]
<1>1. Plannable(Def[c], db[c]) BY DefOK DEF Plannable, Shape, CollOK
<1>2. Plan(r, c) = PlanCollection(Def[c], db[c], options)
      /\ Input(r, c) = InputOf(Def[c], db[c], options)
  BY DEF Plan, Input
<1> HIDE DEF options
<1>3. /\ IsSequence(Plan(r, c).steps)
      /\ \A s \in ToSet(Plan(r, c).steps) :
           IndexStep(Input(r, c), s) \/ PlainStep(Def[c], db[c], s)
      /\ \A i \in Extras(Input(r, c)) : \E s \in ToSet(Plan(r, c).steps) : s.drops = {i}
      /\ IndexRows(Input(r, c)) \subseteq Plan(r, c).rows
      /\ \A row \in Plan(r, c).rows : row.target = "index" => row \in IndexRows(Input(r, c))
  BY <1>1, <1>2, PlanParts
<1>4. Input(r, c).declared = Def[c].indexes /\ Input(r, c).live = db[c].indexes
  BY <1>1, <1>2, InputPlanned
<1> QED BY <1>3, <1>4

LEMMA PlannedStepOK ==
  ASSUME Shape, NEW r, NEW c \in Coll, NEW s \in ToSet(Plan(r, c).steps)
  PROVE  StepOK(Def[c], s) /\ s.drops \subseteq db[c].indexes
<1> DEFINE p == Input(r, c)
<1>1. /\ IndexStep(p, s) \/ PlainStep(Def[c], db[c], s)
      /\ p.declared = Def[c].indexes /\ p.live = db[c].indexes
  BY PlanOK
<1> HIDE DEF p
<1>2. \A i \in db[c].indexes : IsIndex(i) BY DEF Shape, CollOK
<1>3. CASE PlainStep(Def[c], db[c], s)
  <2>1. IsSequence(s.creates) /\ ToSet(s.creates) = {} BY <1>3, EmptyIsSequence DEF PlainStep
  <2> QED BY <1>3, <2>1 DEF PlainStep, StepOK
<1>4. CASE IndexStep(p, s)
  <2>1. DOMAIN s = {"op", "drops", "creates", "on"} /\ IsSequence(s.creates)
    BY <1>4 DEF IndexStep
  <2>2. CASE NewStep(p, s) BY <1>1, <2>1, <2>2 DEF NewStep, StepOK
  <2>3. CASE ModifyStep(p, s)
    <3>1. PICK d \in ToSet(Def[c].indexes) : s.creates = <<d>> BY <1>1, <2>3 DEF ModifyStep
    <3>2. ToSet(s.creates) = {d} BY <3>1, OneIsSequence
    <3> QED BY <2>1, <2>3, <3>1, <3>2 DEF ModifyStep, StepOK
  <2>4. CASE RebuildStep(p, s)
    <3>1. s.drops \subseteq db[c].indexes BY <1>1, <2>4, DropsLive DEF RebuildStep
    <3>2. ToSet(s.creates) \subseteq ToSet(Def[c].indexes) BY <1>1, <2>4 DEF RebuildStep
    <3> QED BY <1>2, <2>1, <2>4, <3>1, <3>2 DEF RebuildStep, StepOK
  <2>5. CASE DropStep(p, s)
    <3>1. PICK i \in Extras(p) : s.drops = {i} BY <2>5 DEF DropStep
    <3>2. i \in db[c].indexes BY <1>1, DropsLive
    <3>3. ToSet(s.creates) = {} BY <2>5, EmptyIsSequence DEF DropStep
    <3> QED BY <1>2, <2>1, <2>5, <3>1, <3>2, <3>3 DEF DropStep, StepOK
  <2> QED BY <1>4, <2>2, <2>3, <2>4, <2>5 DEF IndexStep
<1> QED BY <1>1, <1>3, <1>4

\* A run that turns to a collection.
TurnsTo(y, x, r, k) ==
  /\ RunOK(y) /\ y.pc \in {"next", "running"} /\ y.pos = k
  /\ y.steps = Plan(r, Order[k]).steps
  /\ y.targets = x.targets \cup Targets(Order[k])
  /\ y.before = IF y.steps = <<>> THEN {} ELSE db[Order[k]].indexes
  /\ y.reviewed = x.reviewed

LEMMA EntersOK ==
  ASSUME Shape, NEW r \in Run, NEW x, RunOK(x), NEW k \in DOMAIN Order,
         NEW y, y = Enters(x, r, k, Plan(r, Order[k]))
  PROVE  TurnsTo(y, x, r, k)
<1> DEFINE c == Order[k]
           plan == Plan(r, c)
<1>1. c \in Coll BY OrderOK
<1>2. IsSequence(plan.steps) /\ \A s \in ToSet(plan.steps) : StepOK(Def[c], s)
  BY <1>1, PlanOK, PlannedStepOK
<1> HIDE DEF plan
<1>3. /\ DOMAIN y = RunFields
      /\ y.pc = IF plan.steps = <<>> THEN "next" ELSE "running"
      /\ y.pos = k /\ y.steps = plan.steps /\ y.targets = x.targets \cup Targets(c)
      /\ y.before = (IF plan.steps = <<>> THEN {} ELSE db[c].indexes)
      /\ y.reviewed = x.reviewed /\ y.dropped = x.dropped
  BY DEF Enters, RunOK, RunFields, plan
<1>4. RunOK(y) BY <1>2, <1>3 DEF RunOK, Working
<1> QED BY <1>3, <1>4 DEF plan, TurnsTo

LEMMA PlansMoves ==
  ASSUME Shape, NEW r \in Run, Plans(r)
  PROVE  RunMoved(r) /\ db' = db
<1> DEFINE plans == [c \in Coll |-> Plan(r, c)]
           x == [Idle EXCEPT !.reviewed = [c \in Coll |-> Reviewed(plans[c])]]
           y == Enters(x, r, 1, plans[Order[1]])
<1>1. db' = db /\ (Fails(r, {}) \/ run' = [run EXCEPT ![r] = y]) BY DEF Plans
<1>2. CASE Fails(r, {}) BY <1>1, <1>2, FailsEnds
<1>3. CASE run' = [run EXCEPT ![r] = y]
  <2>1. 1 \in DOMAIN Order /\ Order[1] \in Coll BY OrderOK
  <2>2. plans[Order[1]] = Plan(r, Order[1]) BY <2>1
  <2>3. x.reviewed = [c \in Coll |-> Reviewed(Plan(r, c))] /\ x.targets = {} /\ RunOK(x)
    <3>1. /\ DOMAIN x = RunFields /\ x.steps = <<>> /\ x.dropped = <<>> /\ x.pc = "idle"
          /\ x.reviewed = [c \in Coll |-> Reviewed(plans[c])] /\ x.targets = {}
      BY IdleOK DEF RunFields
    <3>2. RunOK(x)
      <4> HIDE DEF x
      <4> QED BY <3>1, EmptyIsSequence DEF RunOK, Working
    <3> QED BY <3>1, <3>2
  <2> HIDE DEF x
  <2>4. y = Enters(x, r, 1, Plan(r, Order[1])) BY <2>2
  <2> HIDE DEF y, plans
  <2>5. TurnsTo(y, x, r, 1) BY <2>1, <2>3, <2>4, EntersOK
  <2>6. Entered(r, y) BY <2>1, <2>3, <2>5 DEF TurnsTo, Entered
  <2> QED BY <1>1, <1>3, <2>6 DEF RunMoved, Shape
<1> QED BY <1>1, <1>2, <1>3

LEMMA ReplansMoves ==
  ASSUME Shape, NEW r \in Run, Replans(r)
  PROVE  RunMoved(r) /\ db' = db
<1> DEFINE k == run[r].pos + 1
           c == Order[k]
           plan == Plan(r, c)
           y == Enters(run[r], r, k, plan)
<1>1. /\ run[r].pc = "next" /\ run[r].pos < Len(Order) /\ db' = db
      /\ \/ Fails(r, {})
         \/ Introduced(r, c, plan) = {} /\ run' = [run EXCEPT ![r] = y]
  BY DEF Replans
<1>2. CASE Fails(r, {}) BY <1>1, <1>2, FailsEnds
<1>3. CASE Introduced(r, c, plan) = {} /\ run' = [run EXCEPT ![r] = y]
  <2>1. RunOK(run[r]) /\ run[r].pc \in Working BY <1>1 DEF Shape, Working
  <2>2. run[r].pos \in DOMAIN Order BY <2>1 DEF RunOK
  <2>3. k \in DOMAIN Order BY <1>1, <2>2, OrderOK
  <2>4. TurnsTo(y, run[r], r, k) BY <2>1, <2>3, EntersOK
  <2> HIDE DEF y, k
  <2>5. Entered(r, y) BY <1>3, <2>1, <2>3, <2>4 DEF TurnsTo, Entered
  <2> QED BY <1>1, <1>3, <2>5 DEF RunMoved, Shape
<1> QED BY <1>1, <1>2, <1>3

-----------------------------------------------------------------------------
(* The commands of the steps.                                              *)

\* A collection that was changed in place.
LEMMA CollChanged ==
  ASSUME NEW r \in Run, run[r].pc \in Working, NEW new, Changes(r, Here(r), new),
         CollOK(new), SearchKept(Def[Here(r)], db[Here(r)], new),
         \A i \in db[Here(r)].indexes :
           \/ \E j \in new.indexes : j.name = i.name
           \/ \E s \in ToSet(run[r].steps) : \E k \in s.drops : k.name = i.name
  PROVE  CollMoved(r)
  BY DEF CollMoved, Changes

LEMMA CollAltered ==
  ASSUME Shape, Searched, NEW r \in Run, run[r].pc \in Working, NEW new, Changes(r, Here(r), new),
         CollOK(new), NEW name, Alters(db[Here(r)].indexes, new.indexes, name),
         new.search = db[Here(r)].search, new.listed = db[Here(r)].listed
  PROVE  CollMoved(r)
<1>1. SearchKept(Def[Here(r)], db[Here(r)], new) BY HereOK, NothingSearched DEF Searched
<1>2. \A i \in db[Here(r)].indexes : \E j \in new.indexes : j.name = i.name BY DEF Alters
<1> QED BY <1>1, <1>2, CollChanged

LEMMA CollAdded ==
  ASSUME Shape, Searched, NEW r \in Run, run[r].pc \in Working, NEW i, IsIndex(i),
         ~Refuses({i}, db[Here(r)]), Changes(r, Here(r), Added({i}, db[Here(r)]))
  PROVE  CollMoved(r)
<1> DEFINE new == Added({i}, db[Here(r)])
<1>1. NewIndexes({i}) /\ CollOK(db[Here(r)]) /\ SearchOK(Def[Here(r)], db[Here(r)])
  BY OneNew, HereOK DEF Searched
<1>2. /\ CollOK(new) /\ new.indexes = db[Here(r)].indexes \cup {i}
      /\ new.search = db[Here(r)].search /\ new.listed = db[Here(r)].listed
  BY <1>1, AddedOK
<1>3. Changes(r, Here(r), new) OBVIOUS
<1> HIDE DEF new
<1>4. SearchKept(Def[Here(r)], db[Here(r)], new) BY <1>1, <1>2, NothingSearched
<1>5. \A j \in db[Here(r)].indexes : \E l \in new.indexes : l.name = j.name BY <1>2
<1> QED BY <1>2, <1>3, <1>4, <1>5, CollChanged

LEMMA CollReduced ==
  ASSUME Shape, Searched, NEW r \in Run, run[r].pc \in Working, NEW s \in ToSet(run[r].steps),
         NEW i \in s.drops, Changes(r, Here(r), Without({i.name}, db[Here(r)]))
  PROVE  CollMoved(r)
<1> DEFINE new == Without({i.name}, db[Here(r)])
<1>1. CollOK(db[Here(r)]) /\ SearchOK(Def[Here(r)], db[Here(r)]) BY HereOK DEF Searched
<1>2. /\ CollOK(new)
      /\ new.indexes = {j \in db[Here(r)].indexes : j.name \notin {i.name}}
      /\ new.search = db[Here(r)].search /\ new.listed = db[Here(r)].listed
  BY <1>1, WithoutOK
<1>3. Changes(r, Here(r), new) OBVIOUS
<1> HIDE DEF new
<1>4. SearchKept(Def[Here(r)], db[Here(r)], new) BY <1>1, <1>2, NothingSearched
<1>5. \A j \in db[Here(r)].indexes : \/ \E l \in new.indexes : l.name = j.name
                                     \/ \E t \in ToSet(run[r].steps) :
                                          \E l \in t.drops : l.name = j.name
  BY <1>2
<1> QED BY <1>2, <1>3, <1>4, <1>5, CollChanged

\* The command of the step at hand was carried out.
LEMMA CommandOK ==
  ASSUME Shape, Searched, NEW r \in Run, Begins(r), InOneCommand(Now(r)),
         ~SaysNo(Now(r), Def[Here(r)], db[Here(r)]),
         Changes(r, Here(r), Effect(Now(r), Def[Here(r)], db[Here(r)]))
  PROVE  CollMoved(r)
<1> DEFINE new == Effect(Now(r), Def[Here(r)], db[Here(r)])
           s == Now(r)
<1>1. run[r].steps # <<>> /\ run[r].pc \in Working BY DEF Begins, Working
<1>2. StepOK(Def[Here(r)], s) /\ s \in ToSet(run[r].steps) BY <1>1, NowOK
<1>3. /\ Here(r) \in Coll /\ CollOK(db[Here(r)]) /\ SearchOK(Def[Here(r)], db[Here(r)])
  BY <1>1, HereOK DEF Searched
<1>4. /\ CollOK(new) /\ SearchKept(Def[Here(r)], db[Here(r)], new)
      /\ IndexEffect(s, db[Here(r)], new)
  BY <1>2, <1>3, EffectOK
<1>5. Changes(r, Here(r), new) OBVIOUS
<1> HIDE DEF new, s
<1>6. \A i \in db[Here(r)].indexes : \/ \E j \in new.indexes : j.name = i.name
                                     \/ \E t \in ToSet(run[r].steps) :
                                          \E l \in t.drops : l.name = i.name
  BY <1>2, <1>4 DEF IndexEffect, Alters, Names
<1> QED BY <1>1, <1>4, <1>5, <1>6, CollChanged

LEMMA StepRunsMoves ==
  ASSUME Shape, Searched, NEW r \in Run, StepRuns(r)
  PROVE  RunMoved(r) /\ CollMoved(r)
<1> DEFINE x == run[r]
           y == [run[r] EXCEPT !.steps = Tail(@),
                               !.removed = IF Now(r).op = "dropIndex"
                                           THEN @ \cup Names(Now(r).drops) ELSE @]
<1>1. /\ x.pc = "running" /\ x.steps # <<>> /\ x.pc \in Working
      /\ run' = [run EXCEPT ![r] = y]
  BY DEF StepRuns, Begins, Working
<1>2. RunOK(x) BY DEF Shape
<1>3. /\ DOMAIN y = RunFields /\ y.pc = "running" /\ y.pos = x.pos /\ y.reviewed = x.reviewed
      /\ y.before = x.before /\ y.targets = x.targets /\ y.dropped = x.dropped
      /\ y.steps = Tail(x.steps)
  BY <1>1, <1>2 DEF RunOK, RunFields
<1> HIDE DEF y
<1>4. IsSequence(y.steps) /\ ToSet(y.steps) \subseteq ToSet(x.steps) BY <1>1, <1>3, NowOK
<1>d. IsSequence(y.dropped) /\ \A i \in ToSet(y.dropped) : IsIndex(i)
  BY <1>2, <1>3 DEF RunOK
<1>5. Continued(x, y) BY <1>1, <1>2, <1>3, <1>4, <1>d, GoesOn
<1>6. RunMoved(r) BY <1>1, <1>5, MovedOn
<1>7. CollMoved(r) BY CommandOK DEF StepRuns
<1> QED BY <1>6, <1>7

LEMMA StepKeptMoves ==
  ASSUME Shape, NEW r \in Run, StepKept(r)
  PROVE  RunMoved(r) /\ db' = db
<1> DEFINE x == run[r]
           y == [run[r] EXCEPT !.steps = Tail(@), !.kept = @ \cup Names(Now(r).drops)]
<1>1. /\ x.pc = "running" /\ x.steps # <<>> /\ x.pc \in Working
      /\ run' = [run EXCEPT ![r] = y]
  BY DEF StepKept, Begins, Working
<1>2. RunOK(x) BY DEF Shape
<1>3. /\ DOMAIN y = RunFields /\ y.pc = "running" /\ y.pos = x.pos /\ y.reviewed = x.reviewed
      /\ y.before = x.before /\ y.targets = x.targets /\ y.dropped = x.dropped
      /\ y.steps = Tail(x.steps)
  BY <1>1, <1>2 DEF RunOK, RunFields
<1> HIDE DEF y
<1>4. IsSequence(y.steps) /\ ToSet(y.steps) \subseteq ToSet(x.steps) BY <1>1, <1>3, NowOK
<1>d. IsSequence(y.dropped) /\ \A i \in ToSet(y.dropped) : IsIndex(i)
  BY <1>2, <1>3 DEF RunOK
<1>5. Continued(x, y) BY <1>1, <1>2, <1>3, <1>4, <1>d, GoesOn
<1> QED BY <1>1, <1>5, MovedOn DEF StepKept

\* Runs that fail, whatever became of their command.
LEMMA StepFailsMoves ==
  ASSUME Shape, Searched, NEW r \in Run, StepRefused(r) \/ StepLost(r)
  PROVE  RunMoved(r) /\ CollMoved(r)
<1>1. CASE StepRefused(r) BY <1>1, FailsEnds DEF StepRefused, CollMoved
<1>2. CASE StepLost(r)
  <2>1. RunMoved(r) BY <1>2, FailsEnds DEF StepLost
  <2>2. \/ Changes(r, Here(r), Effect(Now(r), Def[Here(r)], db[Here(r)]))
        \/ UNCHANGED <<db, fresh>>
    BY <1>2, Zenon DEF StepLost
  <2>3. /\ Begins(r) /\ InOneCommand(Now(r))
        /\ ~SaysNo(Now(r), Def[Here(r)], db[Here(r)])
    BY <1>2, Zenon DEF StepLost
  <2>4. CASE Changes(r, Here(r), Effect(Now(r), Def[Here(r)], db[Here(r)]))
    BY <2>3, <2>4, CommandOK, <2>1
  <2>5. CASE UNCHANGED <<db, fresh>> BY <2>1, <2>5 DEF CollMoved
  <2> QED BY <2>2, <2>4, <2>5
<1> QED BY <1>1, <1>2

\* Nothing but `prepared` changed.
LEMMA CollPrepared ==
  ASSUME Shape, Searched, NEW r \in Run, run[r].pc \in Working, NEW names,
         Changes(r, Here(r), [db[Here(r)] EXCEPT !.prepared = names])
  PROVE  CollMoved(r)
<1> DEFINE new == [db[Here(r)] EXCEPT !.prepared = names]
<1>1. CollOK(db[Here(r)]) /\ SearchOK(Def[Here(r)], db[Here(r)]) BY HereOK DEF Searched
<1>2. /\ CollOK(new) /\ new.indexes = db[Here(r)].indexes
      /\ new.search = db[Here(r)].search /\ new.listed = db[Here(r)].listed
  BY <1>1, PreparedOK
<1>3. Changes(r, Here(r), new) OBVIOUS
<1> HIDE DEF new
<1>4. SearchKept(Def[Here(r)], db[Here(r)], new) BY <1>1, <1>2, NothingSearched
<1>5. \A i \in db[Here(r)].indexes : \E j \in new.indexes : j.name = i.name BY <1>2
<1> QED BY <1>2, <1>3, <1>4, <1>5, CollChanged

LEMMA PreparesMoves ==
  ASSUME Shape, Searched, NEW r \in Run, Prepares(r)
  PROVE  RunMoved(r) /\ CollMoved(r)
<1> DEFINE x == run[r]
           y == [run[r] EXCEPT !.pc = "converting"]
           name == Now(r).creates[1].name
<1>1. /\ x.pc = "running" /\ x.steps # <<>> /\ x.pc \in Working /\ Now(r).op = "convertUnique"
  BY DEF Prepares, Begins, Working
<1>2. \/ /\ Changes(r, Here(r), [db[Here(r)] EXCEPT !.prepared = @ \cup {name}])
         /\ run' = [run EXCEPT ![r] = y]
      \/ Fails(r, {}) /\ UNCHANGED <<db, fresh>>
  BY Zenon DEF Prepares
<1>3. CASE /\ Changes(r, Here(r), [db[Here(r)] EXCEPT !.prepared = @ \cup {name}])
           /\ run' = [run EXCEPT ![r] = y]
  <2>1. CollMoved(r) BY <1>1, <1>3, CollPrepared
  <2>2. RunOK(x) BY DEF Shape
  <2>3. /\ DOMAIN y = RunFields /\ y.pc = "converting" /\ y.pos = x.pos
        /\ y.reviewed = x.reviewed /\ y.before = x.before /\ y.targets = x.targets
        /\ y.dropped = x.dropped /\ y.steps = x.steps
    BY <2>2 DEF RunOK, RunFields
  <2> HIDE DEF y
  <2>4. y.steps # <<>> /\ y.steps[1].op = "convertUnique" BY <1>1, <2>3, NowOK
  <2>5. /\ IsSequence(y.dropped) /\ \A i \in ToSet(y.dropped) : IsIndex(i)
        /\ IsSequence(y.steps) /\ ToSet(y.steps) \subseteq ToSet(x.steps)
    BY <2>2, <2>3 DEF RunOK
  <2>6. Continued(x, y) BY <1>1, <2>2, <2>3, <2>4, <2>5, GoesOn
  <2> QED BY <1>3, <2>1, <2>6, MovedOn
<1>4. CASE Fails(r, {}) /\ UNCHANGED <<db, fresh>> BY <1>4, FailsEnds DEF CollMoved
<1> QED BY <1>2, <1>3, <1>4

LEMMA ConvertsMoves ==
  ASSUME Shape, Searched, NEW r \in Run, Converts(r)
  PROVE  RunMoved(r) /\ CollMoved(r)
<1> DEFINE x == run[r]
           y == [run[r] EXCEPT !.pc = "running", !.steps = Tail(@)]
           d == Now(r).creates[1]
           coll == db[Here(r)]
           free == [coll EXCEPT !.prepared = @ \ {d.name}]
           new == Modified(d.name, LAMBDA i : Converted(d, i), free)
<1>1. x.pc = "converting" /\ x.pc \in Working BY DEF Converts, Working
<1>2. \/ /\ Changes(r, Here(r), new)
         /\ run' = [run EXCEPT ![r] = y]
      \/ Changes(r, Here(r), free) /\ Fails(r, {})
  BY Zenon DEF Converts
<1>3. CASE Changes(r, Here(r), new) /\ run' = [run EXCEPT ![r] = y]
  <2> DEFINE f == [i \in coll.indexes |-> IF i.name = d.name THEN Converted(d, i) ELSE i]
  <2>1. CollOK(coll) BY <1>1, HereOK
  <2>2. /\ DOMAIN new = CollFields /\ new.indexes = {f[i] : i \in coll.indexes}
        /\ new.search = coll.search /\ new.listed = coll.listed /\ new.exists = coll.exists
    BY <2>1 DEF CollOK, CollFields, Modified
  <2>3. \A i \in coll.indexes : /\ IsIndex(f[i]) /\ f[i].name = i.name /\ f[i].key = i.key
                                /\ i.name # d.name => f[i] = i
    BY <2>1 DEF CollOK, IsIndex, Converted
  <2> HIDE DEF f, new
  <2>4. CollOK(new) /\ Alters(coll.indexes, new.indexes, d.name)
    BY <2>1, <2>2, <2>3, AlteredOK
  <2>5. CollMoved(r) BY <1>1, <1>3, <2>2, <2>4, CollAltered
  <2>6. RunOK(x) /\ x.steps # <<>> BY <1>1 DEF Shape, RunOK
  <2>7. /\ DOMAIN y = RunFields /\ y.pc = "running" /\ y.pos = x.pos
        /\ y.reviewed = x.reviewed /\ y.before = x.before /\ y.targets = x.targets
        /\ y.dropped = x.dropped /\ y.steps = Tail(x.steps)
    BY <2>6 DEF RunOK, RunFields
  <2> HIDE DEF y
  <2>8. IsSequence(y.steps) /\ ToSet(y.steps) \subseteq ToSet(x.steps) BY <2>6, <2>7, NowOK
  <2>9. IsSequence(y.dropped) /\ \A i \in ToSet(y.dropped) : IsIndex(i)
    BY <2>6, <2>7 DEF RunOK
  <2>10. Continued(x, y) BY <1>1, <2>6, <2>7, <2>8, <2>9, GoesOn
  <2> QED BY <1>3, <2>5, <2>10, MovedOn
<1>4. CASE Changes(r, Here(r), free) /\ Fails(r, {})
  <2>1. CollMoved(r) BY <1>1, <1>4, CollPrepared
  <2> QED BY <1>4, <2>1, FailsEnds
<1> QED BY <1>2, <1>3, <1>4

LEMMA ConvertLostMoves ==
  ASSUME Shape, Searched, NEW r \in Run, ConvertLost(r)
  PROVE  RunMoved(r) /\ CollMoved(r)
<1> DEFINE d == Now(r).creates[1]
           coll == db[Here(r)]
           free == [coll EXCEPT !.prepared = @ \ {d.name}]
           new == Modified(d.name, LAMBDA i : [i EXCEPT !.unique = TRUE], free)
<1>1. run[r].pc \in Working /\ Fails(r, {}) BY DEF ConvertLost, Begins, Working
<1>2. \/ UNCHANGED <<db, fresh>>
      \/ Changes(r, Here(r), [coll EXCEPT !.prepared = @ \cup {d.name}])
      \/ Changes(r, Here(r), free)
      \/ Changes(r, Here(r), new)
  BY Zenon DEF ConvertLost
<1>3. CASE UNCHANGED <<db, fresh>> BY <1>1, <1>3, FailsEnds DEF CollMoved
<1>4. CASE Changes(r, Here(r), [coll EXCEPT !.prepared = @ \cup {d.name}])
  BY <1>1, <1>4, FailsEnds, CollPrepared
<1>5. CASE Changes(r, Here(r), free) BY <1>1, <1>5, FailsEnds, CollPrepared
<1>6. CASE Changes(r, Here(r), new)
  <2> DEFINE f == [i \in coll.indexes |-> IF i.name = d.name THEN [i EXCEPT !.unique = TRUE] ELSE i]
  <2>1. CollOK(coll) BY <1>1, HereOK
  <2>2. /\ DOMAIN new = CollFields /\ new.indexes = {f[i] : i \in coll.indexes}
        /\ new.search = coll.search /\ new.listed = coll.listed /\ new.exists = coll.exists
    BY <2>1 DEF CollOK, CollFields, Modified
  <2>3. \A i \in coll.indexes : /\ IsIndex(f[i]) /\ f[i].name = i.name /\ f[i].key = i.key
                                /\ i.name # d.name => f[i] = i
    BY <2>1 DEF CollOK, IsIndex
  <2> HIDE DEF f, new
  <2>4. CollOK(new) /\ Alters(coll.indexes, new.indexes, d.name)
    BY <2>1, <2>2, <2>3, AlteredOK
  <2>5. CollMoved(r) BY <1>1, <1>6, <2>2, <2>4, CollAltered
  <2> QED BY <1>1, <2>5, FailsEnds
<1> QED BY <1>2, <1>3, <1>4, <1>5, <1>6

-----------------------------------------------------------------------------
(* Rebuilds and restores.                                                  *)

\* The rebuild at hand goes on, with fewer drops or creates to do.
LEMMA RebuildGoesOn ==
  ASSUME NEW x, RunOK(x), x.pc \in Working, x.steps # <<>>,
         NEW t, t.op = "rebuild", t.op = x.steps[1].op, t.drops \subseteq x.steps[1].drops,
         StepOK(Def[Order[x.pos]], t),
         NEW y, DOMAIN y = RunFields, y.pc = "rebuilding", y.pos = x.pos,
         y.reviewed = x.reviewed, y.before = x.before, y.targets = x.targets,
         y.steps = [x.steps EXCEPT ![1] = t],
         IsSequence(y.dropped), \A i \in ToSet(y.dropped) : IsIndex(i)
  PROVE  Continued(x, y)
<1> DEFINE s == x.steps
           u == [x.steps EXCEPT ![1] = t]
<1>1. IsSequence(s) /\ 1 \in DOMAIN s /\ s[1] \in ToSet(s)
  BY TailOf, SequenceParts DEF RunOK
<1>2. /\ DOMAIN u = DOMAIN s /\ u = [k \in DOMAIN s |-> u[k]] /\ u[1] = t
      /\ \A k \in DOMAIN s : k # 1 => u[k] = s[k]
  BY <1>1
<1> HIDE DEF u
<1>3. IsSequence(u) BY <1>1, <1>2, MapOf
<1>4. u # <<>> BY <1>1, <1>2, EmptyIsSequence
<1>5. ASSUME NEW a \in ToSet(u) PROVE a = t \/ a \in ToSet(s)
  <2>1. PICK k \in DOMAIN u : u[k] = a BY <1>3, SequenceParts
  <2>2. CASE k = 1 BY <1>2, <2>1, <2>2
  <2>3. CASE k # 1
    <3>1. k \in DOMAIN s /\ s[k] = a BY <1>2, <2>1, <2>3
    <3> QED BY <1>1, <3>1, SequenceParts
  <2> QED BY <2>2, <2>3
<1>6. y.steps = u BY DEF u
<1>7. y.pc \in Working /\ y.pc = "rebuilding" BY DEF Working
<1>8. RunOK(y)
  <2>1. \A a \in ToSet(y.steps) : StepOK(Def[Order[y.pos]], a) BY <1>5, <1>6 DEF RunOK
  <2>2. y.pos \in DOMAIN Order BY DEF RunOK
  <2> QED BY <1>2, <1>3, <1>4, <1>6, <1>7, <2>1, <2>2 DEF RunOK
<1>9. \A a \in ToSet(y.steps) : \E b \in ToSet(s) : a.op = b.op /\ a.drops \subseteq b.drops
  BY <1>1, <1>5, <1>6
<1> QED BY <1>7, <1>8, <1>9 DEF Continued

\* A rebuild is at hand: what its step is.
LEMMA RebuildAtHand ==
  ASSUME Shape, NEW r \in Run,
         run[r].pc = "rebuilding" \/ (Begins(r) /\ Now(r).op = "rebuild")
  PROVE  /\ run[r].pc \in Working /\ RunOK(run[r]) /\ run[r].steps # <<>>
         /\ Now(r) = run[r].steps[1] /\ Now(r).op = "rebuild" /\ Now(r) \in ToSet(run[r].steps)
         /\ StepOK(Def[Order[run[r].pos]], Now(r)) /\ Now(r).creates # <<>>
         /\ \A i \in Now(r).drops : IsIndex(i)
         /\ IsSequence(Now(r).creates) /\ Head(Now(r).creates) \in ToSet(Now(r).creates)
         /\ IsIndex(Head(Now(r).creates))
<1>1. run[r].pc \in Working /\ RunOK(run[r]) /\ run[r].steps # <<>>
  BY DEF Working, Shape, RunOK, Begins
<1>2. /\ Now(r) = run[r].steps[1] /\ Now(r) \in ToSet(run[r].steps)
      /\ StepOK(Def[Here(r)], Now(r)) /\ Here(r) \in Coll
  BY <1>1, NowOK, HereOK
<1>3. Now(r).op = "rebuild" BY <1>1, <1>2 DEF RunOK
<1>4. /\ Now(r).creates # <<>> /\ IsSequence(Now(r).creates) /\ \A i \in Now(r).drops : IsIndex(i)
      /\ ToSet(Now(r).creates) \subseteq ToSet(Def[Here(r)].indexes)
  BY <1>2, <1>3 DEF StepOK
<1>5. Head(Now(r).creates) \in ToSet(Now(r).creates) BY <1>4, TailOf, SequenceParts
<1>6. IsIndex(Head(Now(r).creates)) BY <1>2, <1>4, <1>5, DefOK
<1> QED BY <1>1, <1>2, <1>3, <1>4, <1>5, <1>6 DEF Here

LEMMA RebuildDropsMoves ==
  ASSUME Shape, Searched, NEW r \in Run, RebuildDrops(r)
  PROVE  RunMoved(r) /\ CollMoved(r)
<1> DEFINE x == run[r]
<1>0. run[r].pc = "rebuilding" \/ (Begins(r) /\ Now(r).op = "rebuild")
  BY DEF RebuildDrops, InRebuild
<1>1. /\ x.pc \in Working /\ RunOK(x) /\ x.steps # <<>>
      /\ Now(r) = x.steps[1] /\ Now(r).op = "rebuild" /\ Now(r) \in ToSet(x.steps)
      /\ StepOK(Def[Order[x.pos]], Now(r)) /\ \A i \in Now(r).drops : IsIndex(i)
  BY <1>0, RebuildAtHand
<1>2. PICK i \in Now(r).drops :
        \/ Fails(r, {}) /\ UNCHANGED <<db, fresh>>
        \/ /\ Changes(r, Here(r), Without({i.name}, db[Here(r)]))
           /\ run' = [run EXCEPT ![r] = Dropped(r, i)]
  BY Zenon DEF RebuildDrops
<1>3. CASE Fails(r, {}) /\ UNCHANGED <<db, fresh>> BY <1>3, FailsEnds DEF CollMoved
<1>4. CASE /\ Changes(r, Here(r), Without({i.name}, db[Here(r)]))
           /\ run' = [run EXCEPT ![r] = Dropped(r, i)]
  <2> DEFINE t == [x.steps[1] EXCEPT !.drops = @ \ {i}]
             y == Dropped(r, i)
  <2>1. CollMoved(r) BY <1>1, <1>4, CollReduced
  <2>2. 1 \in DOMAIN x.steps BY <1>1, TailOf DEF RunOK
  <2>3. run' = [run EXCEPT ![r] = y] BY <1>4
  <2>4. /\ t.op = "rebuild" /\ t.op = x.steps[1].op /\ t.drops \subseteq x.steps[1].drops
        /\ StepOK(Def[Order[x.pos]], t)
    BY <1>1 DEF StepOK
  <2>5. /\ DOMAIN y = RunFields /\ y.pc = "rebuilding" /\ y.pos = x.pos
        /\ y.reviewed = x.reviewed /\ y.before = x.before /\ y.targets = x.targets
        /\ y.steps = [x.steps EXCEPT ![1] = t] /\ y.dropped = Append(x.dropped, i)
    BY <1>1, <2>2 DEF RunOK, RunFields, Dropped
  <2> HIDE DEF y, t
  <2>6. IsSequence(y.dropped) /\ \A j \in ToSet(y.dropped) : IsIndex(j)
    <3>1. /\ IsSequence(x.dropped) /\ \A j \in ToSet(x.dropped) : IsIndex(j)
          /\ IsSequence(<<i>>) /\ ToSet(<<i>>) = {i}
      BY <1>1, OneIsSequence DEF RunOK
    <3>2. Append(x.dropped, i) = x.dropped \o <<i>> BY <3>1 DEF IsSequence
    <3> QED BY <1>1, <2>5, <3>1, <3>2, ConcatOf, ConcatHolds
  <2>7. Continued(x, y) BY <1>1, <2>4, <2>5, <2>6, RebuildGoesOn
  <2> QED BY <2>1, <2>3, <2>7, MovedOn
<1> QED BY <1>2, <1>3, <1>4

LEMMA RebuildCreatesMoves ==
  ASSUME Shape, Searched, NEW r \in Run, RebuildCreates(r)
  PROVE  RunMoved(r) /\ CollMoved(r)
<1> DEFINE x == run[r]
           d == Head(Now(r).creates)
           z == [run[r] EXCEPT !.pc = "restoring"]
           y == Built(r, d)
<1>0. run[r].pc = "rebuilding" \/ (Begins(r) /\ Now(r).op = "rebuild")
  BY DEF RebuildCreates, InRebuild
<1>1. /\ x.pc \in Working /\ RunOK(x) /\ x.steps # <<>>
      /\ Now(r) = x.steps[1] /\ Now(r).op = "rebuild" /\ x.steps[1].op = "rebuild"
      /\ StepOK(Def[Order[x.pos]], Now(r)) /\ Now(r).creates # <<>>
      /\ IsSequence(Now(r).creates) /\ IsIndex(d)
  BY <1>0, RebuildAtHand
<1>2. \/ run' = [run EXCEPT ![r] = z] /\ UNCHANGED <<db, fresh>>
      \/ /\ ~Refuses({d}, db[Here(r)]) /\ Changes(r, Here(r), Added({d}, db[Here(r)]))
         /\ run' = [run EXCEPT ![r] = y]
  BY Zenon DEF RebuildCreates
<1>3. /\ IsSequence(x.dropped) /\ \A i \in ToSet(x.dropped) : IsIndex(i)
      /\ IsSequence(x.steps) /\ ToSet(x.steps) \subseteq ToSet(x.steps)
  BY <1>1 DEF RunOK
<1>f. DOMAIN x = RunFields BY <1>1 DEF RunOK
<1>4. CASE run' = [run EXCEPT ![r] = z] /\ UNCHANGED <<db, fresh>>
  <2>1. /\ DOMAIN z = RunFields /\ z.pc = "restoring" /\ z.pos = x.pos
        /\ z.reviewed = x.reviewed /\ z.before = x.before /\ z.targets = x.targets
        /\ z.dropped = x.dropped /\ z.steps = x.steps
    BY <1>f DEF RunFields
  <2> HIDE DEF z
  <2>2. Continued(x, z) BY <1>1, <1>3, <2>1, GoesOn
  <2> QED BY <1>4, <2>2, MovedOn DEF CollMoved
<1>5. CASE /\ ~Refuses({d}, db[Here(r)]) /\ Changes(r, Here(r), Added({d}, db[Here(r)]))
           /\ run' = [run EXCEPT ![r] = y]
  <2>1. CollMoved(r) BY <1>1, <1>5, CollAdded
  <2>2. CASE Len(Now(r).creates) = 1
    <3>1. y = [x EXCEPT !.pc = "running", !.steps = Tail(@), !.dropped = <<>>, !.made = {}]
      BY <2>2 DEF Built
    <3>2. /\ DOMAIN y = RunFields /\ y.pc = "running" /\ y.pos = x.pos
          /\ y.reviewed = x.reviewed /\ y.before = x.before /\ y.targets = x.targets
          /\ y.dropped = <<>> /\ y.steps = Tail(x.steps)
      BY <1>f, <3>1 DEF RunFields
    <3> HIDE DEF y
    <3>3. IsSequence(y.steps) /\ ToSet(y.steps) \subseteq ToSet(x.steps) BY <1>1, <3>2, NowOK
    <3>4. IsSequence(y.dropped) /\ \A i \in ToSet(y.dropped) : IsIndex(i)
      BY <3>2, EmptyIsSequence
    <3>5. Continued(x, y) BY <1>1, <3>2, <3>3, <3>4, GoesOn
    <3> QED BY <1>5, <2>1, <3>5, MovedOn
  <2>3. CASE Len(Now(r).creates) # 1
    <3> DEFINE t == [x.steps[1] EXCEPT !.creates = Tail(@)]
    <3>1. y = [x EXCEPT !.pc = "rebuilding", !.steps[1].creates = Tail(@),
                        !.made = @ \cup {d.name}]
      BY <2>3 DEF Built
    <3>2. 1 \in DOMAIN x.steps BY <1>1, <1>3, TailOf
    <3>3. /\ DOMAIN y = RunFields /\ y.pc = "rebuilding" /\ y.pos = x.pos
          /\ y.reviewed = x.reviewed /\ y.before = x.before /\ y.targets = x.targets
          /\ y.dropped = x.dropped /\ y.steps = [x.steps EXCEPT ![1] = t]
      BY <1>f, <3>1, <3>2 DEF RunFields
    <3>4. /\ DOMAIN t = {"op", "drops", "creates", "on"} /\ t.op = "rebuild"
          /\ t.op = x.steps[1].op /\ t.drops = x.steps[1].drops
          /\ t.creates = Tail(Now(r).creates)
      BY <1>1 DEF StepOK
    <3> HIDE DEF y, t
    <3>5. IsSequence(t.creates) /\ ToSet(t.creates) \subseteq ToSet(Now(r).creates)
      <4>1. /\ IsSequence(Tail(Now(r).creates))
            /\ \A k \in DOMAIN Tail(Now(r).creates) :
                 /\ k + 1 \in DOMAIN Now(r).creates
                 /\ Tail(Now(r).creates)[k] = Now(r).creates[k + 1]
        BY <1>1, TailOf
      <4> QED BY <3>4, <4>1 DEF ToSet
    <3>6. t.creates # <<>>
      <4>1. Now(r).creates \in Seq(ToSet(Now(r).creates)) BY <1>1 DEF IsSequence
      <4>2. Len(Tail(Now(r).creates)) = Len(Now(r).creates) - 1 /\ Len(Now(r).creates) \in Nat
        BY <1>1, <4>1, HeadTailProperties
      <4>3. Len(Tail(Now(r).creates)) # 0 BY <2>3, <4>2
      <4>4. Len(<<>>) = 0 OBVIOUS
      <4> SUFFICES ASSUME Tail(Now(r).creates) = <<>> PROVE FALSE BY <3>4
      <4> QED BY <4>3, <4>4
    <3>7. StepOK(Def[Order[x.pos]], t) BY <1>1, <3>4, <3>5, <3>6 DEF StepOK
    <3>8. t.drops \subseteq x.steps[1].drops BY <3>4
    <3>9. IsSequence(y.dropped) /\ \A i \in ToSet(y.dropped) : IsIndex(i) BY <1>3, <3>3
    <3>10. Continued(x, y) BY <1>1, <3>3, <3>4, <3>7, <3>8, <3>9, RebuildGoesOn
    <3> QED BY <1>5, <2>1, <3>10, MovedOn
  <2> QED BY <2>2, <2>3
<1> QED BY <1>2, <1>4, <1>5

LEMMA RebuildFailsMoves ==
  ASSUME Shape, Searched, NEW r \in Run, DropLost(r) \/ RebuildLost(r) \/ Restored(r)
  PROVE  RunMoved(r) /\ CollMoved(r)
<1>1. CASE DropLost(r)
  <2>1. /\ run[r].pc = "rebuilding" \/ (Begins(r) /\ Now(r).op = "rebuild")
        /\ Fails(r, {})
        /\ \/ \E i \in Now(r).drops : Changes(r, Here(r), Without({i.name}, db[Here(r)]))
           \/ UNCHANGED <<db, fresh>>
    BY <1>1, Zenon DEF DropLost
  <2>2. run[r].pc \in Working /\ Now(r) \in ToSet(run[r].steps) BY <2>1, RebuildAtHand
  <2>3. RunMoved(r) BY <2>1, FailsEnds
  <2>4. CASE \E i \in Now(r).drops : Changes(r, Here(r), Without({i.name}, db[Here(r)]))
    BY <2>2, <2>3, <2>4, CollReduced
  <2>5. CASE UNCHANGED <<db, fresh>> BY <2>3, <2>5 DEF CollMoved
  <2> QED BY <2>1, <2>4, <2>5
<1>2. CASE RebuildLost(r)
  <2> DEFINE d == Head(Now(r).creates)
  <2>1. /\ run[r].pc = "rebuilding" \/ (Begins(r) /\ Now(r).op = "rebuild")
        /\ Fails(r, Names(ToSet(run[r].dropped)))
        /\ \/ ~Refuses({d}, db[Here(r)]) /\ Changes(r, Here(r), Added({d}, db[Here(r)]))
           \/ UNCHANGED <<db, fresh>>
    BY <1>2, Zenon DEF RebuildLost
  <2>2. run[r].pc \in Working /\ IsIndex(d) BY <2>1, RebuildAtHand
  <2> HIDE DEF d
  <2>3. RunMoved(r) BY <2>1, FailsEnds
  <2>4. CASE ~Refuses({d}, db[Here(r)]) /\ Changes(r, Here(r), Added({d}, db[Here(r)]))
    BY <2>2, <2>3, <2>4, CollAdded
  <2>5. CASE UNCHANGED <<db, fresh>> BY <2>3, <2>5 DEF CollMoved
  <2> QED BY <2>1, <2>4, <2>5
<1>3. CASE Restored(r) BY <1>3, FailsEnds DEF Restored, CollMoved
<1> QED BY <1>1, <1>2, <1>3

LEMMA RestoresMoves ==
  ASSUME Shape, Searched, NEW r \in Run, Restores(r)
  PROVE  RunMoved(r) /\ CollMoved(r)
<1> DEFINE x == run[r]
           i == Head(run[r].dropped)
           rest == [run[r] EXCEPT !.dropped = Tail(@)]
           gone == [rest EXCEPT !.unrestored = Unrestored(r, i)]
<1>1. /\ x.pc = "restoring" /\ x.pc \in Working /\ x.dropped # <<>> /\ RunOK(x)
  BY DEF Restores, Working, Shape
<1>2. /\ IsSequence(Tail(x.dropped)) /\ IsIndex(i)
      /\ \A j \in ToSet(Tail(x.dropped)) : IsIndex(j)
  <2>1. IsSequence(x.dropped) /\ \A j \in ToSet(x.dropped) : IsIndex(j) BY <1>1 DEF RunOK
  <2>2. /\ IsSequence(Tail(x.dropped)) /\ 1 \in DOMAIN x.dropped /\ i = x.dropped[1]
        /\ \A k \in DOMAIN Tail(x.dropped) :
             k + 1 \in DOMAIN x.dropped /\ Tail(x.dropped)[k] = x.dropped[k + 1]
    BY <1>1, <2>1, TailOf
  <2> QED BY <2>1, <2>2 DEF ToSet
<1>3. /\ IsSequence(x.steps) /\ ToSet(x.steps) \subseteq ToSet(x.steps)
      /\ x.steps # <<>> /\ x.steps[1].op = "rebuild"
  BY <1>1 DEF RunOK
<1>4. \/ run' = [run EXCEPT ![r] = rest] /\ UNCHANGED <<db, fresh>>
      \/ /\ ~Refuses({i}, db[Here(r)]) /\ Changes(r, Here(r), Added({i}, db[Here(r)]))
         /\ run' = [run EXCEPT ![r] = rest]
      \/ run' = [run EXCEPT ![r] = gone] /\ UNCHANGED <<db, fresh>>
  BY Zenon DEF Restores
<1>5. /\ DOMAIN rest = RunFields /\ rest.pc = "restoring" /\ rest.pos = x.pos
      /\ rest.reviewed = x.reviewed /\ rest.before = x.before /\ rest.targets = x.targets
      /\ rest.dropped = Tail(x.dropped) /\ rest.steps = x.steps
  BY <1>1 DEF RunOK, RunFields
<1>6. /\ DOMAIN gone = RunFields /\ gone.pc = "restoring" /\ gone.pos = x.pos
      /\ gone.reviewed = x.reviewed /\ gone.before = x.before /\ gone.targets = x.targets
      /\ gone.dropped = Tail(x.dropped) /\ gone.steps = x.steps
  BY <1>1 DEF RunOK, RunFields
<1> HIDE DEF rest, gone, i
<1>7. Continued(x, rest) BY <1>1, <1>2, <1>3, <1>5, GoesOn
<1>8. Continued(x, gone) BY <1>1, <1>2, <1>3, <1>6, GoesOn
<1>9. RunMoved(r) BY <1>4, <1>7, <1>8, MovedOn
<1>10. CollMoved(r) BY <1>1, <1>2, <1>4, CollAdded DEF CollMoved
<1> QED BY <1>9, <1>10

-----------------------------------------------------------------------------
(* The ends of a run, and everybody else.                                  *)

LEMMA VerifiesMoves ==
  ASSUME Shape, NEW r \in Run, Verifies(r)
  PROVE  RunMoved(r) /\ db' = db
<1> DEFINE x == run[r]
           still == {row \in Plan(r, Here(r)).rows :
                       /\ IsChange(row) /\ row.target # "search"
                       /\ ~(row.action = "drop" /\ row.name \in run[r].kept)}
           y == [x EXCEPT !.pc = "next", !.unstable = still]
<1>1. /\ x.pc = "running" /\ x.steps = <<>> /\ x.pc \in Working /\ RunOK(x) /\ db' = db
  BY DEF Verifies, Working, Shape
<1> HIDE DEF still
<1>2. run' = [run EXCEPT ![r] = y] BY DEF Verifies, still
<1>3. DOMAIN x = RunFields BY <1>1 DEF RunOK
<1>4. /\ DOMAIN y = RunFields /\ y.pc = "next" /\ y.pos = x.pos
      /\ y.reviewed = x.reviewed /\ y.before = x.before /\ y.targets = x.targets
      /\ y.dropped = x.dropped /\ y.steps = x.steps
  BY <1>3 DEF RunFields
<1> HIDE DEF y
<1>5. /\ IsSequence(y.dropped) /\ \A i \in ToSet(y.dropped) : IsIndex(i)
      /\ IsSequence(y.steps) /\ ToSet(y.steps) \subseteq ToSet(x.steps)
      /\ y.steps = <<>>
  BY <1>1, <1>4 DEF RunOK
<1>6. Continued(x, y) BY <1>1, <1>4, <1>5, GoesOn
<1> QED BY <1>1, <1>2, <1>6, MovedOn

LEMMA EndsMoves ==
  ASSUME Shape, NEW r \in Run, Ends(r)
  PROVE  RunMoved(r) /\ db' = db
<1> DEFINE y == [Idle EXCEPT !.pc = "waiting", !.targets = run[r].targets,
                             !.aborted = run[r].aborted]
<1>1. db' = db /\ (run' = [run EXCEPT ![r] = y] \/ Over(r, "done")) BY DEF Ends
<1>2. CASE run' = [run EXCEPT ![r] = y]
  <2>1. /\ DOMAIN y = RunFields /\ y.steps = <<>> /\ y.dropped = <<>>
        /\ y.targets = run[r].targets /\ y.pc = "waiting"
    BY IdleOK DEF RunFields
  <2> HIDE DEF y
  <2>2. DOMAIN run' = Run /\ run'[r] = y /\ \A q \in Run : q # r => run'[q] = run[q]
    BY <1>2 DEF Shape
  <2>3. RunOK(y) /\ y.pc \notin Working BY <2>1, EmptyIsSequence DEF RunOK, Working
  <2> QED BY <1>1, <2>1, <2>2, <2>3 DEF RunMoved, Ended
<1>3. CASE Over(r, "done") BY <1>1, <1>3, OverEnds
<1> QED BY <1>1, <1>2, <1>3

LEMMA StopsMoves ==
  ASSUME Shape, NEW r \in Run, LosesLock(r) \/ Stops(r)
  PROVE  RunMoved(r) /\ db' = db
<1> DEFINE x == run[r]
           y == [x EXCEPT !.aborted = TRUE]
<1>1. run' = [run EXCEPT ![r] = y] /\ db' = db BY DEF LosesLock, Stops
<1>2. RunOK(x) /\ DOMAIN x = RunFields BY DEF Shape, RunOK
<1>3. /\ DOMAIN y = RunFields /\ y.pc = x.pc /\ y.pos = x.pos
      /\ y.reviewed = x.reviewed /\ y.before = x.before /\ y.targets = x.targets
      /\ y.dropped = x.dropped /\ y.steps = x.steps
  BY <1>2 DEF RunFields
<1> HIDE DEF y
<1>4. RunOK(y) BY <1>2, <1>3 DEF RunOK
<1>5. CASE x.pc \in Working
  <2>1. Continued(x, y) BY <1>3, <1>4, <1>5 DEF Continued
  <2> QED BY <1>1, <2>1, MovedOn
<1>6. CASE x.pc \notin Working
  <2>1. Ended(x, y) BY <1>3, <1>4, <1>6 DEF Ended
  <2> QED BY <1>1, <2>1 DEF RunMoved, Shape
<1> QED BY <1>5, <1>6

\* Whatever step a run takes, it moves on as it may, and so does its collection.
LEMMA RunStep ==
  ASSUME Shape, Searched, NEW r \in Run,
         RunActs(r) \/ LosesLock(r) \/ Stops(r) \/ Dies(r)
  PROVE  RunMoved(r) /\ CollMoved(r)
<1>1. CASE Plans(r) BY <1>1, PlansMoves DEF CollMoved
<1>2. CASE Replans(r) BY <1>2, ReplansMoves DEF CollMoved
<1>3. CASE StepRuns(r) BY <1>3, StepRunsMoves
<1>4. CASE StepRefused(r) BY <1>4, StepFailsMoves
<1>5. CASE StepKept(r) BY <1>5, StepKeptMoves DEF CollMoved
<1>6. CASE StepLost(r) BY <1>6, StepFailsMoves
<1>7. CASE Prepares(r) BY <1>7, PreparesMoves
<1>8. CASE Converts(r) BY <1>8, ConvertsMoves
<1>9. CASE ConvertLost(r) BY <1>9, ConvertLostMoves
<1>10. CASE RebuildDrops(r) BY <1>10, RebuildDropsMoves
<1>11. CASE RebuildCreates(r) BY <1>11, RebuildCreatesMoves
<1>12. CASE DropLost(r) BY <1>12, RebuildFailsMoves
<1>13. CASE RebuildLost(r) BY <1>13, RebuildFailsMoves
<1>14. CASE Restores(r) BY <1>14, RestoresMoves
<1>15. CASE Restored(r) BY <1>15, RebuildFailsMoves
<1>16. CASE Verifies(r) BY <1>16, VerifiesMoves DEF CollMoved
<1>17. CASE Ends(r) BY <1>17, EndsMoves DEF CollMoved
<1>18. CASE WaitReady(r) BY <1>18, OverEnds DEF WaitReady, CollMoved
<1>19. CASE WaitFails(r) BY <1>19, FailsEnds DEF WaitFails, CollMoved
<1>20. CASE Aborts(r) BY <1>20, FailsEnds DEF Aborts, CollMoved
<1>21. CASE LosesLock(r) \/ Stops(r) BY <1>21, StopsMoves DEF CollMoved
<1>22. CASE Dies(r) BY <1>22, OverEnds DEF Dies, CollMoved
<1> QED
  BY <1>1, <1>2, <1>3, <1>4, <1>5, <1>6, <1>7, <1>8, <1>9, <1>10, <1>11, <1>12, <1>13, <1>14,
     <1>15, <1>16, <1>17, <1>18, <1>19, <1>20, <1>21, <1>22 DEF RunActs

\* What the others do keeps a collection in shape, and its search indexes as they may be.
OthersMoved(c) ==
  /\ run' = run
  /\ \E new : /\ db' = [db EXCEPT ![c] = new]
              /\ CollOK(new) /\ SearchKept(Def[c], db[c], new)

LEMMA OthersStep ==
  ASSUME Shape, Searched, OthersAct
  PROVE  \E c \in Coll : OthersMoved(c)
<1>1. PICK c \in Coll :
        \/ \E i \in DbaIndex[c] : DbaCreates(c, i)
        \/ \E i \in db[c].indexes : DbaDrops(c, i)
        \/ \E k \in {i.key : i \in ToSet(Def[c].indexes)} : Duplicates(c, k)
        \/ OldWrites(c) \/ Lists(c)
        \/ \E i \in db[c].search : Builds(c, i) \/ Removes(c, i)
  BY DEF OthersAct
<1>2. /\ CollOK(db[c]) /\ SearchOK(Def[c], db[c]) /\ DOMAIN db = Coll
      /\ DOMAIN db[c] = CollFields
  BY DEF Shape, Searched, CollOK
<1>3. ASSUME NEW i \in DbaIndex[c], DbaCreates(c, i) PROVE OthersMoved(c)
  <2> DEFINE new == Added({i}, db[c])
  <2>1. ~Refuses({i}, db[c]) /\ db' = [db EXCEPT ![c] = new] /\ run' = run
    BY <1>3 DEF DbaCreates, Changes
  <2>2. NewIndexes({i}) BY OneNew, DbaAssumption
  <2>3. CollOK(new) /\ new.search = db[c].search /\ new.listed = db[c].listed
    BY <1>2, <2>1, <2>2, AddedOK
  <2> HIDE DEF new
  <2>4. SearchKept(Def[c], db[c], new) BY <1>2, <2>3, NothingSearched
  <2> QED BY <2>1, <2>3, <2>4 DEF OthersMoved
<1>4. ASSUME NEW i \in db[c].indexes, DbaDrops(c, i) PROVE OthersMoved(c)
  <2> DEFINE new == Without({i.name}, db[c])
  <2>1. db' = [db EXCEPT ![c] = new] /\ run' = run BY <1>4 DEF DbaDrops, Changes
  <2>2. CollOK(new) /\ new.search = db[c].search /\ new.listed = db[c].listed
    BY <1>2, WithoutOK
  <2> HIDE DEF new
  <2>3. SearchKept(Def[c], db[c], new) BY <1>2, <2>2, NothingSearched
  <2> QED BY <2>1, <2>2, <2>3 DEF OthersMoved
<1>5. ASSUME NEW k, Duplicates(c, k) PROVE OthersMoved(c)
  <2> DEFINE new == [db[c] EXCEPT !.dups = @ \cup {k}]
  <2>1. db' = [db EXCEPT ![c] = new] /\ run' = run BY <1>5 DEF Duplicates
  <2>2. /\ DOMAIN new = CollFields /\ new.indexes = db[c].indexes /\ new.exists = db[c].exists
        /\ new.search = db[c].search /\ new.listed = db[c].listed
    BY <1>2 DEF CollFields
  <2> HIDE DEF new
  <2>3. CollOK(new) BY <1>2, <2>2 DEF CollOK
  <2>4. SearchKept(Def[c], db[c], new) BY <1>2, <2>2, NothingSearched
  <2> QED BY <2>1, <2>3, <2>4 DEF OthersMoved
<1>6. ASSUME OldWrites(c) PROVE OthersMoved(c)
  <2> DEFINE new == [db[c] EXCEPT !.below = TRUE]
  <2>1. db' = [db EXCEPT ![c] = new] /\ run' = run BY <1>6 DEF OldWrites
  <2>2. /\ DOMAIN new = CollFields /\ new.indexes = db[c].indexes /\ new.exists = db[c].exists
        /\ new.search = db[c].search /\ new.listed = db[c].listed
    BY <1>2 DEF CollFields
  <2> HIDE DEF new
  <2>3. CollOK(new) BY <1>2, <2>2 DEF CollOK
  <2>4. SearchKept(Def[c], db[c], new) BY <1>2, <2>2, NothingSearched
  <2> QED BY <2>1, <2>3, <2>4 DEF OthersMoved
<1>7. ASSUME Lists(c) PROVE OthersMoved(c)
  <2>1. db' = [db EXCEPT ![c] = [db[c] EXCEPT !.listed = db[c].search]] /\ run' = run
    BY <1>7 DEF Lists
  <2> DEFINE new == [db[c] EXCEPT !.listed = db[c].search]
  <2>2. CollOK(new) /\ SearchKept(Def[c], db[c], new) BY <1>2, SearchListed
  <2> QED BY <2>1, <2>2 DEF OthersMoved
<1>8. ASSUME NEW i \in db[c].search, Builds(c, i) PROVE OthersMoved(c)
  <2>1. PICK status \in {"ready", "failed", "stale"} :
          db' = [db EXCEPT ![c].search = (@ \ {i}) \cup
            {[i EXCEPT !.status = status, !.served = IF status = "failed" THEN @ ELSE i.body]}]
    BY <1>8 DEF Builds
  <2> DEFINE k == [i EXCEPT !.status = status,
                            !.served = IF status = "failed" THEN @ ELSE i.body]
             new == [db[c] EXCEPT !.search = (@ \ {i}) \cup {k}]
  <2>2. db' = [db EXCEPT ![c] = new] /\ run' = run /\ i.status = "building"
    BY <1>8, <2>1 DEF Builds
  <2>3. IsSearchIndex(i) BY <1>2 DEF CollOK
  <2>4. /\ IsSearchIndex(k) /\ k.status = status /\ k.name = i.name /\ k.body = i.body
        /\ k.version = i.version /\ k.served = IF k.status = "failed" THEN i.served ELSE i.body
    BY <2>3 DEF IsSearchIndex
  <2> HIDE DEF k
  <2>5. /\ DOMAIN new = CollFields /\ new.indexes = db[c].indexes /\ new.exists = db[c].exists
        /\ new.listed = db[c].listed /\ new.rules = db[c].rules
        /\ new.search = (db[c].search \ {i}) \cup {k}
    BY <1>2 DEF CollFields
  <2> HIDE DEF new
  <2>6. k.status \in {"ready", "failed", "stale"} BY <2>4
  <2>7. CollOK(new) /\ SearchKept(Def[c], db[c], new)
    BY <1>2, <2>2, <2>4, <2>5, <2>6, SearchBuilt
  <2> QED BY <2>2, <2>7 DEF OthersMoved
<1>9. ASSUME NEW i \in db[c].search, Removes(c, i) PROVE OthersMoved(c)
  <2> DEFINE new == [db[c] EXCEPT !.search = @ \ {i}]
  <2>1. db' = [db EXCEPT ![c] = new] /\ run' = run /\ i.status = "removing"
    BY <1>9 DEF Removes
  <2>2. CollOK(new) /\ SearchKept(Def[c], db[c], new) BY <1>2, <2>1, SearchRemoved
  <2> QED BY <2>1, <2>2 DEF OthersMoved
<1>10. OthersMoved(c) BY <1>1, <1>3, <1>4, <1>5, <1>6, <1>7, <1>8, <1>9
<1> QED BY <1>10

-----------------------------------------------------------------------------
(* The invariant.                                                          *)

\* What a run waits for is declared, and later versions of it are as declared.
TargetOK(t) ==
  /\ t.coll \in Coll /\ t.since \in Nat
  /\ \E d \in Def[t.coll].search : d.name = t.name /\ AsDeclared(db[t.coll], d, t.since)

TargetsKnown == \A r \in Run : \A t \in run[r].targets : TargetOK(t)

\* An index of that name is among the drops that were reviewed, or in the way of a reviewed rebuild.
Stands(x, c, name) ==
  \/ name \in x.reviewed[c].drops
  \/ \E d \in ToSet(Def[c].indexes) :
       /\ Row("index", d.name, "recreate") \in x.reviewed[c].rows
       /\ name = d.name \/ \E i \in x.before : i.name = name /\ Collides(d, i)

\* A run that works drops what was reviewed; and every drop on a reviewed row has its name.
DropsReviewed(x) ==
  x.pc \in Working =>
    /\ \A s \in ToSet(x.steps) : \A i \in s.drops : Stands(x, Order[x.pos], i.name)
    /\ \A c \in Coll : \A n : Row("index", n, "drop") \in x.reviewed[c].rows =>
                                n \in x.reviewed[c].drops

Inv ==
  /\ Shape /\ Searched /\ TargetsKnown
  /\ \A r \in Run : DropsReviewed(run[r])

LEMMA InitInv == Init => Inv
<1> SUFFICES ASSUME Init PROVE Inv OBVIOUS
<1>1. DOMAIN db = Coll /\ \A c \in Coll : WellFormed(db[c]) BY StartsAssumption DEF Init
<1>2. DOMAIN run = Run /\ \A r \in Run : run[r] = Idle BY DEF Init
<1>3. ASSUME NEW c \in Coll PROVE CollOK(db[c]) /\ SearchOK(Def[c], db[c])
  <2>1. WellFormed(db[c]) BY <1>1
  <2>2. CollOK(db[c]) BY <2>1 DEF WellFormed, CollOK, CollFields
  <2>3. SearchOK(Def[c], db[c]) BY <2>1 DEF WellFormed, SearchOK
  <2> QED BY <2>2, <2>3
<1>4. Shape BY <1>1, <1>2, <1>3, IdleOK DEF Shape
<1>5. Searched BY <1>3 DEF Searched
<1>6. TargetsKnown BY <1>2, IdleOK DEF TargetsKnown
<1>7. \A r \in Run : DropsReviewed(run[r]) BY <1>2, IdleOK DEF DropsReviewed, Working
<1> QED BY <1>4, <1>5, <1>6, <1>7 DEF Inv

\* What a run that turns to a collection adds to its targets.
LEMMA TargetsAdded ==
  ASSUME Shape, Searched, NEW c \in Coll, NEW t \in Targets(c)
  PROVE  TargetOK(t)
<1>1. PICK d \in Def[c].search : /\ t.coll = c /\ t.name = d.name
                                 /\ t.since = Since(d, db[c].listed)
  BY DEF Targets
<1> DEFINE listed == db[c].listed
<1>2. /\ OnePerName(listed) /\ \A i \in listed : i.version \in Nat
      /\ \A j \in db[c].search : j.name = d.name /\ j.body # d.body =>
           \E i \in listed : i.name = d.name /\ i.version = j.version /\ i.body # d.body
  BY DEF Searched, SearchOK, Shape, CollOK, IsSearchIndex
<1> HIDE DEF listed
<1>3. CASE \E i \in listed : i.name = d.name /\ i.body # d.body
  <2>1. PICK i \in listed : i.name = d.name /\ i.body # d.body BY <1>3
  <2>2. (CHOOSE j \in listed : j.name = d.name) = i BY <1>2, <2>1 DEF OnePerName
  <2>3. t.since = i.version BY <1>1, <1>3, <2>2 DEF Since, listed
  <2>4. t.since \in Nat BY <1>2, <2>1, <2>3
  <2>5. \A j \in listed : j.name = d.name => j.version = i.version
    BY <1>2, <2>1 DEF OnePerName
  <2>6. ASSUME NEW j \in listed \cup db[c].search, j.name = d.name, j.version > t.since
        PROVE  j.body = d.body
    <3> SUFFICES ASSUME j.body # d.body PROVE FALSE OBVIOUS
    <3>1. PICK k \in listed : k.name = d.name /\ k.version = j.version BY <1>2, <2>6
    <3> QED BY <2>3, <2>4, <2>5, <2>6, <3>1
  <2> QED BY <1>1, <2>4, <2>6 DEF TargetOK, AsDeclared, listed
<1>4. CASE \A i \in listed : i.name = d.name => i.body = d.body
  <2>1. t.since = 0 BY <1>1, <1>4 DEF Since, listed
  <2>2. \A j \in listed \cup db[c].search : j.name = d.name => j.body = d.body
    BY <1>2, <1>4
  <2> QED BY <1>1, <2>1, <2>2 DEF TargetOK, AsDeclared, listed
<1> QED BY <1>3, <1>4

\* The drops of the plans that are reviewed.
LEMMA ReviewedDrops ==
  ASSUME Shape, NEW r, NEW c \in Coll
  PROVE  /\ \A s \in ToSet(Plan(r, c).steps) : \A i \in s.drops :
              i.name \in Reviewed(Plan(r, c)).drops
         /\ \A n : Row("index", n, "drop") \in Reviewed(Plan(r, c)).rows =>
                     n \in Reviewed(Plan(r, c)).drops
<1> DEFINE plan == Plan(r, c)
           p == Input(r, c)
<1>1. /\ \A i \in Extras(p) : \E s \in ToSet(plan.steps) : s.drops = {i}
      /\ \A row \in plan.rows : row.target = "index" => row \in IndexRows(p)
  BY PlanOK
<1> HIDE DEF plan, p
<1>2. ASSUME NEW s \in ToSet(plan.steps), NEW i \in s.drops
      PROVE  i.name \in Reviewed(plan).drops
  <2>1. PICK k \in DOMAIN plan.steps : plan.steps[k] = s BY DEF ToSet
  <2>2. i \in DropsOf(plan) BY <2>1 DEF DropsOf
  <2> QED BY <2>2 DEF Reviewed, Names
<1>3. ASSUME NEW n, Row("index", n, "drop") \in Reviewed(plan).rows
      PROVE  n \in Reviewed(plan).drops
  <2> DEFINE row == Row("index", n, "drop")
  <2>1. row \in plan.rows BY <1>3 DEF Reviewed, Destructive
  <2>2. row.target = "index" /\ row.name = n /\ row.action = "drop" BY DEF Row
  <2>3. row \in IndexRows(p) BY <1>1, <2>1, <2>2
  <2> HIDE DEF row
  <2>4. \A d : Verdict(p, d) # "drop" BY DEF Verdict, Conflict
  <2>5. PICK i \in Extras(p) : row = Row("index", i.name, "drop")
    BY <2>2, <2>3, <2>4 DEF IndexRows, Row
  <2>6. i.name = n BY <2>2, <2>5 DEF Row
  <2>7. PICK s \in ToSet(plan.steps) : s.drops = {i} BY <1>1
  <2>8. i \in s.drops BY <2>7
  <2> QED BY <1>2, <2>6, <2>8
<1> QED BY <1>2, <1>3 DEF plan

\* A collection that is planned again only has the drops that were reviewed.
LEMMA ReplannedDrops ==
  ASSUME Shape, NEW r \in Run, run[r].pc \in Working, DropsReviewed(run[r]),
         NEW c \in Coll, Introduced(r, c, Plan(r, c)) = {},
         NEW s \in ToSet(Plan(r, c).steps), NEW i \in s.drops
  PROVE  \/ i.name \in run[r].reviewed[c].drops
         \/ \E d \in ToSet(Def[c].indexes) :
              /\ Row("index", d.name, "recreate") \in run[r].reviewed[c].rows
              /\ i.name = d.name \/ Collides(d, i)
<1> DEFINE plan == Plan(r, c)
           p == Input(r, c)
           x == run[r]
<1>1. /\ IndexStep(p, s) \/ PlainStep(Def[c], db[c], s)
      /\ IndexRows(p) \subseteq plan.rows /\ p.declared = Def[c].indexes
  BY PlanOK
<1>2. \A row \in plan.rows : IsDestructive(row) => row \in x.reviewed[c].rows
  BY DEF Introduced, Destructive
<1>3. \A n : Row("index", n, "drop") \in x.reviewed[c].rows => n \in x.reviewed[c].drops
  BY DEF DropsReviewed
<1> HIDE DEF plan, p, x
<1>4. i \in s.drops /\ s.drops # {} OBVIOUS
<1>5. RebuildStep(p, s) \/ DropStep(p, s)
  BY <1>1, <1>4 DEF IndexStep, PlainStep, NewStep, ModifyStep
<1>6. CASE RebuildStep(p, s)
  <2>1. PICK d \in ToSet(s.creates) : i \in DropsFor(p, d) BY <1>6 DEF RebuildStep
  <2>2. d \in ToSet(Def[c].indexes) /\ Verdict(p, d) = "recreate"
    BY <1>1, <1>6, <2>1, VerdictCreate DEF RebuildStep
  <2>3. Row("index", d.name, "recreate") \in IndexRows(p)
    BY <1>1, <2>2 DEF IndexRows
  <2>4. IsDestructive(Row("index", d.name, "recreate")) BY DEF IsDestructive, Row
  <2>5. Row("index", d.name, "recreate") \in x.reviewed[c].rows
    BY <1>1, <1>2, <2>3, <2>4
  <2>6. i.name = d.name \/ Collides(d, i) BY <2>1 DEF DropsFor, Current, Blockers
  <2> QED BY <2>2, <2>5, <2>6 DEF x
<1>7. CASE DropStep(p, s)
  <2>1. i \in Extras(p) BY <1>7 DEF DropStep
  <2>2. Row("index", i.name, "drop") \in IndexRows(p) BY <2>1 DEF IndexRows
  <2>3. IsDestructive(Row("index", i.name, "drop")) BY DEF IsDestructive, Row
  <2>4. Row("index", i.name, "drop") \in x.reviewed[c].rows BY <1>1, <1>2, <2>2, <2>3
  <2> QED BY <1>3, <2>4 DEF x
<1> QED BY <1>5, <1>6, <1>7

\* However a run moves on, its drops stay reviewed ones.
LEMMA MovedReviewed ==
  ASSUME Shape, NEW r \in Run, DropsReviewed(run[r]),
         NEW y, Ended(run[r], y) \/ Continued(run[r], y) \/ Entered(r, y)
  PROVE  DropsReviewed(y)
<1> DEFINE x == run[r]
<1>1. CASE Ended(x, y) BY <1>1 DEF Ended, DropsReviewed
<1>2. CASE Continued(x, y)
  <2>1. /\ x.pc \in Working /\ y.reviewed = x.reviewed /\ y.before = x.before /\ y.pos = x.pos
        /\ \A t \in ToSet(y.steps) :
             \E s \in ToSet(x.steps) : t.op = s.op /\ t.drops \subseteq s.drops
    BY <1>2 DEF Continued
  <2>2. /\ \A s \in ToSet(x.steps) : \A i \in s.drops : Stands(x, Order[x.pos], i.name)
        /\ \A c \in Coll : \A n : Row("index", n, "drop") \in x.reviewed[c].rows =>
                                    n \in x.reviewed[c].drops
    BY <2>1 DEF DropsReviewed
  <2>3. \A c, n : Stands(y, c, n) <=> Stands(x, c, n) BY <2>1 DEF Stands
  <2>4. \A t \in ToSet(y.steps) : \A i \in t.drops : Stands(y, Order[y.pos], i.name)
    <3> SUFFICES ASSUME NEW t \in ToSet(y.steps), NEW i \in t.drops
                 PROVE  Stands(x, Order[x.pos], i.name)
      BY <2>1, <2>3
    <3>1. PICK s \in ToSet(x.steps) : t.drops \subseteq s.drops BY <2>1
    <3> QED BY <2>2, <3>1
  <2> QED BY <2>1, <2>2, <2>4 DEF DropsReviewed
<1>3. CASE Entered(r, y)
  <2>1. PICK k \in DOMAIN Order :
          /\ y.pos = k /\ y.steps = Plan(r, Order[k]).steps
          /\ y.before = IF Plan(r, Order[k]).steps = <<>> THEN {} ELSE db[Order[k]].indexes
          /\ \/ y.reviewed = [a \in Coll |-> Reviewed(Plan(r, a))]
             \/ /\ x.pc \in Working /\ y.reviewed = x.reviewed
                /\ Introduced(r, Order[k], Plan(r, Order[k])) = {}
    BY <1>3 DEF Entered
  <2> DEFINE c == Order[k]
  <2>2. c \in Coll BY OrderOK
  <2>3. CASE y.reviewed = [a \in Coll |-> Reviewed(Plan(r, a))]
    <3>1. \A a \in Coll : y.reviewed[a] = Reviewed(Plan(r, a)) BY <2>3
    <3>2. \A s \in ToSet(y.steps) : \A i \in s.drops : i.name \in y.reviewed[c].drops
      BY <2>1, <2>2, <3>1, ReviewedDrops
    <3>3. \A a \in Coll : \A n : Row("index", n, "drop") \in y.reviewed[a].rows =>
                                   n \in y.reviewed[a].drops
      BY <3>1, ReviewedDrops
    <3> QED BY <2>1, <3>2, <3>3 DEF DropsReviewed, Stands
  <2>4. CASE /\ x.pc \in Working /\ y.reviewed = x.reviewed
             /\ Introduced(r, c, Plan(r, c)) = {}
    <3>1. ASSUME NEW s \in ToSet(y.steps), NEW i \in s.drops PROVE Stands(y, c, i.name)
      <4>1. s \in ToSet(Plan(r, c).steps) BY <2>1
      <4>2. i \in db[c].indexes BY <2>2, <4>1, PlannedStepOK
      <4>3. y.steps # <<>> BY <3>1, EmptyIsSequence
      <4>4. y.before = db[c].indexes BY <2>1, <4>3
      <4>5. \/ i.name \in x.reviewed[c].drops
            \/ \E d \in ToSet(Def[c].indexes) :
                 /\ Row("index", d.name, "recreate") \in x.reviewed[c].rows
                 /\ i.name = d.name \/ Collides(d, i)
        BY <2>2, <2>4, <4>1, ReplannedDrops
      <4> QED BY <2>4, <4>2, <4>4, <4>5 DEF Stands
    <3>2. \A a \in Coll : \A n : Row("index", n, "drop") \in y.reviewed[a].rows =>
                                   n \in y.reviewed[a].drops
      BY <2>4 DEF DropsReviewed
    <3> QED BY <2>1, <3>1, <3>2 DEF DropsReviewed
  <2> QED BY <2>1, <2>3, <2>4
<1> QED BY <1>1, <1>2, <1>3

\* What a step does to the collections, whoever takes it.
DbMoved ==
  \/ db' = db
  \/ \E c \in Coll : \E new : /\ db' = [db EXCEPT ![c] = new]
                              /\ CollOK(new) /\ SearchKept(Def[c], db[c], new)

\* What a step of the system comes to: one run moves on, or one of the others did something.
LEMMA SystemStep ==
  ASSUME Shape, Searched, [Next]_vars
  PROVE  /\ DbMoved
         /\ \/ run' = run
            \/ \E r \in Run : /\ RunActs(r) \/ LosesLock(r) \/ Stops(r) \/ Dies(r)
                              /\ RunMoved(r) /\ CollMoved(r)
<1>1. CASE UNCHANGED vars BY <1>1 DEF vars, DbMoved
<1>2. CASE OthersAct BY <1>2, OthersStep DEF OthersMoved, DbMoved
<1>3. ASSUME NEW r \in Run, RunActs(r) \/ LosesLock(r) \/ Stops(r) \/ Dies(r)
      PROVE  RunMoved(r) /\ CollMoved(r) /\ DbMoved
  <2>1. RunMoved(r) /\ CollMoved(r) BY <1>3, RunStep
  <2>2. run[r].pc \in Working => Here(r) \in Coll BY HereOK
  <2>3. DbMoved BY <2>1, <2>2 DEF CollMoved, DbMoved
  <2> QED BY <2>1, <2>3
<1> QED BY <1>1, <1>2, <1>3 DEF Next

\* What of the collections holds as long as they move as they may.
LEMMA DbKept ==
  ASSUME Shape, Searched, DbMoved
  PROVE  /\ DOMAIN db' = Coll /\ \A c \in Coll : CollOK(db'[c]) /\ SearchOK(Def[c], db'[c])
         /\ \A c \in Coll : \A d \in Def[c].search, since \in Nat :
              AsDeclared(db[c], d, since) => AsDeclared(db'[c], d, since)
<1>1. DOMAIN db = Coll /\ \A c \in Coll : CollOK(db[c]) /\ SearchOK(Def[c], db[c])
  BY DEF Shape, Searched
<1>2. CASE db' = db BY <1>1, <1>2
<1>3. ASSUME NEW c \in Coll, NEW new, db' = [db EXCEPT ![c] = new],
             CollOK(new), SearchKept(Def[c], db[c], new)
      PROVE  /\ DOMAIN db' = Coll /\ \A a \in Coll : CollOK(db'[a]) /\ SearchOK(Def[a], db'[a])
             /\ \A a \in Coll : \A d \in Def[a].search, since \in Nat :
                  AsDeclared(db[a], d, since) => AsDeclared(db'[a], d, since)
  <2>1. DOMAIN db' = Coll /\ db'[c] = new /\ \A a \in Coll : a # c => db'[a] = db[a]
    BY <1>1, <1>3
  <2>2. SearchOK(Def[c], new) /\ \A d \in Def[c].search, since \in Nat :
          AsDeclared(db[c], d, since) => AsDeclared(new, d, since)
    BY <1>3 DEF SearchKept
  <2> QED BY <1>1, <1>3, <2>1, <2>2
<1> QED BY <1>2, <1>3 DEF DbMoved

LEMMA NextInv ==
  ASSUME Inv, [Next]_vars
  PROVE  Inv'
<1>1. Shape /\ Searched BY DEF Inv
<1>2. /\ DbMoved
      /\ \/ run' = run
         \/ \E r \in Run : /\ RunActs(r) \/ LosesLock(r) \/ Stops(r) \/ Dies(r)
                           /\ RunMoved(r) /\ CollMoved(r)
  BY <1>1, SystemStep
<1>3. /\ DOMAIN db' = Coll /\ \A c \in Coll : CollOK(db'[c]) /\ SearchOK(Def[c], db'[c])
      /\ \A c \in Coll : \A d \in Def[c].search, since \in Nat :
           AsDeclared(db[c], d, since) => AsDeclared(db'[c], d, since)
  BY <1>1, <1>2, DbKept
<1>4. DOMAIN run' = Run /\ \A r \in Run :
        \/ run'[r] = run[r]
        \/ Ended(run[r], run'[r]) \/ Continued(run[r], run'[r]) \/ Entered(r, run'[r])
  <2>1. CASE run' = run BY <1>1, <2>1 DEF Shape
  <2>2. CASE \E r \in Run : RunMoved(r) BY <2>2 DEF RunMoved
  <2> QED BY <1>2, <2>1, <2>2
<1>5. Shape'
  <2>1. \A r \in Run : RunOK(run'[r])
    BY <1>1, <1>4 DEF Shape, Ended, Continued, Entered
  <2> QED BY <1>3, <1>4, <2>1 DEF Shape
<1>6. Searched' BY <1>3 DEF Searched
<1>7. TargetsKnown'
  <2>1. ASSUME NEW r \in Run, NEW t \in run'[r].targets PROVE TargetOK(t)
    <3>1. CASE t \in run[r].targets BY <3>1 DEF Inv, TargetsKnown
    <3>2. CASE t \notin run[r].targets
      <4>1. Entered(r, run'[r]) BY <1>4, <2>1, <3>2 DEF Ended, Continued
      <4>2. PICK k \in DOMAIN Order : t \in Targets(Order[k]) BY <2>1, <3>2, <4>1 DEF Entered
      <4> QED BY <1>1, <4>2, OrderOK, TargetsAdded
    <3> QED BY <3>1, <3>2
  <2>2. ASSUME NEW t, TargetOK(t) PROVE TargetOK(t)'
    <3>1. /\ t.coll \in Coll /\ t.since \in Nat
          /\ \E d \in Def[t.coll].search : d.name = t.name /\ AsDeclared(db[t.coll], d, t.since)
      BY <2>2 DEF TargetOK
    <3>2. \E d \in Def[t.coll].search : d.name = t.name /\ AsDeclared(db'[t.coll], d, t.since)
      BY <1>3, <3>1
    <3> QED BY <3>1, <3>2 DEF TargetOK, AsDeclared
  <2> QED BY <2>1, <2>2 DEF TargetsKnown
<1>8. \A r \in Run : DropsReviewed(run'[r])
  <2> SUFFICES ASSUME NEW r \in Run PROVE DropsReviewed(run'[r]) OBVIOUS
  <2>1. DropsReviewed(run[r]) BY DEF Inv
  <2>2. CASE run'[r] = run[r] BY <2>1, <2>2
  <2>3. CASE Ended(run[r], run'[r]) \/ Continued(run[r], run'[r]) \/ Entered(r, run'[r])
    BY <1>1, <2>1, <2>3, MovedReviewed
  <2> QED BY <1>4, <2>2, <2>3
<1> QED BY <1>5, <1>6, <1>7, <1>8 DEF Inv, DropsReviewed, Stands

\* The inductive invariant of converge runs: the steps of a run are those of a plan; the search
\* indexes that are listed ready serve (`isSearchIndexReady`); what a run waits for is as declared
\* past the version it updated (`waitTargets`); its drops were reviewed (`refuseConflicts`).
THEOREM ConvergeInvariant == Spec => []Inv
<1>1. Init => Inv BY InitInv
<1>2. Inv /\ [Next]_vars => Inv' BY NextInv
<1> QED BY <1>1, <1>2, PTL DEF Spec

-----------------------------------------------------------------------------
(* What the waits promise.                                                 *)

\* A wait ends well only when everything it waits for serves or is hopeless.
LEMMA WaitEnds ==
  ASSUME Shape, NEW r \in Run, run[r].pc = "waiting", run'[r].pc = "done",
         RunActs(r) \/ LosesLock(r) \/ Stops(r) \/ Dies(r)
  PROVE  WaitReady(r)
<1>1. \A lost : ~Fails(r, lost)
  <2> SUFFICES ASSUME NEW lost, Fails(r, lost) PROVE FALSE OBVIOUS
  <2>1. run'[r] = [Idle EXCEPT !.pc = "failed", !.lost = lost] BY DEF Fails, Shape
  <2>2. run'[r].pc = "failed" BY <2>1, IdleOK DEF RunFields
  <2> QED BY <2>2
<1>2. ~Over(r, "dead")
  <2> SUFFICES ASSUME Over(r, "dead") PROVE FALSE OBVIOUS
  <2>1. run'[r] = [Idle EXCEPT !.pc = "dead"] BY DEF Over, Shape
  <2>2. run'[r].pc = "dead" BY <2>1, IdleOK DEF RunFields
  <2> QED BY <2>2
<1>3. ~Begins(r) BY DEF Begins
<1>4. ~(LosesLock(r) \/ Stops(r))
  <2> SUFFICES ASSUME LosesLock(r) \/ Stops(r) PROVE FALSE OBVIOUS
  <2>1. run' = [run EXCEPT ![r].aborted = TRUE] BY DEF LosesLock, Stops
  <2>2. DOMAIN run = Run /\ DOMAIN run[r] = RunFields BY DEF Shape, RunOK
  <2>3. run'[r].pc = run[r].pc BY <2>1, <2>2 DEF RunFields
  <2> QED BY <2>3
<1>5. ~Plans(r) /\ ~Replans(r) /\ ~Verifies(r) /\ ~Ends(r) /\ ~Aborts(r)
  BY DEF Plans, Replans, Verifies, Ends, Aborts
<1>6. ~StepRuns(r) /\ ~StepRefused(r) /\ ~StepKept(r) /\ ~StepLost(r) /\ ~Prepares(r)
  BY <1>3, Zenon DEF StepRuns, StepRefused, StepKept, StepLost, Prepares
<1>7. ~Converts(r) /\ ~ConvertLost(r)
  <2>1. run[r].pc # "converting" OBVIOUS
  <2> QED BY <1>3, <2>1, Zenon DEF Converts, ConvertLost
<1>8. ~RebuildDrops(r) /\ ~RebuildCreates(r) /\ ~DropLost(r) /\ ~RebuildLost(r)
  <2>1. run[r].pc # "rebuilding" OBVIOUS
  <2> QED BY <1>3, <2>1, Zenon DEF RebuildDrops, RebuildCreates, DropLost, RebuildLost, InRebuild
<1>9. ~Restores(r) /\ ~Restored(r)
  <2>1. run[r].pc # "restoring" OBVIOUS
  <2> QED BY <2>1, Zenon DEF Restores, Restored
<1>10. ~WaitFails(r) /\ ~Dies(r) BY <1>1, <1>2, Zenon DEF WaitFails, Dies
<1> QED BY <1>4, <1>5, <1>6, <1>7, <1>8, <1>9, <1>10 DEF RunActs

\* What serves a version past the one that was updated serves the declaration.
LEMMA ServesDeclared ==
  ASSUME Inv, NEW r \in Run, NEW t \in run[r].targets, Serves(t)
  PROVE  \E i \in db[t.coll].search : \E d \in Def[t.coll].search :
           i.name = t.name /\ d.name = t.name /\ i.served = d.body
<1>1. TargetOK(t) BY DEF Inv, TargetsKnown
<1>2. PICK d \in Def[t.coll].search : d.name = t.name /\ AsDeclared(db[t.coll], d, t.since)
  BY <1>1 DEF TargetOK
<1>3. PICK i \in db[t.coll].listed : i.name = t.name /\ i.status = "ready" /\ i.version > t.since
  BY DEF Serves, Listed
<1>4. i.body = d.body BY <1>2, <1>3 DEF AsDeclared
<1>5. SearchOK(Def[t.coll], db[t.coll]) BY <1>1 DEF Inv, Searched, TargetOK
<1>6. PICK j \in db[t.coll].search : j.name = d.name /\ j.served = d.body
  BY <1>2, <1>3, <1>4, <1>5 DEF SearchOK
<1> QED BY <1>2, <1>6

\* A wait of `waitForSearchIndexes` that ends well ends with every search index that the run
\* created or updated serving its declaration, however late the server lists what it does.
THEOREM ReadyIsServing == Spec => ReadyServes
<1> DEFINE Served(r) ==
      run[r].pc = "waiting" /\ run'[r].pc = "done" =>
        \A t \in run[r].targets : t.touched =>
          \E i \in db[t.coll].search : \E d \in Def[t.coll].search :
            i.name = t.name /\ d.name = t.name /\ i.served = d.body
<1>1. ASSUME Inv, [Next]_vars, NEW r \in Run PROVE Served(r)
  <2> SUFFICES ASSUME run[r].pc = "waiting", run'[r].pc = "done",
                      NEW t \in run[r].targets, t.touched
               PROVE  \E i \in db[t.coll].search : \E d \in Def[t.coll].search :
                        i.name = t.name /\ d.name = t.name /\ i.served = d.body
    OBVIOUS
  <2>1. Shape /\ Searched BY <1>1 DEF Inv
  <2>2. run'[r] # run[r] OBVIOUS
  <2>3. RunActs(r) \/ LosesLock(r) \/ Stops(r) \/ Dies(r)
    BY <1>1, <2>1, <2>2, SystemStep DEF RunMoved
  <2>4. WaitReady(r) BY <2>1, <2>3, WaitEnds
  <2>5. Serves(t) BY <2>4 DEF WaitReady, Hopeless
  <2> QED BY <1>1, <2>5, ServesDeclared
<1>2. Inv /\ [Next]_vars => [\A r \in Run : Served(r)]_vars BY <1>1
<1> QED BY <1>2, ConvergeInvariant, PTL DEF Spec, ReadyServes

-----------------------------------------------------------------------------
(* What is removed was reviewed.                                           *)

\* An index that a step of a run removes was among the drops of the plan that `refuseConflicts`
\* let pass, or in the way of a rebuild on a reviewed row when `replan` planned the collection.
THEOREM OnlyReviewed == Spec => ReviewedOnly
<1> DEFINE Reviewing(r, c) ==
      run'[r] # run[r] =>
        \A name \in Names(db[c].indexes) \ Names(db'[c].indexes) : Stands(run[r], c, name)
<1>1. ASSUME Inv, [Next]_vars, NEW r \in Run, NEW c \in Coll PROVE Reviewing(r, c)
  <2> SUFFICES ASSUME run'[r] # run[r],
                      NEW name \in Names(db[c].indexes) \ Names(db'[c].indexes)
               PROVE  Stands(run[r], c, name)
    OBVIOUS
  <2>1. Shape /\ Searched /\ DropsReviewed(run[r]) BY <1>1 DEF Inv
  <2>2. CollMoved(r) BY <1>1, <2>1, SystemStep DEF RunMoved
  <2>3. db' # db OBVIOUS
  <2>4. PICK new : /\ run[r].pc \in Working /\ db' = [db EXCEPT ![Here(r)] = new]
                   /\ \A i \in db[Here(r)].indexes :
                        \/ \E j \in new.indexes : j.name = i.name
                        \/ \E s \in ToSet(run[r].steps) : \E k \in s.drops : k.name = i.name
    BY <2>2, <2>3 DEF CollMoved
  <2>5. Here(r) \in Coll /\ DOMAIN db = Coll BY <2>1, <2>4, HereOK DEF Shape
  <2>6. c = Here(r) /\ db'[c] = new BY <2>4, <2>5
  <2>7. PICK i \in db[c].indexes : i.name = name BY DEF Names
  <2>8. ~\E j \in new.indexes : j.name = i.name BY <2>6, <2>7 DEF Names
  <2>9. \E s \in ToSet(run[r].steps) : \E k \in s.drops : k.name = name
    BY <2>4, <2>6, <2>7, <2>8
  <2> QED BY <2>1, <2>4, <2>6, <2>9 DEF DropsReviewed, Here
<1>2. Inv /\ [Next]_vars => [\A r \in Run, c \in Coll : Reviewing(r, c)]_vars BY <1>1
<1>3. [\A r \in Run, c \in Coll : Reviewing(r, c)]_vars <=>
      [\A r \in Run, c \in Coll :
         run'[r] # run[r] =>
           \A name \in Names(db[c].indexes) \ Names(db'[c].indexes) :
             \/ name \in run[r].reviewed[c].drops
             \/ \E d \in ToSet(Def[c].indexes) :
                  /\ Row("index", d.name, "recreate") \in run[r].reviewed[c].rows
                  /\ name = d.name \/ \E i \in run[r].before : i.name = name /\ Collides(d, i)]_vars
  BY DEF Stands
<1> QED BY <1>2, <1>3, ConvergeInvariant, PTL DEF Spec, ReviewedOnly
=============================================================================
