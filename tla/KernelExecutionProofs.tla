----------------------- MODULE KernelExecutionProofs -----------------------
(***************************************************************************)
(* What holds of the dispatcher alone holds of it in the execution of a    *)
(* kernel, whatever the wavefronts do between two groups.  The numbers     *)
(* that init_workitems counts are, by division with remainder, the work    *)
(* items of the group; so the only wavefront of a group has one lane for   *)
(* each of them (LaneInv), and a work item of such a group has run once    *)
(* when its group is behind the dispatcher (RanInv).                       *)
(***************************************************************************)
EXTENDS KernelExecution, DispatcherProofs, FiniteSetTheorems, SequenceTheorems

(* Executing a kernel, barriers and failed assertions included, moves the  *)
(* dispatcher as next_wg does or not at all.                               *)
THEOREM ExecutionImplementsDispatcher == ExecutionSpec => Spec
<1>1. ExecutionInit => Init
  BY DEF ExecutionInit
<1>2. [ExecutionNext]_vars => [Next]_dispatcherVars
  <2> SUFFICES ASSUME [ExecutionNext]_vars PROVE [Next]_dispatcherVars
    OBVIOUS
  <2>1. CASE BeginGroup
    BY <2>1 DEF BeginGroup, Next
  <2>2. CASE Execute
    BY <2>2 DEF Execute
  <2>3. CASE EndProgram
    BY <2>3 DEF EndProgram
  <2>4. CASE Barrier
    BY <2>4 DEF Barrier
  <2>5. CASE EndGroup
    BY <2>5 DEF EndGroup
  <2>6. CASE ResolveBarrier
    BY <2>6 DEF ResolveBarrier
  <2>7. CASE Abort
    BY <2>7 DEF Abort
  <2>8. CASE UNCHANGED vars
    BY <2>8 DEF vars
  <2> QED
    BY <2>1, <2>2, <2>3, <2>4, <2>5, <2>6, <2>7, <2>8 DEF ExecutionNext
<1> QED
  BY <1>1, <1>2, PTL DEF ExecutionSpec, Spec

(* The groups that a kernel is executed in cut its ND-range into pieces.   *)
THEOREM ExecutionPartitions == ExecutionSpec => []Partition
<1> QED
  BY ExecutionImplementsDispatcher, PartitionCorrect, PTL

-----------------------------------------------------------------------------
(* Quotient and remainder are what the division theorem says, and nothing  *)
(* else is.                                                                *)
LEMMA Division ==
  ASSUME NEW n \in Nat, NEW m \in Positive
  PROVE  \E q \in Nat, r \in 0 .. m - 1 : q = n \div m /\ r = n % m /\ n = q * m + r
<1>. DEFINE q == n \div m
            r == n % m
<1>1. q \in Nat /\ r \in 0 .. m - 1
  BY Z3 DEF Positive
<1>2. r = n - m * q
  BY Z3 DEF Positive
<1>3. n = q * m + r
  <2>. HIDE DEF q, r
  <2>. QED  BY <1>1, <1>2 DEF Positive
<1>4. q = n \div m /\ r = n % m
  OBVIOUS
<1>. HIDE DEF q, r
<1>. QED  BY <1>1, <1>3, <1>4

LEMMA DivisionUnique ==
  ASSUME NEW m \in Positive, NEW q \in Nat, NEW r \in 0 .. m - 1, NEW n, n = q * m + r
  PROVE  n \in Nat /\ n \div m = q /\ n % m = r
<1>1. n \in Nat
  BY Z3 DEF Positive
<1>2. PICK x \in Nat, y \in 0 .. m - 1 : x = n \div m /\ y = n % m /\ n = x * m + y
  BY <1>1, Division
<1>3. ~(x < q)
  BY <1>2, Z3 DEF Positive
<1>4. ~(q < x)
  BY <1>2, Z3 DEF Positive
<1>5. x = q
  BY <1>3, <1>4
<1>6. y = r
  BY <1>2, <1>5, Z3 DEF Positive
<1>. QED  BY <1>1, <1>2, <1>5, <1>6

(* The digits of a number to the bases b and c, the last one first: the    *)
(* number made of them has them, and is made of them alone.                *)
LEMMA Digits ==
  ASSUME NEW b \in Positive, NEW c \in Positive, NEW x \in Nat,
         NEW y \in 0 .. b - 1, NEW z \in 0 .. c - 1
  PROVE  LET n == x * (b * c) + y * c + z
         IN  /\ n \in Nat
             /\ n \div (b * c) = x /\ (n \div c) % b = y /\ n % c = z
<1>. DEFINE n == x * (b * c) + y * c + z
            q == x * b + y
            r == y * c + z
            p == b * c
<1>1. q \in Nat /\ r \in Nat /\ p \in Positive
  BY Z3 DEF Positive
<1>2. r < p
  <2>1. PICK k \in Nat : b = y + 1 + k
    <3>1. b - (y + 1) \in Nat
      BY DEF Positive
    <3>. QED  BY <3>1 DEF Positive
  <2>2. b * c = y * c + c + k * c /\ k * c \in Nat /\ y * c \in Nat
    BY <2>1, Z3 DEF Positive
  <2>. QED  BY <2>2 DEF Positive
<1>3. n = x * p + r
  <2>1. x * p \in Nat /\ y * c \in Nat
    BY <1>1, Z3 DEF Positive
  <2>. QED  BY <2>1
<1>4. n = q * c + z
  BY Z3 DEF Positive
<1>5. n \div p = x
  <2>1. r \in 0 .. p - 1
    BY <1>1, <1>2 DEF Positive
  <2>. HIDE DEF p, r, n
  <2>. QED  BY <1>1, <1>3, <2>1, DivisionUnique
<1>6. n \div c = q /\ n % c = z
  <2>. HIDE DEF q, n
  <2>. QED  BY <1>1, <1>4, DivisionUnique
<1>7. q % b = y
  BY DivisionUnique
<1>8. n \in Nat
  <2>. HIDE DEF q, n
  <2>. QED  BY <1>1, <1>4, Z3 DEF Positive
<1>. QED  BY <1>5, <1>6, <1>7, <1>8

LEMMA Regroup ==
  ASSUME NEW b \in Nat, NEW c \in Nat, NEW x \in Nat, NEW y \in Nat, NEW z \in Nat
  PROVE  (x * b + y) * c + z = x * (b * c) + y * c + z
  BY Z3

(* Each number below a * b * c has digits, x below a.                      *)
LEMMA HasDigits ==
  ASSUME NEW a \in Positive, NEW b \in Positive, NEW c \in Positive, NEW n \in 0 .. a * b * c - 1
  PROVE  \E x \in 0 .. a - 1, y \in 0 .. b - 1, z \in 0 .. c - 1 :
           /\ x = n \div (b * c) /\ y = (n \div c) % b /\ z = n % c
           /\ n = x * (b * c) + y * c + z
<1>1. n \in Nat
  OBVIOUS
<1>2. PICK q \in Nat, z \in 0 .. c - 1 : q = n \div c /\ z = n % c /\ n = q * c + z
  BY <1>1, Division
<1>3. PICK x \in Nat, y \in 0 .. b - 1 : x = q \div b /\ y = q % b /\ q = x * b + y
  BY <1>2, Division
<1>4. n = x * (b * c) + y * c + z
  <2>1. b \in Nat /\ c \in Nat /\ x \in Nat /\ y \in Nat /\ z \in Nat
    BY DEF Positive
  <2>2. (x * b + y) * c + z = x * (b * c) + y * c + z
    BY <2>1, Regroup
  <2>3. n = (x * b + y) * c + z
    BY <1>2, <1>3, Zenon
  <2>. QED  BY <2>2, <2>3, Zenon
<1>5. n \div (b * c) = x /\ (n \div c) % b = y /\ n % c = z
  BY <1>4, Digits
<1>6. x < a
  <2>. SUFFICES ASSUME a <= x PROVE FALSE
    BY <1>3 DEF Positive
  <2>1. PICK k \in Nat : x = a + k
    <3>1. x - a \in Nat
      BY DEF Positive
    <3>. QED  BY <3>1 DEF Positive
  <2>2. x * (b * c) = a * b * c + k * (b * c) /\ k * (b * c) \in Nat /\ y * c \in Nat
        /\ a * b * c \in Nat
    BY <2>1, Z3 DEF Positive
  <2>. QED  BY <1>4, <2>2
<1>7. x \in 0 .. a - 1
  BY <1>6 DEF Positive
<1>. QED  BY <1>4, <1>5, <1>7

LEMMA DigitsInside ==
  ASSUME NEW a \in Positive, NEW b \in Positive, NEW c \in Positive,
         NEW x \in 0 .. a - 1, NEW y \in 0 .. b - 1, NEW z \in 0 .. c - 1
  PROVE  x * (b * c) + y * c + z \in 0 .. a * b * c - 1
<1>1. z + y * c + x * (c * b) < c * b * a
  BY DigitsBelow DEF Positive
<1>2. c * b * a = a * b * c /\ c * b = b * c /\ a * b * c \in Nat
  BY Z3 DEF Positive
<1>3. x * (b * c) \in Nat /\ y * c \in Nat
  BY Z3 DEF Positive
<1>4. z + y * c + x * (b * c) < a * b * c
  BY <1>1, <1>2
<1>. QED  BY <1>2, <1>3, <1>4

(* A work item is in the group whose number is its quotient.               *)
LEMMA SpanIsQuotient ==
  ASSUME NEW w \in Positive, NEW c \in Nat, NEW x \in Nat
  PROVE  c * w \in Nat /\ (x \div w = c <=> c * w <= x /\ x < c * w + w)
<1>1. c * w \in Nat
  BY Z3 DEF Positive
<1>2. PICK q \in Nat, r \in 0 .. w - 1 : q = x \div w /\ x = q * w + r
  BY Division
<1>3. q * w \in Nat
  BY Z3 DEF Positive
<1>4. ASSUME x \div w = c PROVE c * w <= x /\ x < c * w + w
  <2>1. x = c * w + r
    BY <1>2, <1>4
  <2>. QED  BY <1>1, <2>1 DEF Positive
<1>5. ASSUME c * w <= x, x < c * w + w PROVE x \div w = c
  <2>1. x - c * w \in 0 .. w - 1 /\ x = c * w + (x - c * w)
    BY <1>1, <1>5 DEF Positive
  <2>. QED  BY <2>1, DivisionUnique
<1>. QED  BY <1>1, <1>4, <1>5

-----------------------------------------------------------------------------
(* init_workitems numbers the work items of a group without gap or         *)
(* doublet.                                                                *)
LEMMA WorkItemsNumbered ==
  ASSUME \A d \in Dims : Size(d) \in Positive
  PROVE  /\ GroupSize \in Positive
         /\ \A n \in 0 .. GroupSize - 1 : \A d \in Dims : WorkItem(n)[d] \in 0 .. Size(d) - 1
         /\ \A x \in 0 .. Size(1) - 1, y \in 0 .. Size(2) - 1, z \in 0 .. Size(3) - 1 :
              \E n \in 0 .. GroupSize - 1 : WorkItem(n) = <<x, y, z>>
         /\ \A m, n \in 0 .. GroupSize - 1 : WorkItem(m) = WorkItem(n) => m = n
<1>. DEFINE a == Size(1)
            b == Size(2)
            c == Size(3)
<1>1. a \in Positive /\ b \in Positive /\ c \in Positive
  BY DEF Dims
<1>2. GroupSize = a * b * c
  BY DEF GroupSize
<1>3. \A n : WorkItem(n) = <<n \div (b * c), (n \div c) % b, n % c>>
  BY DEF WorkItem
<1>. HIDE DEF a, b, c
<1>4. GroupSize \in Positive
  BY <1>1, <1>2, Z3 DEF Positive
<1>5. \A n \in 0 .. GroupSize - 1 :
        \E x \in 0 .. a - 1, y \in 0 .. b - 1, z \in 0 .. c - 1 :
          WorkItem(n) = <<x, y, z>> /\ n = x * (b * c) + y * c + z
  <2>. TAKE n \in 0 .. GroupSize - 1
  <2>. QED  BY <1>1, <1>2, <1>3, HasDigits
<1>6. \A x \in 0 .. a - 1, y \in 0 .. b - 1, z \in 0 .. c - 1 :
        \E n \in 0 .. GroupSize - 1 : WorkItem(n) = <<x, y, z>>
  <2>. TAKE x \in 0 .. a - 1, y \in 0 .. b - 1, z \in 0 .. c - 1
  <2>. DEFINE n == x * (b * c) + y * c + z
  <2>1. n \in 0 .. GroupSize - 1
    BY <1>1, <1>2, DigitsInside
  <2>2. n \div (b * c) = x /\ (n \div c) % b = y /\ n % c = z
    <3>1. x \in Nat
      BY <1>1 DEF Positive
    <3>. QED  BY <1>1, <3>1, Digits
  <2>. HIDE DEF n
  <2>. QED  BY <1>3, <2>1, <2>2
<1>7. \A n \in 0 .. GroupSize - 1 : \A d \in Dims : WorkItem(n)[d] \in 0 .. Size(d) - 1
  BY <1>5 DEF Dims, a, b, c
<1>8. \A m, n \in 0 .. GroupSize - 1 : WorkItem(m) = WorkItem(n) => m = n
  <2>. TAKE m, n \in 0 .. GroupSize - 1
  <2>. HAVE WorkItem(m) = WorkItem(n)
  <2>. QED  BY <1>5
<1>. QED  BY <1>4, <1>6, <1>7, <1>8 DEF a, b, c

(* The next group takes the work items of one quotient in each dimension.  *)
LEMMA NextItemsArePeers ==
  ASSUME IInv, HasNextWg
  PROVE  NextItems = Peers(<<First(1), First(2), First(3)>>)
<1>1. \A d \in Dims : curId[d] < Amount(d)
  BY HasNextIffInside DEF IInv, CursorInv, Dims
<1>2. TypeOK
  BY DEF IInv
<1>. DEFINE g == <<First(1), First(2), First(3)>>
<1>3. ASSUME NEW d \in Dims, NEW x \in 0 .. ndRange[d] - 1
      PROVE  x \in Span(d) <=> x \div wgSize[d] = g[d] \div wgSize[d]
  <2>1. /\ Size(d) \in Positive /\ Left(d) \in Positive /\ First(d) \in Nat
        /\ First(d) + Left(d) = ndRange[d]
    BY <1>1, <1>2, GroupTakes
  <2>2. wgSize[d] \in Positive /\ curId[d] \in Nat /\ ndRange[d] \in Positive
    BY <1>2 DEF TypeOK, Dims, Positive
  <2>3. First(d) = curId[d] * wgSize[d] /\ g[d] = First(d)
    BY DEF First, Dims
  <2>a. \A y \in Nat : y \div wgSize[d] = curId[d] <=> First(d) <= y /\ y < First(d) + wgSize[d]
    BY <2>2, <2>3, SpanIsQuotient
  <2>4. First(d) \div wgSize[d] = curId[d]
    <3>1. First(d) <= First(d) /\ First(d) < First(d) + wgSize[d]
      BY <2>1, <2>2 DEF Positive
    <3>. QED  BY <2>1, <2>a, <3>1
  <2>5. x \div wgSize[d] = curId[d] <=> First(d) <= x /\ x < First(d) + wgSize[d]
    BY <2>a, <2>2 DEF Positive
  <2>6. Size(d) = IF wgSize[d] < Left(d) THEN wgSize[d] ELSE Left(d)
    BY DEF Size
  <2>7. x \in Span(d) <=> First(d) <= x /\ x <= First(d) + Size(d) - 1
    BY <2>1, <2>2 DEF Span, Positive
  <2>. QED  BY <2>1, <2>2, <2>3, <2>4, <2>5, <2>6, <2>7 DEF Positive
<1>4. NextItems \subseteq Items
  BY <1>1, NextGroup DEF Dims
<1>. HIDE DEF g
<1>5. ASSUME NEW i \in Items PROVE i \in NextItems <=> \A d \in Dims : i[d] \div wgSize[d] = g[d] \div wgSize[d]
  BY <1>3 DEF Items, NextItems, Dims
<1>. QED  BY <1>4, <1>5 DEF Peers, g

(* The next group is as large as there are numbers for its work items.     *)
LEMMA GroupSizeIsCardinality ==
  ASSUME IInv, HasNextWg
  PROVE  /\ \A d \in Dims : Size(d) \in Positive /\ First(d) \in Nat
         /\ IsFiniteSet(NextItems) /\ Cardinality(NextItems) = GroupSize
<1>1. \A d \in Dims : Size(d) \in Positive /\ First(d) \in Nat
  BY HasNextIffInside, GroupTakes DEF IInv, CursorInv, Dims
<1>. DEFINE place(n) == <<First(1) + WorkItem(n)[1], First(2) + WorkItem(n)[2], First(3) + WorkItem(n)[3]>>
            S == 0 .. GroupSize - 1
            f == [n \in S |-> place(n)]
<1>2. /\ GroupSize \in Positive
      /\ \A n \in S : /\ WorkItem(n)[1] \in 0 .. Size(1) - 1
                      /\ WorkItem(n)[2] \in 0 .. Size(2) - 1
                      /\ WorkItem(n)[3] \in 0 .. Size(3) - 1
  BY <1>1, WorkItemsNumbered DEF Dims
<1>3. \A n \in S : place(n) \in NextItems
  BY <1>1, <1>2 DEF NextItems, Span, Dims, Positive
<1>4. ASSUME NEW m \in S, NEW n \in S, place(m) = place(n) PROVE m = n
  <2>1. /\ WorkItem(m)[1] = WorkItem(n)[1] /\ WorkItem(m)[2] = WorkItem(n)[2]
        /\ WorkItem(m)[3] = WorkItem(n)[3]
    BY <1>1, <1>2, <1>4 DEF Dims
  <2>2. WorkItem(m) = WorkItem(n)
    BY <2>1 DEF WorkItem
  <2>. QED  BY <1>1, <2>2, WorkItemsNumbered
<1>5. ASSUME NEW i \in NextItems PROVE \E n \in S : place(n) = i
  <2>1. /\ i[1] - First(1) \in 0 .. Size(1) - 1 /\ i[2] - First(2) \in 0 .. Size(2) - 1
        /\ i[3] - First(3) \in 0 .. Size(3) - 1
        /\ i = <<i[1], i[2], i[3]>> /\ i[1] \in Int /\ i[2] \in Int /\ i[3] \in Int
    BY <1>1 DEF NextItems, Span, Dims, Positive
  <2>2. PICK n \in S : WorkItem(n) = <<i[1] - First(1), i[2] - First(2), i[3] - First(3)>>
    BY <1>1, <2>1, WorkItemsNumbered
  <2>3. place(n) = i
    BY <1>1, <2>1, <2>2 DEF Dims
  <2>. QED  BY <2>3
<1>. HIDE DEF place
<1>6. f \in [S -> NextItems] /\ IsInjective(f) /\ \A i \in NextItems : \E n \in S : f[n] = i
  BY <1>3, <1>4, <1>5 DEF IsInjective
<1>7. ExistsBijection(S, NextItems)
  <2>. HIDE DEF f, S
  <2>1. f \in Bijection(S, NextItems)
    BY <1>6 DEF Bijection, Injection, Surjection, IsInjective
  <2>. QED  BY <2>1 DEF ExistsBijection
<1>8. IsFiniteSet(S) /\ Cardinality(S) = GroupSize
  BY <1>2, FS_Interval DEF Positive
<1>. QED  BY <1>1, <1>7, <1>8, FS_Bijection

-----------------------------------------------------------------------------
Wave ==
  [lanes : Seq(Nat \X Nat \X Nat), pc : Nat, atBarrier : BOOLEAN, completed : BOOLEAN]

(* Every variable holds a value of its type, and a wavefront has an        *)
(* instruction to execute.                                                 *)
ExecutionTypeOK ==
  /\ code \in Codes /\ group \in Nat \X Nat \X Nat
  /\ wavefronts \in Seq(Wave) /\ turn \in Nat \ {0}
  /\ \A w \in DOMAIN wavefronts : wavefronts[w].pc \in DOMAIN code
  /\ aborted \in BOOLEAN
  /\ ran \in [Items -> Nat]

OneWavefront(item) == ~(Cardinality(Peers(item)) > WavefrontSize)

(* The lanes of a group are for its work items, and those of a group of    *)
(* one wavefront for one each.  When it has ended it gets no other turn.   *)
LaneInv ==
  wavefronts # <<>> =>
    /\ Peers(group) \subseteq served
    /\ \A w \in DOMAIN wavefronts : \A i \in Items \ Peers(group) : LanesFor(w, i) = 0
    /\ OneWavefront(group) =>
         /\ DOMAIN wavefronts = {1}
         /\ \A i \in Peers(group) : LanesFor(1, i) = 1
         /\ Completed(1) => turn # 1

(* A work item in a group of one wavefront has run when its group has been *)
(* taken and its wavefront is not still under way.                         *)
UnderWay(item) == wavefronts # <<>> /\ item \in Peers(group) /\ ~Completed(1)

RanInv ==
  \A i \in Items : OneWavefront(i) => ran[i] = IF i \in served /\ ~UnderWay(i) THEN 1 ELSE 0

ExecutionInv == IInv /\ ExecutionTypeOK /\ LaneInv /\ RanInv

-----------------------------------------------------------------------------
(* What a step that leaves the groups and the lanes alone cannot change.   *)
LEMMA LanesStay ==
  ASSUME ndRange' = ndRange, wgSize' = wgSize, group' = group,
         DOMAIN wavefronts' = DOMAIN wavefronts,
         \A w \in DOMAIN wavefronts : wavefronts'[w].lanes = wavefronts[w].lanes
  PROVE  /\ Items' = Items
         /\ \A i : Peers(i)' = Peers(i) /\ OneWavefront(i)' = OneWavefront(i)
         /\ Peers(group)' = Peers(group) /\ OneWavefront(group)' = OneWavefront(group)
         /\ \A w \in DOMAIN wavefronts : \A i : LanesFor(w, i)' = LanesFor(w, i)
<1>1. Items' = Items
  BY DEF Items
<1>2. \A i : Peers(i)' = Peers(i)
  BY <1>1 DEF Peers
<1>3. Peers(group)' = Peers(group)
  BY <1>1 DEF Peers
<1>4. \A w \in DOMAIN wavefronts : \A i : LanesFor(w, i)' = LanesFor(w, i)
  <2>. TAKE w \in DOMAIN wavefronts
  <2>. TAKE i
  <2>1. wavefronts'[w].lanes = wavefronts[w].lanes
    OBVIOUS
  <2>. QED  BY <2>1 DEF LanesFor
<1>5. /\ \A i : OneWavefront(i)' = OneWavefront(i)
      /\ OneWavefront(group)' = OneWavefront(group)
  BY <1>2, <1>3 DEF OneWavefront
<1>. QED  BY <1>1, <1>2, <1>3, <1>4, <1>5

LEMMA LanesType ==
  ASSUME ExecutionTypeOK, NEW w \in DOMAIN wavefronts, NEW i
  PROVE  LanesFor(w, i) \in Nat
<1>. DEFINE L == wavefronts[w].lanes
            S == {l \in DOMAIN L : \A d \in Dims : group[d] + L[l][d] = i[d]}
<1>1. L \in Seq(Nat \X Nat \X Nat)
  <2>1. wavefronts \in Seq(Wave)
    BY DEF ExecutionTypeOK
  <2>2. wavefronts[w] \in Wave
    BY <2>1, ElementOfSeq
  <2>. QED  BY <2>2 DEF Wave
<1>2. IsFiniteSet(DOMAIN L)
  <2>. HIDE DEF L
  <2>1. DOMAIN L = 1 .. Len(L) /\ Len(L) \in Nat
    BY <1>1
  <2>. QED  BY <2>1, FS_Interval
<1>3. IsFiniteSet(S)
  BY <1>2, FS_Subset
<1>. QED  BY <1>3, FS_CardinalityType DEF LanesFor

(* The work items of a group have the same peers.                          *)
LEMMA PeersOfPeers ==
  ASSUME NEW i, NEW j \in Peers(i)
  PROVE  Peers(j) = Peers(i)
  BY DEF Peers

(* The lanes of the group that starts at g count from no work item outside *)
(* of it and, when one wavefront takes them all, from each in it once.     *)
LEMMA WavefrontsOfGroup ==
  ASSUME IInv, HasNextWg, ExecutionTypeOK
  PROVE  /\ InitWavefronts \in Seq(Wave) /\ InitWavefronts # <<>>
         /\ \A w \in DOMAIN InitWavefronts :
              /\ InitWavefronts[w].pc = 1 /\ InitWavefronts[w].completed = FALSE
              /\ \A l \in DOMAIN InitWavefronts[w].lanes :
                   /\ l - 1 \in 0 .. GroupSize - 1
                   /\ InitWavefronts[w].lanes[l] = WorkItem(l - 1)
         /\ GroupSize <= WavefrontSize =>
              /\ DOMAIN InitWavefronts = {1}
              /\ DOMAIN InitWavefronts[1].lanes = 1 .. GroupSize
<1>1. /\ GroupSize \in Positive
      /\ \A n \in 0 .. GroupSize - 1 : \A d \in Dims : WorkItem(n)[d] \in 0 .. Size(d) - 1
  BY GroupSizeIsCardinality, WorkItemsNumbered
<1>2. \A n \in 0 .. GroupSize - 1 : WorkItem(n) \in Nat \X Nat \X Nat
  <2>. TAKE n \in 0 .. GroupSize - 1
  <2>1. WorkItem(n)[1] \in Nat /\ WorkItem(n)[2] \in Nat /\ WorkItem(n)[3] \in Nat
    <3>1. Size(1) \in Positive /\ Size(2) \in Positive /\ Size(3) \in Positive
      BY GroupSizeIsCardinality DEF Dims
    <3>. QED  BY <1>1, <3>1 DEF Dims, Positive
  <2>. QED  BY <2>1 DEF WorkItem
<1>3. WavefrontSize \in Positive
  BY ExecutionAssumption DEF Positive
<1>. DEFINE G == GroupSize
            W == WavefrontSize
            N == (G + W - 1) \div W
            left(w) == G - (w - 1) * W
            lanes(w) == Min({W, left(w)})
<1>4. PICK q \in Nat, r \in 0 .. W - 1 : q = N /\ G + W - 1 = q * W + r
  <2>1. G + W - 1 \in Nat
    BY <1>1, <1>3 DEF Positive
  <2>. QED  BY <1>3, <2>1, Division
<1>5. ASSUME NEW w \in 1 .. N PROVE lanes(w) \in 1 .. G /\ lanes(w) <= W
  <2>1. PICK v \in Nat, k \in Nat : w = v + 1 /\ q = w + k
    <3>1. w - 1 \in Nat /\ q - w \in Nat
      BY <1>4
    <3>. QED  BY <3>1, <1>4
  <2>2. q * W = v * W + W + k * W /\ v * W \in Nat /\ k * W \in Nat
    BY <1>3, <2>1, Z3 DEF Positive
  <2>3. w - 1 = v
    BY <2>1
  <2>4. left(w) \in 1 .. G
    <3>. HIDE DEF N, G, W
    <3>1. left(w) = G - v * W
      BY <2>3
    <3>2. G \in Positive /\ W \in Positive
      BY <1>1, <1>3 DEF G, W
    <3>. HIDE DEF left
    <3>. QED  BY <1>4, <2>2, <3>1, <3>2 DEF Positive
  <2>5. W \in Nat \ {0}
    BY <1>3 DEF Positive
  <2>. HIDE DEF left, N, G, W
  <2>6. lanes(w) \in {W, left(w)} /\ lanes(w) <= W /\ lanes(w) <= left(w)
    <3>1. W \in Int /\ left(w) \in Int
      BY <2>4, <2>5, <1>1 DEF G, Positive
    <3>2. \E x \in {W, left(w)} : \A y \in {W, left(w)} : x =< y
      BY <3>1
    <3>. QED  BY <3>1, <3>2 DEF Min
  <2>7. G \in Nat
    BY <1>1 DEF G, Positive
  <2>. HIDE DEF lanes
  <2>. QED  BY <2>4, <2>5, <2>6, <2>7
<1>6. N \in Nat /\ 1 <= N
  <2>. HIDE DEF N
  <2>1. q # 0
    BY <1>1, <1>3, <1>4, Z3 DEF Positive
  <2>. QED  BY <1>4, <2>1
<1>7. InitWavefronts = [w \in 1 .. N |-> [lanes     |-> [i \in 1 .. lanes(w) |-> WorkItem(i - 1)],
                                          pc        |-> 1,
                                          atBarrier |-> FALSE,
                                          completed |-> FALSE]]
  BY DEF InitWavefronts
<1>8. ASSUME NEW w \in 1 .. N
      PROVE  /\ InitWavefronts[w] \in Wave
             /\ InitWavefronts[w].pc = 1 /\ InitWavefronts[w].completed = FALSE
             /\ DOMAIN InitWavefronts[w].lanes = 1 .. lanes(w)
             /\ \A l \in 1 .. lanes(w) :
                  /\ l - 1 \in 0 .. GroupSize - 1
                  /\ InitWavefronts[w].lanes[l] = WorkItem(l - 1)
  <2>. DEFINE L == [i \in 1 .. lanes(w) |-> WorkItem(i - 1)]
  <2>1. InitWavefronts[w] = [lanes |-> L, pc |-> 1, atBarrier |-> FALSE, completed |-> FALSE]
    BY <1>7
  <2>2. lanes(w) \in 1 .. G
    BY <1>5
  <2>. HIDE DEF lanes, N
  <2>3. \A l \in 1 .. lanes(w) : l - 1 \in 0 .. GroupSize - 1
    BY <1>1, <2>2 DEF Positive
  <2>4. L \in [1 .. lanes(w) -> Nat \X Nat \X Nat]
    BY <1>2, <2>3
  <2>5. L \in Seq(Nat \X Nat \X Nat)
    <3>. HIDE DEF L
    <3>1. lanes(w) \in Nat
      BY <2>2
    <3>. QED  BY <2>4, <3>1
  <2>6. DOMAIN L = 1 .. lanes(w) /\ \A l \in 1 .. lanes(w) : L[l] = WorkItem(l - 1)
    OBVIOUS
  <2>. HIDE DEF L
  <2>. QED  BY <2>1, <2>3, <2>5, <2>6 DEF Wave
<1>9. InitWavefronts \in [1 .. N -> Wave] /\ DOMAIN InitWavefronts = 1 .. N
  <2>. HIDE DEF lanes, N
  <2>. QED  BY <1>7, <1>8
<1>10. InitWavefronts \in Seq(Wave) /\ InitWavefronts # <<>>
  <2>. HIDE DEF lanes, N
  <2>1. InitWavefronts \in Seq(Wave)
    BY <1>6, <1>9
  <2>2. 1 \in DOMAIN InitWavefronts
    BY <1>6, <1>9
  <2>. QED  BY <2>1, <2>2
<1>11. ASSUME GroupSize <= WavefrontSize PROVE N = 1 /\ lanes(1) = GroupSize
  <2>1. G - 1 \in 0 .. W - 1 /\ G + W - 1 = 1 * W + (G - 1)
    BY <1>1, <1>3, <1>11 DEF Positive
  <2>2. N = 1
    BY <1>3, <2>1, DivisionUnique
  <2>3. left(1) = G
    BY <1>1, <1>3 DEF Positive
  <2>. HIDE DEF left, N
  <2>4. lanes(1) = G
    <3>1. W \in Int /\ G \in Int
      BY <1>1, <1>3 DEF Positive
    <3>. HIDE DEF G, W
    <3>2. \E x \in {W, left(1)} : \A y \in {W, left(1)} : x =< y
      BY <2>3, <3>1
    <3>3. lanes(1) \in {W, G} /\ lanes(1) <= W /\ lanes(1) <= G
      BY <2>3, <3>1, <3>2 DEF Min
    <3>. USE DEF G, W
    <3>. HIDE DEF lanes
    <3>. QED  BY <1>1, <1>3, <1>11, <3>3 DEF Positive
  <2>. QED  BY <2>2, <2>4
<1>. HIDE DEF lanes, N
<1>12. ASSUME GroupSize <= WavefrontSize
       PROVE  DOMAIN InitWavefronts = {1} /\ DOMAIN InitWavefronts[1].lanes = 1 .. GroupSize
  <2>1. N = 1 /\ lanes(1) = GroupSize
    BY <1>11, <1>12
  <2>2. 1 \in 1 .. N /\ 1 .. N = {1}
    BY <2>1
  <2>. QED  BY <1>8, <1>9, <2>1, <2>2
<1>. QED  BY <1>8, <1>9, <1>10, <1>12

LEMMA LanesOfNewGroup ==
  ASSUME IInv, HasNextWg, ExecutionTypeOK, UNCHANGED config,
         group' = <<First(1), First(2), First(3)>>, wavefronts' = InitWavefronts
  PROVE  /\ Items' = Items /\ Peers(group)' = NextItems /\ group' \in Nat \X Nat \X Nat
         /\ \A w \in DOMAIN wavefronts' : \A i \in Items \ NextItems : LanesFor(w, i)' = 0
         /\ GroupSize <= WavefrontSize => \A i \in NextItems : LanesFor(1, i)' = 1
<1>1. ndRange' = ndRange /\ wgSize' = wgSize
  BY DEF config
<1>2. Items' = Items
  BY <1>1 DEF Items
<1>3. Peers(group)' = NextItems
  <2>1. Peers(group)' = Peers(<<First(1), First(2), First(3)>>)
    BY <1>1, <1>2 DEF Peers
  <2>. QED  BY <2>1, NextItemsArePeers
<1>4. /\ First(1) \in Nat /\ First(2) \in Nat /\ First(3) \in Nat
      /\ Size(1) \in Positive /\ Size(2) \in Positive /\ Size(3) \in Positive
  BY GroupSizeIsCardinality DEF Dims
<1>5. /\ \A n \in 0 .. GroupSize - 1 : /\ WorkItem(n)[1] \in 0 .. Size(1) - 1
                                       /\ WorkItem(n)[2] \in 0 .. Size(2) - 1
                                       /\ WorkItem(n)[3] \in 0 .. Size(3) - 1
      /\ \A x \in 0 .. Size(1) - 1, y \in 0 .. Size(2) - 1, z \in 0 .. Size(3) - 1 :
           \E n \in 0 .. GroupSize - 1 : WorkItem(n) = <<x, y, z>>
      /\ \A m, n \in 0 .. GroupSize - 1 : WorkItem(m) = WorkItem(n) => m = n
  BY GroupSizeIsCardinality, WorkItemsNumbered DEF Dims
<1>6. GroupSize \in Positive
  BY GroupSizeIsCardinality, WorkItemsNumbered
<1>7. ASSUME NEW w \in DOMAIN wavefronts', NEW i \in Items \ NextItems
      PROVE  LanesFor(w, i)' = 0
  <2>. DEFINE L == wavefronts'[w].lanes
  <2>1. ASSUME NEW l \in DOMAIN L, \A d \in Dims : group'[d] + L[l][d] = i[d]
        PROVE  FALSE
    <3>1. l - 1 \in 0 .. GroupSize - 1 /\ L[l] = WorkItem(l - 1)
      BY WavefrontsOfGroup
    <3>2. /\ First(1) + WorkItem(l - 1)[1] = i[1]
          /\ First(2) + WorkItem(l - 1)[2] = i[2]
          /\ First(3) + WorkItem(l - 1)[3] = i[3]
      BY <2>1, <3>1 DEF Dims
    <3>3. i[1] \in Span(1) /\ i[2] \in Span(2) /\ i[3] \in Span(3)
      BY <1>4, <1>5, <3>1, <3>2 DEF Span, Positive
    <3>. QED  BY <3>3 DEF Items, NextItems
  <2>2. {l \in DOMAIN L : \A d \in Dims : group'[d] + L[l][d] = i[d]} = {}
    BY <2>1
  <2>. QED  BY <2>2, FS_EmptySet DEF LanesFor
<1>8. ASSUME GroupSize <= WavefrontSize, NEW i \in NextItems
      PROVE  LanesFor(1, i)' = 1
  <2>. DEFINE L == wavefronts'[1].lanes
  <2>1. /\ DOMAIN L = 1 .. GroupSize
        /\ \A l \in 1 .. GroupSize : l - 1 \in 0 .. GroupSize - 1 /\ L[l] = WorkItem(l - 1)
    BY <1>8, WavefrontsOfGroup
  <2>2. /\ i[1] - First(1) \in 0 .. Size(1) - 1
        /\ i[2] - First(2) \in 0 .. Size(2) - 1
        /\ i[3] - First(3) \in 0 .. Size(3) - 1
        /\ i[1] \in Int /\ i[2] \in Int /\ i[3] \in Int
    BY <1>4 DEF NextItems, Span, Positive
  <2>3. PICK n \in 0 .. GroupSize - 1 :
               WorkItem(n) = <<i[1] - First(1), i[2] - First(2), i[3] - First(3)>>
    BY <1>5, <2>2
  <2>4. n + 1 \in 1 .. GroupSize /\ (n + 1) - 1 = n
    BY <1>6, <2>3 DEF Positive
  <2>5. \A d \in Dims : group'[d] + L[n + 1][d] = i[d]
    <3>1. L[n + 1] = WorkItem(n)
      BY <2>1, <2>4
    <3>. HIDE DEF L
    <3>. QED  BY <1>4, <2>2, <2>3, <3>1 DEF Dims
  <2>6. ASSUME NEW l \in DOMAIN L, \A d \in Dims : group'[d] + L[l][d] = i[d]
        PROVE  l = n + 1
    <3>1. l \in 1 .. GroupSize /\ l - 1 \in 0 .. GroupSize - 1 /\ L[l] = WorkItem(l - 1)
      BY <2>1
    <3>2. /\ First(1) + WorkItem(l - 1)[1] = i[1]
          /\ First(2) + WorkItem(l - 1)[2] = i[2]
          /\ First(3) + WorkItem(l - 1)[3] = i[3]
      BY <2>6, <3>1 DEF Dims
    <3>3. /\ WorkItem(l - 1)[1] = i[1] - First(1) /\ WorkItem(l - 1)[2] = i[2] - First(2)
          /\ WorkItem(l - 1)[3] = i[3] - First(3)
      BY <1>4, <1>5, <2>2, <3>1, <3>2
    <3>4. WorkItem(l - 1) = WorkItem(n)
      BY <2>3, <3>3 DEF WorkItem
    <3>5. l - 1 = n
      BY <1>5, <3>1, <3>4
    <3>. QED  BY <3>1, <3>5
  <2>7. {l \in DOMAIN L : \A d \in Dims : group'[d] + L[l][d] = i[d]} = {n + 1}
    BY <2>1, <2>4, <2>5, <2>6
  <2>. QED  BY <2>7, FS_Singleton DEF LanesFor
<1>9. group' \in Nat \X Nat \X Nat
  BY <1>4
<1>. QED  BY <1>2, <1>3, <1>7, <1>8, <1>9

-----------------------------------------------------------------------------
LEMMA InitExecution == ExecutionInit => ExecutionTypeOK /\ LaneInv /\ RanInv
<1>. SUFFICES ASSUME ExecutionInit PROVE ExecutionTypeOK /\ LaneInv /\ RanInv
  OBVIOUS
<1>1. wavefronts = <<>> /\ served = {} /\ ran = [i \in Items |-> 0]
  BY DEF ExecutionInit, Init
<1>2. ExecutionTypeOK
  <2>1. wavefronts \in Seq(Wave) /\ DOMAIN wavefronts = {}
    BY <1>1, EmptySeq
  <2>2. ran \in [Items -> Nat]
    BY <1>1
  <2>3. group = <<0, 0, 0>> /\ code \in Codes /\ turn = 1 /\ aborted = FALSE
    BY DEF ExecutionInit
  <2>4. group \in Nat \X Nat \X Nat
    BY <2>3
  <2>5. \A w \in DOMAIN wavefronts : wavefronts[w].pc \in DOMAIN code
    BY <2>1
  <2>6. turn \in Nat \ {0}
    BY <2>3
  <2>7. aborted \in BOOLEAN
    BY <2>3
  <2>. QED  BY <2>1, <2>2, <2>3, <2>4, <2>5, <2>6, <2>7 DEF ExecutionTypeOK
<1>. QED  BY <1>1, <1>2 DEF LaneInv, RanInv

(* A group begins only when the one before it has ended, and its work      *)
(* items are new.                                                          *)
LEMMA BeginGroupKeeps ==
  ASSUME IInv, ExecutionTypeOK, LaneInv, RanInv, BeginGroup
  PROVE  ExecutionTypeOK' /\ LaneInv' /\ RanInv'
<1>1. /\ wavefronts = <<>> /\ HasNextWg /\ UNCHANGED <<config, code, aborted, ran>>
      /\ group' = <<First(1), First(2), First(3)>> /\ wavefronts' = InitWavefronts
      /\ turn' = 1 /\ served' = served \cup NextItems
  BY DEF BeginGroup, NextWg
<1>2. /\ Items' = Items /\ Peers(group)' = NextItems /\ group' \in Nat \X Nat \X Nat
      /\ \A w \in DOMAIN wavefronts' : \A i \in Items \ NextItems : LanesFor(w, i)' = 0
      /\ GroupSize <= WavefrontSize => \A i \in NextItems : LanesFor(1, i)' = 1
  BY <1>1, LanesOfNewGroup
<1>3. /\ wavefronts' \in Seq(Wave) /\ wavefronts' # <<>>
      /\ \A w \in DOMAIN wavefronts' : wavefronts'[w].pc = 1 /\ wavefronts'[w].completed = FALSE
      /\ GroupSize <= WavefrontSize => DOMAIN wavefronts' = {1}
  BY <1>1, WavefrontsOfGroup
<1>4. /\ NextItems \subseteq Items \ served /\ Cardinality(NextItems) = GroupSize
      /\ GroupSize \in Nat /\ WavefrontSize \in Nat
  <2>1. NextItems \subseteq Items \ served
    BY <1>1, InvariantPartitions DEF Partition
  <2>2. IsFiniteSet(NextItems) /\ Cardinality(NextItems) = GroupSize
    BY <1>1, GroupSizeIsCardinality
  <2>3. GroupSize \in Nat
    BY <2>2, FS_CardinalityType
  <2>. QED  BY <2>1, <2>2, <2>3, ExecutionAssumption
<1>5. ExecutionTypeOK'
  <2>1. 1 \in DOMAIN code
    BY ExecutionAssumption DEF ExecutionTypeOK
  <2>. QED  BY <1>1, <1>2, <1>3, <2>1 DEF ExecutionTypeOK
<1>6. LaneInv'
  <2>1. OneWavefront(group)' => GroupSize <= WavefrontSize
    BY <1>2, <1>4 DEF OneWavefront
  <2>. QED  BY <1>1, <1>2, <1>3, <2>1 DEF LaneInv, Completed
<1>7. RanInv'
  <2>. SUFFICES ASSUME NEW i \in Items, OneWavefront(i)'
                PROVE  ran[i] = IF i \in served' /\ ~UnderWay(i)' THEN 1 ELSE 0
    BY <1>1, <1>2 DEF RanInv
  <2>1. Peers(i)' = Peers(i)
    BY <1>1, <1>2 DEF Peers, config
  <2>2. ran[i] = IF i \in served THEN 1 ELSE 0
    BY <1>1, <2>1 DEF RanInv, OneWavefront, UnderWay
  <2>3. CASE i \in NextItems
    <3>1. Peers(i) = NextItems
      BY <1>1, <2>3, NextItemsArePeers, PeersOfPeers
    <3>2. DOMAIN wavefronts' = {1}
      BY <1>3, <1>4, <2>1, <3>1 DEF OneWavefront
    <3>3. UnderWay(i)'
      BY <1>2, <1>3, <2>3, <3>2 DEF UnderWay, Completed
    <3>. QED  BY <1>4, <2>2, <2>3, <3>3
  <2>4. CASE i \notin NextItems
    <3>1. ~UnderWay(i)'
      BY <1>2, <2>4 DEF UnderWay
    <3>. QED  BY <1>1, <2>2, <2>4, <3>1
  <2>. QED  BY <2>3, <2>4
<1>. QED  BY <1>5, <1>6, <1>7

LEMMA RunningWave ==
  ASSUME ExecutionTypeOK, Running
  PROVE  /\ turn \in DOMAIN wavefronts /\ wavefronts # <<>>
         /\ wavefronts[turn] \in Wave /\ wavefronts[turn].pc \in DOMAIN code
<1>1. wavefronts \in Seq(Wave) /\ turn \in DOMAIN wavefronts
  BY DEF ExecutionTypeOK, Running
<1>2. wavefronts[turn] \in Wave /\ wavefronts # <<>>
  BY <1>1, ElementOfSeq
<1>. QED  BY <1>1, <1>2 DEF ExecutionTypeOK

(* One wavefront changes, but not its lanes.                               *)
LEMMA PutWave ==
  ASSUME NEW s \in Seq(Wave), NEW k \in DOMAIN s, NEW wave \in Wave, wave.lanes = s[k].lanes
  PROVE  LET t == [s EXCEPT ![k] = wave]
         IN  /\ t \in Seq(Wave) /\ t # <<>> /\ DOMAIN t = DOMAIN s
             /\ \A w \in DOMAIN s : t[w].lanes = s[w].lanes
             /\ t[k] = wave /\ \A w \in DOMAIN s \ {k} : t[w] = s[w]
<1>. DEFINE t == [s EXCEPT ![k] = wave]
<1>1. t \in Seq(Wave) /\ Len(t) = Len(s)
  BY ExceptSeq
<1>2. DOMAIN t = DOMAIN s /\ t[k] = wave /\ \A w \in DOMAIN s \ {k} : t[w] = s[w]
  OBVIOUS
<1>3. t # <<>>
  <2>. HIDE DEF t
  <2>. QED  BY <1>1, <1>2
<1>. QED  BY <1>1, <1>2, <1>3

(* A step that completes no wavefront brings no work item to its end.      *)
LEMMA UnderWayStays ==
  ASSUME LaneInv, RanInv, wavefronts # <<>>, wavefronts' # <<>>, Items' = Items,
         served' = served, ran' = ran,
         \A i : Peers(i)' = Peers(i) /\ OneWavefront(i)' = OneWavefront(i),
         Peers(group)' = Peers(group),
         \A w \in DOMAIN wavefronts : Completed(w)' = Completed(w)
  PROVE  RanInv'
<1>. SUFFICES ASSUME NEW i \in Items, OneWavefront(i)
              PROVE  ran[i] = IF i \in served /\ ~UnderWay(i)' THEN 1 ELSE 0
  BY DEF RanInv
<1>1. i \in Peers(group) => 1 \in DOMAIN wavefronts
  BY PeersOfPeers DEF LaneInv, OneWavefront
<1>2. UnderWay(i)' <=> UnderWay(i)
  BY <1>1 DEF UnderWay
<1>. QED  BY <1>2 DEF RanInv

LEMMA ExecuteKeeps ==
  ASSUME ExecutionTypeOK, LaneInv, RanInv, Execute
  PROVE  ExecutionTypeOK' /\ LaneInv' /\ RanInv'
<1>1. /\ UNCHANGED <<dispatcherVars, code, group, turn, aborted, ran>> /\ Running
      /\ \E pc \in wavefronts[turn].pc + 1 .. Len(code) :
           wavefronts' = [wavefronts EXCEPT ![turn] = [wavefronts[turn] EXCEPT !.pc = pc]]
  BY DEF Execute
<1>2. /\ turn \in DOMAIN wavefronts /\ wavefronts # <<>>
      /\ wavefronts[turn] \in Wave /\ wavefronts[turn].pc \in DOMAIN code
  BY <1>1, RunningWave
<1>3. PICK pc \in wavefronts[turn].pc + 1 .. Len(code) :
             wavefronts' = [wavefronts EXCEPT ![turn] = [wavefronts[turn] EXCEPT !.pc = pc]]
  BY <1>1
<1>. DEFINE wave == [wavefronts[turn] EXCEPT !.pc = pc]
<1>4. pc \in DOMAIN code /\ pc \in Nat
  BY <1>2, ExecutionAssumption DEF ExecutionTypeOK
<1>5. /\ wave \in Wave /\ wave.lanes = wavefronts[turn].lanes /\ wave.pc = pc
      /\ wave.completed = wavefronts[turn].completed
  BY <1>2, <1>4 DEF Wave
<1>. HIDE DEF wave
<1>6. /\ wavefronts' \in Seq(Wave) /\ wavefronts' # <<>>
      /\ DOMAIN wavefronts' = DOMAIN wavefronts
      /\ \A w \in DOMAIN wavefronts : wavefronts'[w].lanes = wavefronts[w].lanes
      /\ wavefronts'[turn] = wave
      /\ \A w \in DOMAIN wavefronts \ {turn} : wavefronts'[w] = wavefronts[w]
  BY <1>2, <1>3, <1>5, PutWave DEF ExecutionTypeOK, wave
<1>7. \A w \in DOMAIN wavefronts : Completed(w)' = Completed(w)
  BY <1>5, <1>6 DEF Completed
<1>8. /\ ndRange' = ndRange /\ wgSize' = wgSize /\ group' = group /\ served' = served
      /\ turn' = turn /\ ran' = ran /\ code' = code /\ aborted' = aborted
  BY <1>1 DEF dispatcherVars, config
<1>9. /\ Items' = Items
      /\ \A i : Peers(i)' = Peers(i) /\ OneWavefront(i)' = OneWavefront(i)
      /\ Peers(group)' = Peers(group) /\ OneWavefront(group)' = OneWavefront(group)
      /\ \A w \in DOMAIN wavefronts : \A i : LanesFor(w, i)' = LanesFor(w, i)
  BY <1>6, <1>8, LanesStay
<1>10. ExecutionTypeOK'
  <2>1. \A w \in DOMAIN wavefronts' : wavefronts'[w].pc \in DOMAIN code
    BY <1>4, <1>5, <1>6 DEF ExecutionTypeOK
  <2>. QED  BY <1>6, <1>8, <1>9, <2>1 DEF ExecutionTypeOK
<1>11. LaneInv'
  BY <1>2, <1>6, <1>7, <1>8, <1>9 DEF LaneInv
<1>12. RanInv'
  BY <1>2, <1>6, <1>7, <1>8, <1>9, UnderWayStays
<1>. QED  BY <1>10, <1>11, <1>12

(* The wavefront has run for each of its lanes.                            *)
LEMMA EndProgramKeeps ==
  ASSUME ExecutionTypeOK, LaneInv, RanInv, EndProgram
  PROVE  ExecutionTypeOK' /\ LaneInv' /\ RanInv'
<1>1. /\ UNCHANGED <<dispatcherVars, code, group, aborted>> /\ Running
      /\ wavefronts' = [wavefronts EXCEPT ![turn] = [wavefronts[turn] EXCEPT !.completed = TRUE]]
      /\ ran' = [i \in DOMAIN ran |-> ran[i] + LanesFor(turn, i)]
      /\ turn' = turn + 1
  BY DEF EndProgram
<1>2. /\ turn \in DOMAIN wavefronts /\ wavefronts # <<>>
      /\ wavefronts[turn] \in Wave /\ wavefronts[turn].pc \in DOMAIN code
  BY <1>1, RunningWave
<1>. DEFINE wave == [wavefronts[turn] EXCEPT !.completed = TRUE]
<1>5. /\ wave \in Wave /\ wave.lanes = wavefronts[turn].lanes /\ wave.completed = TRUE
      /\ wave.pc = wavefronts[turn].pc
  BY <1>2 DEF Wave
<1>. HIDE DEF wave
<1>6. /\ wavefronts' \in Seq(Wave) /\ wavefronts' # <<>>
      /\ DOMAIN wavefronts' = DOMAIN wavefronts
      /\ \A w \in DOMAIN wavefronts : wavefronts'[w].lanes = wavefronts[w].lanes
      /\ wavefronts'[turn] = wave
      /\ \A w \in DOMAIN wavefronts \ {turn} : wavefronts'[w] = wavefronts[w]
  BY <1>1, <1>2, <1>5, PutWave DEF ExecutionTypeOK, wave
<1>7. \A w \in DOMAIN wavefronts : Completed(w)' <=> Completed(w) \/ w = turn
  BY <1>2, <1>5, <1>6 DEF Completed
<1>8. /\ ndRange' = ndRange /\ wgSize' = wgSize /\ group' = group /\ served' = served
      /\ code' = code /\ aborted' = aborted /\ turn' = turn + 1 /\ turn \in Nat \ {0}
  BY <1>1 DEF dispatcherVars, config, ExecutionTypeOK
<1>9. /\ Items' = Items
      /\ \A i : Peers(i)' = Peers(i) /\ OneWavefront(i)' = OneWavefront(i)
      /\ Peers(group)' = Peers(group) /\ OneWavefront(group)' = OneWavefront(group)
      /\ \A w \in DOMAIN wavefronts : \A i : LanesFor(w, i)' = LanesFor(w, i)
  BY <1>6, <1>8, LanesStay
<1>10. ExecutionTypeOK'
  <2>1. \A w \in DOMAIN wavefronts' : wavefronts'[w].pc \in DOMAIN code
    BY <1>5, <1>6 DEF ExecutionTypeOK
  <2>2. ran' \in [Items -> Nat]
    <3>1. ran \in [Items -> Nat] /\ \A i \in Items : LanesFor(turn, i) \in Nat
      BY <1>2, LanesType DEF ExecutionTypeOK
    <3>. QED  BY <1>1, <3>1
  <2>. QED  BY <1>6, <1>8, <1>9, <2>1, <2>2 DEF ExecutionTypeOK
<1>11. LaneInv'
  BY <1>2, <1>6, <1>7, <1>8, <1>9 DEF LaneInv
<1>12. RanInv'
  <2>. SUFFICES ASSUME NEW i \in Items, OneWavefront(i)
                PROVE  ran'[i] = IF i \in served /\ ~UnderWay(i)' THEN 1 ELSE 0
    BY <1>8, <1>9 DEF RanInv
  <2>1. ran'[i] = ran[i] + LanesFor(turn, i) /\ ran[i] \in Nat
    BY <1>1 DEF ExecutionTypeOK
  <2>2. CASE i \in Peers(group)
    <3>1. OneWavefront(group) /\ i \in served
      BY <1>2, <2>2, PeersOfPeers DEF OneWavefront, LaneInv
    <3>2. turn = 1 /\ ~Completed(1) /\ LanesFor(1, i) = 1
      BY <1>2, <2>2, <3>1 DEF LaneInv
    <3>3. UnderWay(i) /\ ~UnderWay(i)'
      BY <1>2, <1>7, <2>2, <3>2 DEF UnderWay
    <3>. QED  BY <2>1, <3>1, <3>2, <3>3 DEF RanInv
  <2>3. CASE i \notin Peers(group)
    <3>1. LanesFor(turn, i) = 0
      BY <1>2, <2>3 DEF LaneInv
    <3>2. ~UnderWay(i) /\ ~UnderWay(i)'
      BY <1>9, <2>3 DEF UnderWay
    <3>. QED  BY <2>1, <3>1, <3>2 DEF RanInv
  <2>. QED  BY <2>2, <2>3
<1>. QED  BY <1>10, <1>11, <1>12

LEMMA BarrierKeeps ==
  ASSUME ExecutionTypeOK, LaneInv, RanInv, Barrier
  PROVE  ExecutionTypeOK' /\ LaneInv' /\ RanInv'
<1>1. /\ UNCHANGED <<dispatcherVars, code, group, aborted, ran>> /\ Running
      /\ wavefronts' = [wavefronts EXCEPT ![turn] = [wavefronts[turn] EXCEPT !.atBarrier = TRUE]]
      /\ turn' = turn + 1
  BY DEF Barrier
<1>2. /\ turn \in DOMAIN wavefronts /\ wavefronts # <<>>
      /\ wavefronts[turn] \in Wave /\ wavefronts[turn].pc \in DOMAIN code
  BY <1>1, RunningWave
<1>. DEFINE wave == [wavefronts[turn] EXCEPT !.atBarrier = TRUE]
<1>5. /\ wave \in Wave /\ wave.lanes = wavefronts[turn].lanes
      /\ wave.completed = wavefronts[turn].completed /\ wave.pc = wavefronts[turn].pc
  BY <1>2 DEF Wave
<1>. HIDE DEF wave
<1>6. /\ wavefronts' \in Seq(Wave) /\ wavefronts' # <<>>
      /\ DOMAIN wavefronts' = DOMAIN wavefronts
      /\ \A w \in DOMAIN wavefronts : wavefronts'[w].lanes = wavefronts[w].lanes
      /\ wavefronts'[turn] = wave
      /\ \A w \in DOMAIN wavefronts \ {turn} : wavefronts'[w] = wavefronts[w]
  BY <1>1, <1>2, <1>5, PutWave DEF ExecutionTypeOK, wave
<1>7. \A w \in DOMAIN wavefronts : Completed(w)' = Completed(w)
  BY <1>2, <1>5, <1>6 DEF Completed
<1>8. /\ ndRange' = ndRange /\ wgSize' = wgSize /\ group' = group /\ served' = served
      /\ code' = code /\ aborted' = aborted /\ ran' = ran
      /\ turn' = turn + 1 /\ turn \in Nat \ {0}
  BY <1>1 DEF dispatcherVars, config, ExecutionTypeOK
<1>9. /\ Items' = Items
      /\ \A i : Peers(i)' = Peers(i) /\ OneWavefront(i)' = OneWavefront(i)
      /\ Peers(group)' = Peers(group) /\ OneWavefront(group)' = OneWavefront(group)
      /\ \A w \in DOMAIN wavefronts : \A i : LanesFor(w, i)' = LanesFor(w, i)
  BY <1>6, <1>8, LanesStay
<1>10. ExecutionTypeOK'
  <2>1. \A w \in DOMAIN wavefronts' : wavefronts'[w].pc \in DOMAIN code
    BY <1>5, <1>6 DEF ExecutionTypeOK
  <2>. QED  BY <1>6, <1>8, <1>9, <2>1 DEF ExecutionTypeOK
<1>11. LaneInv'
  BY <1>2, <1>6, <1>7, <1>8, <1>9 DEF LaneInv
<1>12. RanInv'
  BY <1>2, <1>6, <1>7, <1>8, <1>9, UnderWayStays
<1>. QED  BY <1>10, <1>11, <1>12

(* run_work_group returns when its wavefronts are completed, so that the   *)
(* work items of the group have run.                                       *)
LEMMA EndGroupKeeps ==
  ASSUME ExecutionTypeOK, LaneInv, RanInv, EndGroup
  PROVE  ExecutionTypeOK' /\ LaneInv' /\ RanInv'
<1>1. /\ ndRange' = ndRange /\ wgSize' = wgSize /\ group' = group /\ served' = served
      /\ code' = code /\ aborted' = aborted /\ ran' = ran /\ turn' = turn
      /\ wavefronts # <<>> /\ wavefronts' = <<>>
      /\ \A w \in DOMAIN wavefronts : Completed(w)
  BY DEF EndGroup, TurnsTaken, dispatcherVars, config
<1>2. Items' = Items
  BY <1>1 DEF Items
<1>3. \A i : OneWavefront(i)' = OneWavefront(i)
  BY <1>1, <1>2 DEF OneWavefront, Peers
<1>4. ExecutionTypeOK'
  <2>1. wavefronts' \in Seq(Wave) /\ DOMAIN wavefronts' = {}
    BY <1>1
  <2>. QED  BY <1>1, <1>2, <2>1 DEF ExecutionTypeOK
<1>5. \A i \in Items : ~UnderWay(i) /\ ~UnderWay(i)'
  <2>1. 1 \in DOMAIN wavefronts
    BY <1>1, EmptySeq DEF ExecutionTypeOK
  <2>. QED  BY <1>1, <2>1 DEF UnderWay
<1>. QED  BY <1>1, <1>2, <1>3, <1>4, <1>5 DEF LaneInv, RanInv

(* The only wavefront of a group gets another turn only when it is not     *)
(* completed.                                                              *)
LEMMA ResolveBarrierKeeps ==
  ASSUME ExecutionTypeOK, LaneInv, RanInv, ResolveBarrier
  PROVE  ExecutionTypeOK' /\ LaneInv' /\ RanInv'
<1>1. /\ ndRange' = ndRange /\ wgSize' = wgSize /\ group' = group /\ served' = served
      /\ code' = code /\ aborted' = aborted /\ ran' = ran
      /\ wavefronts' = [w \in DOMAIN wavefronts |-> [wavefronts[w] EXCEPT !.atBarrier = FALSE]]
      /\ wavefronts # <<>> /\ turn' = 1
      /\ \E w \in DOMAIN wavefronts : ~Completed(w)
  BY DEF ResolveBarrier, TurnsTaken, dispatcherVars, config
<1>2. wavefronts \in Seq(Wave) /\ DOMAIN wavefronts = 1 .. Len(wavefronts) /\ Len(wavefronts) \in Nat
  BY DEF ExecutionTypeOK
<1>3. ASSUME NEW w \in DOMAIN wavefronts
      PROVE  /\ wavefronts'[w] \in Wave /\ wavefronts'[w].lanes = wavefronts[w].lanes
             /\ wavefronts'[w].completed = wavefronts[w].completed
             /\ wavefronts'[w].pc = wavefronts[w].pc
  <2>1. wavefronts[w] \in Wave /\ wavefronts'[w] = [wavefronts[w] EXCEPT !.atBarrier = FALSE]
    BY <1>1, <1>2, ElementOfSeq
  <2>. QED  BY <2>1 DEF Wave
<1>6. wavefronts' \in Seq(Wave) /\ wavefronts' # <<>> /\ DOMAIN wavefronts' = DOMAIN wavefronts
  <2>1. wavefronts' \in [1 .. Len(wavefronts) -> Wave] /\ DOMAIN wavefronts' = DOMAIN wavefronts
    BY <1>1, <1>2, <1>3
  <2>2. wavefronts' \in Seq(Wave)
    BY <1>2, <2>1
  <2>. QED  BY <1>1, <1>2, <2>1, <2>2, EmptySeq
<1>7. \A w \in DOMAIN wavefronts : Completed(w)' = Completed(w)
  BY <1>3 DEF Completed
<1>9. /\ Items' = Items
      /\ \A i : Peers(i)' = Peers(i) /\ OneWavefront(i)' = OneWavefront(i)
      /\ Peers(group)' = Peers(group) /\ OneWavefront(group)' = OneWavefront(group)
      /\ \A w \in DOMAIN wavefronts : \A i : LanesFor(w, i)' = LanesFor(w, i)
  BY <1>1, <1>3, <1>6, LanesStay
<1>10. ExecutionTypeOK'
  <2>1. \A w \in DOMAIN wavefronts' : wavefronts'[w].pc \in DOMAIN code
    BY <1>3, <1>6 DEF ExecutionTypeOK
  <2>. QED  BY <1>1, <1>6, <1>9, <2>1 DEF ExecutionTypeOK
<1>11. LaneInv'
  BY <1>1, <1>6, <1>7, <1>9 DEF LaneInv
<1>12. RanInv'
  BY <1>1, <1>6, <1>7, <1>9, UnderWayStays
<1>. QED  BY <1>10, <1>11, <1>12

LEMMA AbortKeeps ==
  ASSUME ExecutionTypeOK, LaneInv, RanInv, Abort \/ UNCHANGED vars
  PROVE  ExecutionTypeOK' /\ LaneInv' /\ RanInv'
<1>1. /\ ndRange' = ndRange /\ wgSize' = wgSize /\ group' = group /\ served' = served
      /\ code' = code /\ ran' = ran /\ turn' = turn /\ wavefronts' = wavefronts
      /\ aborted' \in BOOLEAN
  BY DEF Abort, vars, groupVars, dispatcherVars, config, ExecutionTypeOK
<1>2. /\ Items' = Items
      /\ \A i : Peers(i)' = Peers(i) /\ OneWavefront(i)' = OneWavefront(i)
      /\ Peers(group)' = Peers(group) /\ OneWavefront(group)' = OneWavefront(group)
      /\ \A w \in DOMAIN wavefronts : \A i : LanesFor(w, i)' = LanesFor(w, i)
  BY <1>1, LanesStay
<1>3. \A w : Completed(w)' = Completed(w)
  BY <1>1 DEF Completed
<1>4. ExecutionTypeOK'
  BY <1>1, <1>2 DEF ExecutionTypeOK
<1>5. LaneInv'
  BY <1>1, <1>2, <1>3 DEF LaneInv
<1>6. RanInv'
  BY <1>1, <1>2, <1>3 DEF RanInv, UnderWay
<1>. QED  BY <1>4, <1>5, <1>6

-----------------------------------------------------------------------------
LEMMA ExecutionKeeps ==
  ASSUME IInv, ExecutionTypeOK /\ LaneInv /\ RanInv, [ExecutionNext]_vars
  PROVE  (ExecutionTypeOK /\ LaneInv /\ RanInv)'
<1>1. CASE BeginGroup
  BY <1>1, BeginGroupKeeps
<1>2. CASE Execute
  BY <1>2, ExecuteKeeps
<1>3. CASE EndProgram
  BY <1>3, EndProgramKeeps
<1>4. CASE Barrier
  BY <1>4, BarrierKeeps
<1>5. CASE EndGroup
  BY <1>5, EndGroupKeeps
<1>6. CASE ResolveBarrier
  BY <1>6, ResolveBarrierKeeps
<1>7. CASE Abort \/ UNCHANGED vars
  BY <1>7, AbortKeeps
<1>. QED  BY <1>1, <1>2, <1>3, <1>4, <1>5, <1>6, <1>7 DEF ExecutionNext

LEMMA ExecutionInvariant == ExecutionSpec => []ExecutionInv
<1>1. ExecutionSpec => []IInv
  BY ExecutionImplementsDispatcher, InvariantHolds, PTL
<1>2. ExecutionInit => ExecutionTypeOK /\ LaneInv /\ RanInv
  BY InitExecution
<1>3. IInv /\ (ExecutionTypeOK /\ LaneInv /\ RanInv) /\ [ExecutionNext]_vars
        => (ExecutionTypeOK /\ LaneInv /\ RanInv)'
  BY ExecutionKeeps
<1>. QED  BY <1>1, <1>2, <1>3, PTL DEF ExecutionSpec, ExecutionInv

(* Every variable of the executor keeps its type: no wavefront runs past   *)
(* the last instruction of its kernel, with branches to any instruction    *)
(* after them.                                                             *)
THEOREM ExecutionTypeCorrect == ExecutionSpec => []ExecutionTypeOK
<1>1. ExecutionInv => ExecutionTypeOK
  BY DEF ExecutionInv
<1>. QED  BY <1>1, ExecutionInvariant, PTL

(* For every ND-range, size of work groups, size of wavefronts and kernel, *)
(* barriers included: when executeKernel is done, a work item whose group  *)
(* fits into one wavefront has run the kernel to its end exactly once.     *)
THEOREM OneWavefrontCorrect == ExecutionSpec => []ItemsOfOneWavefrontRunOnce
<1>1. ExecutionInv => ItemsOfOneWavefrontRunOnce
  <2>. SUFFICES ASSUME ExecutionInv, Finished, NEW i \in Items,
                       ~(Cardinality(Peers(i)) > WavefrontSize)
                PROVE  ran[i] = 1
    BY DEF ItemsOfOneWavefrontRunOnce
  <2>1. served = Items /\ ~UnderWay(i)
    BY InvariantPartitions DEF ExecutionInv, Finished, Partition, UnderWay
  <2>2. OneWavefront(i)
    BY DEF OneWavefront
  <2>. QED  BY <2>1, <2>2 DEF ExecutionInv, RanInv
<1>. QED  BY <1>1, ExecutionInvariant, PTL
=============================================================================
