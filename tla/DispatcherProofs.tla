-------------------------- MODULE DispatcherProofs --------------------------
(***************************************************************************)
(* The dispatcher cuts every ND-range into groups without gap or overlap.  *)
(* The count of groups is tied to the cursor (CountInv), the cursor stays  *)
(* inside the grid of groups (CursorInv), and what has been served is what *)
(* lies before the cursor (ServedInv).                                     *)
(***************************************************************************)
EXTENDS Dispatcher, TLAPS

Positive == Nat \ {0}

(* A cursor of c groups is inside exactly when the group it points to has  *)
(* work items.                                                             *)
LEMMA GroupStartsInside ==
  ASSUME NEW n \in Positive, NEW w \in Positive, NEW c \in Nat
  PROVE  /\ (n - 1) \div w + 1 \in Positive
         /\ c * w < n <=> c < (n - 1) \div w + 1
<1> DEFINE q == (n - 1) \div w
           r == (n - 1) % w
<1>1. q \in Nat /\ r \in 0 .. w - 1 /\ n - 1 = q * w + r
  BY Z3 DEF Positive
<1>2. CASE c <= q
  <2>1. PICK k \in Nat : q = c + k
    BY <1>1, <1>2
  <2>2. q * w = c * w + k * w /\ k * w \in Nat /\ c * w \in Nat
    BY <2>1, Z3 DEF Positive
  <2> HIDE DEF q, r
  <2>3. c * w < n
    BY <1>1, <2>2 DEF Positive
  <2> QED
    BY <1>1, <1>2, <2>3 DEF Positive, q
<1>3. CASE c > q
  <2> HIDE DEF q, r
  <2>1. PICK k \in Nat : c = q + 1 + k
    <3>1. c - (q + 1) \in Nat
      BY <1>1, <1>3
    <3> QED
      BY <1>1, <3>1
  <2>2. c * w = q * w + w + k * w /\ k * w \in Nat /\ q * w \in Nat
    BY <1>1, <2>1, Z3 DEF Positive
  <2>3. ~(c * w < n)
    BY <1>1, <2>2 DEF Positive
  <2> QED
    BY <1>1, <1>3, <2>3 DEF Positive, q
<1> QED
  BY <1>1, <1>2, <1>3

-----------------------------------------------------------------------------
(* The cursor is inside the grid of groups, or just past its end. *)
CursorInv ==
  /\ curId[1] < Amount(1) /\ curId[2] < Amount(2)
  /\ curId[3] < Amount(3) \/ curId = <<0, 0, Amount(3)>>

(* dispatchedWg is the number of groups before the cursor. *)
CountInv ==
  dispatchedWg = curId[1] + curId[2] * Amount(1) + curId[3] * (Amount(1) * Amount(2))

(* A work item of a group before the cursor, which advances X first. *)
Before(i) ==
  \/ i[3] < First(3)
  \/ i[3] < First(3) + wgSize[3] /\ i[2] < First(2)
  \/ i[3] < First(3) + wgSize[3] /\ i[2] < First(2) + wgSize[2] /\ i[1] < First(1)

ServedInv == served = {i \in Items : Before(i)}

IInv == TypeOK /\ CursorInv /\ CountInv /\ ServedInv

(* Where the cursor is inside the grid there is something left to take,    *)
(* and the group takes all of it exactly when it is the last one.          *)
LEMMA GroupTakes ==
  ASSUME TypeOK, NEW d \in Dims, curId[d] < Amount(d)
  PROVE  /\ Left(d) \in Positive /\ Size(d) \in Positive
         /\ Size(d) <= Left(d) /\ Size(d) <= wgSize[d]
         /\ First(d) \in Nat /\ First(d) + Left(d) = ndRange[d]
         /\ Left(d) = Size(d) <=> curId[d] + 1 = Amount(d)
         /\ Left(d) # Size(d) => Size(d) = wgSize[d]
<1> DEFINE n == ndRange[d]
           w == wgSize[d]
           c == curId[d]
<1>1. n \in Positive /\ w \in Positive /\ c \in Nat /\ Amount(d) = (n - 1) \div w + 1
  BY DEF TypeOK, Dims, Positive, Amount
<1>2. Left(d) = n - c * w /\ First(d) = c * w
  BY DEF Left, First
<1>3. Size(d) = IF w < Left(d) THEN w ELSE Left(d)
  BY DEF Size
<1> HIDE DEF n, w, c
<1>4. c * w < n /\ (c + 1 < Amount(d) <=> (c + 1) * w < n) /\ Amount(d) \in Positive
  <2>1. c < Amount(d)
    BY DEF c
  <2>2. c + 1 \in Nat
    BY <1>1
  <2> QED
    BY <1>1, <2>1, <2>2, GroupStartsInside
<1>5. (c + 1) * w = c * w + w /\ c * w \in Nat
  BY <1>1, Z3 DEF Positive
<1>6. c < Amount(d)
  BY DEF c
<1>7. ndRange[d] = n /\ wgSize[d] = w /\ curId[d] = c
  BY DEF n, w, c
<1> QED
  BY <1>1, <1>2, <1>3, <1>4, <1>5, <1>6, <1>7 DEF Positive

(* The digits x, y, z of a number below a * b * e. *)
LEMMA DigitsBelow ==
  ASSUME NEW a \in Positive, NEW b \in Positive, NEW e \in Positive,
         NEW x \in Nat, NEW y \in Nat, NEW z \in Nat, x < a, y < b, z < e
  PROVE  x + y * a + z * (a * b) < a * b * e
<1>1. PICK i \in Nat : a = x + 1 + i
  <2>1. a - (x + 1) \in Nat
    BY DEF Positive
  <2> QED
    BY <2>1 DEF Positive
<1>2. PICK j \in Nat : b = y + 1 + j
  <2>1. b - (y + 1) \in Nat
    BY DEF Positive
  <2> QED
    BY <2>1 DEF Positive
<1>3. PICK k \in Nat : e = z + 1 + k
  <2>1. e - (z + 1) \in Nat
    BY DEF Positive
  <2> QED
    BY <2>1 DEF Positive
<1>4. a * b = y * a + a + a * j /\ a * j \in Nat /\ y * a \in Nat
  BY <1>2, Z3 DEF Positive
<1>5. /\ a * b * e = z * (a * b) + a * b + (a * b) * k
      /\ (a * b) * k \in Nat /\ z * (a * b) \in Nat
  <2> DEFINE p == a * b
  <2>1. p \in Nat
    BY <1>4 DEF Positive
  <2> HIDE DEF p
  <2>2. p * e = z * p + p + p * k /\ p * k \in Nat /\ z * p \in Nat
    BY <1>3, <2>1, Z3
  <2> QED
    BY <2>2 DEF p
<1> QED
  BY <1>1, <1>4, <1>5 DEF Positive

LEMMA AmountType ==
  ASSUME TypeOK
  PROVE  \A d \in Dims : Amount(d) \in Positive
<1> SUFFICES ASSUME NEW d \in Dims PROVE Amount(d) \in Positive
  OBVIOUS
<1>1. ndRange[d] \in Positive /\ wgSize[d] \in Positive
  BY DEF TypeOK, Dims, Positive
<1> QED
  BY <1>1, GroupStartsInside DEF Amount

(* has_next_wg, which compares two counts, knows where the cursor is. *)
LEMMA HasNextIffInside ==
  ASSUME TypeOK, CursorInv, CountInv
  PROVE  HasNextWg <=> curId[3] < Amount(3)
<1>1. Amount(1) \in Positive /\ Amount(2) \in Positive /\ Amount(3) \in Positive
  BY AmountType DEF Dims
<1>2. curId[1] \in Nat /\ curId[2] \in Nat /\ curId[3] \in Nat
  BY DEF TypeOK
<1>3. CASE curId[3] < Amount(3)
  BY <1>1, <1>2, <1>3, DigitsBelow DEF CursorInv, CountInv, HasNextWg, wgAmount
<1>4. CASE curId = <<0, 0, Amount(3)>>
  <2>1. dispatchedWg = 0 + 0 * Amount(1) + Amount(3) * (Amount(1) * Amount(2))
    BY <1>4 DEF CountInv
  <2> DEFINE a == Amount(1)
             b == Amount(2)
             e == Amount(3)
  <2>2. a \in Nat /\ b \in Nat /\ e \in Nat
    BY <1>1 DEF Positive
  <2>3. dispatchedWg = 0 + 0 * a + e * (a * b) /\ wgAmount = a * b * e
    BY <2>1 DEF wgAmount
  <2>4. curId[3] = e
    BY <1>4
  <2> HIDE DEF a, b, e
  <2>5. 0 + 0 * a + e * (a * b) = a * b * e /\ a * b * e \in Nat
    BY <2>2, Z3
  <2>6. ~HasNextWg
    BY <2>3, <2>5 DEF HasNextWg
  <2>7. ~(curId[3] < e)
    BY <2>2, <2>4
  <2> QED
    BY <2>6, <2>7 DEF e
<1> QED
  BY <1>3, <1>4 DEF CursorInv

LEMMA InitEstablishes == Init => IInv
<1> SUFFICES ASSUME Init PROVE IInv
  OBVIOUS
<1>1. /\ ndRange \in Positive \X Positive \X Positive
      /\ wgSize \in Positive \X Positive \X Positive
  BY SizesAssumption DEF Init, Positive
<1>2. TypeOK
  BY <1>1 DEF Init, TypeOK, Positive
<1>3. CursorInv
  BY <1>2, AmountType DEF Init, CursorInv, Dims, Positive
<1>4. \A d \in Dims : Amount(d) \in Nat
  BY <1>2, AmountType DEF Positive
<1>5. CountInv
  <2> DEFINE a == Amount(1)
             b == Amount(2)
  <2>1. a \in Nat /\ b \in Nat
    BY <1>4 DEF Dims
  <2>2. CountInv <=> dispatchedWg = curId[1] + curId[2] * a + curId[3] * (a * b)
    BY DEF CountInv
  <2> HIDE DEF a, b
  <2>3. 0 + 0 * a + 0 * (a * b) = 0
    BY <2>1, Z3
  <2> QED
    BY <2>2, <2>3 DEF Init
<1>6. ServedInv
  <2>1. First(1) = 0 /\ First(2) = 0 /\ First(3) = 0
    BY <1>1 DEF Init, First, Positive
  <2>2. ASSUME NEW i \in Items PROVE ~Before(i)
    BY <1>1, <2>1 DEF Before, Items, Positive
  <2> QED
    BY <2>2 DEF ServedInv, Init
<1> QED
  BY <1>2, <1>3, <1>5, <1>6 DEF IInv

(* The group at a cursor inside the grid. *)
LEMMA NextGroup ==
  ASSUME IInv, curId[3] < Amount(3)
  PROVE  NextItems # {} /\ NextItems \subseteq Items \ served
<1>1. \A d \in Dims : curId[d] < Amount(d)
  BY DEF IInv, CursorInv, Dims
<1>2. /\ First(1) \in Nat /\ First(2) \in Nat /\ First(3) \in Nat
      /\ Size(1) \in Positive /\ Size(2) \in Positive /\ Size(3) \in Positive
      /\ First(1) + Size(1) <= ndRange[1]
      /\ First(2) + Size(2) <= ndRange[2]
      /\ First(3) + Size(3) <= ndRange[3]
  <2> SUFFICES ASSUME NEW d \in Dims
               PROVE First(d) \in Nat /\ Size(d) \in Positive /\ First(d) + Size(d) <= ndRange[d]
    BY DEF Dims
  <2>1. ndRange[d] \in Nat
    BY DEF IInv, TypeOK, Dims
  <2> QED
    BY <1>1, <2>1, GroupTakes DEF IInv, Positive
<1>3. ndRange[1] \in Nat /\ ndRange[2] \in Nat /\ ndRange[3] \in Nat
  BY DEF IInv, TypeOK
<1>4. <<First(1), First(2), First(3)>> \in NextItems
  BY <1>2 DEF NextItems, Span, Positive
<1>5. ASSUME NEW i \in NextItems PROVE i \in Items /\ ~Before(i)
  <2>1. /\ i = <<i[1], i[2], i[3]>>
        /\ i[1] \in First(1) .. First(1) + Size(1) - 1
        /\ i[2] \in First(2) .. First(2) + Size(2) - 1
        /\ i[3] \in First(3) .. First(3) + Size(3) - 1
    BY DEF NextItems, Span
  <2>2. i[1] \in 0 .. ndRange[1] - 1 /\ i[2] \in 0 .. ndRange[2] - 1 /\ i[3] \in 0 .. ndRange[3] - 1
    BY <1>2, <1>3, <2>1 DEF Positive
  <2>3. ~Before(i)
    BY <1>2, <2>1 DEF Before, Positive
  <2> QED
    BY <2>1, <2>2, <2>3 DEF Items
<1> QED
  BY <1>4, <1>5 DEF IInv, ServedInv

(* A group moves the cursor by one, in X, else in Y, else in Z, and serves *)
(* what lies between the old and the new cursor.                           *)
LEMMA NextWgKeeps == IInv /\ NextWg => IInv'
<1> SUFFICES ASSUME IInv, NextWg PROVE IInv'
  OBVIOUS
<1> DEFINE x == curId[1]
           y == curId[2]
           z == curId[3]
           a == Amount(1)
           b == Amount(2)
           e == Amount(3)
           row == Left(1) = Size(1)
           plane == row /\ Left(2) = Size(2)
<1>1. /\ TypeOK /\ CursorInv /\ CountInv /\ ServedInv
      /\ ndRange' = ndRange /\ wgSize' = wgSize
      /\ dispatchedWg' = dispatchedWg + 1 /\ served' = served \cup NextItems
  BY DEF IInv, NextWg, config
<1>2. Amount(1)' = a /\ Amount(2)' = b /\ Amount(3)' = e /\ Items' = Items
  BY <1>1 DEF Amount, Items
<1>3. a \in Positive /\ b \in Positive /\ e \in Positive /\ x \in Nat /\ y \in Nat /\ z \in Nat
  BY <1>1, AmountType DEF Dims, TypeOK
<1>4. z < e
  BY <1>1, HasNextIffInside DEF NextWg
<1>5. x < a /\ y < b
  BY <1>1 DEF CursorInv
<1>6. NextItems \subseteq Items
  BY <1>4, NextGroup
<1>7. curId' = << IF row THEN 0 ELSE x + 1,
                  IF plane THEN 0 ELSE IF row THEN y + 1 ELSE y,
                  IF plane THEN z + 1 ELSE z >>
  BY DEF NextWg, Advance
<1>8. \A d \in Dims : curId[d] < Amount(d)
  BY <1>4, <1>5 DEF Dims
<1>9. (row <=> x + 1 = a) /\ (Left(2) = Size(2) <=> y + 1 = b)
  BY <1>1, <1>8, GroupTakes DEF Dims
<1>10. TypeOK'
  <2>1. curId' \in Nat \X Nat \X Nat
    BY <1>3, <1>7
  <2> QED
    BY <1>1, <1>2, <1>6, <2>1 DEF TypeOK
<1>11. CursorInv'
  <2>1. curId'[1] < a /\ curId'[2] < b
    BY <1>3, <1>5, <1>7, <1>9 DEF Positive
  <2>2. curId'[3] < e \/ curId' = <<0, 0, e>>
    BY <1>3, <1>4, <1>7 DEF Positive
  <2> QED
    BY <1>2, <2>1, <2>2 DEF CursorInv
<1>12. CountInv'
  <2>1. dispatchedWg = x + y * a + z * (a * b)
    BY <1>1 DEF CountInv
  <2>2. CountInv' <=> dispatchedWg' = curId'[1] + curId'[2] * a + curId'[3] * (a * b)
    BY <1>2 DEF CountInv
  <2> SUFFICES x + y * a + z * (a * b) + 1 = curId'[1] + curId'[2] * a + curId'[3] * (a * b)
    BY <1>1, <2>1, <2>2
  <2>3. CASE ~row
    <3>1. curId'[1] = x + 1 /\ curId'[2] = y /\ curId'[3] = z
      BY <1>7, <2>3
    <3> HIDE DEF x, y, z, a, b
    <3> QED
      BY <1>3, <3>1, Z3 DEF Positive
  <2>4. CASE row /\ ~plane
    <3>1. curId'[1] = 0 /\ curId'[2] = y + 1 /\ curId'[3] = z /\ x + 1 = a
      BY <1>7, <1>9, <2>4
    <3> HIDE DEF x, y, z, a, b
    <3> QED
      BY <1>3, <3>1, Z3 DEF Positive
  <2>5. CASE plane
    <3>1. curId'[1] = 0 /\ curId'[2] = 0 /\ curId'[3] = z + 1 /\ x + 1 = a /\ y + 1 = b
      BY <1>7, <1>9, <2>5
    <3> HIDE DEF x, y, z, a, b
    <3>2. x + y * a + z * (a * b) + 1 = (y + 1) * a + z * (a * b)
      BY <1>3, <3>1, Z3 DEF Positive
    <3>3. (y + 1) * a + z * (a * b) = (z + 1) * (a * b)
      BY <1>3, <3>1, Z3 DEF Positive
    <3>4. 0 + 0 * a + (z + 1) * (a * b) = (z + 1) * (a * b)
      BY <1>3, Z3 DEF Positive
    <3> QED
      BY <3>1, <3>2, <3>3, <3>4
  <2> QED
    BY <2>3, <2>4, <2>5
<1>13. ServedInv'
  <2> SUFFICES ASSUME NEW i \in Items PROVE Before(i)' <=> Before(i) \/ i \in NextItems
    BY <1>1, <1>2, <1>6 DEF ServedInv
  <2>1. /\ i = <<i[1], i[2], i[3]>>
        /\ i[1] \in 0 .. ndRange[1] - 1 /\ i[2] \in 0 .. ndRange[2] - 1
        /\ i[3] \in 0 .. ndRange[3] - 1
    BY DEF Items
  <2> DEFINE Facts(d) ==
         /\ First(d) \in Nat /\ Size(d) \in Nat /\ Left(d) \in Nat
         /\ wgSize[d] \in Nat /\ ndRange[d] \in Nat
         /\ Size(d) <= wgSize[d] /\ First(d) + Left(d) = ndRange[d]
         /\ Size(d) <= Left(d)
         /\ Left(d) # Size(d) => Size(d) = wgSize[d]
  <2>2. Facts(1) /\ Facts(2) /\ Facts(3)
    <3> SUFFICES ASSUME NEW d \in Dims PROVE Facts(d)
      BY DEF Dims
    <3>1. wgSize[d] \in Nat /\ ndRange[d] \in Nat
      BY <1>1 DEF TypeOK, Dims
    <3> QED
      BY <1>1, <1>8, <3>1, GroupTakes DEF Positive
  <2>3. i \in NextItems <=> /\ First(1) <= i[1] /\ i[1] < First(1) + Size(1)
                            /\ First(2) <= i[2] /\ i[2] < First(2) + Size(2)
                            /\ First(3) <= i[3] /\ i[3] < First(3) + Size(3)
    BY <2>1, <2>2 DEF NextItems, Span
  <2>4. First(1)' = (IF row THEN 0 ELSE First(1) + wgSize[1])
    BY <1>1, <1>3, <1>7, <2>2, Z3 DEF First
  <2>5. First(2)' = (IF plane THEN 0 ELSE IF row THEN First(2) + wgSize[2] ELSE First(2))
    BY <1>1, <1>3, <1>7, <2>2, Z3 DEF First
  <2>6. First(3)' = (IF plane THEN First(3) + wgSize[3] ELSE First(3))
    BY <1>1, <1>3, <1>7, <2>2, Z3 DEF First
  <2>7. Before(i)' <=> \/ i[3] < First(3)'
                       \/ i[3] < First(3)' + wgSize[3] /\ i[2] < First(2)'
                       \/ /\ i[3] < First(3)' + wgSize[3] /\ i[2] < First(2)' + wgSize[2]
                          /\ i[1] < First(1)'
    BY <1>1 DEF Before
  <2> QED
    BY <2>1, <2>2, <2>3, <2>4, <2>5, <2>6, <2>7 DEF Before
<1> QED
  BY <1>10, <1>11, <1>12, <1>13 DEF IInv

LEMMA InvariantHolds == Spec => []IInv
<1>1. Init => IInv
  BY InitEstablishes
<1>2. IInv /\ [Next]_dispatcherVars => IInv'
  <2> SUFFICES ASSUME IInv, [Next]_dispatcherVars PROVE IInv'
    OBVIOUS
  <2>1. CASE Next
    BY <2>1, NextWgKeeps DEF Next
  <2>2. CASE UNCHANGED dispatcherVars
    <3>1. /\ ndRange' = ndRange /\ wgSize' = wgSize /\ curId' = curId
          /\ dispatchedWg' = dispatchedWg /\ served' = served
      BY <2>2 DEF dispatcherVars, config
    <3> QED
      BY <3>1 DEF IInv, TypeOK, CursorInv, CountInv, ServedInv, Items, Amount, Before, First
  <2> QED
    BY <2>1, <2>2
<1> QED
  BY <1>1, <1>2, PTL DEF Spec

(* Every variable of the dispatcher keeps its type, so that nobody is      *)
(* handed a work item that the ND-range does not have.                     *)
THEOREM TypeCorrect == Spec => []TypeOK
<1>1. IInv => TypeOK
  BY DEF IInv
<1> QED
  BY <1>1, InvariantHolds, PTL

LEMMA InvariantPartitions == IInv => Partition
<1> SUFFICES ASSUME IInv PROVE Partition
  OBVIOUS
<1>1. HasNextWg <=> curId[3] < Amount(3)
  BY HasNextIffInside DEF IInv
<1>2. CASE HasNextWg
  BY <1>1, <1>2, NextGroup DEF Partition
<1>3. CASE ~HasNextWg
  <2>1. curId = <<0, 0, Amount(3)>>
    BY <1>1, <1>3 DEF IInv, CursorInv
  <2>2. /\ ndRange[3] \in Positive /\ wgSize[3] \in Positive
        /\ Amount(3) = (ndRange[3] - 1) \div wgSize[3] + 1
    BY DEF IInv, TypeOK, Positive, Amount
  <2>3. Amount(3) \in Nat /\ ~(Amount(3) * wgSize[3] < ndRange[3])
    <3>1. Amount(3) \in Positive /\ ~(Amount(3) < Amount(3))
      BY AmountType DEF IInv, Dims, Positive
    <3> QED
      BY <2>2, <3>1, GroupStartsInside DEF Positive
  <2>4. First(3) \in Nat /\ ndRange[3] <= First(3)
    <3>1. First(3) = Amount(3) * wgSize[3]
      BY <2>1 DEF First
    <3>2. Amount(3) * wgSize[3] \in Nat
      BY <2>2, <2>3, Z3 DEF Positive
    <3> QED
      BY <2>2, <2>3, <3>1, <3>2 DEF Positive
  <2>5. ASSUME NEW i \in Items PROVE Before(i)
    BY <2>2, <2>4 DEF Items, Before, Positive
  <2> QED
    BY <1>3, <2>5 DEF Partition, IInv, ServedInv
<1> QED
  BY <1>2, <1>3

(* For every ND-range and every size of work groups, also where they do    *)
(* not divide it, next_wg never comes back empty-handed, never serves a    *)
(* work item twice, and leaves none out.                                   *)
THEOREM PartitionCorrect == Spec => []Partition
<1> QED
  BY InvariantHolds, InvariantPartitions, PTL

=============================================================================
