----------------------- MODULE ObjectLifetimesProofs -----------------------
(***************************************************************************)
(* Theorems about ObjectLifetimes, for any programs, kernels, buffers,     *)
(* sizes and bounds: the references are counted exactly, a destroyed       *)
(* object is used only where setArgument or a program is to blame, the     *)
(* memory in use is that of the buffers, and nothing is left at the end.   *)
(***************************************************************************)
EXTENDS ObjectLifetimes, FiniteSetTheorems, SequenceTheorems, TLAPS

-----------------------------------------------------------------------------
(* Sequences that grow at the front.                                       *)
LEMMA ConcatFacts ==
  ASSUME NEW S, NEW s \in Seq(S), NEW t \in Seq(S)
  PROVE  /\ s \o t \in Seq(S)
         /\ DOMAIN s = 1 .. Len(s) /\ Len(s) \in Nat
         /\ DOMAIN t = 1 .. Len(t) /\ Len(t) \in Nat
         /\ DOMAIN (s \o t) = 1 .. Len(s) + Len(t) /\ Len(s \o t) = Len(s) + Len(t)
         /\ \A i \in DOMAIN s : (s \o t)[i] = s[i]
         /\ \A i \in DOMAIN t : (s \o t)[i + Len(s)] = t[i]
         /\ \A i \in DOMAIN (s \o t) : i \in DOMAIN s \/ i - Len(s) \in DOMAIN t
         /\ ToSet(s \o t) = ToSet(s) \cup ToSet(t)
<1>1. DOMAIN s = 1 .. Len(s) /\ Len(s) \in Nat /\ DOMAIN t = 1 .. Len(t) /\ Len(t) \in Nat
  BY LenProperties
<1>2. /\ s \o t \in Seq(S) /\ Len(s \o t) = Len(s) + Len(t)
      /\ \A i \in 1 .. Len(s) + Len(t) : (s \o t)[i] = IF i <= Len(s) THEN s[i] ELSE t[i - Len(s)]
  BY ConcatProperties
<1>3. DOMAIN (s \o t) = 1 .. Len(s) + Len(t)
  BY <1>2, LenProperties
<1>. DEFINE u == s \o t
            m == Len(s)
            n == Len(t)
<1>4. m \in Nat /\ n \in Nat
  BY <1>1
<1>5. /\ DOMAIN u = 1 .. m + n /\ DOMAIN s = 1 .. m /\ DOMAIN t = 1 .. n
      /\ \A i \in 1 .. m + n : u[i] = IF i <= m THEN s[i] ELSE t[i - m]
  BY <1>1, <1>2, <1>3
<1>. HIDE DEF u, m, n
<1>6. \A i \in DOMAIN s : u[i] = s[i] /\ i \in DOMAIN u
  BY <1>4, <1>5
<1>7. \A i \in DOMAIN t : u[i + m] = t[i] /\ i + m \in DOMAIN u
  BY <1>4, <1>5
<1>8. \A i \in DOMAIN u : i \in DOMAIN s \/ (i - m \in DOMAIN t /\ (i - m) + m = i)
  BY <1>4, <1>5
<1>9. ToSet(u) = ToSet(s) \cup ToSet(t)
  <2>1. ASSUME NEW x \in ToSet(u) PROVE x \in ToSet(s) \cup ToSet(t)
    <3>1. PICK i \in DOMAIN u : x = u[i]
      BY DEF ToSet
    <3>2. CASE i \in DOMAIN s
      BY <1>6, <3>1, <3>2 DEF ToSet
    <3>3. CASE i - m \in DOMAIN t /\ (i - m) + m = i
      BY <1>7, <3>1, <3>3 DEF ToSet
    <3>. QED  BY <1>8, <3>2, <3>3
  <2>2. ASSUME NEW x \in ToSet(s) PROVE x \in ToSet(u)
    BY <1>6 DEF ToSet
  <2>3. ASSUME NEW x \in ToSet(t) PROVE x \in ToSet(u)
    BY <1>7 DEF ToSet
  <2>. QED  BY <2>1, <2>2, <2>3
<1>. QED  BY <1>1, <1>2, <1>3, <1>6, <1>7, <1>8, <1>9 DEF u, m

LEMMA OneFacts ==
  ASSUME NEW S, NEW x \in S
  PROVE  /\ <<x>> \in Seq(S) /\ Len(<<x>>) = 1 /\ DOMAIN <<x>> = {1} /\ <<x>>[1] = x
         /\ ToSet(<<x>>) = {x} /\ <<>> \in Seq(S) /\ ToSet(<<>>) = {} /\ Len(<<>>) = 0
         /\ DOMAIN <<>> = {}
<1>1. /\ <<x>> \in Seq(S) /\ Len(<<x>>) = 1 /\ DOMAIN <<x>> = 1 .. 1 /\ <<x>>[1] = x
      /\ <<>> \in Seq(S) /\ Len(<<>>) = 0 /\ DOMAIN <<>> = 1 .. 0
  BY LenProperties, EmptySeq
<1>2. 1 .. 1 = {1} /\ 1 .. 0 = {}
  OBVIOUS
<1>. QED  BY <1>1, <1>2 DEF ToSet

LEMMA HeadFacts ==
  ASSUME NEW S, NEW s \in Seq(S), s # <<>>
  PROVE  /\ Head(s) \in S /\ Tail(s) \in Seq(S) /\ Head(s) = s[1] /\ 1 \in DOMAIN s
         /\ s = <<Head(s)>> \o Tail(s)
         /\ ToSet(s) = {Head(s)} \cup ToSet(Tail(s))
<1>1. /\ Head(s) \in S /\ Tail(s) \in Seq(S) /\ Len(Tail(s)) = Len(s) - 1
      /\ \A i \in 1 .. Len(s) - 1 : Tail(s)[i] = s[i + 1]
      /\ Len(s) \in Nat \ {0} /\ DOMAIN s = 1 .. Len(s) /\ Head(s) = s[1]
  BY HeadTailProperties, EmptySeq, LenProperties
<1>2. /\ <<Head(s)>> \in Seq(S) /\ Len(<<Head(s)>>) = 1 /\ <<Head(s)>>[1] = Head(s)
  BY <1>1, OneFacts
<1>. DEFINE u == <<Head(s)>> \o Tail(s)
<1>3. /\ u \in Seq(S) /\ Len(u) = 1 + Len(Tail(s))
      /\ \A i \in 1 .. 1 + Len(Tail(s)) : u[i] = IF i <= 1 THEN <<Head(s)>>[i] ELSE Tail(s)[i - 1]
  BY <1>1, <1>2, ConcatProperties
<1>4. Len(u) = Len(s)
  BY <1>1, <1>3
<1>5. ASSUME NEW i \in 1 .. Len(s) PROVE u[i] = s[i]
  <2>1. CASE i = 1
    BY <1>1, <1>2, <1>3, <2>1
  <2>2. CASE i # 1
    <3>1. i - 1 \in 1 .. Len(s) - 1 /\ (i - 1) + 1 = i /\ ~(i <= 1)
      BY <1>1, <2>2
    <3>. QED  BY <1>1, <1>3, <3>1
  <2>. QED  BY <2>1, <2>2
<1>6. s = u
  BY <1>3, <1>4, <1>5, SeqEqual
<1>7. ToSet(u) = ToSet(<<Head(s)>>) \cup ToSet(Tail(s))
  <2>. DEFINE h == <<Head(s)>>
              r == Tail(s)
  <2>1. h \in Seq(S) /\ r \in Seq(S)
    BY <1>1, <1>2
  <2>. HIDE DEF h, r
  <2>2. ToSet(h \o r) = ToSet(h) \cup ToSet(r)
    BY <2>1, ConcatFacts
  <2>. QED  BY <2>2 DEF h, r
<1>8. ToSet(<<Head(s)>>) = {Head(s)}
  BY <1>1, OneFacts
<1>. QED
  <2>. HIDE DEF u
  <2>1. ToSet(s) = {Head(s)} \cup ToSet(Tail(s))
    BY <1>6, <1>7, <1>8
  <2>. QED  BY <1>1, <1>6, <2>1 DEF u

(* How many items of s are among P.                                        *)
Calls(P, s) == Cardinality({i \in DOMAIN s : s[i] \in P})
Count(b) == IF b THEN 1 ELSE 0

LEMMA CallsType ==
  ASSUME NEW S, NEW s \in Seq(S), NEW P
  PROVE  /\ Calls(P, s) \in Nat /\ IsFiniteSet({i \in DOMAIN s : s[i] \in P})
         /\ Calls(P, s) = 0 <=> \A f \in ToSet(s) : f \notin P
<1>. DEFINE D == {i \in DOMAIN s : s[i] \in P}
<1>1. IsFiniteSet(D)
  <2>1. DOMAIN s = 1 .. Len(s) /\ Len(s) \in Nat
    BY LenProperties
  <2>2. IsFiniteSet(1 .. Len(s))
    BY <2>1, FS_Interval
  <2>. QED  BY <2>1, <2>2, FS_Subset
<1>2. Cardinality(D) \in Nat /\ (Cardinality(D) = 0 <=> D = {})
  BY <1>1, FS_CardinalityType, FS_EmptySet
<1>3. D = {} <=> \A f \in ToSet(s) : f \notin P
  BY DEF ToSet
<1>. QED  BY <1>1, <1>2, <1>3 DEF Calls

LEMMA CallsFinite ==
  ASSUME NEW S, NEW P
  PROVE  \A s \in Seq(S) : /\ IsFiniteSet({i \in DOMAIN s : s[i] \in P})
                           /\ Cardinality({i \in DOMAIN s : s[i] \in P}) = Calls(P, s)
<1>. SUFFICES ASSUME NEW s \in Seq(S)
     PROVE  /\ IsFiniteSet({i \in DOMAIN s : s[i] \in P})
            /\ Cardinality({i \in DOMAIN s : s[i] \in P}) = Calls(P, s)
  OBVIOUS
<1>. DEFINE D == {i \in DOMAIN s : s[i] \in P}
<1>1. IsFiniteSet(D)
  <2>1. DOMAIN s = 1 .. Len(s) /\ Len(s) \in Nat
    BY LenProperties
  <2>2. IsFiniteSet(1 .. Len(s))
    BY <2>1, FS_Interval
  <2>. QED  BY <2>1, <2>2, FS_Subset
<1>2. Cardinality(D) = Calls(P, s)
  BY DEF Calls
<1>. QED  BY <1>1, <1>2

LEMMA CallsOfConcat ==
  ASSUME NEW S, NEW s \in Seq(S), NEW t \in Seq(S), NEW P
  PROVE  Calls(P, s \o t) = Calls(P, s) + Calls(P, t)
<1>. DEFINE u == s \o t
            m == Len(s)
            D == {i \in DOMAIN s : s[i] \in P}
            E == {i \in DOMAIN t : t[i] \in P}
            U == {i \in DOMAIN u : u[i] \in P}
            F == U \ D
            shift == [i \in E |-> i + m]
<1>1. /\ DOMAIN s = 1 .. m /\ m \in Nat /\ DOMAIN t = 1 .. Len(t) /\ Len(t) \in Nat
      /\ DOMAIN u = 1 .. m + Len(t) /\ u \in Seq(S)
      /\ \A i \in DOMAIN s : u[i] = s[i]
      /\ \A i \in DOMAIN t : u[i + m] = t[i]
      /\ \A i \in DOMAIN u : i \in DOMAIN s \/ i - m \in DOMAIN t
  BY ConcatFacts
<1>2. /\ IsFiniteSet(D) /\ Cardinality(D) = Calls(P, s)
      /\ IsFiniteSet(E) /\ Cardinality(E) = Calls(P, t)
      /\ IsFiniteSet(U) /\ Cardinality(U) = Calls(P, s \o t)
  <2>1. IsFiniteSet(D) /\ Cardinality(D) = Calls(P, s)
    BY CallsFinite
  <2>2. IsFiniteSet(E) /\ Cardinality(E) = Calls(P, t)
    BY CallsFinite
  <2>3. IsFiniteSet(U) /\ Cardinality(U) = Calls(P, s \o t)
    <3>. HIDE DEF u
    <3>1. IsFiniteSet(U) /\ Cardinality(U) = Calls(P, u)
      BY <1>1, CallsFinite
    <3>. QED  BY <3>1 DEF u
  <2>. QED  BY <2>1, <2>2, <2>3
<1>. HIDE DEF u, m
<1>3. D \subseteq U
  BY <1>1
<1>4. ASSUME NEW i \in E PROVE i + m \in F
  BY <1>1
<1>5. ASSUME NEW i \in F PROVE i - m \in E /\ (i - m) + m = i
  <2>1. i \in DOMAIN u /\ u[i] \in P /\ i \notin DOMAIN s
    BY <1>1
  <2>2. i - m \in DOMAIN t
    BY <1>1, <2>1
  <2>3. (i - m) + m = i
    BY <1>1, <2>1
  <2>4. u[(i - m) + m] = t[i - m]
    BY <1>1, <2>2
  <2>. QED  BY <2>1, <2>2, <2>3, <2>4
<1>6. \A i \in E : i \in Nat
  BY <1>1
<1>7. shift \in Bijection(E, F)
  <2>1. shift \in [E -> F] /\ \A i \in E : shift[i] = i + m
    BY <1>4
  <2>2. \A i, j \in E : shift[i] = shift[j] => i = j
    BY <1>1, <1>6, <2>1
  <2>3. \A i \in F : \E j \in E : shift[j] = i
    BY <1>5, <2>1
  <2>. HIDE DEF shift, E, F
  <2>. QED  BY <2>1, <2>2, <2>3 DEF Bijection, Injection, Surjection, IsInjective
<1>8. IsFiniteSet(F) /\ Cardinality(F) = Cardinality(E)
  <2>. HIDE DEF shift, E, F
  <2>. QED  BY <1>2, <1>7, FS_Bijection DEF ExistsBijection
<1>9. U = D \cup F /\ D \cap F = {}
  BY <1>3
<1>10. Cardinality(U) = Cardinality(D) + Cardinality(F) - Cardinality({})
  <2>. HIDE DEF U, D, F
  <2>. QED  BY <1>2, <1>8, <1>9, FS_Union
<1>11. Cardinality({}) = 0 /\ Calls(P, s) \in Nat /\ Calls(P, t) \in Nat
  BY FS_EmptySet, CallsType
<1>. QED  BY <1>2, <1>8, <1>10, <1>11

LEMMA CallsOfOne ==
  ASSUME NEW S, NEW x \in S, NEW P
  PROVE  Calls(P, <<x>>) = Count(x \in P) /\ Calls(P, <<>>) = 0
<1>1. {i \in DOMAIN <<x>> : <<x>>[i] \in P} = IF x \in P THEN {1} ELSE {}
  BY OneFacts
<1>2. Calls(P, <<>>) = 0
  BY OneFacts, CallsType
<1>. QED  BY <1>1, <1>2, FS_Singleton, FS_EmptySet DEF Calls, Count

LEMMA Without ==
  ASSUME NEW S, NEW x, IsFiniteSet(S)
  PROVE  /\ IsFiniteSet(S \ {x}) /\ Cardinality(S) \in Nat /\ Cardinality(S \ {x}) \in Nat
         /\ Cardinality(S) = Cardinality(S \ {x}) + Count(x \in S)
<1>1. IsFiniteSet(S \ {x}) /\ Cardinality(S) \in Nat /\ Cardinality(S \ {x}) \in Nat
  BY FS_Subset, FS_CardinalityType
<1>2. CASE x \in S
  <2>1. Cardinality(S \ {x}) = Cardinality(S) - 1
    BY <1>2, FS_RemoveElement
  <2>. QED  BY <1>1, <1>2, <2>1 DEF Count
<1>3. CASE x \notin S
  <2>1. S \subseteq S \ {x} /\ S \ {x} \subseteq S
    BY <1>3
  <2>2. S \ {x} = S
    BY <2>1
  <2>3. Cardinality(S \ {x}) = Cardinality(S)
    BY <2>2
  <2>4. Count(x \in S) = 0
    BY <1>3 DEF Count
  <2>. DEFINE m == Cardinality(S)
              n == Cardinality(S \ {x})
  <2>. HIDE DEF m, n
  <2>5. m = n + 0
    BY <1>1, <2>3 DEF m, n
  <2>. QED  BY <1>1, <2>4, <2>5 DEF m, n
<1>. QED  BY <1>2, <1>3

LEMMA CountType == \A b : Count(b) \in Nat /\ Count(b) <= 1
BY DEF Count

(* The cardinality of a set of which only one member may have changed.     *)
LEMMA OneMember ==
  ASSUME NEW S, NEW T, NEW x, IsFiniteSet(S), S \ {x} = T \ {x}
  PROVE  /\ IsFiniteSet(T) /\ Cardinality(S) \in Nat /\ Cardinality(T) \in Nat
         /\ Cardinality(T) + Count(x \in S) = Cardinality(S) + Count(x \in T)
<1>1. IsFiniteSet(T)
  <2>1. IsFiniteSet((T \ {x}) \cup {x})
    BY Without, FS_AddElement
  <2>2. T \subseteq (T \ {x}) \cup {x}
    OBVIOUS
  <2>. QED  BY <2>1, <2>2, FS_Subset
<1>2. /\ Cardinality(S) \in Nat /\ Cardinality(S \ {x}) \in Nat
      /\ Cardinality(S) = Cardinality(S \ {x}) + Count(x \in S)
  BY Without
<1>3. /\ Cardinality(T) \in Nat /\ Cardinality(T) = Cardinality(T \ {x}) + Count(x \in T)
  BY <1>1, Without
<1>. QED  BY <1>1, <1>2, <1>3 DEF Count

LEMMA Kinds ==
  /\ Context # Queue /\ Context \in Objects /\ Queue \in Objects
  /\ IsFiniteSet(Objects) /\ IsFiniteSet(Programs) /\ IsFiniteSet(Kernels) /\ IsFiniteSet(Buffers)
  /\ Programs \subseteq Objects /\ Kernels \subseteq Objects /\ Buffers \subseteq Objects
  /\ \A p \in Programs : p \notin Kernels /\ p \notin Buffers /\ p # Context /\ p # Queue
  /\ \A k \in Kernels : k \notin Programs /\ k \notin Buffers /\ k # Context /\ k # Queue
  /\ \A b \in Buffers : b \notin Kernels /\ b \notin Programs /\ b # Context /\ b # Queue
  /\ Unset \notin Objects /\ Null \notin Objects /\ Unset # Null
<1>1. Context # Queue /\ Context \in Objects /\ Queue \in Objects
  BY DEF Context, Queue, Objects
<1>2. Programs \subseteq Objects /\ Kernels \subseteq Objects /\ Buffers \subseteq Objects
  BY DEF Objects
<1>3. /\ IsFiniteSet(Objects) /\ IsFiniteSet(Programs) /\ IsFiniteSet(Kernels)
      /\ IsFiniteSet(Buffers)
  BY <1>2, LifetimeAssumption, FS_Subset
<1>4. Unset \notin Objects /\ Null \notin Objects /\ Unset # Null
  BY LifetimeAssumption
<1>5. /\ {Context, Queue} \cap (Programs \cup Kernels \cup Buffers) = {}
      /\ Programs \cap Kernels = {} /\ (Programs \cup Kernels) \cap Buffers = {}
  BY LifetimeAssumption
<1>. QED  BY <1>1, <1>2, <1>3, <1>4, <1>5
-----------------------------------------------------------------------------
(* Things to do, and what they hold.                                       *)
Simple == {"release", "disown", "free", "callback", "flush", "endFlush"}

LEMMA ItemFacts ==
  /\ \A f \in Items : /\ f.op # "assign" => /\ f.op \in Simple /\ f.o \in Objects
                                            /\ f = [op |-> f.op, o |-> f.o]
                      /\ f.op = "assign" => /\ f.o \in Kernels /\ f.value \in Buffers \cup {Null}
                                            /\ f = Assign(f.o, f.value)
                      /\ f.op = "disown" => f.o \in Kernels
                      /\ f.op \in Simple \cup {"assign"}
  /\ \A o \in Objects : Release(o) \in Items /\ Free(o) \in Items
  /\ \A k \in Kernels : Disown(k) \in Items
  /\ \A b \in Buffers : CallBack(b) \in Items
  /\ \A k \in Kernels, v \in Buffers \cup {Null} : Assign(k, v) \in Items
  /\ Flush \in Items /\ EndFlush \in Items
<1>1. ASSUME NEW f \in Items, f.op # "assign"
      PROVE  f.op \in Simple /\ f.o \in Objects /\ f = [op |-> f.op, o |-> f.o]
  BY <1>1, Kinds DEF Items, Simple
<1>2. ASSUME NEW f \in Items, f.op = "assign"
      PROVE  f.o \in Kernels /\ f.value \in Buffers \cup {Null} /\ f = Assign(f.o, f.value)
  BY <1>2 DEF Items, Assign
<1>3. ASSUME NEW f \in Items, f.op = "disown" PROVE f.o \in Kernels
  BY <1>3 DEF Items
<1>4. ASSUME NEW f \in Items PROVE f.op \in Simple \cup {"assign"}
  BY DEF Items, Simple
<1>5. \A o \in Objects : Release(o) \in Items /\ Free(o) \in Items
  BY DEF Items, Release, Free
<1>6. \A k \in Kernels : Disown(k) \in Items
  BY DEF Items, Disown
<1>7. \A b \in Buffers : CallBack(b) \in Items
  BY DEF Items, CallBack
<1>8. \A k \in Kernels, v \in Buffers \cup {Null} : Assign(k, v) \in Items
  BY DEF Items, Assign
<1>9. Flush \in Items /\ EndFlush \in Items
  BY DEF Items, Flush, EndFlush
<1>. QED  BY <1>1, <1>2, <1>3, <1>4, <1>5, <1>6, <1>7, <1>8, <1>9

LEMMA FieldFacts ==
  /\ \A o : /\ Release(o).op = "release" /\ Release(o).o = o
            /\ Disown(o).op = "disown" /\ Disown(o).o = o
            /\ Free(o).op = "free" /\ Free(o).o = o
            /\ CallBack(o).op = "callback" /\ CallBack(o).o = o
  /\ \A k, v : Assign(k, v).op = "assign" /\ Assign(k, v).o = k /\ Assign(k, v).value = v
  /\ Flush.op = "flush" /\ EndFlush.op = "endFlush" /\ Flush.o = Queue /\ EndFlush.o = Queue
BY DEF Release, Disown, Free, CallBack, Assign, Flush, EndFlush

(* The items that hold a reference to x.                                   *)
Naming(x) == {Release(x)} \cup {Assign(k, x) : k \in Kernels}

LEMMA NamingFacts ==
  ASSUME NEW x \in Objects
  PROVE  /\ \A f \in Items : f \in Naming(x) <=> \/ f.op = "release" /\ f.o = x
                                                 \/ f.op = "assign" /\ f.value = x
         /\ \A o : Release(o) \in Naming(x) <=> o = x
         /\ \A k \in Kernels : \A v : Assign(k, v) \in Naming(x) <=> v = x
         /\ \A f : f.op \notin {"release", "assign"} => f \notin Naming(x)
<1>1. ASSUME NEW f PROVE f \in Naming(x) <=> f = Release(x) \/ \E k \in Kernels : f = Assign(k, x)
  BY DEF Naming
<1>2. ASSUME NEW f \in Items
      PROVE  f \in Naming(x) <=> \/ f.op = "release" /\ f.o = x
                                 \/ f.op = "assign" /\ f.value = x
  <2>1. f \in Naming(x) => \/ f.op = "release" /\ f.o = x
                           \/ f.op = "assign" /\ f.value = x
    BY <1>1, FieldFacts
  <2>2. ASSUME f.op = "release" /\ f.o = x PROVE f \in Naming(x)
    BY <1>1, <2>2, ItemFacts DEF Release
  <2>3. ASSUME f.op = "assign" /\ f.value = x PROVE f \in Naming(x)
    BY <1>1, <2>3, ItemFacts
  <2>. QED  BY <2>1, <2>2, <2>3
<1>3. \A o : Release(o) \in Naming(x) <=> o = x
  BY <1>1, FieldFacts
<1>4. \A k \in Kernels : \A v : Assign(k, v) \in Naming(x) <=> v = x
  BY <1>1, FieldFacts
<1>5. \A f : f.op \notin {"release", "assign"} => f \notin Naming(x)
  BY <1>1, FieldFacts
<1>. QED  BY <1>2, <1>3, <1>4, <1>5

(* The parts of Holders.                                                   *)
Stolen(o) == IF o \in Kernels THEN stolen[o] ELSE 0
Made(o) == {k \in Kernels \cap Existing : program[k] = o}
Given(o) == {k \in Kernels \cap Existing : argument[k] = o /\ ~Pending(k)}
Others == Existing \ ({Context} \cup Kernels)
Named(o) == Calls(Naming(o), todo)
Listed(o) == Calls({o}, commands)
Lodged(o) == IF o = Context THEN Cardinality(Others) ELSE 0

(* Holders, added up from its parts.                                       *)
AddsUp ==
  \A o \in Objects :
    /\ IsFiniteSet(Made(o)) /\ IsFiniteSet(Given(o)) /\ IsFiniteSet(Others)
    /\ held[o] \in Nat /\ Listed(o) \in Nat /\ Cardinality(Made(o)) \in Nat
    /\ Cardinality(Given(o)) \in Nat /\ Named(o) \in Nat /\ Lodged(o) \in Nat
    /\ refs[o] \in Nat /\ Stolen(o) \in Nat /\ Cardinality(Others) \in Nat
    /\ Holders(o) = held[o] + Listed(o) + Cardinality(Made(o)) + Cardinality(Given(o)) + Named(o)
                    + Count(o \in unreachable) + Lodged(o)

LEMMA HoldersSum == TypeOK => AddsUp
<1>. SUFFICES ASSUME TypeOK, NEW o \in Objects
     PROVE  /\ IsFiniteSet(Made(o)) /\ IsFiniteSet(Given(o)) /\ IsFiniteSet(Others)
            /\ held[o] \in Nat /\ Listed(o) \in Nat /\ Cardinality(Made(o)) \in Nat
            /\ Cardinality(Given(o)) \in Nat /\ Named(o) \in Nat /\ Lodged(o) \in Nat
            /\ refs[o] \in Nat /\ Stolen(o) \in Nat /\ Cardinality(Others) \in Nat
            /\ Holders(o) = held[o] + Listed(o) + Cardinality(Made(o)) + Cardinality(Given(o))
                            + Named(o) + Count(o \in unreachable) + Lodged(o)
  BY DEF AddsUp
<1>1. held[o] \in Nat /\ refs[o] \in Nat /\ Stolen(o) \in Nat
  BY DEF TypeOK, Stolen
<1>2. IsFiniteSet(Made(o)) /\ IsFiniteSet(Given(o)) /\ IsFiniteSet(Others)
  <2>1. Made(o) \subseteq Kernels /\ Given(o) \subseteq Kernels /\ Others \subseteq Objects
    BY DEF Made, Given, Others, Existing, TypeOK
  <2>. QED  BY <2>1, Kinds, FS_Subset
<1>3. /\ Cardinality(Made(o)) \in Nat /\ Cardinality(Given(o)) \in Nat
      /\ Cardinality(Others) \in Nat /\ Lodged(o) \in Nat
  BY <1>2, FS_CardinalityType DEF Lodged
<1>4. todo \in Seq(Items) /\ commands \in Seq(Kernels \cup Buffers \cup {Queue})
  BY DEF TypeOK
<1>5. Listed(o) \in Nat /\ Occurrences(o, commands) = Listed(o)
  <2>1. Listed(o) \in Nat
    BY <1>4, CallsType DEF Listed
  <2>2. {i \in DOMAIN commands : commands[i] = o} = {i \in DOMAIN commands : commands[i] \in {o}}
    OBVIOUS
  <2>. QED  BY <2>1, <2>2 DEF Listed, Calls, Occurrences
<1>6. /\ Named(o) \in Nat
      /\ Cardinality({i \in Waiting("release") : todo[i].o = o})
         + Cardinality({i \in Waiting("assign") : todo[i].value = o}) = Named(o)
  <2>. DEFINE R == {i \in Waiting("release") : todo[i].o = o}
              A == {i \in Waiting("assign") : todo[i].value = o}
              N == {i \in DOMAIN todo : todo[i] \in Naming(o)}
  <2>1. Named(o) \in Nat /\ IsFiniteSet(N) /\ Named(o) = Cardinality(N)
    BY <1>4, CallsType DEF Named, Calls
  <2>2. \A i \in DOMAIN todo : todo[i] \in Items
    BY <1>4, LenProperties
  <2>3. N = R \cup A
    BY <2>2, NamingFacts DEF Waiting
  <2>4. R \cap A = {}
    BY DEF Waiting
  <2>5. R \subseteq N /\ A \subseteq N
    BY <2>3
  <2>. HIDE DEF R, A, N
  <2>6. IsFiniteSet(R) /\ IsFiniteSet(A)
    BY <2>1, <2>5, FS_Subset
  <2>7. Cardinality(N) = Cardinality(R) + Cardinality(A) - Cardinality({})
    BY <2>3, <2>4, <2>6, FS_Union
  <2>8. Cardinality({}) = 0 /\ Cardinality(R) \in Nat /\ Cardinality(A) \in Nat
    BY <2>6, FS_EmptySet, FS_CardinalityType
  <2>9. Cardinality(R) + Cardinality(A) = Named(o)
    BY <2>1, <2>7, <2>8
  <2>. QED  BY <2>1, <2>9 DEF R, A
<1>7. /\ Cardinality({i \in Waiting("release") : todo[i].o = o}) \in Nat
      /\ Cardinality({i \in Waiting("assign") : todo[i].value = o}) \in Nat
  <2>. DEFINE R == {i \in Waiting("release") : todo[i].o = o}
              A == {i \in Waiting("assign") : todo[i].value = o}
  <2>1. R \subseteq DOMAIN todo /\ A \subseteq DOMAIN todo
    BY DEF Waiting
  <2>2. DOMAIN todo = 1 .. Len(todo) /\ Len(todo) \in Nat
    BY <1>4, LenProperties
  <2>3. IsFiniteSet(DOMAIN todo)
    BY <2>2, FS_Interval
  <2>. HIDE DEF R, A
  <2>4. Cardinality(R) \in Nat /\ Cardinality(A) \in Nat
    BY <2>1, <2>3, FS_Subset, FS_CardinalityType
  <2>. QED  BY <2>4 DEF R, A
<1>. DEFINE r == Cardinality({i \in Waiting("release") : todo[i].o = o})
            a == Cardinality({i \in Waiting("assign") : todo[i].value = o})
            c == Occurrences(o, commands)
            u == IF o \in unreachable THEN 1 ELSE 0
            l == IF o = Context THEN Cardinality(Existing \ ({Context} \cup Kernels)) ELSE 0
<1>8. /\ r \in Nat /\ a \in Nat /\ r + a = Named(o) /\ c = Listed(o)
      /\ u = Count(o \in unreachable) /\ u \in Nat /\ l = Lodged(o)
  BY <1>5, <1>6, <1>7 DEF Count, Lodged, Others
<1>9. Holders(o) = held[o] + c + Cardinality(Made(o)) + Cardinality(Given(o)) + r + a + u + l
  BY DEF Holders, Made, Given
<1>. HIDE DEF r, a, c, u, l
<1>10. Holders(o) = held[o] + Listed(o) + Cardinality(Made(o)) + Cardinality(Given(o)) + Named(o)
                    + Count(o \in unreachable) + Lodged(o)
  BY <1>1, <1>3, <1>5, <1>6, <1>8, <1>9
<1>. QED  BY <1>1, <1>2, <1>3, <1>5, <1>6, <1>10

LEMMA HoldersSumNext == TypeOK' => AddsUp'
BY HoldersSum, PTL

-----------------------------------------------------------------------------
(* Destructors.                                                            *)
LEMMA Pair ==
  ASSUME NEW S, NEW x \in S, NEW y \in S
  PROVE  <<x, y>> = <<x>> \o <<y>>
<1>. DEFINE s == <<x>>
            t == <<y>>
<1>1. /\ s \in Seq(S) /\ t \in Seq(S) /\ Len(s) = 1 /\ Len(t) = 1 /\ DOMAIN s = {1} /\ DOMAIN t = {1}
      /\ s[1] = x /\ t[1] = y
  BY OneFacts
<1>2. /\ s \o t \in Seq(S) /\ Len(s \o t) = 2
      /\ (s \o t)[1] = x /\ (s \o t)[2] = y
  <2>. HIDE DEF s, t
  <2>1. /\ s \o t \in Seq(S) /\ Len(s \o t) = Len(s) + Len(t)
        /\ \A i \in DOMAIN s : (s \o t)[i] = s[i]
        /\ \A i \in DOMAIN t : (s \o t)[i + Len(s)] = t[i]
    BY <1>1, ConcatFacts
  <2>2. (s \o t)[1] = s[1] /\ (s \o t)[1 + 1] = t[1]
    BY <1>1, <2>1
  <2>. QED  BY <1>1, <2>1, <2>2
<1>3. <<x, y>> \in Seq(S) /\ Len(<<x, y>>) = 2 /\ <<x, y>>[1] = x /\ <<x, y>>[2] = y
  OBVIOUS
<1>. DEFINE v == <<x, y>>
            w == s \o t
<1>. HIDE DEF v, w
<1>4. v \in Seq(S) /\ w \in Seq(S) /\ Len(v) = Len(w) /\ Len(v) = 2
  BY <1>2, <1>3 DEF v, w
<1>5. \A i \in 1 .. 2 : v[i] = w[i]
  BY <1>2, <1>3 DEF v, w
<1>6. v = w
  BY <1>4, <1>5, SeqEqual
<1>. QED  BY <1>6 DEF v, w

LEMMA TwoFacts ==
  ASSUME NEW S, NEW x \in S, NEW y \in S, NEW P
  PROVE  /\ <<x, y>> \in Seq(S) /\ Len(<<x, y>>) = 2 /\ ToSet(<<x, y>>) = {x, y}
         /\ <<x, y>>[1] = x /\ <<x, y>>[2] = y
         /\ Calls(P, <<x, y>>) = Count(x \in P) + Count(y \in P)
<1>. DEFINE s == <<x>>
            t == <<y>>
<1>1. /\ s \in Seq(S) /\ t \in Seq(S) /\ Len(s) = 1 /\ Len(t) = 1 /\ DOMAIN s = {1} /\ DOMAIN t = {1}
      /\ s[1] = x /\ t[1] = y /\ ToSet(s) = {x} /\ ToSet(t) = {y}
  BY OneFacts
<1>2. Calls(P, s) = Count(x \in P) /\ Calls(P, t) = Count(y \in P)
  BY CallsOfOne
<1>3. <<x, y>> = s \o t
  BY Pair
<1>4. /\ <<x, y>> \in Seq(S) /\ Len(<<x, y>>) = 2
      /\ <<x, y>>[1] = x /\ <<x, y>>[2] = y
  OBVIOUS
<1>. HIDE DEF s, t
<1>5. ToSet(s \o t) = ToSet(s) \cup ToSet(t) /\ Calls(P, s \o t) = Calls(P, s) + Calls(P, t)
  BY <1>1, ConcatFacts, CallsOfConcat
<1>6. ToSet(s \o t) = {x, y}
  BY <1>1, <1>5
<1>7. ToSet(<<x, y>>) = {x, y}
  BY <1>3, <1>6
<1>. QED  BY <1>2, <1>3, <1>4, <1>5, <1>7

LEMMA LastFacts ==
  ASSUME NEW S, NEW s \in Seq(S), NEW t \in Seq(S), t # <<>>
  PROVE  /\ Len(s \o t) \in Nat \ {0} /\ s \o t # <<>> /\ (s \o t)[Len(s \o t)] = t[Len(t)]
         /\ s # <<>> => Head(s \o t) = Head(s)
<1>. DEFINE u == s \o t
            m == Len(s)
            n == Len(t)
<1>1. /\ u \in Seq(S) /\ Len(u) = m + n /\ m \in Nat /\ n \in Nat /\ DOMAIN t = 1 .. n
      /\ DOMAIN s = 1 .. m
      /\ \A i \in DOMAIN t : u[i + m] = t[i]
      /\ \A i \in DOMAIN s : u[i] = s[i]
  BY ConcatFacts
<1>2. n # 0
  BY EmptySeq
<1>. HIDE DEF u, n
<1>3. n \in DOMAIN t /\ m + n = n + m /\ Len(u) \in Nat \ {0}
  BY <1>1, <1>2
<1>4. u[Len(u)] = t[n]
  BY <1>1, <1>3
<1>5. u # <<>>
  BY <1>3
<1>6. ASSUME s # <<>> PROVE Head(u) = Head(s)
  <2>1. 1 \in DOMAIN s /\ Head(s) = s[1]
    BY <1>6, HeadFacts
  <2>2. Head(u) = u[1]
    BY <1>1, <1>5, HeadFacts
  <2>. QED  BY <1>1, <2>1, <2>2
<1>. QED  BY <1>3, <1>4, <1>5, <1>6 DEF u, n

LEMMA Ending ==
  ASSUME NEW S, NEW s \in Seq(S), NEW x \in S, NEW y \in S, NEW P
  PROVE  LET u == s \o <<x, y>>
         IN  /\ u \in Seq(S) /\ Len(u) \in Nat \ {0} /\ u[Len(u)] = y
             /\ ToSet(u) = ToSet(s) \cup {x, y}
             /\ Calls(P, u) = Calls(P, s) + Count(x \in P) + Count(y \in P)
             /\ s # <<>> => Head(u) = Head(s)
<1>. DEFINE t == <<x, y>>
<1>1. /\ t \in Seq(S) /\ Len(t) = 2 /\ ToSet(t) = {x, y} /\ t[2] = y
      /\ Calls(P, t) = Count(x \in P) + Count(y \in P)
  BY TwoFacts
<1>2. t # <<>>
  OBVIOUS
<1>. HIDE DEF t
<1>3. s \o t \in Seq(S) /\ ToSet(s \o t) = ToSet(s) \cup ToSet(t)
  BY <1>1, ConcatFacts
<1>4. /\ Len(s \o t) \in Nat \ {0} /\ (s \o t)[Len(s \o t)] = t[Len(t)]
      /\ s # <<>> => Head(s \o t) = Head(s)
  <2>1. t \in Seq(S)
    BY <1>1
  <2>. QED  BY ONLY <1>2, <2>1, s \in Seq(S), LastFacts
<1>5. Calls(P, s \o t) = Calls(P, s) + Calls(P, t)
  BY <1>1, CallsOfConcat
<1>6. Calls(P, s) \in Nat
  BY CallsType
<1>7. Calls(P, s \o t) = Calls(P, s) + Count(x \in P) + Count(y \in P)
  BY <1>1, <1>5, <1>6 DEF Count
<1>. QED  BY <1>1, <1>3, <1>4, <1>7 DEF t

-----------------------------------------------------------------------------
(* The inductive invariant.                                                *)

(* About to release a buffer a second time, while setArgument waits.       *)
Lost == todo # <<>> /\ \E b \in Buffers : Head(todo) = Release(b) /\ refs[b] = 0

(* What has references is allocated; what has none is being freed.         *)
LiveInv ==
  \A o \in Objects : /\ refs[o] > 0 => o \in live /\ Free(o) \notin ToSet(todo)
                     /\ o \in live /\ refs[o] = 0 => Free(o) \in ToSet(todo)
                     /\ o \in Kernels /\ refs[o] > 0 => program[o] \in Programs

Balanced(o) == refs[o] + Stolen(o) = Holders(o)
BalanceInv ==
  \A o \in Objects :
    Balanced(o) \/ (Lost /\ Waiting("assign") # {} /\ o \in Buffers /\ refs[o] = 0)

(* A setArgument waits for nothing, or for its old value to be released or *)
(* to end its destructor, right before it.                                 *)
Behind(i) ==
  LET b == argument[todo[i].o]
  IN  i > 1 /\ b \in Buffers /\ (todo[i - 1] = Free(b) \/ (i = 2 /\ todo[1] = Release(b)))

AssignInv ==
  /\ \A i \in Waiting("assign") : i = 1 \/ Behind(i)
  /\ \A i, j \in Waiting("assign") : todo[i].o = todo[j].o => i = j

(* When the application has given up the queue, its release comes last.    *)
FlushInv ==
  held[Queue] = 0 /\ (\E f \in ToSet(todo) : f.op \in {"flush", "endFlush"})
    => todo[Len(todo)] = Release(Queue)

LastInv == held[Queue] = 0 => commands = <<>> \/ todo = <<Flush, Release(Queue)>>

SetInv == \A k \in Kernels \cap ToSet(commands) : argument[k] # Unset

Order == AssignInv /\ FlushInv /\ LastInv /\ SetInv

Books == ~dangling => LiveInv /\ BalanceInv /\ (Lost \/ Order)

Inv == TypeOK /\ MemoryAccounted /\ NoUseAfterDestroy /\ Books

LEMMA DestructorFacts ==
  ASSUME TypeOK, LiveInv, NEW o \in Objects, refs[o] > 0
  PROVE  LET d == Destructor(o)
         IN  /\ d \in Seq(Items) /\ Len(d) \in Nat \ {0} /\ d[Len(d)] = Free(o)
             /\ \A f \in ToSet(d) : /\ f.op \in {"release", "disown", "free", "callback"}
                                    /\ f.op = "free" => f = Free(o)
             /\ Free(o) \in ToSet(d)
             /\ \A x \in Objects : Calls(Naming(x), d) =
                  Count(o \in Kernels /\ argument[o] = x) + Count(o \in Kernels /\ program[o] = x)
                  + Count(o \notin Kernels \cup {Context} /\ x = Context)
             /\ o \in Kernels /\ argument[o] \in Buffers => Head(d) = Release(argument[o])
<1>1. CASE o \in Kernels
  <2>. DEFINE s == IF argument[o] \in Buffers THEN <<Release(argument[o])>> ELSE <<>>
              r == Release(program[o])
              e == Free(o)
              d == s \o <<r, e>>
  <2>1. program[o] \in Objects /\ argument[o] \in Buffers \cup {Unset, Null}
    BY <1>1, Kinds DEF LiveInv, TypeOK, Values
  <2>2. r \in Items /\ e \in Items
    BY <2>1, ItemFacts
  <2>3. /\ s \in Seq(Items)
        /\ \A f \in ToSet(s) : f.op = "release"
        /\ argument[o] \in Buffers => s # <<>> /\ Head(s) = Release(argument[o])
    <3>1. CASE argument[o] \in Buffers
      <4>1. Release(argument[o]) \in Items
        BY <3>1, Kinds, ItemFacts
      <4>. QED  BY <3>1, <4>1, OneFacts, FieldFacts
    <3>2. CASE argument[o] \notin Buffers
      BY <3>2, <2>2, OneFacts
    <3>. QED  BY <3>1, <3>2
  <2>4. ASSUME NEW x \in Objects PROVE Calls(Naming(x), s) = Count(argument[o] = x)
    <3>1. CASE argument[o] \in Buffers
      <4>1. Release(argument[o]) \in Items
        BY <3>1, Kinds, ItemFacts
      <4>2. Calls(Naming(x), s) = Count(Release(argument[o]) \in Naming(x))
        BY <3>1, <4>1, CallsOfOne
      <4>. QED  BY <4>2, NamingFacts
    <3>2. CASE argument[o] \notin Buffers
      <4>1. Calls(Naming(x), s) = 0
        BY <3>2, <2>2, CallsOfOne
      <4>2. argument[o] # x
        BY <2>1, <3>2, Kinds
      <4>. QED  BY <4>1, <4>2 DEF Count
    <3>. QED  BY <3>1, <3>2
  <2>5. Destructor(o) = d
    BY <1>1, Kinds DEF Destructor, KernelDestructor
  <2>. HIDE DEF s, r, e
  <2>6. /\ d \in Seq(Items) /\ Len(d) \in Nat \ {0} /\ d[Len(d)] = e
        /\ ToSet(d) = ToSet(s) \cup {r, e} /\ (s # <<>> => Head(d) = Head(s))
    BY <2>2, <2>3, Ending
  <2>7. ASSUME NEW x \in Objects
        PROVE  Calls(Naming(x), d) = Count(argument[o] = x) + Count(program[o] = x)
    <3>1. Calls(Naming(x), d) = Calls(Naming(x), s) + Count(r \in Naming(x)) + Count(e \in Naming(x))
      BY <2>2, <2>3, Ending
    <3>2. (r \in Naming(x) <=> program[o] = x) /\ e \notin Naming(x)
      BY NamingFacts, FieldFacts DEF r, e
    <3>. QED  BY <2>4, <3>1, <3>2 DEF Count
  <2>8. \A f \in ToSet(d) : /\ f.op \in {"release", "disown", "free", "callback"}
                            /\ f.op = "free" => f = Free(o)
    BY <2>3, <2>6, FieldFacts DEF r, e
  <2>9. Free(o) \in ToSet(d)
    BY <2>6 DEF e
  <2>. HIDE DEF d
  <2>10. \A x \in Objects : Calls(Naming(x), d) =
           Count(o \in Kernels /\ argument[o] = x) + Count(o \in Kernels /\ program[o] = x)
           + Count(o \notin Kernels \cup {Context} /\ x = Context)
    BY <1>1, <2>7 DEF Count
  <2>. QED  BY <1>1, <2>3, <2>5, <2>6, <2>8, <2>9, <2>10 DEF e
<1>. DEFINE r == Release(Context)
            e == Free(o)
<1>2. r \in Items /\ e \in Items
  BY Kinds, ItemFacts
<1>3. ASSUME NEW s \in Seq(Items), o \notin Kernels, o # Context,
             \A f \in ToSet(s) : f.op \in {"disown", "callback"},
             Destructor(o) = s \o <<r, e>>
      PROVE  LET d == Destructor(o)
             IN  /\ d \in Seq(Items) /\ Len(d) \in Nat \ {0} /\ d[Len(d)] = Free(o)
                 /\ \A f \in ToSet(d) : /\ f.op \in {"release", "disown", "free", "callback"}
                                        /\ f.op = "free" => f = Free(o)
                 /\ Free(o) \in ToSet(d)
                 /\ \A x \in Objects : Calls(Naming(x), d) =
                      Count(o \in Kernels /\ argument[o] = x)
                      + Count(o \in Kernels /\ program[o] = x)
                      + Count(o \notin Kernels \cup {Context} /\ x = Context)
  <2>. DEFINE d == s \o <<r, e>>
  <2>. HIDE DEF r, e
  <2>1. /\ d \in Seq(Items) /\ Len(d) \in Nat \ {0} /\ d[Len(d)] = e
        /\ ToSet(d) = ToSet(s) \cup {r, e}
    BY <1>2, Ending
  <2>2. ASSUME NEW x \in Objects PROVE Calls(Naming(x), d) = Count(x = Context)
    <3>1. Calls(Naming(x), d) = Calls(Naming(x), s) + Count(r \in Naming(x)) + Count(e \in Naming(x))
      BY <1>2, Ending
    <3>2. (r \in Naming(x) <=> x = Context) /\ e \notin Naming(x)
      BY NamingFacts, FieldFacts DEF r, e
    <3>3. \A f \in ToSet(s) : f \notin Naming(x)
      BY <1>3, NamingFacts
    <3>4. Calls(Naming(x), s) = 0
      BY <3>3, CallsType
    <3>. QED  BY <3>1, <3>2, <3>4 DEF Count
  <2>3. \A f \in ToSet(d) : /\ f.op \in {"release", "disown", "free", "callback"}
                            /\ f.op = "free" => f = Free(o)
    <3>1. r.op = "release" /\ e.op = "free" /\ e = Free(o)
      BY FieldFacts DEF r, e
    <3>. HIDE DEF d
    <3>. QED  BY <1>3, <2>1, <3>1
  <2>4. Free(o) \in ToSet(d)
    BY <2>1 DEF e
  <2>. HIDE DEF d
  <2>5. \A x \in Objects : Calls(Naming(x), d) =
          Count(o \in Kernels /\ argument[o] = x) + Count(o \in Kernels /\ program[o] = x)
          + Count(o \notin Kernels \cup {Context} /\ x = Context)
    BY <1>3, <2>2 DEF Count
  <2>. QED  BY <1>3, <2>1, <2>3, <2>4, <2>5 DEF d, e
<1>4. CASE o \in Programs
  <2>. DEFINE s == Each(created[o], Disown)
  <2>1. created[o] \in Seq(Kernels)
    BY <1>4 DEF TypeOK
  <2>2. /\ DOMAIN created[o] = 1 .. Len(created[o]) /\ Len(created[o]) \in Nat
        /\ \A i \in DOMAIN created[o] : created[o][i] \in Kernels
    BY <2>1, LenProperties, ElementOfSeq
  <2>3. s = [i \in 1 .. Len(created[o]) |-> Disown(created[o][i])]
    BY <2>2 DEF Each
  <2>4. \A i \in 1 .. Len(created[o]) : Disown(created[o][i]) \in Items
    BY <2>2, Kinds, ItemFacts
  <2>5. s \in Seq(Items)
    <3>1. s \in [1 .. Len(created[o]) -> Items]
      BY <2>3, <2>4
    <3>. HIDE DEF s
    <3>. QED  BY <2>2, <3>1, SeqDef
  <2>6. \A f \in ToSet(s) : f.op \in {"disown", "callback"}
    BY <2>2, <2>3, FieldFacts DEF ToSet
  <2>7. Destructor(o) = s \o <<r, e>>
    BY <1>4, Kinds DEF Destructor, ProgramDestructor
  <2>8. o \notin Kernels /\ o # Context
    BY <1>4, Kinds
  <2>. HIDE DEF s, r, e
  <2>. QED  BY <1>3, <2>5, <2>6, <2>7, <2>8
<1>5. CASE o \in Buffers
  <2>. DEFINE s == [i \in 1 .. callbacks[o] |-> CallBack(o)]
  <2>1. callbacks[o] \in Nat
    BY <1>5, LifetimeAssumption DEF TypeOK
  <2>2. CallBack(o) \in Items
    BY <1>5, ItemFacts
  <2>3. s \in Seq(Items) /\ DOMAIN s = 1 .. callbacks[o]
    <3>1. s \in [1 .. callbacks[o] -> Items]
      BY <2>2
    <3>. HIDE DEF s
    <3>. QED  BY <2>1, <3>1, SeqDef
  <2>4. \A f \in ToSet(s) : f.op \in {"disown", "callback"}
    BY <2>3, FieldFacts DEF ToSet
  <2>5. Destructor(o) = s \o <<r, e>>
    BY <1>5, Kinds DEF Destructor, BufferDestructor
  <2>6. o \notin Kernels /\ o # Context
    BY <1>5, Kinds
  <2>. HIDE DEF s, r, e
  <2>. QED  BY <1>3, <2>3, <2>4, <2>5, <2>6
<1>6. CASE o = Queue
  <2>1. <<>> \in Seq(Items) /\ ToSet(<<>>) = {}
    BY <1>2, OneFacts
  <2>2. o \notin Kernels /\ o # Context /\ o \notin Programs /\ o \notin Buffers
    BY <1>6, Kinds
  <2>3. <<r, e>> = <<>> \o <<r, e>>
    OBVIOUS
  <2>4. Destructor(o) = <<r, e>>
    BY <1>6, <2>2 DEF Destructor, QueueDestructor
  <2>5. Destructor(o) = <<>> \o <<r, e>>
    BY <2>3, <2>4
  <2>. HIDE DEF r, e
  <2>. QED  BY <1>3, <2>1, <2>2, <2>5
<1>7. CASE o = Context
  <2>1. o \notin Kernels /\ o # Queue /\ o \notin Programs /\ o \notin Buffers
    BY <1>7, Kinds
  <2>2. Destructor(o) = <<e>>
    BY <1>7, <2>1 DEF Destructor
  <2>3. /\ <<e>> \in Seq(Items) /\ Len(<<e>>) = 1 /\ <<e>>[1] = e /\ ToSet(<<e>>) = {e}
    BY <1>2, OneFacts
  <2>4. ASSUME NEW x \in Objects PROVE Calls(Naming(x), <<e>>) = 0
    <3>1. e \notin Naming(x)
      BY NamingFacts, FieldFacts
    <3>. QED  BY <1>2, <3>1, CallsOfOne DEF Count
  <2>5. e.op = "free"
    BY FieldFacts
  <2>6. \A x \in Objects : Calls(Naming(x), <<e>>) =
          Count(o \in Kernels /\ argument[o] = x) + Count(o \in Kernels /\ program[o] = x)
          + Count(o \notin Kernels \cup {Context} /\ x = Context)
    BY <1>7, <2>1, <2>4 DEF Count
  <2>. HIDE DEF e
  <2>. QED  BY <1>7, <2>1, <2>2, <2>3, <2>5, <2>6 DEF e
<1>. QED  BY <1>1, <1>4, <1>5, <1>6, <1>7, Kinds DEF Objects

-----------------------------------------------------------------------------
(* The order of what is to do.                                             *)
PendingIn(k, s) == \E f \in ToSet(s) : f.op = "assign" /\ f.o = k

LEMMA PendingFacts ==
  /\ \A k : Pending(k) <=> PendingIn(k, todo)
  /\ Waiting("assign") = {} <=> \A f \in ToSet(todo) : f.op # "assign"
BY DEF Pending, PendingIn, Waiting, ToSet

LEMMA PendingFactsNext ==
  /\ \A k : Pending(k)' <=> PendingIn(k, todo')
  /\ Waiting("assign")' = {} <=> \A f \in ToSet(todo') : f.op # "assign"
BY DEF Pending, PendingIn, Waiting, ToSet

(* Positions in fs \o s, of which k items of s are gone.                   *)
LEMMA Positions ==
  ASSUME NEW fs \in Seq(Items), NEW s \in Seq(Items)
  PROVE  \A i \in DOMAIN (fs \o s) :
           /\ i \in Nat /\ i >= 1
           /\ \/ i <= Len(fs) /\ i \in DOMAIN fs /\ (fs \o s)[i] = fs[i]
              \/ i > Len(fs) /\ i - Len(fs) \in DOMAIN s /\ (fs \o s)[i] = s[i - Len(fs)]
<1>. DEFINE u == fs \o s
            m == Len(fs)
            n == Len(s)
<1>1. /\ m \in Nat /\ n \in Nat /\ DOMAIN fs = 1 .. m /\ DOMAIN s = 1 .. n /\ DOMAIN u = 1 .. m + n
      /\ \A i \in DOMAIN fs : u[i] = fs[i]
      /\ \A i \in DOMAIN s : u[i + m] = s[i]
  BY ConcatFacts
<1>. HIDE DEF u, m, n
<1>2. ASSUME NEW i \in DOMAIN u
      PROVE  /\ i \in Nat /\ i >= 1
             /\ \/ i <= m /\ i \in DOMAIN fs /\ u[i] = fs[i]
                \/ i > m /\ i - m \in DOMAIN s /\ u[i] = s[i - m]
  <2>1. i \in Nat /\ i >= 1 /\ i <= m + n
    BY <1>1
  <2>2. CASE i <= m
    BY <1>1, <2>1, <2>2
  <2>3. CASE i > m
    <3>1. i - m \in DOMAIN s /\ (i - m) + m = i
      BY <1>1, <2>1, <2>3
    <3>. QED  BY <1>1, <2>1, <2>3, <3>1
  <2>. QED  BY <1>1, <2>1, <2>2, <2>3
<1>. QED  BY <1>2 DEF u, m

LEMMA AssignPop ==
  ASSUME TypeOK, AssignInv, todo # <<>>, NEW fs \in Seq(Items),
         \A f \in ToSet(fs) : f.op # "assign",
         todo' = fs \o Tail(todo),
         \A i \in Waiting("assign") : i # 1 => argument'[todo[i].o] = argument[todo[i].o],
         fs = <<>> \/ /\ Head(todo).op # "free"
                      /\ \A b \in Buffers : Head(todo) = Release(b) => fs[Len(fs)] = Free(b)
  PROVE  AssignInv'
<1>. DEFINE m == Len(fs)
            r == Tail(todo)
<1>1. todo \in Seq(Items) /\ r \in Seq(Items) /\ Len(r) = Len(todo) - 1 /\ Len(todo) \in Nat \ {0}
      /\ DOMAIN todo = 1 .. Len(todo) /\ DOMAIN r = 1 .. Len(r) /\ Head(todo) = todo[1]
      /\ \A i \in 1 .. Len(todo) - 1 : r[i] = todo[i + 1]
  BY HeadTailProperties, EmptySeq, LenProperties DEF TypeOK
<1>2. m \in Nat /\ DOMAIN fs = 1 .. m /\ todo' = fs \o r
      /\ DOMAIN todo' = 1 .. m + Len(r)
      /\ \A i \in DOMAIN fs : todo'[i] = fs[i]
  BY <1>1, ConcatFacts
<1>3. \A i \in DOMAIN todo' :
        /\ i \in Nat /\ i >= 1
        /\ \/ i <= m /\ i \in DOMAIN fs /\ todo'[i] = fs[i]
           \/ i > m /\ i - m \in DOMAIN r /\ todo'[i] = r[i - m]
  BY <1>1, <1>2, Positions
<1>. HIDE DEF m, r
<1>4. ASSUME NEW i \in Nat, i > m, i \in DOMAIN todo'
      PROVE  /\ (i - m) + 1 \in DOMAIN todo /\ (i - m) + 1 >= 2
             /\ todo'[i] = todo[(i - m) + 1]
  <2>1. i - m \in DOMAIN r /\ todo'[i] = r[i - m]
    BY <1>2, <1>3, <1>4
  <2>. DEFINE a == i - m
  <2>2. a \in 1 .. Len(todo) - 1
    BY <1>1, <2>1
  <2>. HIDE DEF a
  <2>3. r[a] = todo[a + 1] /\ a + 1 \in DOMAIN todo /\ a + 1 >= 2
    BY <1>1, <2>2
  <2>. QED  BY <2>1, <2>3 DEF a
<1>5. ASSUME NEW i \in Waiting("assign")'
      PROVE  /\ i \in Nat /\ i > m /\ i \in DOMAIN todo'
             /\ (i - m) + 1 \in Waiting("assign") /\ todo'[i] = todo[(i - m) + 1]
             /\ Behind((i - m) + 1)
  <2>1. i \in DOMAIN todo' /\ todo'[i].op = "assign"
    BY DEF Waiting
  <2>2. i \in Nat /\ i > m
    <3>1. CASE i <= m /\ i \in DOMAIN fs /\ todo'[i] = fs[i]
      BY <2>1, <3>1 DEF ToSet
    <3>. QED  BY <1>3, <2>1, <3>1
  <2>3. (i - m) + 1 \in Waiting("assign") /\ todo'[i] = todo[(i - m) + 1]
    BY <1>4, <2>1, <2>2 DEF Waiting
  <2>4. (i - m) + 1 # 1
    BY <1>2, <2>2
  <2>. QED  BY <2>1, <2>2, <2>3, <2>4 DEF AssignInv
<1>6. ASSUME NEW i \in Waiting("assign")' PROVE i = 1 \/ Behind(i)'
  <2>. DEFINE a == (i - m) + 1
              b == argument[todo[a].o]
  <2>1. /\ i \in Nat /\ i > m /\ i \in DOMAIN todo' /\ a \in Waiting("assign")
        /\ todo'[i] = todo[a] /\ Behind(a)
    BY <1>5
  <2>2. /\ a > 1 /\ b \in Buffers
        /\ todo[a - 1] = Free(b) \/ (a = 2 /\ todo[1] = Release(b))
    BY <2>1 DEF Behind
  <2>3. argument'[todo'[i].o] = b
    <3>1. a # 1
      BY <1>2, <2>1, <2>2
    <3>. HIDE DEF a
    <3>. QED  BY <2>1, <3>1
  <2>4. ASSUME i > 1, todo'[i - 1] = Free(b) PROVE Behind(i)'
    BY <2>2, <2>3, <2>4 DEF Behind
  <2>5. CASE a = 2
    <3>1. i = m + 1
      BY <1>2, <2>1, <2>5
    <3>2. CASE fs = <<>>
      <4>1. m = 0
        BY <3>2, EmptySeq DEF m
      <4>. QED  BY <3>1, <4>1
    <3>3. CASE fs # <<>>
      <4>1. Head(todo).op # "free"
        BY <3>3
      <4>2. todo[1] = Release(b)
        BY <1>1, <2>2, <2>5, <4>1, FieldFacts
      <4>3. fs[m] = Free(b)
        BY <1>1, <2>2, <3>3, <4>2 DEF m
      <4>4. m # 0
        BY <3>3, EmptySeq DEF m
      <4>5. i > 1 /\ i - 1 = m /\ m \in DOMAIN fs
        BY <1>2, <3>1, <4>4
      <4>. QED  BY <1>2, <2>4, <4>3, <4>5
    <3>. QED  BY <3>2, <3>3
  <2>6. CASE a # 2
    <3>1. todo[a - 1] = Free(b)
      BY <2>2, <2>6
    <3>2. i - 1 \in Nat /\ i - 1 > m /\ i - 1 \in DOMAIN todo' /\ ((i - 1) - m) + 1 = a - 1 /\ i > 1
      BY <1>1, <1>2, <2>1, <2>2, <2>6
    <3>3. todo'[i - 1] = todo[a - 1]
      BY <1>4, <3>2
    <3>. QED  BY <2>4, <3>1, <3>2, <3>3
  <2>. QED  BY <2>5, <2>6
<1>7. ASSUME NEW i \in Waiting("assign")', NEW j \in Waiting("assign")', todo'[i].o = todo'[j].o
      PROVE  i = j
  <2>. DEFINE a == (i - m) + 1
              c == (j - m) + 1
  <2>1. /\ a \in Waiting("assign") /\ todo'[i] = todo[a]
        /\ c \in Waiting("assign") /\ todo'[j] = todo[c]
    BY <1>5
  <2>. HIDE DEF a, c
  <2>2. a = c
    BY <1>7, <2>1 DEF AssignInv
  <2>3. i \in Nat /\ j \in Nat /\ m \in Nat /\ (i - m) + 1 = (j - m) + 1
    BY <1>2, <1>5, <2>2 DEF a, c
  <2>. QED  BY ONLY <2>3
<1>. QED  BY <1>6, <1>7 DEF AssignInv

LEMMA AssignPush ==
  ASSUME TypeOK, AssignInv, todo = <<>> \/ Head(todo).op = "callback", NEW fs \in Seq(Items),
         \A i \in DOMAIN fs : fs[i].op = "assign" =>
           /\ i = Len(fs) /\ ~Pending(fs[i].o) /\ argument'[fs[i].o] = argument[fs[i].o]
           /\ i = 1 \/ /\ i = 2 /\ argument[fs[i].o] \in Buffers
                       /\ fs[1] = Release(argument[fs[i].o]),
         todo' = fs \o todo,
         \A i \in Waiting("assign") : argument'[todo[i].o] = argument[todo[i].o]
  PROVE  AssignInv'
<1>. DEFINE m == Len(fs)
<1>1. /\ todo \in Seq(Items) /\ m \in Nat /\ DOMAIN fs = 1 .. m /\ DOMAIN todo = 1 .. Len(todo)
      /\ Len(todo) \in Nat /\ DOMAIN todo' = 1 .. m + Len(todo)
      /\ \A i \in DOMAIN fs : todo'[i] = fs[i]
      /\ \A i \in DOMAIN todo : todo'[i + m] = todo[i]
  BY ConcatFacts DEF TypeOK
<1>2. \A i \in DOMAIN todo' :
        /\ i \in Nat /\ i >= 1
        /\ \/ i <= m /\ i \in DOMAIN fs /\ todo'[i] = fs[i]
           \/ i > m /\ i - m \in DOMAIN todo /\ todo'[i] = todo[i - m]
  BY <1>1, Positions
<1>3. 1 \in DOMAIN todo => todo[1].op = "callback"
  BY <1>1, HeadFacts, EmptySeq
<1>. HIDE DEF m
<1>4. ASSUME NEW i \in Waiting("assign")'
      PROVE  /\ i \in DOMAIN todo' /\ i \in Nat /\ todo'[i].op = "assign"
             /\ \/ i = m /\ i \in DOMAIN fs /\ todo'[i] = fs[i] /\ ~Pending(fs[i].o)
                \/ /\ i > m /\ i - m \in Waiting("assign") /\ todo'[i] = todo[i - m]
                   /\ Behind(i - m) /\ Pending(todo'[i].o)
  <2>1. i \in DOMAIN todo' /\ todo'[i].op = "assign" /\ i \in Nat
    BY <1>2 DEF Waiting
  <2>2. CASE i <= m /\ i \in DOMAIN fs /\ todo'[i] = fs[i]
    BY <2>1, <2>2 DEF m
  <2>3. CASE i > m /\ i - m \in DOMAIN todo /\ todo'[i] = todo[i - m]
    <3>1. i - m \in Waiting("assign")
      BY <2>1, <2>3 DEF Waiting
    <3>2. i - m # 1
      BY <1>3, <2>1, <2>3
    <3>3. Pending(todo'[i].o)
      BY <2>3, <3>1 DEF Pending
    <3>. QED  BY <2>1, <2>3, <3>1, <3>2, <3>3 DEF AssignInv
  <2>. QED  BY <1>2, <2>1, <2>2, <2>3
<1>5. ASSUME NEW i \in Waiting("assign")' PROVE i = 1 \/ Behind(i)'
  <2>1. CASE i = m /\ i \in DOMAIN fs /\ todo'[i] = fs[i]
    <3>1. fs[i].op = "assign"
      BY <1>4, <2>1
    <3>2. CASE i = 2 /\ argument[fs[i].o] \in Buffers /\ fs[1] = Release(argument[fs[i].o])
      <4>1. todo'[1] = fs[1] /\ argument'[todo'[i].o] = argument[fs[i].o]
        BY <1>1, <2>1, <3>1, <3>2
      <4>. QED  BY <2>1, <3>2, <4>1 DEF Behind
    <3>. QED  BY <2>1, <3>1, <3>2
  <2>2. CASE i > m /\ i - m \in Waiting("assign") /\ todo'[i] = todo[i - m] /\ Behind(i - m)
    <3>. DEFINE a == i - m
                b == argument[todo[a].o]
    <3>1. a \in DOMAIN todo /\ Behind(a)
      BY <2>2 DEF Waiting
    <3>2. a > 1 /\ b \in Buffers
      BY <2>2 DEF Behind
    <3>3. todo[a - 1] = Free(b) \/ (a = 2 /\ todo[1] = Release(b))
      BY <2>2 DEF Behind
    <3>4. argument'[todo'[i].o] = b
      BY <2>2
    <3>5. /\ DOMAIN todo = 1 .. Len(todo) /\ Len(todo) \in Nat /\ m \in Nat /\ i \in Nat
          /\ a + m = i
      BY <1>1, <1>4
    <3>. HIDE DEF a, b
    <3>6. 1 \in DOMAIN todo /\ a - 1 \in DOMAIN todo /\ (a - 1) + m = i - 1 /\ i > 1
      <4>. DEFINE n == Len(todo)
      <4>1. n \in Nat /\ a \in 1 .. n /\ DOMAIN todo = 1 .. n
        BY <3>1, <3>5
      <4>. HIDE DEF n
      <4>2. a \in Nat /\ 1 \in 1 .. n /\ a - 1 \in 1 .. n
        BY <3>2, <4>1
      <4>3. (a - 1) + m = i - 1 /\ i > 1
        BY <3>2, <3>5, <4>2
      <4>. QED  BY <4>1, <4>2, <4>3
    <3>7. todo[a - 1] = Free(b)
      BY <1>3, <3>3, <3>6, FieldFacts
    <3>8. todo'[i - 1] = todo[a - 1]
      BY <1>1, <3>6
    <3>. QED  BY <3>2, <3>4, <3>6, <3>7, <3>8 DEF Behind
  <2>. QED  BY <1>4, <2>1, <2>2
<1>6. ASSUME NEW i \in Waiting("assign")', NEW j \in Waiting("assign")', todo'[i].o = todo'[j].o
      PROVE  i = j
  <2>1. ASSUME i > m /\ i - m \in Waiting("assign") /\ todo'[i] = todo[i - m],
               j > m /\ j - m \in Waiting("assign") /\ todo'[j] = todo[j - m]
        PROVE  i = j
    <3>1. i - m = j - m
      BY <1>6, <2>1 DEF AssignInv
    <3>2. i \in Nat /\ j \in Nat /\ m \in Nat
      BY <1>1, <1>4
    <3>. QED  BY <3>1, <3>2
  <2>. QED  BY <1>4, <1>6, <2>1
<1>. QED  BY <1>5, <1>6 DEF AssignInv

IsFlush(f) == f.op \in {"flush", "endFlush"}

LEMMA LastPop ==
  ASSUME TypeOK, todo # <<>>, FlushInv, LastInv, held' = held, NEW fs \in Seq(Items),
         (\E f \in ToSet(fs) : IsFlush(f)) => IsFlush(Head(todo)),
         todo' = fs \o Tail(todo),
         commands' = <<>> \/ (commands' = commands /\ todo # <<Flush, Release(Queue)>>)
  PROVE  FlushInv' /\ LastInv'
<1>1. /\ todo \in Seq(Items) /\ Tail(todo) \in Seq(Items) /\ Head(todo) \in Items
      /\ ToSet(todo) = {Head(todo)} \cup ToSet(Tail(todo)) /\ <<Head(todo)>> \in Seq(Items)
      /\ todo = <<Head(todo)>> \o Tail(todo)
  <2>1. todo \in Seq(Items)
    BY DEF TypeOK
  <2>2. /\ Tail(todo) \in Seq(Items) /\ Head(todo) \in Items
        /\ ToSet(todo) = {Head(todo)} \cup ToSet(Tail(todo)) /\ todo = <<Head(todo)>> \o Tail(todo)
    BY <2>1, HeadFacts
  <2>3. <<Head(todo)>> \in Seq(Items)
    BY <2>2, OneFacts
  <2>. QED  BY <2>1, <2>2, <2>3
<1>2. ToSet(todo') = ToSet(fs) \cup ToSet(Tail(todo))
  <2>. DEFINE r == Tail(todo)
  <2>1. r \in Seq(Items) /\ todo' = fs \o r
    BY <1>1
  <2>. HIDE DEF r
  <2>2. ToSet(fs \o r) = ToSet(fs) \cup ToSet(r)
    BY <2>1, ConcatFacts
  <2>3. ToSet(todo') = ToSet(fs) \cup ToSet(r)
    BY <2>1, <2>2
  <2>. QED  BY <2>3 DEF r
<1>3. ASSUME held[Queue] = 0, NEW f \in ToSet(todo'), IsFlush(f)
      PROVE  todo'[Len(todo')] = Release(Queue)
  <2>1. \E g \in ToSet(todo) : IsFlush(g)
    BY <1>1, <1>2, <1>3
  <2>2. todo[Len(todo)] = Release(Queue)
    BY <1>3, <2>1 DEF FlushInv, IsFlush
  <2>3. Tail(todo) # <<>>
    <3>1. ASSUME Tail(todo) = <<>> PROVE FALSE
      <4>1. ToSet(todo) = {Head(todo)}
        BY <1>1, <3>1, OneFacts
      <4>2. IsFlush(Head(todo))
        BY <2>1, <4>1
      <4>3. Len(todo) = 1
        <5>1. Len(Tail(todo)) = Len(todo) - 1 /\ Len(todo) \in Nat
          BY <1>1, HeadTailProperties, LenProperties
        <5>2. Len(Tail(todo)) = 0
          BY <3>1, EmptySeq
        <5>. DEFINE m == Len(Tail(todo))
                    n == Len(todo)
        <5>3. m = n - 1 /\ n \in Nat /\ m = 0
          BY <5>1, <5>2
        <5>. HIDE DEF m, n
        <5>4. n = 1
          BY <5>3
        <5>. QED  BY <5>4 DEF n
      <4>4. Head(todo) = Release(Queue)
        BY <1>1, <2>2, <4>3, HeadFacts
      <4>. QED  BY <4>2, <4>4, FieldFacts DEF IsFlush
    <3>. QED  BY <3>1
  <2>. DEFINE h == <<Head(todo)>>
              r == Tail(todo)
  <2>4. h \in Seq(Items) /\ r \in Seq(Items) /\ r # <<>> /\ todo = h \o r /\ todo' = fs \o r
    BY <1>1, <2>3
  <2>. HIDE DEF h, r
  <2>5. todo[Len(todo)] = r[Len(r)]
    BY <2>4, LastFacts
  <2>6. todo'[Len(todo')] = r[Len(r)]
    BY <2>4, LastFacts
  <2>. QED  BY <2>2, <2>5, <2>6
<1>4. ASSUME held[Queue] = 0, commands' # <<>> PROVE FALSE
  BY <1>4 DEF LastInv
<1>5. FlushInv'
  BY <1>3 DEF FlushInv, IsFlush
<1>6. LastInv'
  BY <1>4 DEF LastInv
<1>. QED  BY <1>5, <1>6

LEMMA LastPush ==
  ASSUME TypeOK, AppMay, FlushInv, LastInv, held'[Queue] = 0 => held[Queue] = 0,
         NEW fs \in Seq(Items), todo' = fs \o todo,
         held[Queue] = 0 => commands' = commands /\ \A f \in ToSet(fs) : ~IsFlush(f)
  PROVE  FlushInv' /\ LastInv'
<1>1. /\ todo \in Seq(Items) /\ (todo # <<>> => Head(todo).op = "callback")
      /\ ToSet(todo') = ToSet(fs) \cup ToSet(todo)
  <2>1. todo \in Seq(Items)
    BY DEF TypeOK
  <2>. QED  BY <2>1, ConcatFacts DEF AppMay, Now
<1>2. ASSUME held'[Queue] = 0, NEW f \in ToSet(todo'), IsFlush(f)
      PROVE  todo'[Len(todo')] = Release(Queue)
  <2>1. held[Queue] = 0 /\ f \in ToSet(todo)
    BY <1>1, <1>2
  <2>2. todo[Len(todo)] = Release(Queue)
    BY <1>2, <2>1 DEF FlushInv, IsFlush
  <2>3. todo # <<>>
    BY <2>1, ItemFacts, OneFacts
  <2>. QED  BY <1>1, <2>2, <2>3, LastFacts
<1>3. ASSUME held'[Queue] = 0, commands' # <<>> PROVE FALSE
  <2>1. todo = <<Flush, Release(Queue)>>
    BY <1>3 DEF LastInv
  <2>2. Head(todo) = Flush /\ todo # <<>>
    BY <2>1
  <2>. QED  BY <1>1, <2>2, FieldFacts
<1>4. FlushInv'
  BY <1>2 DEF FlushInv, IsFlush
<1>5. LastInv'
  BY <1>3 DEF LastInv
<1>. QED  BY <1>4, <1>5

-----------------------------------------------------------------------------
(* The memory in use.                                                      *)
Bytes(E, sz) == UNION {{b} \X (1 .. sz[b]) : b \in E}

LEMMA BytesOfOne ==
  \A e, m : m \in Nat => IsFiniteSet({e} \X (1 .. m)) /\ Cardinality({e} \X (1 .. m)) = m
<1>. SUFFICES ASSUME NEW e, NEW m \in Nat
     PROVE  IsFiniteSet({e} \X (1 .. m)) /\ Cardinality({e} \X (1 .. m)) = m
  OBVIOUS
<1>1. IsFiniteSet({e}) /\ Cardinality({e}) = 1
  BY FS_Singleton
<1>2. IsFiniteSet(1 .. m) /\ Cardinality(1 .. m) = m
  BY FS_Interval
<1>3. /\ IsFiniteSet({e} \X (1 .. m))
      /\ Cardinality({e} \X (1 .. m)) = Cardinality({e}) * Cardinality(1 .. m)
  BY <1>1, <1>2, FS_Product
<1>. QED  BY <1>1, <1>2, <1>3

LEMMA BytesType ==
  ASSUME NEW E, IsFiniteSet(E)
  PROVE  \A sz : (\A e \in E : sz[e] \in Nat)
           => IsFiniteSet(Bytes(E, sz)) /\ Cardinality(Bytes(E, sz)) \in Nat
<1>. SUFFICES ASSUME NEW sz, \A e \in E : sz[e] \in Nat
     PROVE  IsFiniteSet(Bytes(E, sz)) /\ Cardinality(Bytes(E, sz)) \in Nat
  OBVIOUS
<1>. DEFINE F == {{e} \X (1 .. sz[e]) : e \in E}
<1>1. IsFiniteSet(F)
  <2>. DEFINE map == [e \in E |-> {e} \X (1 .. sz[e])]
  <2>1. map \in Surjection(E, F)
    BY DEF Surjection
  <2>. HIDE DEF map, F
  <2>. QED  BY <2>1, FS_Surjection
<1>2. ASSUME NEW S \in F PROVE IsFiniteSet(S)
  <2>1. PICK e \in E : S = {e} \X (1 .. sz[e])
    OBVIOUS
  <2>2. sz[e] \in Nat
    OBVIOUS
  <2>. DEFINE m == sz[e]
  <2>. HIDE DEF m
  <2>3. S = {e} \X (1 .. m) /\ m \in Nat
    BY <2>1, <2>2 DEF m
  <2>. QED  BY <2>3, BytesOfOne
<1>3. Bytes(E, sz) = UNION F
  BY DEF Bytes
<1>4. IsFiniteSet(Bytes(E, sz))
  <2>. HIDE DEF F
  <2>. QED  BY <1>1, <1>2, <1>3, FS_UNION
<1>. QED  BY <1>4, FS_CardinalityType

LEMMA BytesGrow ==
  ASSUME NEW E, IsFiniteSet(E), NEW b, b \notin E
  PROVE  \A sz, tz : /\ \A e \in E : sz[e] \in Nat /\ tz[e] = sz[e]
                    /\ tz[b] \in Nat
           => Cardinality(Bytes(E \cup {b}, tz)) = Cardinality(Bytes(E, sz)) + tz[b]
<1>. SUFFICES ASSUME NEW sz, NEW tz, \A e \in E : sz[e] \in Nat /\ tz[e] = sz[e], tz[b] \in Nat
     PROVE  Cardinality(Bytes(E \cup {b}, tz)) = Cardinality(Bytes(E, sz)) + tz[b]
  OBVIOUS
<1>. DEFINE n == tz[b]
            B == {b} \X (1 .. n)
            D == Bytes(E, sz)
<1>1. n \in Nat
  OBVIOUS
<1>2. Bytes(E \cup {b}, tz) = D \cup B
  BY DEF Bytes
<1>3. D \cap B = {}
  BY DEF Bytes
<1>4. IsFiniteSet(D) /\ Cardinality(D) \in Nat
  BY BytesType
<1>. HIDE DEF n
<1>5. IsFiniteSet(B) /\ Cardinality(B) = n
  BY <1>1, BytesOfOne
<1>. HIDE DEF B, D
<1>6. Cardinality(D \cup B) = Cardinality(D) + Cardinality(B) - Cardinality({})
  BY <1>3, <1>4, <1>5, FS_Union
<1>7. Cardinality({}) = 0
  BY FS_EmptySet
<1>8. Cardinality(D \cup B) = Cardinality(D) + n
  BY <1>1, <1>4, <1>5, <1>6, <1>7
<1>. QED  BY <1>2, <1>8 DEF n, D

-----------------------------------------------------------------------------
(* Steps after which nothing dangles.                                      *)

(* A state from which a step can go on to states of interest.              *)
Good ==
  /\ TypeOK /\ MemoryAccounted /\ ~dangling
  /\ LiveInv /\ (\A o \in Objects : Balanced(o)) /\ Order /\ ~Lost

LEMMA SumAt ==
  ASSUME TypeOK, TypeOK', NEW x \in Objects
  PROVE  /\ held[x] \in Nat /\ Listed(x) \in Nat /\ Cardinality(Made(x)) \in Nat
         /\ Cardinality(Given(x)) \in Nat /\ Named(x) \in Nat /\ Lodged(x) \in Nat
         /\ refs[x] \in Nat /\ Stolen(x) \in Nat
         /\ Holders(x) = held[x] + Listed(x) + Cardinality(Made(x)) + Cardinality(Given(x)) + Named(x)
                         + Count(x \in unreachable) + Lodged(x)
         /\ held'[x] \in Nat /\ Listed(x)' \in Nat /\ Cardinality(Made(x)') \in Nat
         /\ Cardinality(Given(x)') \in Nat /\ Named(x)' \in Nat /\ Lodged(x)' \in Nat
         /\ refs'[x] \in Nat /\ Stolen(x)' \in Nat
         /\ Holders(x)' = held'[x] + Listed(x)' + Cardinality(Made(x)') + Cardinality(Given(x)')
                          + Named(x)' + Count(x \in unreachable') + Lodged(x)'
         /\ IsFiniteSet(Made(x)) /\ IsFiniteSet(Given(x)) /\ IsFiniteSet(Others)
<1>1. AddsUp
  BY HoldersSum
<1>2. AddsUp'
  BY HoldersSumNext
<1>. QED  BY <1>1, <1>2 DEF AddsUp

LEMMA Assemble ==
  ASSUME TypeOK', MemoryAccounted', ~dangling', LiveInv', BalanceInv', Order'
  PROVE  Inv'
BY DEF Inv, NoUseAfterDestroy, Books

LEMMA MemoryIs == MemoryAccounted <=> used = Cardinality(Bytes(Buffers \cap Existing, size))
BY DEF MemoryAccounted, Bytes

LEMMA MemoryIsNext ==
  MemoryAccounted' <=> used' = Cardinality(Bytes(Buffers \cap Existing', size'))
BY DEF MemoryAccounted, Bytes

LEMMA HeadOfTodo ==
  ASSUME TypeOK, todo # <<>>
  PROVE  /\ todo \in Seq(Items) /\ Head(todo) \in Items /\ Tail(todo) \in Seq(Items)
         /\ ToSet(todo) = {Head(todo)} \cup ToSet(Tail(todo))
         /\ Head(todo).o \in Objects
         /\ \A P : Calls(P, todo) = Count(Head(todo) \in P) + Calls(P, Tail(todo))
         /\ \A P : Calls(P, Tail(todo)) \in Nat
<1>1. todo \in Seq(Items)
  BY DEF TypeOK
<1>2. /\ Head(todo) \in Items /\ Tail(todo) \in Seq(Items)
      /\ ToSet(todo) = {Head(todo)} \cup ToSet(Tail(todo))
      /\ todo = <<Head(todo)>> \o Tail(todo)
  BY <1>1, HeadFacts
<1>3. Head(todo).o \in Objects
  BY <1>2, ItemFacts, Kinds
<1>. DEFINE h == <<Head(todo)>>
            r == Tail(todo)
<1>4. h \in Seq(Items) /\ r \in Seq(Items) /\ todo = h \o r
  BY <1>2, OneFacts
<1>5. ASSUME NEW P PROVE Calls(P, h) = Count(Head(todo) \in P)
  BY <1>2, CallsOfOne
<1>. HIDE DEF h, r
<1>6. ASSUME NEW P PROVE Calls(P, todo) = Calls(P, h) + Calls(P, r)
  BY <1>4, CallsOfConcat
<1>7. ASSUME NEW P PROVE Calls(P, r) \in Nat
  BY <1>4, CallsType
<1>. QED  BY <1>1, <1>2, <1>3, <1>5, <1>6, <1>7 DEF r

(* The accounts that few steps touch stay the same.                        *)
LEMMA Ledger ==
  ASSUME TypeOK, TypeOK', NEW x \in Objects, Balanced(x),
         Made(x)' = Made(x), Lodged(x)' = Lodged(x), unreachable' = unreachable,
         Stolen(x)' = Stolen(x),
         refs'[x] + (held[x] + Listed(x) + Named(x) + Cardinality(Given(x)))
           = refs[x] + (held'[x] + Listed(x)' + Named(x)' + Cardinality(Given(x)'))
  PROVE  Balanced(x)'
<1>1. /\ held[x] \in Nat /\ Listed(x) \in Nat /\ Cardinality(Made(x)) \in Nat
      /\ Cardinality(Given(x)) \in Nat /\ Named(x) \in Nat /\ Lodged(x) \in Nat
      /\ refs[x] \in Nat /\ Stolen(x) \in Nat
      /\ Holders(x) = held[x] + Listed(x) + Cardinality(Made(x)) + Cardinality(Given(x)) + Named(x)
                      + Count(x \in unreachable) + Lodged(x)
      /\ held'[x] \in Nat /\ Listed(x)' \in Nat /\ Cardinality(Made(x)') \in Nat
      /\ Cardinality(Given(x)') \in Nat /\ Named(x)' \in Nat /\ Lodged(x)' \in Nat
      /\ refs'[x] \in Nat /\ Stolen(x)' \in Nat
      /\ Holders(x)' = held'[x] + Listed(x)' + Cardinality(Made(x)') + Cardinality(Given(x)')
                       + Named(x)' + Count(x \in unreachable') + Lodged(x)'
  BY SumAt
<1>. DEFINE r1 == refs[x]
            r2 == refs'[x]
            h1 == held[x]
            h2 == held'[x]
            i1 == Listed(x)
            i2 == Listed(x)'
            n1 == Named(x)
            n2 == Named(x)'
            g1 == Cardinality(Given(x))
            g2 == Cardinality(Given(x)')
            m == Cardinality(Made(x))
            u == Count(x \in unreachable)
            l == Lodged(x)
            s == Stolen(x)
            t1 == Holders(x)
            t2 == Holders(x)'
<1>2. /\ r1 \in Nat /\ h1 \in Nat /\ i1 \in Nat /\ n1 \in Nat /\ g1 \in Nat
      /\ r2 \in Nat /\ h2 \in Nat /\ i2 \in Nat /\ n2 \in Nat /\ g2 \in Nat
      /\ m \in Nat /\ u \in Nat /\ l \in Nat /\ s \in Nat
  BY <1>1, CountType
<1>3. /\ t1 = h1 + i1 + m + g1 + n1 + u + l
      /\ t2 = h2 + i2 + m + g2 + n2 + u + l
      /\ r1 + s = t1
      /\ r2 + (h1 + i1 + n1 + g1) = r1 + (h2 + i2 + n2 + g2)
  BY <1>1 DEF Balanced
<1>. HIDE DEF r1, r2, h1, h2, i1, i2, n1, n2, g1, g2, m, u, l, s, t1, t2
<1>4. r2 + s = t2
  BY ONLY <1>2, <1>3
<1>. QED  BY <1>4 DEF Balanced, r2, s, t2

LEMMA GiveUpStep ==
  ASSUME Good, todo # <<>>, Head(todo).op \in {"release", "disown"}, Usable(Head(todo).o),
         GiveUp(Head(todo).o), UNCHANGED <<live, graph, commands, held, calls, unreachable, dangling>>,
         stolen' = IF Head(todo).op = "disown" THEN [stolen EXCEPT ![Head(todo).o] = @ + 1]
                                               ELSE stolen
  PROVE  Inv'
<1>. DEFINE o == Head(todo).o
            r == Tail(todo)
            fs == IF refs[o] = 1 THEN Destructor(o) ELSE <<>>
<1>1. /\ TypeOK /\ MemoryAccounted /\ ~dangling /\ LiveInv /\ Order /\ ~Lost
      /\ \A x \in Objects : Balanced(x)
  BY DEF Good
<1>2. /\ todo \in Seq(Items) /\ Head(todo) \in Items /\ r \in Seq(Items)
      /\ ToSet(todo) = {Head(todo)} \cup ToSet(r) /\ o \in Objects
      /\ \A P : Calls(P, todo) = Count(Head(todo) \in P) + Calls(P, r)
      /\ \A P : Calls(P, r) \in Nat
  BY <1>1, HeadOfTodo
<1>3. /\ refs[o] \in Nat /\ refs[o] > 0 /\ o \in live
      /\ Head(todo).op = "disown" => o \in Kernels
  BY <1>1, <1>2, ItemFacts DEF Usable, TypeOK
<1>4. /\ refs' = [refs EXCEPT ![o] = @ - 1] /\ todo' = fs \o r
      /\ used' = IF refs[o] = 1 /\ o \in Buffers THEN used - size[o] ELSE used
  BY DEF GiveUp, Then
<1>5. /\ live' = live /\ program' = program /\ created' = created /\ argument' = argument
      /\ callbacks' = callbacks /\ size' = size /\ commands' = commands /\ held' = held
      /\ calls' = calls /\ unreachable' = unreachable /\ dangling' = dangling
  BY DEF graph
<1>. HIDE DEF o, r
<1>6. refs[o] = 1 =>
        /\ Destructor(o) \in Seq(Items) /\ Len(Destructor(o)) \in Nat \ {0}
        /\ Destructor(o)[Len(Destructor(o))] = Free(o)
        /\ \A f \in ToSet(Destructor(o)) : /\ f.op \in {"release", "disown", "free", "callback"}
                                           /\ f.op = "free" => f = Free(o)
        /\ Free(o) \in ToSet(Destructor(o))
        /\ \A x \in Objects : Calls(Naming(x), Destructor(o)) =
             Count(o \in Kernels /\ argument[o] = x) + Count(o \in Kernels /\ program[o] = x)
             + Count(o \notin Kernels \cup {Context} /\ x = Context)
        /\ o \in Kernels /\ argument[o] \in Buffers => Head(Destructor(o)) = Release(argument[o])
  BY <1>1, <1>2, <1>3, DestructorFacts
<1>7. /\ fs \in Seq(Items)
      /\ \A f \in ToSet(fs) : /\ f.op \in {"release", "disown", "free", "callback"}
                              /\ f.op = "free" => f = Free(o)
      /\ refs[o] = 1 => fs # <<>> /\ fs[Len(fs)] = Free(o) /\ Free(o) \in ToSet(fs)
      /\ refs[o] # 1 => fs = <<>> /\ ToSet(fs) = {} /\ \A P : Calls(P, fs) = 0
  <2>1. CASE refs[o] = 1
    BY <1>6, <2>1, EmptySeq
  <2>2. CASE refs[o] # 1
    BY <1>2, <2>2, OneFacts, CallsOfOne
  <2>. QED  BY <2>1, <2>2
<1>8. ASSUME NEW x \in Objects, refs[o] = 1
      PROVE  Calls(Naming(x), fs) =
               Count(o \in Kernels /\ argument[o] = x) + Count(o \in Kernels /\ program[o] = x)
               + Count(o \notin Kernels \cup {Context} /\ x = Context)
  BY <1>6, <1>8
<1>9. refs[o] = 1 /\ o \in Kernels /\ argument[o] \in Buffers => Head(fs) = Release(argument[o])
  BY <1>6
<1>. HIDE DEF fs
<1>10. /\ todo' \in Seq(Items) /\ ToSet(todo') = ToSet(fs) \cup ToSet(r)
       /\ \A P : Calls(P, todo') = Calls(P, fs) + Calls(P, r)
  BY <1>2, <1>4, <1>7, ConcatFacts, CallsOfConcat
<1>11. /\ refs' \in [Objects -> Nat] /\ refs'[o] = refs[o] - 1
       /\ \A x \in Objects : x # o => refs'[x] = refs[x]
  BY <1>1, <1>2, <1>3, <1>4 DEF TypeOK
<1>12. /\ refs[o] = 1 => Existing' = Existing \ {o} /\ o \in Existing
       /\ refs[o] # 1 => Existing' = Existing
  <2>1. live \subseteq Objects
    BY <1>1 DEF TypeOK
  <2>2. refs[o] = 1 => refs'[o] = 0
    BY <1>11
  <2>3. refs[o] # 1 => refs'[o] > 0
    BY <1>3, <1>11
  <2>4. \A x \in live : x \in Existing' <=> refs'[x] > 0
    BY <1>5 DEF Existing
  <2>. QED  BY <1>3, <1>5, <1>11, <2>1, <2>2, <2>3, <2>4 DEF Existing
<1>13. MemoryAccounted' /\ used' \in Nat /\ used' <= used
  <2>. DEFINE E == Buffers \cap Existing'
  <2>1. used = Cardinality(Bytes(Buffers \cap Existing, size)) /\ used \in Nat
        /\ \A b \in Buffers : size[b] \in Nat
    <3>1. used = Cardinality(Bytes(Buffers \cap Existing, size))
      BY <1>1, MemoryIs
    <3>2. used \in Nat
      BY <1>1, LifetimeAssumption DEF TypeOK
    <3>3. \A b \in Buffers : size[b] \in Nat
      <4>1. size \in [Buffers -> Sizes \cup {0}]
        BY <1>1 DEF TypeOK
      <4>2. Sizes \cup {0} \subseteq Nat
        BY LifetimeAssumption
      <4>. QED  BY <4>1, <4>2
    <3>. QED  BY <3>1, <3>2, <3>3
  <2>2. CASE refs[o] = 1 /\ o \in Buffers
    <3>1. Buffers \cap Existing = E \cup {o} /\ o \notin E /\ E \subseteq Buffers
      BY <1>12, <2>2
    <3>2. IsFiniteSet(E)
      BY <3>1, Kinds, FS_Subset
    <3>. HIDE DEF E
    <3>3. \A e \in E : size[e] \in Nat
      BY <2>1, <3>1
    <3>. DEFINE n == size[o]
                c == Cardinality(Bytes(E, size))
    <3>4. n \in Nat /\ size[o] = n
      BY <2>1, <2>2
    <3>5. c \in Nat /\ Cardinality(Bytes(E \cup {o}, size)) = c + n
      <4>. DEFINE sz == size
      <4>1. (\A e \in E : sz[e] \in Nat) /\ sz[o] \in Nat
        BY <3>3, <3>4
      <4>. HIDE DEF sz
      <4>2. Cardinality(Bytes(E, sz)) \in Nat
        BY ONLY <3>2, <4>1, BytesType
      <4>3. o \notin E
        BY <3>1
      <4>4. Cardinality(Bytes(E \cup {o}, sz)) = Cardinality(Bytes(E, sz)) + sz[o]
        BY ONLY <3>2, <4>1, <4>3, BytesGrow
      <4>. QED  BY <4>2, <4>4 DEF sz
    <3>. HIDE DEF c, n
    <3>6. used = c + n /\ used' = used - n
      BY <1>4, <2>1, <2>2, <3>1, <3>4, <3>5
    <3>7. used' = c /\ used' <= used
      BY <3>4, <3>5, <3>6
    <3>. QED  BY <1>5, <3>5, <3>7, MemoryIsNext DEF E, c
  <2>3. CASE ~(refs[o] = 1 /\ o \in Buffers)
    <3>1. Buffers \cap Existing' = Buffers \cap Existing
      BY <1>12, <2>3
    <3>2. used' = used
      BY <1>4, <2>3
    <3>3. used' = Cardinality(Bytes(Buffers \cap Existing', size'))
      BY <1>5, <2>1, <3>1, <3>2
    <3>. QED  BY <2>1, <3>2, <3>3, MemoryIsNext
  <2>. QED  BY <2>2, <2>3
<1>14. stolen' \in [Kernels -> Nat]
       /\ \A x \in Objects : Stolen(x)' = Stolen(x) + Count(Head(todo).op = "disown" /\ x = o)
  <2>1. stolen \in [Kernels -> Nat]
    BY <1>1 DEF TypeOK
  <2>2. CASE Head(todo).op = "disown"
    <3>1. stolen' = [stolen EXCEPT ![o] = @ + 1] /\ o \in Kernels
      BY <1>3, <2>2 DEF o
    <3>. QED  BY <2>1, <2>2, <3>1 DEF Stolen, Count
  <2>3. CASE Head(todo).op # "disown"
    <3>1. stolen' = stolen
      BY <2>3
    <3>. QED  BY <2>1, <2>3, <3>1 DEF Stolen, Count
  <2>. QED  BY <2>2, <2>3
<1>15. TypeOK'
  <2>1. used' \in 0 .. GlobalMemory
    BY <1>1, <1>13, LifetimeAssumption DEF TypeOK
  <2>. QED  BY <1>1, <1>5, <1>10, <1>11, <1>14, <2>1 DEF TypeOK
<1>16. LiveInv'
  <2>. SUFFICES ASSUME NEW x \in Objects
       PROVE  /\ refs'[x] > 0 => x \in live' /\ Free(x) \notin ToSet(todo')
              /\ x \in live' /\ refs'[x] = 0 => Free(x) \in ToSet(todo')
              /\ x \in Kernels /\ refs'[x] > 0 => program'[x] \in Programs
    BY DEF LiveInv
  <2>1. /\ refs[x] > 0 => x \in live /\ Free(x) \notin ToSet(todo)
        /\ x \in live /\ refs[x] = 0 => Free(x) \in ToSet(todo)
        /\ x \in Kernels /\ refs[x] > 0 => program[x] \in Programs
    BY <1>1 DEF LiveInv
  <2>2. refs[x] \in Nat /\ refs'[x] \in Nat /\ (refs'[x] > 0 => refs[x] > 0)
    BY <1>1, <1>3, <1>11 DEF TypeOK
  <2>3. ASSUME refs'[x] > 0 PROVE Free(x) \notin ToSet(todo')
    <3>1. Free(x) \notin ToSet(r)
      BY <1>2, <2>1, <2>2, <2>3
    <3>2. ASSUME Free(x) \in ToSet(fs) PROVE FALSE
      <4>1. Free(x) = Free(o) /\ refs[o] = 1
        BY <1>7, <3>2, FieldFacts
      <4>2. x = o
        BY <4>1, FieldFacts
      <4>. QED  BY <1>11, <2>3, <4>1, <4>2
    <3>. QED  BY <1>10, <3>1, <3>2
  <2>4. ASSUME x \in live', refs'[x] = 0 PROVE Free(x) \in ToSet(todo')
    <3>1. CASE x = o
      <4>1. refs[o] = 1
        BY <1>3, <1>11, <2>4, <3>1
      <4>. QED  BY <1>7, <1>10, <3>1, <4>1
    <3>2. CASE x # o
      <4>1. Free(x) \in ToSet(todo)
        BY <1>5, <1>11, <2>1, <2>4, <3>2
      <4>2. Free(x) # Head(todo)
        BY FieldFacts
      <4>. QED  BY <1>2, <1>10, <4>1, <4>2
    <3>. QED  BY <3>1, <3>2
  <2>. QED  BY <1>5, <2>1, <2>2, <2>3, <2>4
<1>17. /\ \A k : Pending(k)' <=> Pending(k)
       /\ Waiting("assign")' = {} <=> Waiting("assign") = {}
  <2>1. \A f \in ToSet(fs) : f.op # "assign"
    BY <1>7
  <2>2. Head(todo).op # "assign"
    OBVIOUS
  <2>3. ASSUME NEW f, f.op = "assign" PROVE f \in ToSet(todo') <=> f \in ToSet(todo)
    BY <1>2, <1>10, <2>1, <2>2, <2>3
  <2>4. ASSUME NEW k PROVE PendingIn(k, todo') <=> PendingIn(k, todo)
    BY <2>3 DEF PendingIn
  <2>. QED  BY <2>3, <2>4, PendingFacts, PendingFactsNext
<1>18. Order'
  <2>1. \A f \in ToSet(fs) : f.op # "assign" /\ ~IsFlush(f)
    BY <1>7 DEF IsFlush
  <2>2. fs = <<>> \/ /\ Head(todo).op # "free"
                     /\ \A b \in Buffers : Head(todo) = Release(b) => fs[Len(fs)] = Free(b)
    BY <1>7, FieldFacts DEF o
  <2>3. AssignInv /\ FlushInv /\ LastInv /\ SetInv
    BY <1>1 DEF Order
  <2>4. todo' = fs \o Tail(todo)
    BY <1>4 DEF r
  <2>5. AssignInv'
    BY <1>1, <1>5, <1>7, <2>1, <2>2, <2>3, <2>4, AssignPop
  <2>6. FlushInv' /\ LastInv'
    <3>1. todo # <<Flush, Release(Queue)>>
      BY FieldFacts
    <3>. QED  BY <1>1, <1>5, <1>7, <2>1, <2>3, <2>4, <3>1, LastPop
  <2>7. SetInv'
    BY <1>5, <2>3 DEF SetInv
  <2>. QED  BY <2>5, <2>6, <2>7 DEF Order
<1>19. BalanceInv'
  <2>. SUFFICES ASSUME NEW x \in Objects
       PROVE  Balanced(x)' \/ (Lost' /\ Waiting("assign")' # {} /\ x \in Buffers /\ refs'[x] = 0)
    BY DEF BalanceInv
  <2>. DEFINE released == Head(todo).op = "release" /\ x = o
              disowned == Head(todo).op = "disown" /\ x = o
              given == o \in Kernels /\ argument[o] = x
              kept == given /\ ~Pending(o)
              made == o \in Kernels /\ program[o] = x
              lodged == o \notin Kernels \cup {Context} /\ x = Context
  <2>1. /\ held[x] \in Nat /\ Listed(x) \in Nat /\ Cardinality(Made(x)) \in Nat
        /\ Cardinality(Given(x)) \in Nat /\ Named(x) \in Nat /\ Lodged(x) \in Nat
        /\ refs[x] \in Nat /\ Stolen(x) \in Nat
        /\ Holders(x) = held[x] + Listed(x) + Cardinality(Made(x)) + Cardinality(Given(x)) + Named(x)
                        + Count(x \in unreachable) + Lodged(x)
        /\ held'[x] \in Nat /\ Listed(x)' \in Nat /\ Cardinality(Made(x)') \in Nat
        /\ Cardinality(Given(x)') \in Nat /\ Named(x)' \in Nat /\ Lodged(x)' \in Nat
        /\ refs'[x] \in Nat /\ Stolen(x)' \in Nat
        /\ Holders(x)' = held'[x] + Listed(x)' + Cardinality(Made(x)') + Cardinality(Given(x)')
                         + Named(x)' + Count(x \in unreachable') + Lodged(x)'
        /\ IsFiniteSet(Made(x)) /\ IsFiniteSet(Given(x)) /\ IsFiniteSet(Others)
    BY <1>1, <1>15, SumAt
  <2>2. /\ held'[x] = held[x] /\ Listed(x)' = Listed(x)
        /\ Count(x \in unreachable') = Count(x \in unreachable)
    BY <1>5 DEF Listed
  <2>3. refs[x] + Stolen(x) = Holders(x)
    BY <1>1 DEF Balanced
  <2>4. refs'[x] + Stolen(x)' + Count(released) = refs[x] + Stolen(x)
    <3>1. CASE x = o
      <4>1. refs'[x] = refs[x] - 1
        BY <1>11, <3>1
      <4>2. Stolen(x)' = Stolen(x) + Count(disowned) /\ Count(disowned) + Count(released) = 1
        BY <1>14, <3>1 DEF Count
      <4>3. Count(disowned) \in Nat /\ Count(released) \in Nat
        BY DEF Count
      <4>. DEFINE r1 == refs[x]
                  r2 == refs'[x]
                  s1 == Stolen(x)
                  s2 == Stolen(x)'
                  c == Count(released)
                  d == Count(disowned)
      <4>4. /\ r1 \in Nat /\ r2 \in Nat /\ s1 \in Nat /\ s2 \in Nat /\ c \in Nat /\ d \in Nat
            /\ r2 = r1 - 1 /\ s2 = s1 + d /\ d + c = 1
        BY <2>1, <4>1, <4>2, <4>3
      <4>. HIDE DEF r1, r2, s1, s2, c, d
      <4>5. r2 + s2 + c = r1 + s1
        BY ONLY <4>4
      <4>. QED  BY <4>5 DEF r1, r2, s1, s2, c, d
    <3>2. CASE x # o
      <4>1. refs'[x] = refs[x] /\ Count(released) = 0 /\ Count(disowned) = 0
            /\ Stolen(x)' = Stolen(x) + Count(disowned)
        BY <1>11, <1>14, <3>2 DEF Count
      <4>. QED  BY <2>1, <4>1
    <3>. QED  BY <3>1, <3>2
  <2>5. /\ Named(x) = Count(released) + Calls(Naming(x), r)
        /\ Named(x)' = Calls(Naming(x), fs) + Calls(Naming(x), r)
        /\ Calls(Naming(x), r) \in Nat
    <3>1. Head(todo) \in Naming(x) <=> released
      BY <1>2, NamingFacts DEF o
    <3>. HIDE DEF released
    <3>. QED  BY <1>2, <1>10, <3>1 DEF Named
  <2>6. CASE refs[o] # 1
    <3>1. Made(x)' = Made(x) /\ Given(x)' = Given(x) /\ Others' = Others
      BY <1>5, <1>12, <1>17, <2>6 DEF Made, Given, Others
    <3>2. Lodged(x)' = Lodged(x)
      BY <3>1 DEF Lodged
    <3>3. Calls(Naming(x), fs) = 0
      BY <1>7, <2>6
    <3>. HIDE DEF released
    <3>. DEFINE c == Count(released)
                q == Calls(Naming(x), r)
                u == Count(x \in unreachable)
    <3>4. c \in Nat /\ u \in Nat
      BY DEF Count
    <3>. HIDE DEF c, q, u
    <3>5. refs'[x] + Stolen(x)' = Holders(x)'
      <4>1. refs'[x] + Stolen(x)' + c = refs[x] + Stolen(x)
        BY <2>4 DEF c
      <4>2. Named(x) = c + q /\ Named(x)' = q /\ q \in Nat
        BY <2>5, <3>3 DEF c, q
      <4>3. Holders(x) = held[x] + Listed(x) + Cardinality(Made(x)) + Cardinality(Given(x))
                         + Named(x) + u + Lodged(x)
        BY <2>1 DEF u
      <4>4. Holders(x)' = held[x] + Listed(x) + Cardinality(Made(x)) + Cardinality(Given(x))
                          + Named(x)' + u + Lodged(x)
        BY <2>1, <2>2, <3>1, <3>2 DEF u
      <4>. QED  BY ONLY <2>1, <2>3, <3>4, <4>1, <4>2, <4>3, <4>4
    <3>. QED  BY <3>5 DEF Balanced
  <2>7. CASE refs[o] = 1
    <3>1. Made(x)' = Made(x) \ {o} /\ Given(x)' = Given(x) \ {o} /\ Others' = Others \ {o}
      BY <1>5, <1>12, <1>17, <2>7 DEF Made, Given, Others
    <3>2. (o \in Made(x) <=> made) /\ (o \in Given(x) <=> kept)
          /\ (o \in Others <=> o \notin Kernels \cup {Context})
      BY <1>12, <2>7 DEF Made, Given, Others
    <3>3. Cardinality(Made(x)) = Cardinality(Made(x)') + Count(made)
      BY <2>1, <3>1, <3>2, Without
    <3>4. Cardinality(Given(x)) = Cardinality(Given(x)') + Count(kept)
      BY <2>1, <3>1, <3>2, Without
    <3>5. Lodged(x) = Lodged(x)' + Count(lodged)
      <4>1. Cardinality(Others) = Cardinality(Others') + Count(o \in Others)
            /\ Cardinality(Others') \in Nat
        BY <2>1, <3>1, Without
      <4>2. CASE x = Context
        <5>1. Count(lodged) = Count(o \in Others)
          BY <3>2, <4>2 DEF Count
        <5>2. Lodged(x) = Cardinality(Others) /\ Lodged(x)' = Cardinality(Others')
          BY <4>2 DEF Lodged
        <5>. QED  BY <4>1, <5>1, <5>2
      <4>3. CASE x # Context
        BY <4>3 DEF Lodged, Count
      <4>. QED  BY <4>2, <4>3
    <3>6. Calls(Naming(x), fs) = Count(given) + Count(made) + Count(lodged)
      BY <1>8, <2>7
    <3>7. CASE given /\ Pending(o)
      <4>1. o \in Kernels /\ argument[o] = x
        BY <3>7
      <4>2. PICK i \in Waiting("assign") : todo[i].o = o
        BY <3>7 DEF Pending
      <4>3. todo[1] = Head(todo)
        BY <1>2, HeadFacts
      <4>4. i # 1
        BY <4>2, <4>3 DEF Waiting
      <4>5. x \in Buffers /\ (todo[i - 1] = Free(x) \/ (i = 2 /\ todo[1] = Release(x)))
        BY <1>1, <4>1, <4>2, <4>4 DEF Order, AssignInv, Behind
      <4>6. x # o
        BY <4>1, <4>5, Kinds
      <4>7. todo[i - 1] = Free(x)
        BY <4>3, <4>5, <4>6, FieldFacts DEF o
      <4>8. i - 1 \in DOMAIN todo
        <5>1. DOMAIN todo = 1 .. Len(todo) /\ Len(todo) \in Nat
          BY <1>2, LenProperties
        <5>2. i \in DOMAIN todo
          BY <4>2 DEF Waiting
        <5>. QED  BY <4>4, <5>1, <5>2
      <4>9. Free(x) \in ToSet(todo)
        BY <4>7, <4>8 DEF ToSet
      <4>10. refs[x] = 0
        <5>1. ~(refs[x] > 0)
          BY <1>1, <4>9 DEF LiveInv
        <5>2. refs[x] \in Nat
          BY <2>1
        <5>. QED  BY ONLY <5>1, <5>2
      <4>11. refs'[x] = 0
        BY <1>11, <4>6, <4>10
      <4>12. fs # <<>> /\ Head(fs) = Release(x)
        BY <1>7, <1>9, <2>7, <4>1, <4>5
      <4>13. todo' # <<>> /\ Head(todo') = Release(x)
        <5>1. CASE r = <<>>
          <6>1. todo' = fs
            BY <1>4, <1>7, <5>1, ConcatEmptySeq
          <6>. QED  BY <4>12, <6>1
        <5>2. CASE r # <<>>
          BY <1>2, <1>4, <1>7, <4>12, <5>2, LastFacts
        <5>. QED  BY <5>1, <5>2
      <4>14. Lost'
        BY <4>5, <4>11, <4>13 DEF Lost, Release
      <4>15. Waiting("assign")' # {}
        BY <1>17, <4>2
      <4>. QED  BY <4>5, <4>11, <4>14, <4>15
    <3>8. CASE ~(given /\ Pending(o))
      <4>1. Count(given) = Count(kept)
        BY <3>8 DEF Count
      <4>. HIDE DEF released, given, kept, made, lodged
      <4>. DEFINE c == Count(released)
                  q == Calls(Naming(x), r)
                  u == Count(x \in unreachable)
                  g == Count(kept)
                  m == Count(made)
                  l == Count(lodged)
                  r1 == refs[x]
                  r2 == refs'[x]
                  s1 == Stolen(x)
                  s2 == Stolen(x)'
                  h == held[x]
                  i == Listed(x)
                  m1 == Cardinality(Made(x))
                  m2 == Cardinality(Made(x)')
                  g1 == Cardinality(Given(x))
                  g2 == Cardinality(Given(x)')
                  l1 == Lodged(x)
                  l2 == Lodged(x)'
                  n1 == Named(x)
                  n2 == Named(x)'
                  t1 == Holders(x)
                  t2 == Holders(x)'
      <4>2. /\ c \in Nat /\ q \in Nat /\ u \in Nat /\ g \in Nat /\ m \in Nat
             /\ l \in Nat /\ r1 \in Nat /\ r2 \in Nat /\ s1 \in Nat /\ s2 \in Nat
             /\ h \in Nat /\ i \in Nat /\ m1 \in Nat /\ m2 \in Nat /\ g1 \in Nat
             /\ g2 \in Nat /\ l1 \in Nat /\ l2 \in Nat /\ n1 \in Nat /\ n2 \in Nat
        BY <2>1, <2>5, CountType
      <4>3. /\ r2 + s2 + c = r1 + s1 /\ r1 + s1 = t1
             /\ n1 = c + q /\ n2 = g + m + l + q
             /\ m1 = m2 + m /\ g1 = g2 + g /\ l1 = l2 + l
             /\ t1 = h + i + m1 + g1 + n1 + u + l1
             /\ t2 = h + i + m2 + g2 + n2 + u + l2
        BY <2>1, <2>2, <2>3, <2>4, <2>5, <3>3, <3>4, <3>5, <3>6, <4>1
      <4>. HIDE DEF c, q, u, g, m, l, r1, r2, s1, s2, h, i, m1, m2, g1, g2, l1, l2, n1, n2, t1, t2
      <4>4. r2 + s2 = t2
        BY ONLY <4>2, <4>3
      <4>. QED  BY <4>4 DEF Balanced, c, q, u, g, m, l, r1, r2, s1, s2, h, i, m1, m2, g1, g2, l1, l2, n1, n2, t1, t2
    <3>. QED  BY <3>7, <3>8
  <2>. QED  BY <2>6, <2>7
<1>20. ~dangling'
  BY <1>1, <1>5
<1>. QED  BY <1>13, <1>15, <1>16, <1>18, <1>19, <1>20, Assemble

(* Steps that change no count: the item at the head is done, and fs follow *)
(* from it.                                                                *)
LEMMA PopStep ==
  ASSUME Good, todo # <<>>, Head(todo).op \notin {"release", "assign"},
         NEW fs \in Seq(Items), \A f \in ToSet(fs) : f.op \in {"release", "endFlush"},
         (\E f \in ToSet(fs) : f.op = "endFlush") => Head(todo).op = "flush",
         Head(todo).op = "free" => fs = <<>>,
         todo' = fs \o Tail(todo),
         commands' \in {commands, <<>>},
         commands' # <<>> => todo # <<Flush, Release(Queue)>>,
         \A x \in Objects : Calls(Naming(x), fs) + Listed(x)' = Listed(x),
         live' = IF Head(todo).op = "free" THEN live \ {Head(todo).o} ELSE live,
         UNCHANGED <<refs, graph, used, held, calls, unreachable, stolen>>, dangling' = FALSE
  PROVE  Inv'
<1>. DEFINE r == Tail(todo)
<1>1. /\ TypeOK /\ MemoryAccounted /\ ~dangling /\ LiveInv /\ Order /\ ~Lost
      /\ \A x \in Objects : Balanced(x)
  BY DEF Good
<1>2. /\ todo \in Seq(Items) /\ Head(todo) \in Items /\ r \in Seq(Items)
      /\ ToSet(todo) = {Head(todo)} \cup ToSet(r)
      /\ \A P : Calls(P, todo) = Count(Head(todo) \in P) + Calls(P, r)
      /\ \A P : Calls(P, r) \in Nat
  BY <1>1, HeadOfTodo
<1>3. /\ program' = program /\ created' = created /\ argument' = argument
      /\ callbacks' = callbacks /\ size' = size /\ refs' = refs /\ held' = held /\ used' = used
      /\ calls' = calls /\ unreachable' = unreachable /\ stolen' = stolen
  BY DEF graph
<1>4. todo' = fs \o r /\ r = Tail(todo)
  OBVIOUS
<1>. HIDE DEF r
<1>5. /\ todo' \in Seq(Items) /\ ToSet(todo') = ToSet(fs) \cup ToSet(r)
      /\ \A P : Calls(P, todo') = Calls(P, fs) + Calls(P, r)
      /\ \A P : Calls(P, fs) \in Nat
  <2>1. r \in Seq(Items) /\ fs \in Seq(Items)
    BY <1>2
  <2>2. fs \o r \in Seq(Items) /\ ToSet(fs \o r) = ToSet(fs) \cup ToSet(r)
    BY ONLY <2>1, ConcatFacts
  <2>3. ASSUME NEW P PROVE Calls(P, fs \o r) = Calls(P, fs) + Calls(P, r) /\ Calls(P, fs) \in Nat
    <3>1. Calls(P, fs \o r) = Calls(P, fs) + Calls(P, r)
      BY <2>1, CallsOfConcat
    <3>2. Calls(P, fs) \in Nat
      BY <2>1, CallsType
    <3>. QED  BY <3>1, <3>2
  <2>. QED  BY ONLY <1>4, <2>2, <2>3
<1>6. ASSUME Head(todo).op = "free" PROVE refs[Head(todo).o] = 0 /\ Head(todo) = Free(Head(todo).o)
  <2>1. Head(todo) = Free(Head(todo).o)
    BY <1>2, <1>6, ItemFacts DEF Free
  <2>2. Head(todo).o \in Objects
    BY <1>2, <1>6, ItemFacts
  <2>3. refs[Head(todo).o] \in Nat /\ ~(refs[Head(todo).o] > 0)
    BY <1>1, <1>2, <2>1, <2>2 DEF LiveInv, TypeOK
  <2>. QED  BY <2>1, <2>3
<1>7. Existing' = Existing
  BY <1>3, <1>6 DEF Existing
<1>8. TypeOK'
  <2>1. live' \subseteq Objects
    BY <1>1 DEF TypeOK
  <2>2. commands' \in Seq(Kernels \cup Buffers \cup {Queue})
    BY <1>1, EmptySeq DEF TypeOK
  <2>3. dangling' \in BOOLEAN
    OBVIOUS
  <2>. QED  BY <1>1, <1>3, <1>5, <2>1, <2>2, <2>3 DEF TypeOK
<1>9. MemoryAccounted'
  BY <1>1, <1>3, <1>7, MemoryIs, MemoryIsNext
<1>10. LiveInv'
  <2>. SUFFICES ASSUME NEW x \in Objects
       PROVE  /\ refs'[x] > 0 => x \in live' /\ Free(x) \notin ToSet(todo')
              /\ x \in live' /\ refs'[x] = 0 => Free(x) \in ToSet(todo')
              /\ x \in Kernels /\ refs'[x] > 0 => program'[x] \in Programs
    BY DEF LiveInv
  <2>1. /\ refs[x] > 0 => x \in live /\ Free(x) \notin ToSet(todo)
        /\ x \in live /\ refs[x] = 0 => Free(x) \in ToSet(todo)
        /\ x \in Kernels /\ refs[x] > 0 => program[x] \in Programs
    BY <1>1 DEF LiveInv
  <2>2. Free(x) \notin ToSet(fs)
    BY FieldFacts
  <2>3. ASSUME refs[x] > 0 PROVE x \in live' /\ Free(x) \notin ToSet(todo')
    <3>1. Free(x) \notin ToSet(todo')
      BY <1>2, <1>5, <2>1, <2>2, <2>3
    <3>2. Head(todo).op = "free" => x # Head(todo).o
      BY <1>6, <2>3
    <3>. QED  BY <2>1, <2>3, <3>1, <3>2
  <2>4. ASSUME x \in live', refs[x] = 0 PROVE Free(x) \in ToSet(todo')
    <3>1. Free(x) \in ToSet(todo)
      BY <2>1, <2>4
    <3>2. Head(todo) # Free(x)
      BY <2>4, FieldFacts
    <3>. QED  BY <1>2, <1>5, <3>1, <3>2
  <2>. QED  BY <1>3, <2>1, <2>3, <2>4
<1>11. \A k : Pending(k)' <=> Pending(k)
  <2>1. ASSUME NEW f, f.op = "assign" PROVE f \in ToSet(todo') <=> f \in ToSet(todo)
    BY <1>2, <1>5, <2>1
  <2>2. ASSUME NEW k PROVE PendingIn(k, todo') <=> PendingIn(k, todo)
    BY <2>1 DEF PendingIn
  <2>. QED  BY <2>2, PendingFacts, PendingFactsNext
<1>12. Order'
  <2>1. AssignInv /\ FlushInv /\ LastInv /\ SetInv
    BY <1>1 DEF Order
  <2>2. \A f \in ToSet(fs) : f.op # "assign"
    OBVIOUS
  <2>3. fs = <<>> \/ /\ Head(todo).op # "free"
                     /\ \A b \in Buffers : Head(todo) = Release(b) => fs[Len(fs)] = Free(b)
    BY FieldFacts
  <2>4. \A i \in Waiting("assign") : argument'[todo[i].o] = argument[todo[i].o]
    BY <1>3
  <2>5. AssignInv'
    BY <1>1, <2>1, <2>2, <2>3, <2>4, AssignPop
  <2>6. (\E f \in ToSet(fs) : IsFlush(f)) => IsFlush(Head(todo))
    BY DEF IsFlush
  <2>7. FlushInv' /\ LastInv'
    BY <1>1, <1>3, <2>1, <2>6, LastPop
  <2>8. SetInv'
    <3>1. ToSet(commands') \subseteq ToSet(commands)
      BY DEF ToSet
    <3>. QED  BY <1>3, <2>1, <3>1 DEF SetInv
  <2>. QED  BY <2>5, <2>7, <2>8 DEF Order
<1>13. ASSUME NEW x \in Objects PROVE Balanced(x)'
  <2>1. /\ Made(x)' = Made(x) /\ Given(x)' = Given(x) /\ Lodged(x)' = Lodged(x)
        /\ Stolen(x)' = Stolen(x)
    BY <1>3, <1>7, <1>11 DEF Made, Given, Lodged, Others, Stolen
  <2>2. /\ held[x] \in Nat /\ Listed(x) \in Nat /\ Cardinality(Given(x)) \in Nat /\ Named(x) \in Nat
        /\ refs[x] \in Nat /\ Listed(x)' \in Nat /\ Named(x)' \in Nat
    BY <1>1, <1>8, SumAt
  <2>3. Named(x) = Calls(Naming(x), r)
    <3>1. Head(todo) \notin Naming(x)
      BY <1>2, NamingFacts
    <3>. QED  BY <1>2, <3>1 DEF Named, Count
  <2>4. Named(x)' = Calls(Naming(x), fs) + Calls(Naming(x), r)
    BY <1>5 DEF Named
  <2>5. Calls(Naming(x), fs) \in Nat /\ Calls(Naming(x), fs) + Listed(x)' = Listed(x)
    BY <1>5
  <2>. DEFINE a == Calls(Naming(x), fs)
              b == Calls(Naming(x), r)
              i1 == Listed(x)
              i2 == Listed(x)'
              n1 == Named(x)
              n2 == Named(x)'
              g == Cardinality(Given(x))
              h == held[x]
              c == refs[x]
  <2>6. /\ a \in Nat /\ b \in Nat /\ i1 \in Nat /\ i2 \in Nat /\ n1 \in Nat /\ n2 \in Nat
        /\ g \in Nat /\ h \in Nat /\ c \in Nat
        /\ n1 = b /\ n2 = a + b /\ a + i2 = i1
    BY <1>2, <2>2, <2>3, <2>4, <2>5
  <2>. HIDE DEF a, b, i1, i2, n1, n2, g, h, c
  <2>7. c + (h + i1 + n1 + g) = c + (h + i2 + n2 + g)
    BY ONLY <2>6
  <2>8. refs'[x] + (held[x] + Listed(x) + Named(x) + Cardinality(Given(x)))
           = refs[x] + (held'[x] + Listed(x)' + Named(x)' + Cardinality(Given(x)'))
    BY <1>3, <2>1, <2>7 DEF i1, i2, n1, n2, g, h, c
  <2>. QED  BY <1>1, <1>3, <1>8, <2>1, <2>8, Ledger
<1>14. BalanceInv'
  BY <1>13 DEF BalanceInv
<1>. QED  BY <1>8, <1>9, <1>10, <1>12, <1>14, Assemble

(* setArgument ends: the kernel has its new argument.                      *)
LEMMA AssignStep ==
  ASSUME Good, todo # <<>>, Head(todo).op = "assign", Usable(Head(todo).o),
         argument' = [argument EXCEPT ![Head(todo).o] = Head(todo).value],
         todo' = Tail(todo), dangling' = FALSE,
         UNCHANGED <<live, refs, program, created, callbacks, size, used, commands, held, calls,
                     unreachable, stolen>>
  PROVE  Inv'
<1>. DEFINE r == Tail(todo)
            v == Head(todo).value
<1>1. /\ TypeOK /\ MemoryAccounted /\ ~dangling /\ LiveInv /\ Order /\ ~Lost
      /\ \A x \in Objects : Balanced(x)
  BY DEF Good
<1>2. /\ todo \in Seq(Items) /\ Head(todo) \in Items /\ r \in Seq(Items)
      /\ ToSet(todo) = {Head(todo)} \cup ToSet(r)
      /\ \A P : Calls(P, todo) = Count(Head(todo) \in P) + Calls(P, r)
      /\ \A P : Calls(P, r) \in Nat
  BY <1>1, HeadOfTodo
<1>3. /\ program' = program /\ created' = created /\ live' = live /\ commands' = commands
      /\ callbacks' = callbacks /\ size' = size /\ refs' = refs /\ held' = held /\ used' = used
      /\ calls' = calls /\ unreachable' = unreachable /\ stolen' = stolen
  OBVIOUS
<1>4. PICK k \in Kernels : k = Head(todo).o
  BY <1>2, ItemFacts
<1>5. k \in Kernels /\ v \in Buffers \cup {Null} /\ k \in Existing
  BY <1>2, <1>4, ItemFacts DEF Usable, Existing
<1>6. Existing' = Existing
  BY <1>3 DEF Existing
<1>7. /\ argument' \in [Kernels -> Values] /\ argument'[k] = v
      /\ \A j \in Kernels : j # k => argument'[j] = argument[j]
  BY <1>1, <1>5, <1>4 DEF TypeOK, Values
<1>8. AssignInv /\ FlushInv /\ LastInv /\ SetInv
  BY <1>1 DEF Order
<1>9. /\ DOMAIN todo = 1 .. Len(todo) /\ Len(todo) \in Nat /\ Head(todo) = todo[1] /\ 1 \in DOMAIN todo
      /\ DOMAIN r = 1 .. Len(todo) - 1
      /\ \A i \in 1 .. Len(todo) - 1 : r[i] = todo[i + 1]
  BY <1>2, HeadTailProperties, HeadFacts, LenProperties
<1>10. Pending(k) /\ 1 \in Waiting("assign")
  BY <1>9, <1>4 DEF Pending, Waiting
<1>11. \A i \in Waiting("assign") : todo[i].o = k => i = 1
  BY <1>8, <1>9, <1>10, <1>4 DEF AssignInv
<1>12. ASSUME NEW i \in DOMAIN r PROVE r[i].op = "assign" => r[i].o # k
  <2>1. i \in 1 .. Len(todo) - 1 /\ i + 1 \in DOMAIN todo /\ i + 1 # 1
    BY <1>9
  <2>2. r[i] = todo[i + 1]
    BY <1>9, <2>1
  <2>. QED  BY <1>11, <2>1, <2>2 DEF Waiting
<1>. HIDE DEF r, v
<1>13. /\ ~Pending(k)'
       /\ \A j \in Kernels : j # k => (Pending(j)' <=> Pending(j))
  <2>1. ~PendingIn(k, r)
    BY <1>12 DEF PendingIn, ToSet
  <2>2. \A j \in Kernels : j # k => (PendingIn(j, r) <=> PendingIn(j, todo))
    BY <1>2, <1>4 DEF PendingIn
  <2>3. todo' = r
    BY DEF r
  <2>. QED  BY ONLY <2>1, <2>2, <2>3, PendingFacts, PendingFactsNext
<1>14. TypeOK'
  <2>1. todo' \in Seq(Items)
    BY <1>2 DEF r
  <2>. QED  BY <1>1, <1>3, <1>7, <2>1 DEF TypeOK
<1>15. MemoryAccounted'
  BY <1>1, <1>3, <1>6, MemoryIs, MemoryIsNext
<1>16. LiveInv'
  <2>1. ASSUME NEW x PROVE Free(x) \in ToSet(todo') <=> Free(x) \in ToSet(todo)
    <3>1. Free(x) # Head(todo)
      BY FieldFacts
    <3>. QED  BY <1>2, <3>1 DEF r
  <2>. QED  BY <1>1, <1>3, <2>1 DEF LiveInv
<1>17. Order'
  <2>1. <<>> \in Seq(Items) /\ ToSet(<<>>) = {} /\ todo' = <<>> \o Tail(todo)
    BY <1>2, OneFacts, ConcatEmptySeq DEF r
  <2>2. \A i \in Waiting("assign") : i # 1 => argument'[todo[i].o] = argument[todo[i].o]
    <3>1. \A i \in Waiting("assign") : todo[i].o \in Kernels
      BY <1>1, <1>2, ItemFacts, ElementOfSeq, LenProperties DEF Waiting
    <3>. QED  BY <1>7, <1>11, <3>1
  <2>3. AssignInv'
    BY <1>1, <1>8, <2>1, <2>2, AssignPop
  <2>4. todo # <<Flush, Release(Queue)>>
    BY FieldFacts
  <2>5. FlushInv' /\ LastInv'
    BY <1>1, <1>3, <1>8, <2>1, <2>4, LastPop
  <2>6. SetInv'
    BY <1>3, <1>5, <1>7, <1>8, Kinds DEF SetInv
  <2>. QED  BY <2>3, <2>5, <2>6 DEF Order
<1>18. ASSUME NEW x \in Objects PROVE Balanced(x)'
  <2>1. Made(x)' = Made(x) /\ Lodged(x)' = Lodged(x) /\ Stolen(x)' = Stolen(x)
        /\ Listed(x)' = Listed(x)
    BY <1>3, <1>6 DEF Made, Lodged, Others, Stolen, Listed
  <2>2. /\ held[x] \in Nat /\ Listed(x) \in Nat /\ Cardinality(Given(x)) \in Nat /\ Named(x) \in Nat
        /\ refs[x] \in Nat /\ Named(x)' \in Nat /\ Cardinality(Given(x)') \in Nat
        /\ IsFiniteSet(Given(x))
    BY <1>1, <1>14, SumAt
  <2>3. Given(x) \ {k} = Given(x)' \ {k}
    BY <1>6, <1>7, <1>13 DEF Given
  <2>4. k \notin Given(x) /\ (k \in Given(x)' <=> v = x)
    <3>1. k \notin Given(x)
      BY <1>10 DEF Given
    <3>2. k \in Kernels \cap Existing' /\ argument'[k] = v /\ ~Pending(k)'
      BY <1>5, <1>6, <1>7, <1>13
    <3>3. k \in Given(x)' <=> v = x
      BY <3>2 DEF Given
    <3>. QED  BY <3>1, <3>3
  <2>5. Cardinality(Given(x)') + Count(k \in Given(x))
          = Cardinality(Given(x)) + Count(k \in Given(x)')
    BY <2>2, <2>3, OneMember
  <2>6. Cardinality(Given(x)') = Cardinality(Given(x)) + Count(v = x)
    <3>1. Count(k \in Given(x)) = 0 /\ Count(k \in Given(x)') = Count(v = x)
      BY <2>4 DEF Count
    <3>. QED  BY ONLY <2>2, <2>5, <3>1
  <2>7. Named(x) = Count(v = x) + Named(x)'
    <3>1. Head(todo) \in Naming(x) <=> v = x
      BY <1>2, NamingFacts DEF v
    <3>2. Named(x)' = Calls(Naming(x), r)
      BY DEF Named, r
    <3>. QED  BY <1>2, <3>1, <3>2 DEF Named, Count
  <2>. DEFINE n1 == Named(x)
              n2 == Named(x)'
              g1 == Cardinality(Given(x))
              g2 == Cardinality(Given(x)')
              i == Listed(x)
              h == held[x]
              c == refs[x]
              a == Count(v = x)
  <2>8. /\ n1 \in Nat /\ n2 \in Nat /\ g1 \in Nat /\ g2 \in Nat /\ i \in Nat /\ h \in Nat
        /\ c \in Nat /\ a \in Nat /\ n1 = a + n2 /\ g2 = g1 + a
    BY <2>2, <2>6, <2>7, CountType
  <2>. HIDE DEF n1, n2, g1, g2, i, h, c, a
  <2>9. c + (h + i + n1 + g1) = c + (h + i + n2 + g2)
    BY ONLY <2>8
  <2>10. refs'[x] + (held[x] + Listed(x) + Named(x) + Cardinality(Given(x)))
           = refs[x] + (held'[x] + Listed(x)' + Named(x)' + Cardinality(Given(x)'))
    BY <1>3, <2>1, <2>9 DEF n1, n2, g1, g2, i, h, c
  <2>. QED  BY <1>1, <1>3, <1>14, <2>1, <2>10, Ledger
<1>19. BalanceInv'
  BY <1>18 DEF BalanceInv
<1>. QED  BY <1>14, <1>15, <1>16, <1>17, <1>19, Assemble

-----------------------------------------------------------------------------
(* Steps that use a destroyed object.                                      *)
Excuse == Waiting("assign") # {} \/ \E k \in Kernels : stolen[k] > 0

LEMMA DanglingStep ==
  ASSUME TypeOK, MemoryAccounted, dangling' = TRUE,
         UNCHANGED <<live, refs, graph, used, held, calls, unreachable, stolen>>,
         todo' \in Seq(Items), commands' \in Seq(Kernels \cup Buffers \cup {Queue}),
         Waiting("assign")' # {} \/ (\E k \in Kernels : stolen[k] > 0) \/ UsesDeletedKernel'
  PROVE  Inv'
<1>1. /\ program' = program /\ created' = created /\ argument' = argument /\ live' = live
      /\ callbacks' = callbacks /\ size' = size /\ refs' = refs /\ held' = held /\ used' = used
      /\ calls' = calls /\ unreachable' = unreachable /\ stolen' = stolen
  BY DEF graph
<1>2. TypeOK'
  BY <1>1 DEF TypeOK
<1>3. Existing' = Existing
  BY <1>1 DEF Existing
<1>4. MemoryAccounted'
  BY <1>1, <1>3, MemoryIs, MemoryIsNext
<1>5. NoUseAfterDestroy'
  BY <1>1 DEF NoUseAfterDestroy
<1>6. Books'
  BY DEF Books
<1>. QED  BY <1>2, <1>4, <1>5, <1>6 DEF Inv

(* Somebody holds a reference to an object that has none to give: either a *)
(* setArgument waits, or a reference was taken from a kernel.              *)
LEMMA Destroyed ==
  ASSUME TypeOK, LiveInv, BalanceInv, NEW o \in Objects, ~Usable(o),
         held[o] > 0 \/ Listed(o) > 0 \/ Named(o) > 0 \/ Given(o) # {}
  PROVE  Excuse
<1>1. /\ IsFiniteSet(Given(o))
      /\ held[o] \in Nat /\ Listed(o) \in Nat /\ Cardinality(Made(o)) \in Nat
      /\ Cardinality(Given(o)) \in Nat /\ Named(o) \in Nat /\ Lodged(o) \in Nat
      /\ refs[o] \in Nat /\ Stolen(o) \in Nat
      /\ Holders(o) = held[o] + Listed(o) + Cardinality(Made(o)) + Cardinality(Given(o)) + Named(o)
                      + Count(o \in unreachable) + Lodged(o)
  BY HoldersSum DEF AddsUp
<1>2. refs[o] = 0
  <2>1. ~(refs[o] > 0)
    BY DEF Usable, LiveInv
  <2>2. refs[o] \in Nat
    BY <1>1
  <2>. QED  BY ONLY <2>1, <2>2
<1>3. held[o] > 0 \/ Listed(o) > 0 \/ Named(o) > 0 \/ Cardinality(Given(o)) > 0
  <2>1. Given(o) # {} => Cardinality(Given(o)) # 0
    BY <1>1, FS_EmptySet
  <2>2. Cardinality(Given(o)) \in Nat
    BY <1>1
  <2>. DEFINE g == Cardinality(Given(o))
  <2>. HIDE DEF g
  <2>3. Given(o) # {} => g > 0
    BY <2>1, <2>2 DEF g
  <2>. QED  BY <2>3 DEF g
<1>4. CASE Balanced(o)
  <2>. DEFINE h == held[o]
              i == Listed(o)
              m == Cardinality(Made(o))
              g == Cardinality(Given(o))
              n == Named(o)
              u == Count(o \in unreachable)
              l == Lodged(o)
              s == Stolen(o)
  <2>1. /\ h \in Nat /\ i \in Nat /\ m \in Nat /\ g \in Nat /\ n \in Nat /\ u \in Nat /\ l \in Nat
        /\ s \in Nat
    BY <1>1, CountType
  <2>2. 0 + s = h + i + m + g + n + u + l /\ (h > 0 \/ i > 0 \/ n > 0 \/ g > 0)
    BY <1>1, <1>2, <1>3, <1>4 DEF Balanced
  <2>. HIDE DEF h, i, m, g, n, u, l, s
  <2>3. s > 0
    BY ONLY <2>1, <2>2
  <2>4. o \in Kernels /\ stolen[o] > 0
    BY <2>3 DEF s, Stolen
  <2>. QED  BY <2>4 DEF Excuse
<1>5. CASE ~Balanced(o)
  BY <1>5 DEF BalanceInv, Excuse
<1>. QED  BY <1>4, <1>5

LEMMA NamedByHead ==
  ASSUME TypeOK, todo # <<>>, NEW o \in Objects, Head(todo) \in Naming(o)
  PROVE  Named(o) > 0
<1>1. todo \in Seq(Items) /\ Head(todo) \in ToSet(todo)
  BY HeadOfTodo
<1>2. Named(o) \in Nat /\ Named(o) # 0
  BY <1>1, CallsType DEF Named
<1>. QED  BY ONLY <1>2

LEMMA BalanceOfGood == Good => BalanceInv
BY DEF Good, BalanceInv

-----------------------------------------------------------------------------
(* The driver.                                                             *)
LEMMA DoReleaseSafe == Good /\ DoRelease => Inv'
<1>. SUFFICES ASSUME Good, DoRelease PROVE Inv'
  OBVIOUS
<1>. DEFINE o == Head(todo).o
<1>1. /\ todo # <<>> /\ Head(todo).op = "release" /\ TypeOK /\ MemoryAccounted /\ LiveInv
      /\ UNCHANGED <<held, calls, unreachable, stolen>>
  BY DEF DoRelease, Now, Good
<1>2. \/ /\ Usable(o) /\ GiveUp(o) /\ UNCHANGED <<live, graph, commands>> /\ UNCHANGED dangling
      \/ /\ ~Usable(o) /\ dangling' = TRUE
         /\ UNCHANGED <<live, refs, graph, used, commands, todo>>
  BY DEF DoRelease, Use
<1>3. CASE Usable(o) /\ GiveUp(o) /\ UNCHANGED <<live, graph, commands>> /\ UNCHANGED dangling
  BY <1>1, <1>3, GiveUpStep
<1>4. CASE /\ ~Usable(o) /\ dangling' = TRUE
           /\ UNCHANGED <<live, refs, graph, used, commands, todo>>
  <2>1. Head(todo) \in Items /\ o \in Objects
    BY <1>1, HeadOfTodo
  <2>2. Head(todo) \in Naming(o)
    BY <1>1, <2>1, NamingFacts
  <2>3. Named(o) > 0
    BY <1>1, <2>1, <2>2, NamedByHead
  <2>4. Excuse
    BY <1>1, <1>4, <2>1, <2>3, BalanceOfGood, Destroyed
  <2>5. Waiting("assign")' = Waiting("assign")
    BY <1>4 DEF Waiting
  <2>6. todo' \in Seq(Items) /\ commands' \in Seq(Kernels \cup Buffers \cup {Queue})
    BY <1>1, <1>4 DEF TypeOK
  <2>. QED  BY <1>1, <1>4, <2>4, <2>5, <2>6, DanglingStep DEF Excuse
<1>. QED  BY <1>2, <1>3, <1>4

LEMMA NothingFollows ==
  ASSUME TypeOK, todo # <<>>
  PROVE  /\ <<>> \in Seq(Items) /\ ToSet(<<>>) = {}
         /\ <<>> \o Tail(todo) = Tail(todo) /\ <<>> \o todo = todo
         /\ \A P : Calls(P, <<>>) = 0
<1>1. Tail(todo) \in Seq(Items) /\ Head(todo) \in Items /\ todo \in Seq(Items)
  BY HeadOfTodo
<1>. QED  BY <1>1, OneFacts, CallsOfOne, ConcatEmptySeq

(* The item at the head is done, and nothing follows from it.              *)
LEMMA DoneStep ==
  ASSUME Good, todo # <<>>, Head(todo).op \notin {"release", "assign"}, todo' = Tail(todo),
         todo # <<Flush, Release(Queue)>>,
         live' = IF Head(todo).op = "free" THEN live \ {Head(todo).o} ELSE live,
         UNCHANGED <<refs, graph, used, commands, held, calls, history>>
  PROVE  Inv'
<1>1. TypeOK /\ ~dangling /\ dangling \in BOOLEAN
  BY DEF Good, TypeOK
<1>2. /\ <<>> \in Seq(Items) /\ ToSet(<<>>) = {} /\ <<>> \o Tail(todo) = Tail(todo)
      /\ \A P : Calls(P, <<>>) = 0
  BY <1>1, NothingFollows
<1>3. \A x \in Objects : Calls(Naming(x), <<>>) + Listed(x)' = Listed(x)
  <2>. SUFFICES ASSUME NEW x \in Objects PROVE Calls(Naming(x), <<>>) + Listed(x)' = Listed(x)
    OBVIOUS
  <2>1. Listed(x) \in Nat
    BY <1>1, HoldersSum DEF AddsUp
  <2>2. Listed(x)' = Listed(x) /\ Calls(Naming(x), <<>>) = 0
    BY <1>2 DEF Listed
  <2>. QED  BY ONLY <2>1, <2>2
<1>4. UNCHANGED <<refs, graph, used, held, calls, unreachable, stolen>> /\ dangling' = FALSE
      /\ commands' = commands
  BY <1>1 DEF history
<1>5. todo' = <<>> \o Tail(todo)
  BY <1>2
<1>. QED  BY <1>2, <1>3, <1>4, <1>5, PopStep

LEMMA NotLastFlush == todo = <<Flush, Release(Queue)>> => Head(todo).op = "flush" /\ ~Flushing
<1>. SUFFICES ASSUME todo = <<Flush, Release(Queue)>>
     PROVE  Head(todo).op = "flush" /\ ~Flushing
  OBVIOUS
<1>1. Flush \in Items /\ Release(Queue) \in Items
  BY ItemFacts, Kinds
<1>2. ToSet(todo) = {Flush, Release(Queue)} /\ Head(todo) = Flush
  BY <1>1, TwoFacts
<1>. QED  BY <1>2, FieldFacts DEF Flushing

LEMMA DoDisownSafe == Good /\ DoDisown => Inv'
<1>. SUFFICES ASSUME Good, DoDisown PROVE Inv'
  OBVIOUS
<1>. DEFINE k == Head(todo).o
<1>1. /\ todo # <<>> /\ Head(todo).op = "disown"
      /\ UNCHANGED <<live, graph, commands, held, calls, unreachable>>
  BY DEF DoDisown, Now
<1>2. CASE /\ Usable(k) /\ GiveUp(k) /\ stolen' = [stolen EXCEPT ![k] = @ + 1]
           /\ UNCHANGED dangling
  BY <1>1, <1>2, GiveUpStep
<1>3. CASE /\ Then(<<>>) /\ UNCHANGED <<refs, used, stolen, dangling>>
  <2>1. todo' = Tail(todo)
    BY <1>1, <1>3, NothingFollows DEF Then, Good
  <2>2. todo # <<Flush, Release(Queue)>>
    BY <1>1, NotLastFlush
  <2>3. UNCHANGED <<refs, graph, used, commands, held, calls, history>> /\ live' = live
    BY <1>1, <1>3 DEF history
  <2>. QED  BY <1>1, <2>1, <2>2, <2>3, DoneStep
<1>4. CASE /\ UsesDeletedKernel /\ dangling' = TRUE
           /\ UNCHANGED <<refs, used, todo, stolen>>
  <2>1. TypeOK /\ MemoryAccounted
    BY DEF Good
  <2>2. todo' \in Seq(Items) /\ commands' \in Seq(Kernels \cup Buffers \cup {Queue})
    BY <1>1, <1>4, <2>1 DEF TypeOK
  <2>3. UsesDeletedKernel'
    BY <1>1, <1>4 DEF UsesDeletedKernel
  <2>. QED  BY <1>1, <1>4, <2>1, <2>2, <2>3, DanglingStep
<1>. QED  BY <1>2, <1>3, <1>4 DEF DoDisown

LEMMA DoFreeSafe == Good /\ DoFree => Inv'
<1>. SUFFICES ASSUME Good, DoFree PROVE Inv'
  OBVIOUS
<1>1. todo # <<>> /\ Head(todo).op = "free" /\ live' = live \ {Head(todo).o}
      /\ UNCHANGED <<refs, graph, used, commands, held, calls, history>>
  BY DEF DoFree, Now
<1>2. todo' = Tail(todo)
  BY <1>1, NothingFollows DEF DoFree, Then, Good
<1>3. todo # <<Flush, Release(Queue)>>
  BY <1>1, NotLastFlush
<1>. QED  BY <1>1, <1>2, <1>3, DoneStep

LEMMA CallbackReturnSafe == Good /\ CallbackReturn => Inv'
<1>. SUFFICES ASSUME Good, CallbackReturn PROVE Inv'
  OBVIOUS
<1>1. todo # <<>> /\ Head(todo).op = "callback" /\ live' = live
      /\ UNCHANGED <<refs, graph, used, commands, held, calls, history>>
  BY DEF CallbackReturn, Now
<1>2. todo' = Tail(todo)
  BY <1>1, NothingFollows DEF CallbackReturn, Then, Good
<1>3. todo # <<Flush, Release(Queue)>>
  BY <1>1, NotLastFlush
<1>. QED  BY <1>1, <1>2, <1>3, DoneStep

LEMMA DoAssignSafe == Good /\ DoAssign => Inv'
<1>. SUFFICES ASSUME Good, DoAssign PROVE Inv'
  OBVIOUS
<1>. DEFINE o == Head(todo).o
<1>1. /\ todo # <<>> /\ Head(todo).op = "assign" /\ TypeOK /\ MemoryAccounted
      /\ ~dangling /\ dangling \in BOOLEAN
      /\ UNCHANGED <<held, calls, unreachable, stolen>>
  BY DEF DoAssign, Now, Good, TypeOK
<1>2. \/ /\ Usable(o) /\ argument' = [argument EXCEPT ![o] = Head(todo).value]
         /\ Then(<<>>)
         /\ UNCHANGED <<live, refs, program, created, callbacks, size, used, commands>>
         /\ UNCHANGED dangling
      \/ /\ ~Usable(o) /\ dangling' = TRUE
         /\ UNCHANGED <<live, refs, graph, used, commands, todo>>
  BY DEF DoAssign, Use
<1>3. CASE /\ Usable(o) /\ argument' = [argument EXCEPT ![o] = Head(todo).value]
           /\ Then(<<>>)
           /\ UNCHANGED <<live, refs, program, created, callbacks, size, used, commands>>
           /\ UNCHANGED dangling
  <2>1. todo' = Tail(todo)
    BY <1>1, <1>3, NothingFollows DEF Then
  <2>2. dangling' = FALSE
    BY <1>1, <1>3
  <2>. QED  BY <1>1, <1>3, <2>1, <2>2, AssignStep
<1>4. CASE /\ ~Usable(o) /\ dangling' = TRUE
           /\ UNCHANGED <<live, refs, graph, used, commands, todo>>
  <2>1. todo' \in Seq(Items) /\ commands' \in Seq(Kernels \cup Buffers \cup {Queue})
    BY <1>1, <1>4 DEF TypeOK
  <2>2. Head(todo) \in ToSet(todo)
    BY <1>1, HeadOfTodo
  <2>3. Waiting("assign") # {}
    BY <1>1, <2>2, PendingFacts
  <2>4. Waiting("assign")' # {}
    BY <1>4, <2>3 DEF Waiting
  <2>. QED  BY <1>1, <1>4, <2>1, <2>4, DanglingStep
<1>. QED  BY <1>2, <1>3, <1>4

LEMMA DoEndFlushSafe == Good /\ DoEndFlush => Inv'
<1>. SUFFICES ASSUME Good, DoEndFlush PROVE Inv'
  OBVIOUS
<1>1. /\ todo # <<>> /\ Head(todo).op = "endFlush" /\ TypeOK /\ MemoryAccounted /\ LiveInv
      /\ Order /\ \A x \in Objects : Balanced(x)
      /\ UNCHANGED <<held, calls, unreachable, stolen>>
  BY DEF DoEndFlush, Now, Good
<1>2. \/ /\ Usable(Queue) /\ Then(<<>>) /\ UNCHANGED <<live, refs, graph, used, commands>>
         /\ UNCHANGED dangling
      \/ /\ ~Usable(Queue) /\ dangling' = TRUE
         /\ UNCHANGED <<live, refs, graph, used, commands, todo>>
  BY DEF DoEndFlush, Use
<1>3. CASE /\ Usable(Queue) /\ Then(<<>>) /\ UNCHANGED <<live, refs, graph, used, commands>>
           /\ UNCHANGED dangling
  <2>1. todo' = Tail(todo)
    BY <1>1, <1>3, NothingFollows DEF Then
  <2>2. todo # <<Flush, Release(Queue)>>
    BY <1>1, NotLastFlush
  <2>3. UNCHANGED <<refs, graph, used, commands, held, calls, history>> /\ live' = live
    BY <1>1, <1>3 DEF history
  <2>. QED  BY <1>1, <2>1, <2>2, <2>3, DoneStep
<1>4. CASE /\ ~Usable(Queue) /\ dangling' = TRUE
           /\ UNCHANGED <<live, refs, graph, used, commands, todo>>
  <2>1. todo' \in Seq(Items) /\ commands' \in Seq(Kernels \cup Buffers \cup {Queue})
    BY <1>1, <1>4 DEF TypeOK
  <2>2. held[Queue] > 0 \/ Named(Queue) > 0
    <3>1. todo \in Seq(Items) /\ Head(todo) \in ToSet(todo) /\ held[Queue] \in Nat
      BY <1>1, HeadOfTodo, HoldersSum, Kinds DEF AddsUp
    <3>2. CASE held[Queue] = 0
      <4>1. todo[Len(todo)] = Release(Queue)
        BY <1>1, <3>1, <3>2 DEF Order, FlushInv
      <4>2. Len(todo) \in DOMAIN todo
        BY <1>1, <3>1, LenProperties, EmptySeq
      <4>3. Release(Queue) \in ToSet(todo) /\ Release(Queue) \in Naming(Queue)
        BY <4>1, <4>2, NamingFacts, Kinds DEF ToSet
      <4>4. Named(Queue) \in Nat /\ Named(Queue) # 0
        BY <3>1, <4>3, CallsType DEF Named
      <4>. QED  BY ONLY <4>4
    <3>3. CASE held[Queue] # 0
      BY ONLY <3>1, <3>3
    <3>. QED  BY <3>2, <3>3
  <2>3. Excuse
    BY <1>1, <1>4, <2>2, BalanceOfGood, Destroyed, Kinds
  <2>4. Waiting("assign")' = Waiting("assign")
    BY <1>4 DEF Waiting
  <2>. QED  BY <1>1, <1>4, <2>1, <2>3, <2>4, DanglingStep DEF Excuse
<1>. QED  BY <1>2, <1>3, <1>4

(* What a flush leaves to do: the commands release what they refer to.     *)
LEMMA CommandDestructorsFacts ==
  ASSUME TypeOK
  PROVE  LET fs == CommandDestructors \o <<EndFlush>>
         IN  /\ fs \in Seq(Items)
             /\ \A f \in ToSet(fs) : f.op \in {"release", "endFlush"}
             /\ \A x \in Objects : Calls(Naming(x), fs) = Listed(x)
<1>. DEFINE s == CommandDestructors
            e == <<EndFlush>>
<1>1. /\ DOMAIN commands = 1 .. Len(commands) /\ Len(commands) \in Nat
      /\ \A i \in DOMAIN commands : commands[i] \in Objects
  <2>1. commands \in Seq(Kernels \cup Buffers \cup {Queue})
    BY DEF TypeOK
  <2>. QED  BY <2>1, LenProperties, ElementOfSeq, Kinds
<1>2. DOMAIN s = DOMAIN commands /\ \A i \in DOMAIN commands : s[i] = Release(commands[i])
  BY DEF CommandDestructors, Each
<1>3. s \in Seq(Items)
  <2>1. s = [i \in 1 .. Len(commands) |-> Release(commands[i])]
    BY <1>1 DEF CommandDestructors, Each
  <2>2. s \in [1 .. Len(commands) -> Items]
    BY <1>1, <2>1, ItemFacts
  <2>. HIDE DEF s
  <2>. QED  BY <1>1, <2>2, SeqDef
<1>4. e \in Seq(Items) /\ ToSet(e) = {EndFlush} /\ \A P : Calls(P, e) = Count(EndFlush \in P)
  BY ItemFacts, OneFacts, CallsOfOne
<1>. HIDE DEF s, e
<1>5. s \o e \in Seq(Items) /\ ToSet(s \o e) = ToSet(s) \cup ToSet(e)
  BY <1>3, <1>4, ConcatFacts
<1>6. \A f \in ToSet(s) : f.op = "release"
  BY <1>2, FieldFacts DEF ToSet
<1>7. \A f \in ToSet(s \o e) : f.op \in {"release", "endFlush"}
  BY <1>4, <1>5, <1>6, FieldFacts
<1>8. ASSUME NEW x \in Objects PROVE Calls(Naming(x), s \o e) = Listed(x)
  <2>1. Calls(Naming(x), s \o e) = Calls(Naming(x), s) + Calls(Naming(x), e)
    BY <1>3, <1>4, CallsOfConcat
  <2>2. EndFlush \notin Naming(x)
    BY NamingFacts, FieldFacts
  <2>3. Calls(Naming(x), e) = 0
    BY <1>4, <2>2 DEF Count
  <2>4. \A i \in DOMAIN commands : s[i] \in Naming(x) <=> commands[i] \in {x}
    BY <1>2, NamingFacts
  <2>5. Calls(Naming(x), s) = Listed(x)
    BY <1>2, <2>4 DEF Calls, Listed
  <2>6. Listed(x) \in Nat
    BY HoldersSum DEF AddsUp
  <2>. QED  BY ONLY <2>1, <2>3, <2>5, <2>6
<1>. QED  BY <1>5, <1>7, <1>8 DEF s, e

(* A command, or the argument of a kernel to run, that was destroyed.      *)
LEMMA TouchedDestroyed ==
  ASSUME Good, NEW o \in Touched, ~Usable(o)
  PROVE  Excuse
<1>1. /\ TypeOK /\ LiveInv /\ BalanceInv /\ SetInv
      /\ commands \in Seq(Kernels \cup Buffers \cup {Queue})
  BY BalanceOfGood DEF Good, Order, TypeOK
<1>2. ASSUME NEW c \in ToSet(commands) PROVE c \in Objects /\ Listed(c) > 0
  <2>1. c \in Objects
    BY <1>1, Kinds, LenProperties, ElementOfSeq DEF ToSet
  <2>2. Listed(c) \in Nat /\ Listed(c) # 0
    BY <1>1, CallsType DEF Listed
  <2>3. Listed(c) > 0
    BY ONLY <2>2
  <2>. QED  BY <2>1, <2>3
<1>3. ASSUME NEW c \in ToSet(commands), ~Usable(c) PROVE Excuse
  BY <1>1, <1>2, <1>3, Destroyed
<1>4. CASE o \in ToSet(commands)
  BY <1>3, <1>4
<1>5. CASE o \notin ToSet(commands)
  <2>1. PICK k \in ToSet(commands) \cap Kernels : o = argument[k]
    BY <1>5 DEF Touched
  <2>2. o \in Buffers /\ o \in Objects
    BY <1>1, <2>1, Kinds DEF Touched, SetInv, TypeOK, Values
  <2>3. CASE ~Usable(k)
    BY <1>3, <2>1, <2>3
  <2>4. CASE Pending(k)
    BY <2>4 DEF Pending, Excuse
  <2>5. CASE Usable(k) /\ ~Pending(k)
    <3>1. k \in Given(o)
      BY <2>1, <2>5 DEF Given, Existing, Usable
    <3>. QED  BY <1>1, <2>2, <3>1, Destroyed
  <2>. QED  BY <2>3, <2>4, <2>5
<1>. QED  BY <1>4, <1>5

LEMMA DoFlushSafe == Good /\ DoFlush => Inv'
<1>. SUFFICES ASSUME Good, DoFlush PROVE Inv'
  OBVIOUS
<1>. DEFINE fs == CommandDestructors \o <<EndFlush>>
            r == Tail(todo)
<1>1. /\ todo # <<>> /\ Head(todo).op = "flush" /\ TypeOK /\ MemoryAccounted
      /\ UNCHANGED <<live, refs, graph, used, held, calls, unreachable, stolen>>
      /\ IF Flushing
         THEN Then(<<>>) /\ UNCHANGED <<commands, dangling>>
         ELSE /\ dangling' = \E o \in Touched : ~Usable(o)
              /\ commands' = <<>>
              /\ Then(fs)
  BY DEF DoFlush, Now, Good
<1>2. CASE Flushing
  <2>1. todo' = Tail(todo)
    BY <1>1, <1>2, NothingFollows DEF Then
  <2>2. todo # <<Flush, Release(Queue)>>
    BY <1>2, NotLastFlush
  <2>3. UNCHANGED <<refs, graph, used, commands, held, calls, history>> /\ live' = live
    BY <1>1, <1>2 DEF history
  <2>. QED  BY <1>1, <2>1, <2>2, <2>3, DoneStep
<1>3. CASE ~Flushing
  <2>1. /\ fs \in Seq(Items)
        /\ \A f \in ToSet(fs) : f.op \in {"release", "endFlush"}
        /\ \A x \in Objects : Calls(Naming(x), fs) = Listed(x)
    BY <1>1, CommandDestructorsFacts
  <2>2. todo' = fs \o r /\ commands' = <<>> /\ dangling' = \E o \in Touched : ~Usable(o)
    BY <1>1, <1>3 DEF Then
  <2>3. r \in Seq(Items) /\ ToSet(todo) = {Head(todo)} \cup ToSet(r) /\ r = Tail(todo)
    BY <1>1, HeadOfTodo
  <2>. HIDE DEF fs, r
  <2>4. CASE dangling' = FALSE
    <3>1. ASSUME NEW x \in Objects PROVE Calls(Naming(x), fs) + Listed(x)' = Listed(x)
      <4>1. Listed(x)' = 0
        BY <2>2, Kinds, CallsOfOne DEF Listed
      <4>2. Listed(x) \in Nat /\ Calls(Naming(x), fs) = Listed(x)
        BY <1>1, <2>1, HoldersSum DEF AddsUp
      <4>. QED  BY ONLY <4>1, <4>2
    <3>2. todo' = fs \o Tail(todo) /\ commands' \in {commands, <<>>} /\ live' = live
      BY <1>1, <2>2, <2>3
    <3>3. UNCHANGED <<refs, graph, used, held, calls, unreachable, stolen>>
      BY <1>1
    <3>. QED  BY <1>1, <2>1, <2>2, <2>4, <3>1, <3>2, <3>3, PopStep
  <2>5. CASE dangling' # FALSE
    <3>1. dangling' = TRUE /\ \E o \in Touched : ~Usable(o)
      BY <2>2, <2>5
    <3>2. Excuse
      BY <3>1, TouchedDestroyed
    <3>3. todo' \in Seq(Items) /\ ToSet(todo') = ToSet(fs) \cup ToSet(r)
      <4>1. fs \in Seq(Items) /\ r \in Seq(Items)
        BY <2>1, <2>3
      <4>2. fs \o r \in Seq(Items) /\ ToSet(fs \o r) = ToSet(fs) \cup ToSet(r)
        BY ONLY <4>1, ConcatFacts
      <4>3. todo' = fs \o r
        BY <2>2
      <4>. QED  BY ONLY <4>2, <4>3
    <3>4. Waiting("assign") # {} => Waiting("assign")' # {}
      <4>1. \A f \in ToSet(todo) : f.op = "assign" => f \in ToSet(todo')
        BY <1>1, <2>3, <3>3
      <4>. QED  BY <4>1, PendingFacts, PendingFactsNext
    <3>5. commands' \in Seq(Kernels \cup Buffers \cup {Queue})
      BY <2>2, EmptySeq
    <3>6. Waiting("assign")' # {} \/ \E k \in Kernels : stolen[k] > 0
      BY <3>2, <3>4 DEF Excuse
    <3>. QED  BY <1>1, <3>1, <3>3, <3>5, <3>6, DanglingStep
  <2>. QED  BY <2>4, <2>5
<1>. QED  BY <1>2, <1>3

-----------------------------------------------------------------------------
(* The application.                                                        *)

(* Calls that destroy nothing and create nothing: fs is pushed.            *)
LEMMA PushStep ==
  ASSUME Good, AppMay, NEW fs \in Seq(Items), \A f \in ToSet(fs) : f.op \in {"release", "flush"},
         todo' = fs \o todo,
         refs' \in [Objects -> Nat], callbacks' \in [Buffers -> 0 .. MaxCallbacks],
         commands' \in Seq(Kernels \cup Buffers \cup {Queue}),
         held' \in [Objects -> 0 .. MaxHeld], calls' \in 0 .. MaxCalls,
         FlushInv', LastInv', SetInv',
         UNCHANGED <<live, program, created, argument, size, used, unreachable, stolen, dangling>>,
         \A x \in Objects : refs'[x] > 0 <=> refs[x] > 0,
         \A x \in Objects :
           refs'[x] + (held[x] + Listed(x))
             = refs[x] + (held'[x] + Listed(x)' + Calls(Naming(x), fs))
  PROVE  Inv'
<1>1. /\ TypeOK /\ MemoryAccounted /\ ~dangling /\ LiveInv /\ AssignInv
      /\ \A x \in Objects : Balanced(x)
  BY DEF Good, Order
<1>2. /\ program' = program /\ created' = created /\ argument' = argument /\ live' = live
      /\ size' = size /\ used' = used /\ unreachable' = unreachable /\ stolen' = stolen
      /\ dangling' = dangling
  OBVIOUS
<1>3. /\ todo \in Seq(Items) /\ todo' \in Seq(Items) /\ ToSet(todo') = ToSet(fs) \cup ToSet(todo)
      /\ \A P : Calls(P, todo') = Calls(P, fs) + Calls(P, todo)
  <2>1. todo \in Seq(Items) /\ fs \in Seq(Items)
    BY <1>1 DEF TypeOK
  <2>2. fs \o todo \in Seq(Items) /\ ToSet(fs \o todo) = ToSet(fs) \cup ToSet(todo)
    BY ONLY <2>1, ConcatFacts
  <2>3. ASSUME NEW P PROVE Calls(P, fs \o todo) = Calls(P, fs) + Calls(P, todo)
    BY <2>1, CallsOfConcat
  <2>. QED  BY <2>1, <2>2, <2>3
<1>4. Existing' = Existing
  <2>1. live \subseteq Objects
    BY <1>1 DEF TypeOK
  <2>. QED  BY <1>2, <2>1 DEF Existing
<1>5. TypeOK'
  BY <1>1, <1>2, <1>3 DEF TypeOK
<1>6. MemoryAccounted'
  BY <1>1, <1>2, <1>4, MemoryIs, MemoryIsNext
<1>7. ASSUME NEW f, f.op \notin {"release", "flush"}
      PROVE  f \in ToSet(todo') <=> f \in ToSet(todo)
  BY <1>3, <1>7
<1>8. LiveInv'
  <2>1. ASSUME NEW x PROVE Free(x) \in ToSet(todo') <=> Free(x) \in ToSet(todo)
    BY <1>7, FieldFacts
  <2>2. ASSUME NEW x \in Objects PROVE refs'[x] = 0 => refs[x] = 0
    <3>1. refs[x] \in Nat /\ (refs'[x] > 0 <=> refs[x] > 0)
      BY <1>1 DEF TypeOK
    <3>. QED  BY ONLY <3>1
  <2>. QED  BY <1>1, <1>2, <2>1, <2>2 DEF LiveInv
<1>9. \A k : Pending(k)' <=> Pending(k)
  <2>1. ASSUME NEW k PROVE PendingIn(k, todo') <=> PendingIn(k, todo)
    BY <1>7 DEF PendingIn
  <2>. QED  BY <2>1, PendingFacts, PendingFactsNext
<1>10. AssignInv'
  <2>1. todo = <<>> \/ Head(todo).op = "callback"
    BY DEF AppMay, Now
  <2>2. \A i \in DOMAIN fs : fs[i].op # "assign"
    BY DEF ToSet
  <2>3. \A i \in Waiting("assign") : argument'[todo[i].o] = argument[todo[i].o]
    BY <1>2
  <2>. QED  BY <1>1, <2>1, <2>2, <2>3, AssignPush
<1>11. ASSUME NEW x \in Objects PROVE Balanced(x)'
  <2>1. /\ Made(x)' = Made(x) /\ Given(x)' = Given(x) /\ Lodged(x)' = Lodged(x)
        /\ Stolen(x)' = Stolen(x)
    BY <1>2, <1>4, <1>9 DEF Made, Given, Lodged, Others, Stolen
  <2>2. /\ held[x] \in Nat /\ Listed(x) \in Nat /\ Cardinality(Given(x)) \in Nat /\ Named(x) \in Nat
        /\ refs[x] \in Nat /\ Listed(x)' \in Nat /\ held'[x] \in Nat /\ refs'[x] \in Nat
    BY <1>1, <1>5, SumAt
  <2>3. Named(x)' = Calls(Naming(x), fs) + Named(x) /\ Calls(Naming(x), fs) \in Nat
    BY <1>3, CallsType DEF Named
  <2>. DEFINE a == Calls(Naming(x), fs)
              i1 == Listed(x)
              i2 == Listed(x)'
              h1 == held[x]
              h2 == held'[x]
              c1 == refs[x]
              c2 == refs'[x]
              n1 == Named(x)
              n2 == Named(x)'
              g == Cardinality(Given(x))
  <2>4. /\ a \in Nat /\ i1 \in Nat /\ i2 \in Nat /\ h1 \in Nat /\ h2 \in Nat
        /\ c1 \in Nat /\ c2 \in Nat /\ n1 \in Nat /\ g \in Nat
    BY <2>2, <2>3
  <2>5. n2 = a + n1 /\ c2 + (h1 + i1) = c1 + (h2 + i2 + a)
    BY <2>3
  <2>. HIDE DEF a, i1, i2, h1, h2, c1, c2, n1, n2, g
  <2>6. c2 + (h1 + i1 + n1 + g) = c1 + (h2 + i2 + n2 + g)
    BY ONLY <2>4, <2>5
  <2>7. refs'[x] + (held[x] + Listed(x) + Named(x) + Cardinality(Given(x)))
          = refs[x] + (held'[x] + Listed(x)' + Named(x)' + Cardinality(Given(x)'))
    BY <2>1, <2>6 DEF i1, i2, h1, h2, c1, c2, n1, n2, g
  <2>. QED  BY <1>1, <1>2, <1>5, <2>1, <2>7, Ledger
<1>12. BalanceInv'
  BY <1>11 DEF BalanceInv
<1>13. Order'
  BY <1>10 DEF Order
<1>14. ~dangling'
  BY <1>1, <1>2
<1>. QED  BY <1>5, <1>6, <1>8, <1>12, <1>13, <1>14, Assemble

LEMMA PushedFacts ==
  ASSUME TypeOK
  PROVE  /\ <<>> \in Seq(Items) /\ ToSet(<<>>) = {} /\ <<>> \o todo = todo
         /\ \A P : Calls(P, <<>>) = 0
         /\ <<Flush>> \in Seq(Items) /\ ToSet(<<Flush>>) = {Flush}
         /\ \A x \in Objects : Calls(Naming(x), <<Flush>>) = 0
<1>1. todo \in Seq(Items) /\ Flush \in Items
  BY ItemFacts DEF TypeOK
<1>2. /\ <<>> \in Seq(Items) /\ ToSet(<<>>) = {} /\ <<>> \o todo = todo
      /\ \A P : Calls(P, <<>>) = 0
  BY <1>1, OneFacts, CallsOfOne, ConcatEmptySeq
<1>3. <<Flush>> \in Seq(Items) /\ ToSet(<<Flush>>) = {Flush}
  BY <1>1, OneFacts
<1>4. ASSUME NEW x \in Objects PROVE Calls(Naming(x), <<Flush>>) = 0
  <2>1. Flush \notin Naming(x)
    BY NamingFacts, FieldFacts
  <2>. QED  BY <1>1, <2>1, CallsOfOne DEF Count
<1>. QED  BY <1>2, <1>3, <1>4

(* What every call finds.                                                  *)
LEMMA CallFacts ==
  ASSUME Good
  PROVE  /\ TypeOK /\ FlushInv /\ LastInv /\ SetInv /\ LiveInv /\ dangling = FALSE
         /\ refs \in [Objects -> Nat] /\ callbacks \in [Buffers -> 0 .. MaxCallbacks]
         /\ commands \in Seq(Kernels \cup Buffers \cup {Queue}) /\ todo \in Seq(Items)
         /\ held \in [Objects -> 0 .. MaxHeld] /\ calls \in 0 .. MaxCalls
         /\ \A x \in Objects : /\ refs[x] \in Nat /\ held[x] \in Nat /\ Listed(x) \in Nat
                               /\ Holds(x) => refs[x] > 0 /\ x \in live
         /\ calls < MaxCalls => calls + 1 \in 0 .. MaxCalls
<1>1. /\ TypeOK /\ FlushInv /\ LastInv /\ SetInv /\ LiveInv /\ dangling = FALSE
      /\ refs \in [Objects -> Nat] /\ callbacks \in [Buffers -> 0 .. MaxCallbacks]
      /\ commands \in Seq(Kernels \cup Buffers \cup {Queue}) /\ todo \in Seq(Items)
      /\ held \in [Objects -> 0 .. MaxHeld] /\ calls \in 0 .. MaxCalls
  BY DEF Good, Order, TypeOK
<1>2. \A x \in Objects : refs[x] \in Nat /\ held[x] \in Nat /\ Listed(x) \in Nat
  BY <1>1, HoldersSum DEF AddsUp
<1>3. \A x : Holds(x) => refs[x] > 0 /\ x \in live
  BY DEF Holds, Usable
<1>4. calls < MaxCalls => calls + 1 \in 0 .. MaxCalls
  BY <1>1, LifetimeAssumption
<1>. QED  BY <1>1, <1>2, <1>3, <1>4

LEMMA SetDestructorCallbackSafe ==
  ASSUME Good, NEW b \in Buffers, SetDestructorCallback(b)
  PROVE  Inv'
<1>1. /\ TypeOK /\ FlushInv /\ LastInv /\ SetInv
      /\ refs \in [Objects -> Nat] /\ callbacks \in [Buffers -> 0 .. MaxCallbacks]
      /\ commands \in Seq(Kernels \cup Buffers \cup {Queue}) /\ todo \in Seq(Items)
      /\ held \in [Objects -> 0 .. MaxHeld]
      /\ \A x \in Objects : refs[x] \in Nat /\ held[x] \in Nat /\ Listed(x) \in Nat
      /\ calls < MaxCalls => calls + 1 \in 0 .. MaxCalls
  BY CallFacts
<1>2. /\ AppMay /\ calls < MaxCalls /\ calls' = calls + 1 /\ callbacks[b] < MaxCallbacks
      /\ callbacks' = [callbacks EXCEPT ![b] = @ + 1]
      /\ UNCHANGED <<live, refs, program, created, argument, size, used, commands, todo, held,
                     history>>
  BY DEF SetDestructorCallback, AppCalls
<1>3. /\ UNCHANGED <<live, program, created, argument, size, used, unreachable, stolen, dangling>>
      /\ refs' = refs /\ commands' = commands /\ todo' = todo /\ held' = held
  BY <1>2 DEF history
<1>4. /\ <<>> \in Seq(Items) /\ ToSet(<<>>) = {} /\ <<>> \o todo = todo
      /\ \A P : Calls(P, <<>>) = 0
  BY <1>1, PushedFacts
<1>5. callbacks' \in [Buffers -> 0 .. MaxCallbacks]
  <2>1. callbacks[b] + 1 \in 0 .. MaxCallbacks
    BY <1>1, <1>2, LifetimeAssumption
  <2>. QED  BY <1>1, <1>2, <2>1
<1>6. FlushInv' /\ LastInv' /\ SetInv'
  BY <1>1, <1>3 DEF FlushInv, LastInv, SetInv
<1>7. calls' \in 0 .. MaxCalls
  BY <1>1, <1>2
<1>8. ASSUME NEW x \in Objects
      PROVE  refs'[x] + (held[x] + Listed(x))
               = refs[x] + (held'[x] + Listed(x)' + Calls(Naming(x), <<>>))
  <2>1. refs'[x] = refs[x] /\ held'[x] = held[x] /\ Listed(x)' = Listed(x)
        /\ Calls(Naming(x), <<>>) = 0
    BY <1>3, <1>4 DEF Listed
  <2>2. refs[x] \in Nat /\ held[x] \in Nat /\ Listed(x) \in Nat
    BY <1>1
  <2>. QED  BY ONLY <2>1, <2>2
<1>9. \A x \in Objects : refs'[x] > 0 <=> refs[x] > 0
  BY <1>3
<1>10. todo' = <<>> \o todo /\ \A f \in ToSet(<<>>) : f.op \in {"release", "flush"}
  BY <1>3, <1>4
<1>. QED  BY <1>1, <1>2, <1>3, <1>4, <1>5, <1>6, <1>7, <1>8, <1>9, <1>10, PushStep

LEMMA RetainSafe ==
  ASSUME Good, NEW o \in Objects, Retain(o)
  PROVE  Inv'
<1>1. /\ TypeOK /\ FlushInv /\ LastInv /\ SetInv
      /\ refs \in [Objects -> Nat] /\ callbacks \in [Buffers -> 0 .. MaxCallbacks]
      /\ commands \in Seq(Kernels \cup Buffers \cup {Queue}) /\ todo \in Seq(Items)
      /\ held \in [Objects -> 0 .. MaxHeld]
      /\ \A x \in Objects : refs[x] \in Nat /\ held[x] \in Nat /\ Listed(x) \in Nat
      /\ calls < MaxCalls => calls + 1 \in 0 .. MaxCalls
      /\ Holds(o) => refs[o] > 0
  BY CallFacts
<1>2. /\ AppMay /\ calls < MaxCalls /\ calls' = calls + 1 /\ Holds(o) /\ held[o] < MaxHeld
      /\ refs' = [refs EXCEPT ![o] = @ + 1] /\ held' = [held EXCEPT ![o] = @ + 1]
      /\ UNCHANGED <<live, graph, used, commands, todo, history>>
  BY DEF Retain, AppCalls
<1>3. /\ UNCHANGED <<live, program, created, argument, size, used, unreachable, stolen, dangling>>
      /\ callbacks' = callbacks /\ commands' = commands /\ todo' = todo
  BY <1>2 DEF graph, history
<1>4. /\ <<>> \in Seq(Items) /\ ToSet(<<>>) = {} /\ <<>> \o todo = todo
      /\ \A P : Calls(P, <<>>) = 0
  BY <1>1, PushedFacts
<1>5. /\ refs' \in [Objects -> Nat] /\ refs'[o] = refs[o] + 1 /\ held'[o] = held[o] + 1
      /\ \A x \in Objects : x # o => refs'[x] = refs[x] /\ held'[x] = held[x]
  BY <1>1, <1>2
<1>6. held' \in [Objects -> 0 .. MaxHeld]
  <2>1. held[o] + 1 \in 0 .. MaxHeld
    BY <1>1, <1>2, LifetimeAssumption
  <2>. QED  BY <1>1, <1>2, <2>1
<1>7. todo' = <<>> \o todo /\ \A f \in ToSet(<<>>) : f.op \in {"release", "flush"}
  BY <1>3, <1>4
<1>8. FlushInv' /\ LastInv' /\ SetInv'
  <2>1. held'[Queue] = 0 => held[Queue] = 0
    <3>1. held[o] \in Nat /\ Queue \in Objects
      BY <1>1, Kinds
    <3>. QED  BY <1>5, <3>1
  <2>2. FlushInv' /\ LastInv'
    BY <1>1, <1>2, <1>3, <1>4, <1>7, <2>1, LastPush
  <2>3. SetInv'
    BY <1>1, <1>3 DEF SetInv
  <2>. QED  BY <2>2, <2>3
<1>9. calls' \in 0 .. MaxCalls
  BY <1>1, <1>2
<1>10. ASSUME NEW x \in Objects
       PROVE  refs'[x] + (held[x] + Listed(x))
                = refs[x] + (held'[x] + Listed(x)' + Calls(Naming(x), <<>>))
  <2>1. Listed(x)' = Listed(x) /\ Calls(Naming(x), <<>>) = 0
    BY <1>3, <1>4 DEF Listed
  <2>2. refs[x] \in Nat /\ held[x] \in Nat /\ Listed(x) \in Nat
    BY <1>1
  <2>3. CASE x = o
    <3>1. refs'[x] = refs[x] + 1 /\ held'[x] = held[x] + 1
      BY <1>5, <2>3
    <3>. QED  BY ONLY <2>1, <2>2, <3>1
  <2>4. CASE x # o
    <3>1. refs'[x] = refs[x] /\ held'[x] = held[x]
      BY <1>5, <2>4
    <3>. QED  BY ONLY <2>1, <2>2, <3>1
  <2>. QED  BY <2>3, <2>4
<1>11. ASSUME NEW x \in Objects PROVE refs'[x] > 0 <=> refs[x] > 0
  <2>1. refs[o] \in Nat /\ refs[o] > 0
    BY <1>1, <1>2
  <2>. QED  BY <1>5, <2>1
<1>. QED  BY <1>1, <1>2, <1>3, <1>4, <1>5, <1>6, <1>7, <1>8, <1>9, <1>10, <1>11, PushStep

LEMMA ClFlushSafe == Good /\ ClFlush => Inv'
<1>. SUFFICES ASSUME Good, ClFlush PROVE Inv'
  OBVIOUS
<1>1. /\ TypeOK /\ FlushInv /\ LastInv /\ SetInv
      /\ refs \in [Objects -> Nat] /\ callbacks \in [Buffers -> 0 .. MaxCallbacks]
      /\ commands \in Seq(Kernels \cup Buffers \cup {Queue}) /\ todo \in Seq(Items)
      /\ held \in [Objects -> 0 .. MaxHeld] /\ calls \in 0 .. MaxCalls
      /\ \A x \in Objects : refs[x] \in Nat /\ held[x] \in Nat /\ Listed(x) \in Nat
  BY CallFacts
<1>2. /\ AppMay /\ held[Queue] > 0 /\ todo' = <<Flush>> \o todo
      /\ UNCHANGED <<live, refs, graph, used, commands, held, calls, history>>
  BY DEF ClFlush, Holds
<1>3. /\ UNCHANGED <<live, program, created, argument, size, used, unreachable, stolen, dangling>>
      /\ refs' = refs /\ callbacks' = callbacks /\ commands' = commands /\ held' = held
      /\ calls' = calls
  BY <1>2 DEF graph, history
<1>4. /\ <<Flush>> \in Seq(Items) /\ ToSet(<<Flush>>) = {Flush}
      /\ \A x \in Objects : Calls(Naming(x), <<Flush>>) = 0
  BY <1>1, PushedFacts
<1>5. \A f \in ToSet(<<Flush>>) : f.op \in {"release", "flush"}
  BY <1>4, FieldFacts
<1>6. held[Queue] # 0
  BY <1>1, <1>2, Kinds
<1>7. FlushInv' /\ LastInv' /\ SetInv'
  <2>1. FlushInv' /\ LastInv'
    BY <1>1, <1>2, <1>3, <1>4, <1>6, LastPush
  <2>2. SetInv'
    BY <1>1, <1>3 DEF SetInv
  <2>. QED  BY <2>1, <2>2
<1>8. ASSUME NEW x \in Objects
      PROVE  refs'[x] + (held[x] + Listed(x))
               = refs[x] + (held'[x] + Listed(x)' + Calls(Naming(x), <<Flush>>))
  <2>1. refs'[x] = refs[x] /\ held'[x] = held[x] /\ Listed(x)' = Listed(x)
        /\ Calls(Naming(x), <<Flush>>) = 0
    BY <1>3, <1>4 DEF Listed
  <2>2. refs[x] \in Nat /\ held[x] \in Nat /\ Listed(x) \in Nat
    BY <1>1
  <2>. QED  BY ONLY <2>1, <2>2
<1>9. \A x \in Objects : refs'[x] > 0 <=> refs[x] > 0
  BY <1>3
<1>. QED  BY <1>1, <1>2, <1>3, <1>4, <1>5, <1>7, <1>8, <1>9, PushStep

LEMMA ReleaseObjectSafe ==
  ASSUME Good, NEW o \in Objects, ReleaseObject(o)
  PROVE  Inv'
<1>. DEFINE fs == (IF o = Queue THEN <<Flush>> ELSE <<>>) \o <<Release(o)>>
<1>1. /\ TypeOK /\ FlushInv /\ LastInv /\ SetInv
      /\ refs \in [Objects -> Nat] /\ callbacks \in [Buffers -> 0 .. MaxCallbacks]
      /\ commands \in Seq(Kernels \cup Buffers \cup {Queue}) /\ todo \in Seq(Items)
      /\ held \in [Objects -> 0 .. MaxHeld] /\ calls \in 0 .. MaxCalls
      /\ \A x \in Objects : refs[x] \in Nat /\ held[x] \in Nat /\ Listed(x) \in Nat
  BY CallFacts
<1>2. /\ AppMay /\ held[o] > 0 /\ (o = Queue => todo = <<>>)
      /\ held' = [held EXCEPT ![o] = @ - 1] /\ todo' = fs \o todo
      /\ UNCHANGED <<live, refs, graph, used, commands, calls, history>>
  BY DEF ReleaseObject, Holds
<1>3. /\ UNCHANGED <<live, program, created, argument, size, used, unreachable, stolen, dangling>>
      /\ refs' = refs /\ callbacks' = callbacks /\ commands' = commands /\ calls' = calls
  BY <1>2 DEF graph, history
<1>4. /\ fs \in Seq(Items) /\ \A f \in ToSet(fs) : f.op \in {"release", "flush"}
      /\ o = Queue => fs = <<Flush, Release(Queue)>>
      /\ o # Queue => \A f \in ToSet(fs) : ~IsFlush(f)
      /\ \A x \in Objects : Calls(Naming(x), fs) = Count(o = x)
  <2>1. Release(o) \in Items /\ Flush \in Items /\ Release(Queue) \in Items
    BY ItemFacts, Kinds
  <2>2. CASE o = Queue
    <3>1. fs = <<Flush, Release(Queue)>>
      <4>1. fs = <<Flush>> \o <<Release(Queue)>>
        BY <2>2
      <4>. QED  BY <2>1, <2>2, <4>1, Pair
    <3>. HIDE DEF fs
    <3>2. fs \in Seq(Items) /\ ToSet(fs) = {Flush, Release(Queue)}
      <4>1. /\ <<Flush, Release(Queue)>> \in Seq(Items)
            /\ ToSet(<<Flush, Release(Queue)>>) = {Flush, Release(Queue)}
        <5>1. Flush \in Items /\ Release(Queue) \in Items
          BY <2>1
        <5>. QED  BY ONLY <5>1, TwoFacts
      <4>. QED  BY <3>1, <4>1
    <3>3. ASSUME NEW x \in Objects PROVE Calls(Naming(x), fs) = Count(o = x)
      <4>1. Calls(Naming(x), <<Flush, Release(Queue)>>)
              = Count(Flush \in Naming(x)) + Count(Release(Queue) \in Naming(x))
        <5>1. Flush \in Items /\ Release(Queue) \in Items
          BY <2>1
        <5>. QED  BY ONLY <5>1, TwoFacts
      <4>2. Flush \notin Naming(x) /\ (Release(Queue) \in Naming(x) <=> o = x)
        BY <2>2, NamingFacts, FieldFacts
      <4>. QED  BY <3>1, <4>1, <4>2 DEF Count
    <3>. QED  BY <2>2, <3>1, <3>2, <3>3, FieldFacts
  <2>3. CASE o # Queue
    <3>1. fs = <<Release(o)>>
      <4>1. fs = <<>> \o <<Release(o)>> /\ <<Release(o)>> \in Seq(Items)
        BY <2>1, <2>3, OneFacts
      <4>. HIDE DEF fs
      <4>. QED  BY <4>1, ConcatEmptySeq
    <3>. HIDE DEF fs
    <3>2. fs \in Seq(Items) /\ ToSet(fs) = {Release(o)}
      BY <2>1, <3>1, OneFacts
    <3>3. ASSUME NEW x \in Objects PROVE Calls(Naming(x), fs) = Count(o = x)
      <4>1. Calls(Naming(x), fs) = Count(Release(o) \in Naming(x))
        BY <2>1, <3>1, CallsOfOne
      <4>2. Release(o) \in Naming(x) <=> o = x
        BY NamingFacts
      <4>. QED  BY <4>1, <4>2 DEF Count
    <3>. QED  BY <2>3, <3>2, <3>3, FieldFacts DEF IsFlush
  <2>. QED  BY <2>2, <2>3
<1>. HIDE DEF fs
<1>5. /\ held' \in [Objects -> 0 .. MaxHeld] /\ held'[o] = held[o] - 1 /\ held[o] \in Nat
      /\ \A x \in Objects : x # o => held'[x] = held[x]
  <2>1. held[o] \in 0 .. MaxHeld /\ MaxHeld \in Nat
    BY <1>1, LifetimeAssumption
  <2>2. held[o] - 1 \in 0 .. MaxHeld
    BY <1>2, <2>1
  <2>. QED  BY <1>1, <1>2, <2>2
<1>6. FlushInv' /\ LastInv'
  <2>1. CASE o = Queue
    <3>1. /\ <<Flush, Release(Queue)>> \in Seq(Items) /\ Len(<<Flush, Release(Queue)>>) = 2
          /\ <<Flush, Release(Queue)>>[2] = Release(Queue)
      BY ItemFacts, Kinds, TwoFacts
    <3>2. todo' = <<Flush, Release(Queue)>>
      BY <1>2, <1>4, <2>1, <3>1, ConcatEmptySeq
    <3>. QED  BY <3>1, <3>2 DEF FlushInv, LastInv
  <2>2. CASE o # Queue
    <3>1. held'[Queue] = held[Queue]
      BY <1>5, <2>2, Kinds
    <3>. QED  BY <1>1, <1>2, <1>3, <1>4, <2>2, <3>1, LastPush
  <2>. QED  BY <2>1, <2>2
<1>7. SetInv'
  BY <1>1, <1>3 DEF SetInv
<1>8. ASSUME NEW x \in Objects
      PROVE  refs'[x] + (held[x] + Listed(x))
               = refs[x] + (held'[x] + Listed(x)' + Calls(Naming(x), fs))
  <2>1. refs'[x] = refs[x] /\ Listed(x)' = Listed(x)
    BY <1>3 DEF Listed
  <2>2. refs[x] \in Nat /\ held[x] \in Nat /\ Listed(x) \in Nat
    BY <1>1
  <2>3. CASE x = o
    <3>1. held'[x] = held[x] - 1 /\ Calls(Naming(x), fs) = 1
      BY <1>4, <1>5, <2>3 DEF Count
    <3>. QED  BY ONLY <2>1, <2>2, <3>1
  <2>4. CASE x # o
    <3>1. held'[x] = held[x] /\ Calls(Naming(x), fs) = 0
      BY <1>4, <1>5, <2>4 DEF Count
    <3>. QED  BY ONLY <2>1, <2>2, <3>1
  <2>. QED  BY <2>3, <2>4
<1>9. \A x \in Objects : refs'[x] > 0 <=> refs[x] > 0
  BY <1>3
<1>10. commands' \in Seq(Kernels \cup Buffers \cup {Queue}) /\ calls' \in 0 .. MaxCalls
       /\ callbacks' \in [Buffers -> 0 .. MaxCallbacks]
  BY <1>1, <1>3
<1>. QED  BY <1>1, <1>2, <1>3, <1>4, <1>5, <1>6, <1>7, <1>8, <1>9, <1>10, PushStep

LEMMA EnqueueSafe ==
  ASSUME Good, NEW os \in Seq(Kernels \cup Buffers), NEW flushes \in BOOLEAN,
         Enqueue(os, flushes), \A k \in Kernels \cap ToSet(os) : argument[k] # Unset
  PROVE  Inv'
<1>. DEFINE fs == IF flushes THEN <<Flush>> ELSE <<>>
            T == Kernels \cup Buffers \cup {Queue}
            q == <<Queue>>
<1>1. /\ TypeOK /\ FlushInv /\ LastInv /\ SetInv
      /\ refs \in [Objects -> Nat] /\ callbacks \in [Buffers -> 0 .. MaxCallbacks]
      /\ commands \in Seq(T) /\ todo \in Seq(Items)
      /\ held \in [Objects -> 0 .. MaxHeld] /\ calls \in 0 .. MaxCalls
      /\ \A x \in Objects : /\ refs[x] \in Nat /\ held[x] \in Nat /\ Listed(x) \in Nat
                            /\ Holds(x) => refs[x] > 0
  BY CallFacts
<1>2. /\ AppMay /\ Holds(Queue) /\ held[Queue] > 0 /\ \A o \in ToSet(os) : Holds(o)
      /\ refs' = [o \in Objects |-> refs[o] + Occurrences(o, os \o q)]
      /\ commands' = commands \o os \o q
      /\ todo' = IF flushes THEN <<Flush>> \o todo ELSE todo
      /\ UNCHANGED <<live, graph, used, held, calls, history>>
  BY DEF Enqueue, Holds
<1>3. /\ UNCHANGED <<live, program, created, argument, size, used, unreachable, stolen, dangling>>
      /\ callbacks' = callbacks /\ held' = held /\ calls' = calls
  BY <1>2 DEF graph, history
<1>4. /\ fs \in Seq(Items) /\ \A f \in ToSet(fs) : f.op \in {"release", "flush"}
      /\ todo' = fs \o todo
      /\ \A x \in Objects : Calls(Naming(x), fs) = 0
  <2>1. /\ <<>> \in Seq(Items) /\ ToSet(<<>>) = {} /\ <<>> \o todo = todo
        /\ \A P : Calls(P, <<>>) = 0
        /\ <<Flush>> \in Seq(Items) /\ ToSet(<<Flush>>) = {Flush}
        /\ \A x \in Objects : Calls(Naming(x), <<Flush>>) = 0
    BY <1>1, PushedFacts
  <2>2. CASE flushes
    BY <1>2, <2>1, <2>2, FieldFacts
  <2>3. CASE ~flushes
    BY <1>2, <2>1, <2>3
  <2>. QED  BY <2>2, <2>3
<1>5. /\ os \in Seq(T) /\ q \in Seq(T) /\ ToSet(q) = {Queue}
      /\ \A P : Calls(P, q) = Count(Queue \in P)
  <2>1. Kernels \cup Buffers \subseteq T
    OBVIOUS
  <2>2. \A i \in 1 .. Len(os) : os[i] \in T
    BY <2>1, ElementOfSeq
  <2>3. os \in Seq(T)
    BY <2>1, <2>2, SeqDef, LenProperties
  <2>. QED  BY <2>3, OneFacts, CallsOfOne
<1>. HIDE DEF fs, q, T
<1>6. /\ commands' \in Seq(T) /\ ToSet(commands') = ToSet(commands) \cup ToSet(os) \cup {Queue}
      /\ \A P : Calls(P, commands') = Calls(P, commands) + Calls(P, os) + Calls(P, q)
  <2>. DEFINE co == commands \o os
  <2>1. co \in Seq(T) /\ ToSet(co) = ToSet(commands) \cup ToSet(os)
    BY <1>1, <1>5, ConcatFacts
  <2>2. ASSUME NEW P PROVE Calls(P, co) = Calls(P, commands) + Calls(P, os)
    BY <1>1, <1>5, CallsOfConcat
  <2>3. commands' = co \o q
    BY <1>2
  <2>. HIDE DEF co
  <2>4. co \o q \in Seq(T) /\ ToSet(co \o q) = ToSet(co) \cup ToSet(q)
    BY <1>5, <2>1, ConcatFacts
  <2>5. ASSUME NEW P PROVE Calls(P, co \o q) = Calls(P, co) + Calls(P, q)
    BY <1>5, <2>1, CallsOfConcat
  <2>. QED  BY <1>5, <2>1, <2>2, <2>3, <2>4, <2>5
<1>7. ASSUME NEW x \in Objects
      PROVE  /\ refs'[x] = refs[x] + (Calls({x}, os) + Calls({x}, q))
             /\ Listed(x)' = Listed(x) + Calls({x}, os) + Calls({x}, q)
             /\ Calls({x}, os) \in Nat /\ Calls({x}, q) \in Nat
             /\ Calls({x}, os) > 0 \/ Calls({x}, q) > 0 => refs[x] > 0
  <2>1. Calls({x}, os) \in Nat /\ Calls({x}, q) \in Nat
    BY <1>5, CallsType
  <2>2. refs'[x] = refs[x] + Occurrences(x, os \o q)
    BY <1>2
  <2>3. Occurrences(x, os \o q) = Calls({x}, os \o q)
    BY DEF Occurrences, Calls
  <2>4. Calls({x}, os \o q) = Calls({x}, os) + Calls({x}, q)
    BY <1>5, CallsOfConcat
  <2>5. Listed(x)' = Listed(x) + Calls({x}, os) + Calls({x}, q)
    BY <1>6 DEF Listed
  <2>6. ASSUME Calls({x}, os) > 0 PROVE refs[x] > 0
    <3>1. Calls({x}, os) # 0
      BY <2>1, <2>6
    <3>2. x \in ToSet(os)
      <4>1. os \in Seq(T)
        BY <1>5
      <4>2. \E f \in ToSet(os) : f \in {x}
        BY ONLY <3>1, <4>1, CallsType
      <4>. QED  BY <4>2
    <3>. QED  BY <1>1, <1>2, <3>2
  <2>7. ASSUME Calls({x}, q) > 0 PROVE refs[x] > 0
    <3>1. x = Queue
      BY <1>5, <2>7 DEF Count
    <3>. QED  BY <1>1, <1>2, <3>1
  <2>. QED  BY <2>1, <2>2, <2>3, <2>4, <2>5, <2>6, <2>7
<1>8. refs' \in [Objects -> Nat]
  <2>1. refs' = [x \in Objects |-> refs'[x]]
    BY <1>2
  <2>2. ASSUME NEW x \in Objects PROVE refs'[x] \in Nat
    <3>. DEFINE a == Calls({x}, os)
                b == Calls({x}, q)
                c == refs[x]
    <3>1. a \in Nat /\ b \in Nat /\ c \in Nat /\ refs'[x] = c + (a + b)
      BY <1>1, <1>7
    <3>. HIDE DEF a, b, c
    <3>. QED  BY <3>1
  <2>. QED  BY <2>1, <2>2
<1>9. ASSUME NEW x \in Objects
      PROVE  /\ refs'[x] + (held[x] + Listed(x))
                  = refs[x] + (held'[x] + Listed(x)' + Calls(Naming(x), fs))
             /\ refs'[x] > 0 <=> refs[x] > 0
  <2>. DEFINE a == Calls({x}, os)
              b == Calls({x}, q)
              c1 == refs[x]
              c2 == refs'[x]
              h == held[x]
              i1 == Listed(x)
              i2 == Listed(x)'
              n == Calls(Naming(x), fs)
  <2>1. a \in Nat /\ b \in Nat /\ c1 \in Nat /\ h \in Nat /\ i1 \in Nat
    BY <1>1, <1>7
  <2>2. c2 = c1 + (a + b) /\ i2 = i1 + a + b /\ n = 0 /\ (a > 0 \/ b > 0 => c1 > 0)
    BY <1>4, <1>7
  <2>. HIDE DEF a, b, c1, c2, h, i1, i2, n
  <2>3. c2 + (h + i1) = c1 + (h + i2 + n) /\ (c2 > 0 <=> c1 > 0)
    BY ONLY <2>1, <2>2
  <2>. QED  BY <1>3, <2>3 DEF c1, c2, h, i1, i2, n
<1>10. FlushInv' /\ LastInv' /\ SetInv'
  <2>1. held[Queue] # 0
    BY <1>1, <1>2, Kinds
  <2>2. FlushInv' /\ LastInv'
    BY <1>1, <1>2, <1>3, <1>4, <2>1, LastPush
  <2>3. SetInv'
    BY <1>1, <1>3, <1>6, Kinds DEF SetInv
  <2>. QED  BY <2>2, <2>3
<1>11. callbacks' \in [Buffers -> 0 .. MaxCallbacks] /\ held' \in [Objects -> 0 .. MaxHeld]
       /\ calls' \in 0 .. MaxCalls /\ commands' \in Seq(Kernels \cup Buffers \cup {Queue})
  BY <1>1, <1>3, <1>6 DEF T
<1>. QED  BY <1>2, <1>3, <1>4, <1>8, <1>9, <1>10, <1>11, PushStep

LEMMA EnqueueCallsSafe ==
  ASSUME Good
  PROVE  /\ \A k \in Kernels : EnqueueKernel(k) => Inv'
         /\ \A b \in Buffers, blocking \in BOOLEAN : EnqueueTransfer(b, blocking) => Inv'
         /\ \A b, c \in Buffers : EnqueueCopy(b, c) => Inv'
<1>1. ASSUME NEW k \in Kernels, EnqueueKernel(k) PROVE Inv'
  <2>1. argument[k] # Unset /\ Enqueue(<<k>>, FALSE)
    BY <1>1 DEF EnqueueKernel
  <2>2. <<k>> \in Seq(Kernels \cup Buffers) /\ ToSet(<<k>>) = {k}
    BY OneFacts
  <2>. QED  BY <2>1, <2>2, EnqueueSafe
<1>2. ASSUME NEW b \in Buffers, NEW blocking \in BOOLEAN, EnqueueTransfer(b, blocking) PROVE Inv'
  <2>1. Enqueue(<<b>>, blocking)
    BY <1>2 DEF EnqueueTransfer
  <2>2. <<b>> \in Seq(Kernels \cup Buffers) /\ ToSet(<<b>>) = {b}
    BY OneFacts
  <2>. QED  BY <2>1, <2>2, Kinds, EnqueueSafe
<1>3. ASSUME NEW b \in Buffers, NEW c \in Buffers, EnqueueCopy(b, c) PROVE Inv'
  <2>1. Enqueue(<<b, c>>, FALSE)
    BY <1>3 DEF EnqueueCopy
  <2>2. <<b, c>> \in Seq(Kernels \cup Buffers) /\ ToSet(<<b, c>>) = {b, c}
    <3>1. b \in Kernels \cup Buffers /\ c \in Kernels \cup Buffers
      OBVIOUS
    <3>. QED  BY ONLY <3>1, TwoFacts
  <2>. QED  BY <2>1, <2>2, Kinds, EnqueueSafe
<1>. QED  BY <1>1, <1>2, <1>3

(* What setArgument leaves to do.                                          *)
SetTodo(k, v) ==
  (IF argument[k] \in Buffers THEN <<Release(argument[k])>> ELSE <<>>) \o <<Assign(k, v)>>

LEMMA SetTodoFacts ==
  ASSUME TypeOK, NEW k \in Kernels, NEW v \in Buffers \cup {Null}
  PROVE  LET fs == SetTodo(k, v)
         IN  /\ fs \in Seq(Items) /\ Assign(k, v) \in ToSet(fs) /\ Len(fs) \in Nat
             /\ \A f \in ToSet(fs) : f.op = "release" \/ f = Assign(k, v)
             /\ \A x \in Objects : Calls(Naming(x), fs) = Count(argument[k] = x) + Count(v = x)
             /\ \A i \in DOMAIN fs : fs[i].op = "assign" =>
                  /\ i = Len(fs) /\ fs[i].o = k
                  /\ i = 1 \/ (i = 2 /\ argument[k] \in Buffers /\ fs[1] = Release(argument[k]))
             /\ argument[k] \in Buffers => fs # <<>> /\ Head(fs) = Release(argument[k])
<1>. DEFINE a == Assign(k, v)
            r == Release(argument[k])
<1>1. a \in Items /\ (argument[k] \in Buffers => r \in Items)
  BY ItemFacts, Kinds
<1>2. a.op = "assign" /\ r.op = "release" /\ a.o = k
  BY FieldFacts
<1>3. /\ \A x \in Objects : a \in Naming(x) <=> v = x
      /\ \A x \in Objects : r \in Naming(x) <=> argument[k] = x
  BY NamingFacts
<1>4. CASE argument[k] \in Buffers
  <2>. HIDE DEF a, r
  <2>1. SetTodo(k, v) = <<r, a>>
    <3>1. SetTodo(k, v) = <<r>> \o <<a>>
      BY <1>4 DEF SetTodo, r, a
    <3>. QED  BY <1>1, <1>4, <3>1, Pair
  <2>2. /\ <<r, a>> \in Seq(Items) /\ Len(<<r, a>>) = 2 /\ ToSet(<<r, a>>) = {r, a}
        /\ <<r, a>>[1] = r /\ <<r, a>>[2] = a
    BY <1>1, <1>4, TwoFacts
  <2>3. DOMAIN <<r, a>> = {1, 2}
    <3>1. DOMAIN <<r, a>> = 1 .. 2
      BY <2>2, LenProperties
    <3>. QED  BY <3>1
  <2>4. ASSUME NEW x \in Objects
        PROVE  Calls(Naming(x), <<r, a>>) = Count(argument[k] = x) + Count(v = x)
    <3>1. Calls(Naming(x), <<r, a>>) = Count(r \in Naming(x)) + Count(a \in Naming(x))
      BY <1>1, <1>4, TwoFacts
    <3>. QED  BY <1>3, <3>1
  <2>5. \A i \in DOMAIN <<r, a>> : <<r, a>>[i].op = "assign" =>
          /\ i = Len(<<r, a>>) /\ <<r, a>>[i].o = k
          /\ i = 1 \/ (i = 2 /\ argument[k] \in Buffers /\ <<r, a>>[1] = Release(argument[k]))
    <3>1. r = Release(argument[k])
      BY DEF r
    <3>. QED  BY <1>2, <1>4, <2>2, <2>3, <3>1
  <2>. DEFINE fs == <<r, a>>
  <2>6. fs # <<>> /\ Head(fs) = fs[1]
    OBVIOUS
  <2>7. /\ fs \in Seq(Items) /\ Len(fs) = 2 /\ ToSet(fs) = {r, a} /\ fs[1] = r
        /\ \A x \in Objects : Calls(Naming(x), fs) = Count(argument[k] = x) + Count(v = x)
        /\ \A i \in DOMAIN fs : fs[i].op = "assign" =>
             /\ i = Len(fs) /\ fs[i].o = k
             /\ i = 1 \/ (i = 2 /\ argument[k] \in Buffers /\ fs[1] = Release(argument[k]))
    BY <2>2, <2>4, <2>5
  <2>8. SetTodo(k, v) = fs
    BY <2>1
  <2>. HIDE DEF fs
  <2>. QED  BY <1>2, <2>6, <2>7, <2>8 DEF a, r
<1>5. CASE argument[k] \notin Buffers
  <2>. HIDE DEF a, r
  <2>1. <<a>> \in Seq(Items) /\ Len(<<a>>) = 1 /\ ToSet(<<a>>) = {a} /\ DOMAIN <<a>> = {1} /\ <<a>>[1] = a
    BY <1>1, OneFacts
  <2>2. SetTodo(k, v) = <<a>>
    <3>1. SetTodo(k, v) = <<>> \o <<a>>
      BY <1>5 DEF SetTodo, a
    <3>. QED  BY <2>1, <3>1, ConcatEmptySeq
  <2>3. ASSUME NEW x \in Objects
        PROVE  Calls(Naming(x), <<a>>) = Count(argument[k] = x) + Count(v = x)
    <3>1. Calls(Naming(x), <<a>>) = Count(a \in Naming(x))
      BY <1>1, CallsOfOne
    <3>2. argument[k] # x
      BY <1>5, Kinds DEF TypeOK, Values
    <3>. QED  BY <1>3, <3>1, <3>2 DEF Count
  <2>. DEFINE fs == <<a>>
  <2>4. /\ fs \in Seq(Items) /\ Len(fs) = 1 /\ ToSet(fs) = {a} /\ DOMAIN fs = {1} /\ fs[1] = a
        /\ \A x \in Objects : Calls(Naming(x), fs) = Count(argument[k] = x) + Count(v = x)
    BY <2>1, <2>3
  <2>5. SetTodo(k, v) = fs
    BY <2>2
  <2>. HIDE DEF fs
  <2>6. \A i \in DOMAIN fs : i = 1 /\ i = Len(fs) /\ fs[i].o = k
    BY <1>2, <2>4
  <2>7. \A f \in ToSet(fs) : f = Assign(k, v)
    BY <2>4 DEF a
  <2>8. Assign(k, v) \in ToSet(fs) /\ Len(fs) \in Nat
    BY <2>4 DEF a
  <2>9. \A i \in DOMAIN fs : fs[i].op = "assign" =>
          /\ i = Len(fs) /\ fs[i].o = k
          /\ i = 1 \/ (i = 2 /\ argument[k] \in Buffers /\ fs[1] = Release(argument[k]))
    BY <2>6
  <2>10. \A f \in ToSet(fs) : f.op = "release" \/ f = Assign(k, v)
    BY <2>7
  <2>11. fs \in Seq(Items) /\ \A x \in Objects : Calls(Naming(x), fs) = Count(argument[k] = x) + Count(v = x)
    BY <2>4
  <2>. QED  BY <1>5, <2>5, <2>8, <2>9, <2>10, <2>11
<1>. QED  BY <1>4, <1>5

(* In a callback inside a setArgument of the same kernel, the old value is *)
(* released once more; else the account of the old value is handed over.   *)
LEMMA SetArgumentSafe ==
  ASSUME Good, NEW k \in Kernels, NEW v \in Buffers \cup {Null}, SetArgument(k, v)
  PROVE  Inv'
<1>. DEFINE fs == SetTodo(k, v)
<1>1. /\ TypeOK /\ MemoryAccounted /\ dangling = FALSE /\ LiveInv /\ Order
      /\ AssignInv /\ FlushInv /\ LastInv /\ SetInv
      /\ \A x \in Objects : Balanced(x)
      /\ todo \in Seq(Items) /\ refs \in [Objects -> Nat]
      /\ \A x \in Objects : /\ refs[x] \in Nat
                            /\ Holds(x) => refs[x] > 0 /\ x \in live
      /\ calls < MaxCalls => calls + 1 \in 0 .. MaxCalls
  BY CallFacts DEF Good, Order
<1>2. /\ AppMay /\ calls < MaxCalls /\ calls' = calls + 1 /\ Holds(k) /\ (v \in Buffers => Holds(v))
      /\ refs' = IF v \in Buffers THEN [refs EXCEPT ![v] = @ + 1] ELSE refs
      /\ todo' = fs \o todo
      /\ UNCHANGED <<live, graph, used, commands, held, history>>
  BY DEF SetArgument, AppCalls, SetTodo
<1>3. /\ program' = program /\ created' = created /\ argument' = argument /\ live' = live
      /\ callbacks' = callbacks /\ size' = size /\ used' = used /\ commands' = commands
      /\ held' = held /\ unreachable' = unreachable /\ stolen' = stolen /\ dangling' = dangling
  BY <1>2 DEF graph, history
<1>4. /\ fs \in Seq(Items) /\ Assign(k, v) \in ToSet(fs) /\ Len(fs) \in Nat
      /\ \A f \in ToSet(fs) : f.op = "release" \/ f = Assign(k, v)
      /\ \A x \in Objects : Calls(Naming(x), fs) = Count(argument[k] = x) + Count(v = x)
      /\ \A i \in DOMAIN fs : fs[i].op = "assign" =>
           /\ i = Len(fs) /\ fs[i].o = k
           /\ i = 1 \/ (i = 2 /\ argument[k] \in Buffers /\ fs[1] = Release(argument[k]))
      /\ argument[k] \in Buffers => fs # <<>> /\ Head(fs) = Release(argument[k])
  BY <1>1, SetTodoFacts
<1>. HIDE DEF fs
<1>5. /\ todo' \in Seq(Items) /\ ToSet(todo') = ToSet(fs) \cup ToSet(todo)
      /\ \A P : Calls(P, todo') = Calls(P, fs) + Calls(P, todo)
  <2>1. fs \o todo \in Seq(Items) /\ ToSet(fs \o todo) = ToSet(fs) \cup ToSet(todo)
    BY ONLY <1>1, <1>4, ConcatFacts
  <2>2. ASSUME NEW P PROVE Calls(P, fs \o todo) = Calls(P, fs) + Calls(P, todo)
    BY <1>1, <1>4, CallsOfConcat
  <2>. QED  BY <1>2, <2>1, <2>2
<1>6. /\ refs' \in [Objects -> Nat]
      /\ \A x \in Objects : refs'[x] = refs[x] + Count(v = x)
      /\ \A x \in Objects : refs'[x] > 0 <=> refs[x] > 0
  <2>1. CASE v \in Buffers
    <3>1. v \in Objects /\ refs[v] > 0
      BY <1>1, <1>2, <2>1, Kinds
    <3>2. /\ refs' \in [Objects -> Nat] /\ refs'[v] = refs[v] + 1
          /\ \A x \in Objects : x # v => refs'[x] = refs[x]
      BY <1>1, <1>2, <2>1, <3>1
    <3>3. ASSUME NEW x \in Objects
          PROVE  refs'[x] = refs[x] + Count(v = x) /\ (refs'[x] > 0 <=> refs[x] > 0)
      <4>1. refs[x] \in Nat
        BY <1>1
      <4>2. CASE x = v
        BY <3>1, <3>2, <4>1, <4>2 DEF Count
      <4>3. CASE x # v
        BY <3>2, <4>1, <4>3 DEF Count
      <4>. QED  BY <4>2, <4>3
    <3>. QED  BY <3>2, <3>3
  <2>2. CASE v \notin Buffers
    <3>1. refs' = refs
      BY <1>2, <2>2
    <3>2. ASSUME NEW x \in Objects PROVE Count(v = x) = 0 /\ refs[x] \in Nat
      BY <1>1, <2>2, Kinds DEF Count
    <3>. QED  BY <1>1, <3>1, <3>2
  <2>. QED  BY <2>1, <2>2
<1>7. Existing' = Existing /\ k \in Existing
  <2>1. live \subseteq Objects
    BY <1>1 DEF TypeOK
  <2>2. k \in Existing
    BY <1>2 DEF Holds, Usable, Existing
  <2>. QED  BY <1>3, <1>6, <2>1, <2>2 DEF Existing
<1>8. TypeOK'
  <2>1. calls' \in 0 .. MaxCalls
    BY <1>1, <1>2
  <2>. QED  BY <1>1, <1>3, <1>5, <1>6, <2>1 DEF TypeOK
<1>9. MemoryAccounted'
  BY <1>1, <1>3, <1>7, MemoryIs, MemoryIsNext
<1>10. LiveInv'
  <2>1. ASSUME NEW x PROVE Free(x) \in ToSet(todo') <=> Free(x) \in ToSet(todo)
    <3>1. Free(x) \notin ToSet(fs)
      BY <1>4, FieldFacts
    <3>. QED  BY <1>5, <3>1
  <2>2. ASSUME NEW x \in Objects PROVE refs'[x] = 0 => refs[x] = 0
    <3>1. refs[x] \in Nat /\ (refs'[x] > 0 <=> refs[x] > 0)
      BY <1>1, <1>6
    <3>. QED  BY ONLY <3>1
  <2>. QED  BY <1>1, <1>3, <1>6, <2>1, <2>2 DEF LiveInv
<1>11. Pending(k)' /\ \A j : j # k => (Pending(j)' <=> Pending(j))
  <2>1. \A f \in ToSet(fs) : f.op = "assign" => f.o = k
    BY <1>4, FieldFacts
  <2>2. PendingIn(k, todo')
    BY <1>4, <1>5, FieldFacts DEF PendingIn
  <2>3. ASSUME NEW j, j # k PROVE PendingIn(j, todo') <=> PendingIn(j, todo)
    BY <1>5, <2>1, <2>3 DEF PendingIn
  <2>. QED  BY ONLY <2>2, <2>3, PendingFacts, PendingFactsNext
<1>12. ASSUME NEW x \in Objects, ~(Pending(k) /\ argument[k] = x) PROVE Balanced(x)'
  <2>. DEFINE old == argument[k] = x
  <2>1. /\ Made(x)' = Made(x) /\ Lodged(x)' = Lodged(x) /\ Stolen(x)' = Stolen(x)
        /\ Listed(x)' = Listed(x)
    BY <1>3, <1>7 DEF Made, Lodged, Others, Stolen, Listed
  <2>2. /\ held[x] \in Nat /\ Listed(x) \in Nat /\ Cardinality(Given(x)) \in Nat /\ Named(x) \in Nat
        /\ refs[x] \in Nat /\ Named(x)' \in Nat /\ Cardinality(Given(x)') \in Nat
        /\ IsFiniteSet(Given(x))
    BY <1>1, <1>8, SumAt
  <2>3. Given(x)' = Given(x) \ {k} /\ (k \in Given(x) <=> old)
    <3>1. \A j \in Kernels : j \in Given(x)' <=> j \in Given(x) /\ j # k
      BY <1>3, <1>7, <1>11 DEF Given
    <3>2. k \in Given(x) <=> old
      BY <1>7, <1>12 DEF Given
    <3>3. Given(x) \subseteq Kernels /\ Given(x)' \subseteq Kernels
      BY DEF Given
    <3>. QED  BY <3>1, <3>2, <3>3
  <2>4. Cardinality(Given(x)) = Cardinality(Given(x)') + Count(old)
    BY <2>2, <2>3, Without
  <2>5. Named(x)' = Count(old) + Count(v = x) + Named(x) /\ refs'[x] = refs[x] + Count(v = x)
    BY <1>4, <1>5, <1>6 DEF Named
  <2>. HIDE DEF old
  <2>. DEFINE n1 == Named(x)
              n2 == Named(x)'
              g1 == Cardinality(Given(x))
              g2 == Cardinality(Given(x)')
              i == Listed(x)
              h == held[x]
              c1 == refs[x]
              c2 == refs'[x]
              a == Count(v = x)
              b == Count(old)
  <2>6. /\ n1 \in Nat /\ n2 \in Nat /\ g1 \in Nat /\ g2 \in Nat /\ i \in Nat /\ h \in Nat
        /\ c1 \in Nat /\ a \in Nat /\ b \in Nat
    BY <2>2, CountType
  <2>7. n2 = b + a + n1 /\ c2 = c1 + a /\ g1 = g2 + b
    BY <2>4, <2>5
  <2>. HIDE DEF n1, n2, g1, g2, i, h, c1, c2, a, b
  <2>8. c2 + (h + i + n1 + g1) = c1 + (h + i + n2 + g2)
    BY ONLY <2>6, <2>7
  <2>9. refs'[x] + (held[x] + Listed(x) + Named(x) + Cardinality(Given(x)))
          = refs[x] + (held'[x] + Listed(x)' + Named(x)' + Cardinality(Given(x)'))
    BY <1>3, <2>1, <2>8 DEF n1, n2, g1, g2, i, h, c1, c2
  <2>. QED  BY <1>1, <1>3, <1>8, <2>1, <2>9, Ledger
<1>13. CASE ~Pending(k)
  <2>1. BalanceInv'
    BY <1>12, <1>13 DEF BalanceInv
  <2>2. AssignInv'
    <3>1. todo = <<>> \/ Head(todo).op = "callback"
      BY <1>2 DEF AppMay, Now
    <3>2. \A i \in DOMAIN fs : fs[i].op = "assign" =>
            /\ i = Len(fs) /\ ~Pending(fs[i].o) /\ argument'[fs[i].o] = argument[fs[i].o]
            /\ i = 1 \/ /\ i = 2 /\ argument[fs[i].o] \in Buffers
                        /\ fs[1] = Release(argument[fs[i].o])
      BY <1>3, <1>4, <1>13
    <3>3. \A i \in Waiting("assign") : argument'[todo[i].o] = argument[todo[i].o]
      BY <1>3
    <3>. QED  BY <1>1, <1>2, <1>4, <3>1, <3>2, <3>3, AssignPush
  <2>3. FlushInv' /\ LastInv'
    <3>1. \A f \in ToSet(fs) : ~IsFlush(f)
      BY <1>4, FieldFacts DEF IsFlush
    <3>. QED  BY <1>1, <1>2, <1>3, <1>4, <3>1, LastPush
  <2>4. SetInv'
    BY <1>1, <1>3 DEF SetInv
  <2>5. Order' /\ ~dangling'
    BY <1>1, <1>3, <2>2, <2>3, <2>4 DEF Order
  <2>. QED  BY <1>8, <1>9, <1>10, <2>1, <2>5, Assemble
<1>14. CASE Pending(k)
  <2>1. PICK i \in Waiting("assign") : todo[i].o = k
    BY <1>14 DEF Pending
  <2>2. i \in DOMAIN todo /\ todo[i].op = "assign" /\ DOMAIN todo = 1 .. Len(todo) /\ Len(todo) \in Nat
    BY <1>1, <2>1, LenProperties DEF Waiting
  <2>3. todo # <<>> /\ todo[1].op = "callback" /\ i # 1
    <3>1. todo # <<>>
      BY <2>2, EmptySeq
    <3>2. Head(todo).op = "callback" /\ Head(todo) = todo[1]
      BY <1>1, <1>2, <3>1, HeadFacts DEF AppMay, Now
    <3>. QED  BY <2>2, <3>1, <3>2
  <2>. DEFINE b == argument[k]
  <2>4. b \in Buffers /\ todo[i - 1] = Free(b) /\ i - 1 \in DOMAIN todo
    <3>1. b \in Buffers /\ (todo[i - 1] = Free(b) \/ (i = 2 /\ todo[1] = Release(b))) /\ i > 1
      BY <1>1, <2>1, <2>3 DEF AssignInv, Behind
    <3>2. i - 1 \in DOMAIN todo
      BY <2>2, <3>1
    <3>. QED  BY <2>3, <3>1, <3>2, FieldFacts
  <2>5. b \in Objects /\ refs[b] = 0 /\ refs'[b] = 0
    <3>1. b \in Objects /\ Free(b) \in ToSet(todo)
      BY <2>4, Kinds DEF ToSet
    <3>2. ~(refs[b] > 0) /\ refs[b] \in Nat
      BY <1>1, <3>1 DEF LiveInv
    <3>3. ~(refs'[b] > 0) /\ refs'[b] \in Nat
      BY <1>6, <3>1, <3>2
    <3>4. refs[b] = 0
      BY ONLY <3>2
    <3>5. refs'[b] = 0
      BY ONLY <3>3
    <3>. QED  BY <3>1, <3>4, <3>5
  <2>6. todo' # <<>> /\ Head(todo') = Release(b)
    BY <1>1, <1>2, <1>4, <2>3, <2>4, LastFacts
  <2>7. Lost'
    BY <2>4, <2>5, <2>6 DEF Lost, Release
  <2>8. Waiting("assign")' # {}
    BY <1>11 DEF Pending
  <2>9. BalanceInv'
    BY <1>12, <2>4, <2>5, <2>7, <2>8 DEF BalanceInv
  <2>10. Books' /\ NoUseAfterDestroy'
    BY <1>1, <1>3, <1>10, <2>7, <2>9 DEF Books, NoUseAfterDestroy
  <2>. QED  BY <1>8, <1>9, <2>10 DEF Inv
<1>. QED  BY <1>13, <1>14

(* Nobody holds a reference to an object whose address is available.       *)
LEMMA NobodyHolds ==
  ASSUME Good, NEW o \in Programs \cup Kernels \cup Buffers, Available(o)
  PROVE  /\ o \in Objects /\ o # Context /\ o # Queue /\ refs[o] = 0
         /\ Listed(o) = 0 /\ Named(o) = 0 /\ Made(o) = {} /\ Given(o) = {} /\ o \notin unreachable
<1>1. TypeOK /\ LiveInv /\ Balanced(o)
  BY Kinds DEF Good
<1>2. o \in Objects /\ o # Context /\ o # Queue
  BY Kinds
<1>3. /\ held[o] \in Nat /\ Listed(o) \in Nat /\ Cardinality(Made(o)) \in Nat
      /\ Cardinality(Given(o)) \in Nat /\ Named(o) \in Nat /\ Lodged(o) \in Nat
      /\ refs[o] \in Nat /\ Stolen(o) \in Nat
      /\ Holders(o) = held[o] + Listed(o) + Cardinality(Made(o)) + Cardinality(Given(o)) + Named(o)
                      + Count(o \in unreachable) + Lodged(o)
      /\ IsFiniteSet(Made(o)) /\ IsFiniteSet(Given(o))
  BY <1>1, <1>2, HoldersSum DEF AddsUp
<1>4. o \notin live /\ held[o] = 0 /\ \A i \in DOMAIN todo : todo[i].op # "disown" => todo[i].o # o
  BY DEF Available
<1>5. refs[o] = 0
  <2>1. ~(refs[o] > 0) /\ refs[o] \in Nat
    BY <1>1, <1>2, <1>3, <1>4 DEF LiveInv
  <2>. QED  BY ONLY <2>1
<1>6. Listed(o) = 0
  <2>1. commands \in Seq(Kernels \cup Buffers \cup {Queue}) /\ o \notin ToSet(commands)
    BY <1>1 DEF TypeOK, Available
  <2>. QED  BY <2>1, CallsType DEF Listed
<1>7. CASE o \in Kernels
  <2>1. o \notin Programs /\ o \notin Buffers /\ o # Unset /\ o # Null
    BY <1>2, <1>7, Kinds
  <2>2. Made(o) = {} /\ Given(o) = {} /\ o \notin unreachable
    BY <1>1, <2>1 DEF Made, Given, TypeOK, Values
  <2>3. todo \in Seq(Items) /\ \A i \in DOMAIN todo : todo[i] \in Items
    BY <1>1, ElementOfSeq, LenProperties DEF TypeOK
  <2>4. \A i \in DOMAIN todo : todo[i] \notin Naming(o)
    BY <1>2, <1>4, <2>1, <2>3, ItemFacts, NamingFacts
  <2>5. \A f \in ToSet(todo) : f \notin Naming(o)
    BY <2>4 DEF ToSet
  <2>6. Named(o) = 0
    BY <2>3, <2>5, CallsType DEF Named
  <2>. QED  BY <1>2, <1>5, <1>6, <2>2, <2>6
<1>8. CASE o \notin Kernels
  <2>. DEFINE h == held[o]
              i == Listed(o)
              m == Cardinality(Made(o))
              g == Cardinality(Given(o))
              n == Named(o)
              u == Count(o \in unreachable)
              l == Lodged(o)
  <2>1. /\ h \in Nat /\ i \in Nat /\ m \in Nat /\ g \in Nat /\ n \in Nat /\ u \in Nat /\ l \in Nat
    BY <1>3, CountType
  <2>2. Stolen(o) = 0
    BY <1>8 DEF Stolen
  <2>3. 0 = h + i + m + g + n + u + l
    BY <1>1, <1>3, <1>5, <2>2 DEF Balanced
  <2>. HIDE DEF h, i, m, g, n, u, l
  <2>4. m = 0 /\ g = 0 /\ n = 0 /\ u = 0
    BY ONLY <2>1, <2>3
  <2>5. Made(o) = {} /\ Given(o) = {}
    BY <1>3, <2>4, FS_EmptySet DEF m, g
  <2>6. o \notin unreachable
    BY <2>4 DEF u, Count
  <2>. QED  BY <1>2, <1>5, <1>6, <2>4, <2>5, <2>6 DEF n
<1>. QED  BY <1>7, <1>8

(* A new object o, which holds a reference to q.                           *)
LEMMA CreateStep ==
  ASSUME Good, NEW o \in Programs \cup Kernels \cup Buffers, Available(o),
         NEW q \in Objects, refs[q] > 0,
         IF o \in Kernels THEN q \in Programs /\ program'[o] = q /\ argument'[o] = Unset
                               /\ stolen'[o] = 0
                          ELSE q = Context,
         live' = live \cup {o}, refs' = [refs EXCEPT ![o] = 1, ![q] = @ + 1],
         held'[o] + Count(o \in unreachable') = 1,
         \A x \in Objects \ {o} : held'[x] = held[x] /\ (x \in unreachable' <=> x \in unreachable),
         \A k \in Kernels \ {o} : /\ program'[k] = program[k] /\ argument'[k] = argument[k]
                                  /\ stolen'[k] = stolen[k],
         UNCHANGED <<commands, todo, dangling>>,
         TypeOK', MemoryAccounted'
  PROVE  Inv'
<1>1. /\ TypeOK /\ ~dangling /\ LiveInv /\ AssignInv /\ FlushInv /\ LastInv /\ SetInv
      /\ todo \in Seq(Items)
      /\ \A x \in Objects : Balanced(x)
  BY DEF Good, Order, TypeOK
<1>2. /\ o \in Objects /\ o # Context /\ o # Queue /\ refs[o] = 0
      /\ Listed(o) = 0 /\ Named(o) = 0 /\ Made(o) = {} /\ Given(o) = {} /\ o \notin unreachable
  BY NobodyHolds
<1>3. /\ o \notin live /\ o \notin ToSet(commands)
      /\ \A i \in DOMAIN todo : todo[i].op # "disown" => todo[i].o # o
  BY DEF Available
<1>4. /\ commands' = commands /\ todo' = todo /\ dangling' = dangling
      /\ q # o
  BY <1>2
<1>5. /\ refs'[o] = 1
      /\ \A x \in Objects : refs[x] \in Nat /\ (x # o => refs'[x] = refs[x] + Count(x = q))
  <2>1. refs \in [Objects -> Nat]
    BY <1>1 DEF TypeOK
  <2>2. refs'[o] = 1 /\ refs'[q] = refs[q] + 1 /\ \A x \in Objects \ {o, q} : refs'[x] = refs[x]
    BY <1>2, <1>4, <2>1
  <2>3. ASSUME NEW x \in Objects, x # o PROVE refs'[x] = refs[x] + Count(x = q)
    <3>1. refs[x] \in Nat
      BY <2>1
    <3>2. CASE x = q
      BY <2>2, <3>1, <3>2 DEF Count
    <3>3. CASE x # q
      <4>1. refs'[x] = refs[x]
        BY <2>2, <2>3, <3>3
      <4>2. Count(x = q) = 0
        BY <3>3 DEF Count
      <4>. QED  BY <3>1, <4>1, <4>2
    <3>. QED  BY <3>2, <3>3
  <2>. QED  BY <2>1, <2>2, <2>3
<1>6. ASSUME NEW x \in Objects, x # o
      PROVE  refs'[x] > 0 <=> refs[x] > 0
  <2>1. refs[x] \in Nat /\ refs[q] \in Nat /\ refs'[x] = refs[x] + Count(x = q)
    BY <1>5, <1>6
  <2>2. CASE x = q
    BY <2>1, <2>2 DEF Count
  <2>3. CASE x # q
    BY <2>1, <2>3 DEF Count
  <2>. QED  BY <2>2, <2>3
<1>7. Existing' = Existing \cup {o} /\ o \notin Existing
  <2>1. live \subseteq Objects
    BY <1>1 DEF TypeOK
  <2>2. ASSUME NEW x \in Objects PROVE x \in Existing' <=> x \in Existing \/ x = o
    <3>1. CASE x = o
      BY <1>5, <3>1 DEF Existing
    <3>2. CASE x # o
      BY <1>6, <3>2 DEF Existing
    <3>. QED  BY <3>1, <3>2
  <2>3. Existing' \subseteq Objects /\ Existing \subseteq Objects
    BY <1>2, <2>1 DEF Existing
  <2>. QED  BY <1>2, <1>3, <2>2, <2>3 DEF Existing
<1>8. \A k : Pending(k)' <=> Pending(k)
  BY <1>4, PendingFacts, PendingFactsNext
<1>9. LiveInv'
  <2>. SUFFICES ASSUME NEW x \in Objects
       PROVE  /\ refs'[x] > 0 => x \in live' /\ Free(x) \notin ToSet(todo')
              /\ x \in live' /\ refs'[x] = 0 => Free(x) \in ToSet(todo')
              /\ x \in Kernels /\ refs'[x] > 0 => program'[x] \in Programs
    BY DEF LiveInv
  <2>1. CASE x = o
    <3>1. Free(o) \notin ToSet(todo)
      BY <1>3, FieldFacts DEF ToSet
    <3>. QED  BY <1>4, <1>5, <2>1, <3>1
  <2>2. CASE x # o
    <3>1. /\ refs[x] > 0 => x \in live /\ Free(x) \notin ToSet(todo)
          /\ x \in live /\ refs[x] = 0 => Free(x) \in ToSet(todo)
          /\ x \in Kernels /\ refs[x] > 0 => program[x] \in Programs
      BY <1>1 DEF LiveInv
    <3>2. (refs'[x] > 0 <=> refs[x] > 0) /\ (refs'[x] = 0 => refs[x] = 0)
      <4>1. refs'[x] > 0 <=> refs[x] > 0
        BY <1>6, <2>2
      <4>2. refs[x] \in Nat
        BY <1>5
      <4>. QED  BY ONLY <4>1, <4>2
    <3>. QED  BY <1>4, <2>2, <3>1, <3>2
  <2>. QED  BY <2>1, <2>2
<1>10. Order'
  <2>1. \A i \in Waiting("assign") : todo[i].o \in Kernels \ {o}
    <3>1. \A i \in DOMAIN todo : todo[i] \in Items
      BY <1>1, ElementOfSeq, LenProperties
    <3>. QED  BY <1>3, <3>1, ItemFacts DEF Waiting
  <2>2. Waiting("assign")' = Waiting("assign")
    BY <1>4 DEF Waiting
  <2>3. ASSUME NEW i \in Waiting("assign") PROVE Behind(i)' <=> Behind(i)
    <3>1. argument'[todo[i].o] = argument[todo[i].o] /\ todo' = todo
      BY <1>4, <2>1
    <3>. QED  BY <3>1 DEF Behind
  <2>4. AssignInv'
    BY <1>1, <1>4, <2>2, <2>3 DEF AssignInv
  <2>5. FlushInv' /\ LastInv'
    <3>1. held'[Queue] = held[Queue]
      BY <1>2, Kinds
    <3>. QED  BY <1>1, <1>4, <3>1 DEF FlushInv, LastInv
  <2>6. SetInv'
    BY <1>1, <1>3, <1>4 DEF SetInv
  <2>. QED  BY <2>4, <2>5, <2>6 DEF Order
<1>11. ASSUME NEW x \in Objects PROVE Balanced(x)'
  <2>. DEFINE made == o \in Kernels /\ x = q
              lodged == o \notin Kernels /\ x = q
  <2>1. /\ held[x] \in Nat /\ Listed(x) \in Nat /\ Cardinality(Made(x)) \in Nat
        /\ Cardinality(Given(x)) \in Nat /\ Named(x) \in Nat /\ Lodged(x) \in Nat
        /\ refs[x] \in Nat /\ Stolen(x) \in Nat
        /\ Holders(x) = held[x] + Listed(x) + Cardinality(Made(x)) + Cardinality(Given(x)) + Named(x)
                        + Count(x \in unreachable) + Lodged(x)
        /\ held'[x] \in Nat /\ Listed(x)' \in Nat /\ Cardinality(Made(x)') \in Nat
        /\ Cardinality(Given(x)') \in Nat /\ Named(x)' \in Nat /\ Lodged(x)' \in Nat
        /\ refs'[x] \in Nat /\ Stolen(x)' \in Nat
        /\ Holders(x)' = held'[x] + Listed(x)' + Cardinality(Made(x)') + Cardinality(Given(x)')
                         + Named(x)' + Count(x \in unreachable') + Lodged(x)'
        /\ IsFiniteSet(Made(x)) /\ IsFiniteSet(Given(x)) /\ IsFiniteSet(Others)
    BY <1>1, SumAt
  <2>2. Listed(x)' = Listed(x) /\ Named(x)' = Named(x)
    BY <1>4 DEF Listed, Named
  <2>3. Given(x)' = Given(x)
    <3>1. ASSUME NEW k \in Kernels PROVE k \in Given(x)' <=> k \in Given(x)
      <4>1. CASE k = o
        <5>1. argument'[k] # x
          BY <4>1, Kinds
        <5>. QED  BY <1>7, <4>1, <5>1 DEF Given
      <4>2. CASE k # o
        BY <1>7, <1>8, <4>2 DEF Given
      <4>. QED  BY <4>1, <4>2
    <3>2. Given(x)' \subseteq Kernels /\ Given(x) \subseteq Kernels
      BY DEF Given
    <3>. QED  BY <3>1, <3>2
  <2>4. Cardinality(Made(x)') = Cardinality(Made(x)) + Count(made)
    <3>1. Made(x) = Made(x)' \ {o} /\ (o \in Made(x)' <=> made)
      <4>1. ASSUME NEW k \in Kernels \ {o} PROVE k \in Made(x)' <=> k \in Made(x)
        BY <1>7 DEF Made
      <4>2. o \notin Made(x)
        BY <1>7 DEF Made
      <4>3. o \in Made(x)' <=> made
        BY <1>7 DEF Made
      <4>4. Made(x)' \subseteq Kernels /\ Made(x) \subseteq Kernels
        BY DEF Made
      <4>. QED  BY <4>1, <4>2, <4>3, <4>4
    <3>. HIDE DEF made
    <3>. DEFINE M == Made(x)'
    <3>2. IsFiniteSet(M)
      <4>1. M \subseteq Made(x) \cup {o}
        BY <3>1
      <4>2. IsFiniteSet(Made(x) \cup {o})
        BY <2>1, FS_AddElement
      <4>. QED  BY <4>1, <4>2, FS_Subset
    <3>. HIDE DEF M
    <3>3. Cardinality(M) = Cardinality(M \ {o}) + Count(o \in M)
      BY <3>2, Without
    <3>4. Made(x) = M \ {o} /\ (o \in M <=> made)
      BY <3>1 DEF M
    <3>5. Cardinality(M) = Cardinality(Made(x)) + Count(made)
      BY <3>3, <3>4
    <3>. QED  BY <3>5 DEF M
  <2>5. Lodged(x)' = Lodged(x) + Count(lodged)
    <3>1. CASE x # Context
      <4>1. Lodged(x)' = 0 /\ Lodged(x) = 0 /\ Count(lodged) = 0
        BY <3>1 DEF Lodged, Count
      <4>. QED  BY <4>1
    <3>2. CASE x = Context /\ o \in Kernels
      <4>1. Others' = Others
        BY <1>7, <3>2 DEF Others
      <4>2. Lodged(x)' = Lodged(x) /\ Count(lodged) = 0
        BY <3>2, <4>1 DEF Lodged, Count
      <4>. QED  BY <2>1, <4>2
    <3>3. CASE x = Context /\ o \notin Kernels
      <4>1. Others' = Others \cup {o} /\ o \notin Others
        BY <1>2, <1>7, <3>3 DEF Others
      <4>2. Cardinality(Others \cup {o}) = Cardinality(Others) + 1
        BY <2>1, <4>1, FS_AddElement
      <4>3. Lodged(x)' = Cardinality(Others') /\ Lodged(x) = Cardinality(Others)
            /\ Count(lodged) = 1
        BY <3>3 DEF Lodged, Count
      <4>. QED  BY <4>1, <4>2, <4>3
    <3>. QED  BY <3>1, <3>2, <3>3
  <2>6. CASE x = o
    <3>1. /\ Listed(x)' = 0 /\ Named(x)' = 0 /\ Cardinality(Given(x)') = 0
          /\ Cardinality(Made(x)') = 0 /\ Lodged(x)' = 0
      <4>1. Count(made) = 0 /\ Count(lodged) = 0
        BY <1>4, <2>6 DEF Count
      <4>2. Listed(x) = 0 /\ Named(x) = 0 /\ Made(x) = {} /\ Given(x) = {} /\ Lodged(x) = 0
        BY <1>2, <2>6 DEF Lodged
      <4>. QED  BY <2>2, <2>3, <2>4, <2>5, <4>1, <4>2, FS_EmptySet
    <3>2. Stolen(x)' = 0
      BY <2>6 DEF Stolen
    <3>3. refs'[x] = 1 /\ held'[x] + Count(x \in unreachable') = 1
      BY <1>5, <2>6
    <3>. DEFINE h == held'[x]
                u == Count(x \in unreachable')
    <3>4. h \in Nat /\ u \in Nat /\ h + u = 1 /\ Holders(x)' = h + 0 + 0 + 0 + 0 + u + 0
      BY <2>1, <3>1, <3>3, CountType
    <3>. HIDE DEF h, u
    <3>5. Holders(x)' = 1
      BY ONLY <3>4
    <3>. QED  BY <3>2, <3>3, <3>5 DEF Balanced
  <2>7. CASE x # o
    <3>1. /\ held'[x] = held[x] /\ Count(x \in unreachable') = Count(x \in unreachable)
          /\ Stolen(x)' = Stolen(x) /\ refs'[x] = refs[x] + Count(x = q)
      <4>1. held'[x] = held[x] /\ (x \in unreachable' <=> x \in unreachable)
        BY <2>7
      <4>2. Stolen(x)' = Stolen(x)
        BY <2>7 DEF Stolen
      <4>3. refs'[x] = refs[x] + Count(x = q)
        BY <1>5, <2>7
      <4>. QED  BY <4>1, <4>2, <4>3 DEF Count
    <3>2. Count(x = q) = Count(made) + Count(lodged)
      BY DEF Count
    <3>3. refs[x] + Stolen(x) = Holders(x)
      BY <1>1 DEF Balanced
    <3>. HIDE DEF made, lodged
    <3>. DEFINE h == held[x]
                i == Listed(x)
                n == Named(x)
                g == Cardinality(Given(x))
                u == Count(x \in unreachable)
                s == Stolen(x)
                m1 == Cardinality(Made(x))
                m2 == Cardinality(Made(x)')
                l1 == Lodged(x)
                l2 == Lodged(x)'
                c1 == refs[x]
                c2 == refs'[x]
                t1 == Holders(x)
                t2 == Holders(x)'
                a == Count(made)
                b == Count(lodged)
    <3>4. /\ h \in Nat /\ i \in Nat /\ n \in Nat /\ g \in Nat /\ u \in Nat /\ s \in Nat
          /\ m1 \in Nat /\ l1 \in Nat /\ c1 \in Nat /\ a \in Nat /\ b \in Nat
      BY <2>1, CountType
    <3>5. /\ m2 = m1 + a /\ l2 = l1 + b /\ c2 = c1 + (a + b) /\ c1 + s = t1
          /\ t1 = h + i + m1 + g + n + u + l1
          /\ t2 = h + i + m2 + g + n + u + l2
      BY <2>1, <2>2, <2>3, <2>4, <2>5, <3>1, <3>2, <3>3
    <3>. HIDE DEF h, i, n, g, u, s, m1, m2, l1, l2, c1, c2, t1, t2, a, b
    <3>6. c2 + s = t2
      BY ONLY <3>4, <3>5
    <3>. QED  BY <3>1, <3>6 DEF Balanced, c2, s, t2
  <2>. QED  BY <2>6, <2>7
<1>12. BalanceInv'
  BY <1>11 DEF BalanceInv
<1>13. ~dangling'
  BY <1>1, <1>4
<1>. QED  BY <1>9, <1>10, <1>12, <1>13, Assemble

(* Creating an object that is no buffer, and one that is.                  *)
LEMMA CreateMemory ==
  ASSUME Good, NEW o \in Programs \cup Kernels \cup Buffers, Available(o),
         NEW q \in Objects, q \notin Buffers, refs[q] > 0,
         live' = live \cup {o}, refs' = [refs EXCEPT ![o] = 1, ![q] = @ + 1]
  PROVE  /\ live' \subseteq Objects /\ refs' \in [Objects -> Nat]
         /\ o \notin Buffers => Buffers \cap Existing' = Buffers \cap Existing
         /\ o \in Buffers => /\ Buffers \cap Existing' = (Buffers \cap Existing) \cup {o}
                             /\ o \notin Buffers \cap Existing
<1>1. live \subseteq Objects /\ refs \in [Objects -> Nat] /\ o \notin live /\ o \in Objects
  BY Kinds DEF Good, TypeOK, Available
<1>2. \A b \in Buffers : b \in Objects /\ b # q
  BY Kinds
<1>3. refs' \in [Objects -> Nat]
  BY <1>1
<1>4. \A b \in Buffers : b # o => refs'[b] = refs[b]
  BY <1>1, <1>2
<1>5. o \in Buffers => refs'[o] = 1
  BY <1>1, <1>2
<1>6. \A b \in Buffers : b # o => (b \in Existing' <=> b \in Existing)
  BY <1>4 DEF Existing
<1>7. o \in Buffers => o \in Existing' /\ o \notin Existing
  BY <1>1, <1>5 DEF Existing
<1>. QED  BY <1>1, <1>3, <1>6, <1>7

LEMMA CreateProgramSafe ==
  ASSUME Good, NEW p \in Programs, NEW succeeds \in BOOLEAN, CreateProgram(p, succeeds)
  PROVE  Inv'
<1>1. /\ TypeOK /\ MemoryAccounted
      /\ held \in [Objects -> 0 .. MaxHeld]
      /\ calls < MaxCalls => calls + 1 \in 0 .. MaxCalls
      /\ Holds(Context) => refs[Context] > 0
  BY CallFacts, Kinds DEF Good
<1>2. /\ AppMay /\ calls < MaxCalls /\ calls' = calls + 1 /\ Holds(Context) /\ Available(p)
      /\ live' = live \cup {p} /\ refs' = [refs EXCEPT ![p] = 1, ![Context] = @ + 1]
      /\ created' = [created EXCEPT ![p] = <<>>]
      /\ held' = [held EXCEPT ![p] = IF succeeds THEN 1 ELSE 0]
      /\ unreachable' = IF succeeds THEN unreachable ELSE unreachable \cup {p}
      /\ UNCHANGED <<program, argument, callbacks, size, used, commands, todo, stolen, dangling>>
  BY DEF CreateProgram, AppCalls
<1>3. p \in Objects /\ p \notin Kernels /\ p \notin Buffers /\ Context \in Objects /\ Context \notin Buffers
  BY Kinds
<1>4. /\ live' \subseteq Objects /\ refs' \in [Objects -> Nat]
      /\ Buffers \cap Existing' = Buffers \cap Existing
  BY <1>1, <1>2, <1>3, CreateMemory
<1>5. MemoryAccounted'
  BY <1>1, <1>2, <1>4, MemoryIs, MemoryIsNext
<1>6. /\ held' \in [Objects -> 0 .. MaxHeld] /\ held'[p] = IF succeeds THEN 1 ELSE 0
      /\ \A x \in Objects \ {p} : held'[x] = held[x]
  <2>1. (IF succeeds THEN 1 ELSE 0) \in 0 .. MaxHeld
    BY LifetimeAssumption
  <2>. QED  BY <1>1, <1>2, <1>3, <2>1
<1>7. TypeOK'
  <2>1. created' \in [Programs -> Seq(Kernels)]
    BY <1>1, <1>2, EmptySeq DEF TypeOK
  <2>2. unreachable' \subseteq Programs /\ calls' \in 0 .. MaxCalls
    BY <1>1, <1>2 DEF TypeOK
  <2>. QED  BY <1>1, <1>2, <1>4, <1>6, <2>1, <2>2 DEF TypeOK
<1>8. held'[p] + Count(p \in unreachable') = 1
  <2>1. p \notin unreachable
    BY <1>2, NobodyHolds
  <2>2. CASE succeeds
    <3>1. held'[p] = 1 /\ p \notin unreachable'
      BY <1>2, <1>6, <2>1, <2>2
    <3>. QED  BY <3>1 DEF Count
  <2>3. CASE ~succeeds
    <3>1. held'[p] = 0 /\ p \in unreachable'
      BY <1>2, <1>6, <2>3
    <3>. QED  BY <3>1 DEF Count
  <2>. QED  BY <2>2, <2>3
<1>9. \A x \in Objects \ {p} : held'[x] = held[x] /\ (x \in unreachable' <=> x \in unreachable)
  BY <1>2, <1>6
<1>. QED  BY <1>1, <1>2, <1>3, <1>5, <1>7, <1>8, <1>9, CreateStep

LEMMA CreateKernelSafe ==
  ASSUME Good, NEW p \in Programs, NEW k \in Kernels, CreateKernel(p, k)
  PROVE  Inv'
<1>1. /\ TypeOK /\ MemoryAccounted
      /\ held \in [Objects -> 0 .. MaxHeld]
      /\ calls < MaxCalls => calls + 1 \in 0 .. MaxCalls
      /\ Holds(p) => refs[p] > 0
  BY CallFacts, Kinds DEF Good
<1>2. /\ AppMay /\ calls < MaxCalls /\ calls' = calls + 1 /\ Holds(p) /\ Available(k)
      /\ live' = live \cup {k} /\ refs' = [refs EXCEPT ![k] = 1, ![p] = @ + 1]
      /\ program' = [program EXCEPT ![k] = p]
      /\ created' = [created EXCEPT ![p] = Append(@, k)]
      /\ argument' = [argument EXCEPT ![k] = Unset]
      /\ held' = [held EXCEPT ![k] = 1]
      /\ stolen' = [stolen EXCEPT ![k] = 0]
      /\ UNCHANGED <<callbacks, size, used, commands, todo, unreachable, dangling>>
  BY DEF CreateKernel, AppCalls
<1>3. k \in Objects /\ k \notin Buffers /\ p \in Objects /\ p \notin Buffers
  BY Kinds
<1>4. /\ live' \subseteq Objects /\ refs' \in [Objects -> Nat]
      /\ Buffers \cap Existing' = Buffers \cap Existing
  BY <1>1, <1>2, <1>3, CreateMemory
<1>5. MemoryAccounted'
  BY <1>1, <1>2, <1>4, MemoryIs, MemoryIsNext
<1>6. /\ held' \in [Objects -> 0 .. MaxHeld] /\ held'[k] = 1
      /\ \A x \in Objects \ {k} : held'[x] = held[x]
  <2>1. 1 \in 0 .. MaxHeld
    BY LifetimeAssumption
  <2>. QED  BY <1>1, <1>2, <1>3, <2>1
<1>7. /\ program' \in [Kernels -> Programs \cup {Unset}] /\ program'[k] = p
      /\ argument' \in [Kernels -> Values] /\ argument'[k] = Unset
      /\ stolen' \in [Kernels -> Nat] /\ stolen'[k] = 0
      /\ \A j \in Kernels \ {k} : /\ program'[j] = program[j] /\ argument'[j] = argument[j]
                                  /\ stolen'[j] = stolen[j]
  BY <1>1, <1>2 DEF TypeOK, Values
<1>8. TypeOK'
  <2>1. created' \in [Programs -> Seq(Kernels)]
    <3>1. created \in [Programs -> Seq(Kernels)]
      BY <1>1 DEF TypeOK
    <3>2. Append(created[p], k) \in Seq(Kernels)
      BY <3>1, AppendProperties
    <3>. QED  BY <1>2, <3>1, <3>2
  <2>2. calls' \in 0 .. MaxCalls
    BY <1>1, <1>2
  <2>. QED  BY <1>1, <1>2, <1>4, <1>6, <1>7, <2>1, <2>2 DEF TypeOK
<1>9. held'[k] + Count(k \in unreachable') = 1
  <2>1. k \notin unreachable
    BY <1>2, NobodyHolds
  <2>. QED  BY <1>2, <1>6, <2>1 DEF Count
<1>10. \A x \in Objects \ {k} : held'[x] = held[x] /\ (x \in unreachable' <=> x \in unreachable)
  BY <1>2, <1>6
<1>. QED  BY <1>1, <1>2, <1>3, <1>5, <1>7, <1>8, <1>9, <1>10, CreateStep

LEMMA CreateBufferSafe ==
  ASSUME Good, NEW b \in Buffers, NEW s \in Sizes, CreateBuffer(b, s)
  PROVE  Inv'
<1>1. /\ TypeOK /\ MemoryAccounted
      /\ held \in [Objects -> 0 .. MaxHeld]
      /\ calls < MaxCalls => calls + 1 \in 0 .. MaxCalls
      /\ Holds(Context) => refs[Context] > 0
  BY CallFacts, Kinds DEF Good
<1>2. /\ AppMay /\ calls < MaxCalls /\ calls' = calls + 1 /\ Holds(Context) /\ Available(b)
      /\ used + s <= GlobalMemory
      /\ live' = live \cup {b} /\ refs' = [refs EXCEPT ![b] = 1, ![Context] = @ + 1]
      /\ size' = [size EXCEPT ![b] = s] /\ callbacks' = [callbacks EXCEPT ![b] = 0]
      /\ used' = used + s /\ held' = [held EXCEPT ![b] = 1]
      /\ UNCHANGED <<program, created, argument, commands, todo, unreachable, stolen, dangling>>
  BY DEF CreateBuffer, AppCalls, history
<1>3. b \in Objects /\ b \notin Kernels /\ Context \in Objects /\ Context \notin Buffers
  BY Kinds
<1>4. /\ live' \subseteq Objects /\ refs' \in [Objects -> Nat]
      /\ Buffers \cap Existing' = (Buffers \cap Existing) \cup {b} /\ b \notin Buffers \cap Existing
  BY <1>1, <1>2, <1>3, CreateMemory
<1>5. /\ s \in Nat /\ GlobalMemory \in Nat /\ used \in Nat
      /\ size \in [Buffers -> Nat] /\ size' \in [Buffers -> Sizes \cup {0}] /\ size'[b] = s
      /\ \A c \in Buffers : c # b => size'[c] = size[c]
  <2>1. size \in [Buffers -> Sizes \cup {0}] /\ used \in 0 .. GlobalMemory
    BY <1>1 DEF TypeOK
  <2>2. Sizes \cup {0} \subseteq Nat /\ GlobalMemory \in Nat
    BY LifetimeAssumption
  <2>3. size \in [Buffers -> Nat]
    BY <2>1, <2>2
  <2>. QED  BY <1>2, <2>1, <2>2, <2>3
<1>6. MemoryAccounted'
  <2>. DEFINE E == Buffers \cap Existing
              c == Cardinality(Bytes(E, size))
  <2>1. used = c
    BY <1>1, MemoryIs
  <2>2. IsFiniteSet(E) /\ E \subseteq Buffers
    BY Kinds, FS_Subset
  <2>3. b \notin E /\ Buffers \cap Existing' = E \cup {b}
    BY <1>4
  <2>. HIDE DEF E
  <2>. DEFINE sz == size
              tz == size'
  <2>4. \A e \in E : sz[e] \in Nat
    BY <1>5, <2>2
  <2>5. (\A e \in E : tz[e] = sz[e]) /\ tz[b] = s /\ s \in Nat
    BY <1>5, <2>2, <2>3
  <2>. HIDE DEF sz, tz, c
  <2>6. Cardinality(Bytes(E \cup {b}, tz)) = Cardinality(Bytes(E, sz)) + s
    <3>1. IsFiniteSet(E) /\ b \notin E
      BY <2>2, <2>3
    <3>2. (\A e \in E : sz[e] \in Nat /\ tz[e] = sz[e]) /\ tz[b] \in Nat
      BY <2>4, <2>5
    <3>3. Cardinality(Bytes(E \cup {b}, tz)) = Cardinality(Bytes(E, sz)) + tz[b]
      BY ONLY <3>1, <3>2, BytesGrow
    <3>. QED  BY <2>5, <3>3
  <2>7. Cardinality(Bytes(E \cup {b}, size')) = c + s
    BY <2>6 DEF sz, tz, c
  <2>8. used' = Cardinality(Bytes(Buffers \cap Existing', size'))
    <3>1. used' = c + s
      BY <1>2, <2>1
    <3>2. Cardinality(Bytes(Buffers \cap Existing', size')) = Cardinality(Bytes(E \cup {b}, size'))
      BY <2>3
    <3>. QED  BY ONLY <2>7, <3>1, <3>2
  <2>. QED  BY <2>8, MemoryIsNext
<1>7. /\ held' \in [Objects -> 0 .. MaxHeld] /\ held'[b] = 1
      /\ \A x \in Objects \ {b} : held'[x] = held[x]
  <2>1. 1 \in 0 .. MaxHeld
    BY LifetimeAssumption
  <2>. QED  BY <1>1, <1>2, <1>3, <2>1
<1>8. TypeOK'
  <2>1. callbacks' \in [Buffers -> 0 .. MaxCallbacks]
    <3>1. 0 \in 0 .. MaxCallbacks
      BY LifetimeAssumption
    <3>. QED  BY <1>1, <1>2, <3>1 DEF TypeOK
  <2>2. used' \in 0 .. GlobalMemory /\ calls' \in 0 .. MaxCalls
    BY <1>1, <1>2, <1>5
  <2>. QED  BY <1>1, <1>2, <1>4, <1>5, <1>7, <2>1, <2>2 DEF TypeOK
<1>9. held'[b] + Count(b \in unreachable') = 1
  <2>1. b \notin unreachable
    BY <1>2, NobodyHolds
  <2>. QED  BY <1>2, <1>7, <2>1 DEF Count
<1>10. \A x \in Objects \ {b} : held'[x] = held[x] /\ (x \in unreachable' <=> x \in unreachable)
  BY <1>2, <1>7
<1>. QED  BY <1>1, <1>2, <1>3, <1>6, <1>8, <1>9, <1>10, CreateStep

LEMMA CallOnDestroyedSafe ==
  ASSUME Good, NEW o \in Objects, CallOnDestroyed(o)
  PROVE  Inv'
<1>1. /\ held[o] > 0 /\ ~Usable(o) /\ dangling' = TRUE
      /\ UNCHANGED <<live, refs, graph, used, commands, todo, held, calls, unreachable, stolen>>
  BY DEF CallOnDestroyed
<1>2. TypeOK /\ MemoryAccounted /\ LiveInv /\ BalanceInv
  BY BalanceOfGood DEF Good
<1>3. Excuse
  BY <1>1, <1>2, Destroyed
<1>4. Waiting("assign")' = Waiting("assign")
  BY <1>1 DEF Waiting
<1>5. todo' \in Seq(Items) /\ commands' \in Seq(Kernels \cup Buffers \cup {Queue})
  BY <1>1, <1>2 DEF TypeOK
<1>. QED  BY <1>1, <1>2, <1>3, <1>4, <1>5, DanglingStep DEF Excuse

-----------------------------------------------------------------------------
(* The invariant holds.                                                    *)
LEMMA InitInv == Init => Inv
<1>. SUFFICES ASSUME Init PROVE Inv
  OBVIOUS
<1>1. /\ live = {Context, Queue}
      /\ refs = [o \in Objects |-> CASE o = Context -> 2 [] o = Queue -> 1 [] OTHER -> 0]
      /\ program = [k \in Kernels |-> Unset] /\ created = [p \in Programs |-> <<>>]
      /\ argument = [k \in Kernels |-> Unset] /\ callbacks = [b \in Buffers |-> 0]
      /\ size = [b \in Buffers |-> 0] /\ used = 0 /\ commands = <<>> /\ todo = <<>>
      /\ held = [o \in Objects |-> IF o \in {Context, Queue} THEN 1 ELSE 0]
      /\ calls = 0 /\ unreachable = {} /\ stolen = [k \in Kernels |-> 0] /\ dangling = FALSE
  BY DEF Init
<1>2. /\ refs \in [Objects -> Nat] /\ refs[Context] = 2 /\ refs[Queue] = 1
      /\ \A o \in Objects \ {Context, Queue} : refs[o] = 0
      /\ held \in [Objects -> Nat] /\ held[Context] = 1 /\ held[Queue] = 1
      /\ \A o \in Objects \ {Context, Queue} : held[o] = 0
  BY <1>1, Kinds
<1>3. TypeOK
  <2>1. held \in [Objects -> 0 .. MaxHeld] /\ used \in 0 .. GlobalMemory /\ calls \in 0 .. MaxCalls
        /\ callbacks \in [Buffers -> 0 .. MaxCallbacks]
    BY <1>1, LifetimeAssumption
  <2>2. created \in [Programs -> Seq(Kernels)] /\ todo \in Seq(Items)
        /\ commands \in Seq(Kernels \cup Buffers \cup {Queue})
    BY <1>1, EmptySeq
  <2>3. live \subseteq Objects
    BY <1>1, Kinds
  <2>. QED  BY <1>1, <1>2, <2>1, <2>2, <2>3 DEF TypeOK, Values
<1>4. Existing = {Context, Queue}
  BY <1>1, <1>2 DEF Existing
<1>5. MemoryAccounted
  <2>1. Buffers \cap Existing = {}
    BY <1>4, Kinds
  <2>2. Bytes(Buffers \cap Existing, size) = {}
    BY <2>1 DEF Bytes
  <2>. QED  BY <1>1, <2>2, MemoryIs, FS_EmptySet
<1>6. Flush \in Items /\ ToSet(todo) = {} /\ DOMAIN todo = {} /\ ToSet(commands) = {}
  BY <1>1, ItemFacts, OneFacts
<1>7. LiveInv
  <2>. SUFFICES ASSUME NEW o \in Objects
       PROVE  /\ refs[o] > 0 => o \in live /\ Free(o) \notin ToSet(todo)
              /\ o \in live /\ refs[o] = 0 => Free(o) \in ToSet(todo)
              /\ o \in Kernels /\ refs[o] > 0 => program[o] \in Programs
    BY DEF LiveInv
  <2>1. CASE o \in {Context, Queue}
    <3>1. o \in live /\ o \notin Kernels /\ Free(o) \notin ToSet(todo)
      BY <1>1, <1>6, <2>1, Kinds
    <3>2. refs[o] = 1 \/ refs[o] = 2
      BY <1>2, <2>1
    <3>. QED  BY <3>1, <3>2
  <2>2. CASE o \notin {Context, Queue}
    <3>1. o \notin live /\ refs[o] = 0
      BY <1>1, <1>2, <2>2
    <3>. QED  BY <3>1
  <2>. QED  BY <2>1, <2>2
<1>8. ASSUME NEW o \in Objects PROVE Balanced(o)
  <2>1. Holders(o) = held[o] + Listed(o) + Cardinality(Made(o)) + Cardinality(Given(o)) + Named(o)
                     + Count(o \in unreachable) + Lodged(o)
    BY <1>3, HoldersSum DEF AddsUp
  <2>2. Made(o) = {} /\ Given(o) = {}
    BY <1>4, Kinds DEF Made, Given
  <2>3. Listed(o) = 0 /\ Named(o) = 0
    BY <1>1, <1>6, CallsOfOne DEF Listed, Named
  <2>4. Count(o \in unreachable) = 0 /\ Cardinality(Made(o)) = 0 /\ Cardinality(Given(o)) = 0
    BY <1>1, <2>2, FS_EmptySet DEF Count
  <2>5. Lodged(o) = IF o = Context THEN 1 ELSE 0
    <3>1. Others = {Queue}
      BY <1>4, Kinds DEF Others
    <3>. QED  BY <3>1, FS_Singleton DEF Lodged
  <2>6. Stolen(o) = 0
    BY <1>1 DEF Stolen
  <2>7. held[o] \in Nat /\ Holders(o) = held[o] + Lodged(o)
    <3>1. held[o] \in Nat /\ Lodged(o) \in Nat
      BY <1>2, <2>5
    <3>. QED  BY ONLY <2>1, <2>3, <2>4, <3>1
  <2>8. refs[o] + 0 = Holders(o)
    BY <1>2, <2>5, <2>7
  <2>. QED  BY <2>6, <2>8 DEF Balanced
<1>9. Order
  <2>1. Waiting("assign") = {}
    BY <1>6 DEF Waiting
  <2>. QED  BY <1>1, <1>6, <2>1 DEF Order, AssignInv, FlushInv, LastInv, SetInv
<1>. QED  BY <1>1, <1>3, <1>5, <1>7, <1>8, <1>9 DEF Inv, Books, BalanceInv, NoUseAfterDestroy

(* While a buffer is about to be released twice nothing but that happens.  *)
LEMMA LostSafe ==
  ASSUME TypeOK, MemoryAccounted, LiveInv, BalanceInv, Lost, Next
  PROVE  Inv'
<1>1. PICK b \in Buffers : todo # <<>> /\ Head(todo) = Release(b) /\ refs[b] = 0
  BY DEF Lost
<1>2. Head(todo).op = "release" /\ Head(todo).o = b /\ b \in Objects /\ ~Usable(b)
  BY <1>1, FieldFacts, Kinds DEF Usable
<1>3. ~AppMay /\ \A op : op # "release" => ~Now(op)
  BY <1>1, <1>2 DEF AppMay, Now
<1>4. DoRelease
  BY <1>3 DEF Next, Driver, Application, CallbackReturn, DoDisown, DoFree, DoAssign, DoFlush,
              DoEndFlush, CreateProgram, CreateKernel, CreateBuffer, SetDestructorCallback, Retain,
              ReleaseObject, SetArgument, Enqueue, EnqueueKernel, EnqueueTransfer, EnqueueCopy,
              ClFlush, CallOnDestroyed, AppCalls
<1>5. /\ dangling' = TRUE /\ UNCHANGED <<live, refs, graph, used, commands, todo>>
      /\ UNCHANGED <<held, calls, unreachable, stolen>>
  BY <1>2, <1>4 DEF DoRelease, Use
<1>6. Excuse
  <2>1. Head(todo) \in Naming(b)
    BY <1>1, <1>2, NamingFacts
  <2>2. Named(b) > 0
    BY <1>1, <1>2, <2>1, NamedByHead
  <2>. QED  BY <1>2, <2>2, Destroyed
<1>7. Waiting("assign")' = Waiting("assign")
  BY <1>5 DEF Waiting
<1>8. todo' \in Seq(Items) /\ commands' \in Seq(Kernels \cup Buffers \cup {Queue})
  BY <1>5 DEF TypeOK
<1>. QED  BY <1>5, <1>6, <1>7, <1>8, DanglingStep DEF Excuse

LEMMA GoodNext == Good /\ Next => Inv'
<1>. SUFFICES ASSUME Good, Next PROVE Inv'
  OBVIOUS
<1>1. CASE Driver
  BY <1>1, DoReleaseSafe, DoDisownSafe, DoFreeSafe, DoAssignSafe, DoFlushSafe, DoEndFlushSafe
     DEF Driver
<1>2. CASE Application
  <2>1. ASSUME NEW p \in Programs, NEW succeeds \in BOOLEAN, CreateProgram(p, succeeds) PROVE Inv'
    BY <2>1, CreateProgramSafe
  <2>2. ASSUME NEW p \in Programs, NEW k \in Kernels, CreateKernel(p, k) PROVE Inv'
    BY <2>2, CreateKernelSafe
  <2>3. ASSUME NEW b \in Buffers, NEW s \in Sizes, CreateBuffer(b, s) PROVE Inv'
    BY <2>3, CreateBufferSafe
  <2>4. ASSUME NEW b \in Buffers, SetDestructorCallback(b) PROVE Inv'
    BY <2>4, SetDestructorCallbackSafe
  <2>5. /\ \A k \in Kernels : EnqueueKernel(k) => Inv'
        /\ \A b \in Buffers, blocking \in BOOLEAN : EnqueueTransfer(b, blocking) => Inv'
        /\ \A b, c \in Buffers : EnqueueCopy(b, c) => Inv'
    BY EnqueueCallsSafe
  <2>6. ASSUME NEW k \in Kernels, NEW v \in Buffers \cup {Null}, SetArgument(k, v) PROVE Inv'
    BY <2>6, SetArgumentSafe
  <2>7. ASSUME NEW o \in Objects, Retain(o) PROVE Inv'
    BY <2>7, RetainSafe
  <2>8. ASSUME NEW o \in Objects, ReleaseObject(o) PROVE Inv'
    BY <2>8, ReleaseObjectSafe
  <2>9. ASSUME NEW o \in Objects, CallOnDestroyed(o) PROVE Inv'
    BY <2>9, CallOnDestroyedSafe
  <2>10. ClFlush => Inv'
    BY ClFlushSafe
  <2>. QED  BY <1>2, <2>1, <2>2, <2>3, <2>4, <2>5, <2>6, <2>7, <2>8, <2>9, <2>10 DEF Application
<1>3. CASE CallbackReturn
  BY <1>3, CallbackReturnSafe
<1>. QED  BY <1>1, <1>2, <1>3 DEF Next

LEMMA NextInv == Inv /\ [Next]_vars => Inv'
<1>. SUFFICES ASSUME Inv, [Next]_vars PROVE Inv'
  OBVIOUS
<1>1. CASE UNCHANGED vars
  <2>1. /\ live' = live /\ refs' = refs /\ program' = program /\ created' = created
        /\ argument' = argument /\ callbacks' = callbacks /\ size' = size /\ used' = used
        /\ commands' = commands /\ todo' = todo /\ held' = held /\ calls' = calls
        /\ unreachable' = unreachable /\ stolen' = stolen /\ dangling' = dangling
    BY <1>1 DEF vars, graph, history
  <2>2. Existing' = Existing /\ (\A op : Waiting(op)' = Waiting(op))
    BY <2>1 DEF Existing, Waiting
  <2>3. \A k : Pending(k)' <=> Pending(k)
    BY <2>1, <2>2 DEF Pending
  <2>4. TypeOK'
    BY <2>1 DEF Inv, TypeOK
  <2>5. MemoryAccounted'
    BY <2>1, <2>2, MemoryIs, MemoryIsNext DEF Inv
  <2>6. NoUseAfterDestroy'
    BY <2>1, <2>2 DEF Inv, NoUseAfterDestroy, UsesDeletedKernel
  <2>7. ASSUME NEW x \in Objects PROVE Balanced(x)' <=> Balanced(x)
    <3>1. Holders(x)' = Holders(x)
      BY <2>1, <2>2, <2>3 DEF Holders, Occurrences
    <3>. QED  BY <2>1, <3>1 DEF Balanced, Stolen
  <2>8. (Lost' <=> Lost) /\ (LiveInv' <=> LiveInv)
    BY <2>1 DEF Lost, LiveInv
  <2>9. BalanceInv' <=> BalanceInv
    BY <2>1, <2>2, <2>7, <2>8 DEF BalanceInv
  <2>10. Order' <=> Order
    <3>1. \A i : Behind(i)' <=> Behind(i)
      BY <2>1 DEF Behind
    <3>. QED  BY <2>1, <2>2, <3>1 DEF Order, AssignInv, FlushInv, LastInv, SetInv
  <2>11. Books'
    BY <2>1, <2>8, <2>9, <2>10 DEF Inv, Books
  <2>. QED  BY <2>4, <2>5, <2>6, <2>11 DEF Inv
<1>2. CASE Next
  <2>1. ~dangling
    BY <1>2 DEF Next, Driver, Application, CallbackReturn, DoRelease, DoDisown, DoFree, DoAssign,
                DoFlush, DoEndFlush, CreateProgram, CreateKernel, CreateBuffer,
                SetDestructorCallback, Retain, ReleaseObject, SetArgument, Enqueue, EnqueueKernel,
                EnqueueTransfer, EnqueueCopy, ClFlush, CallOnDestroyed, AppCalls, AppMay, Now
  <2>2. TypeOK /\ MemoryAccounted /\ LiveInv /\ BalanceInv /\ (Lost \/ Order)
    BY <2>1 DEF Inv, Books
  <2>3. CASE Lost
    BY <1>2, <2>2, <2>3, LostSafe
  <2>4. CASE ~Lost
    <3>1. Good
      BY <2>1, <2>2, <2>4 DEF Good, BalanceInv
    <3>. QED  BY <1>2, <3>1, GoodNext
  <2>. QED  BY <2>3, <2>4
<1>. QED  BY <1>1, <1>2

-----------------------------------------------------------------------------
(* The theorems.                                                           *)
(* Whatever the application calls, at the top level or in a callback, the  *)
(* books are in order until a destroyed object is used: every object that  *)
(* exists has exactly the references that somebody holds, what has none is *)
(* on its way to be freed, and what is left to do is in an order that      *)
(* makes the next step keep it so.                                         *)
THEOREM Invariant == Spec => []Inv
<1>1. Init => Inv
  BY InitInv
<1>2. Inv /\ [Next]_vars => Inv'
  BY NextInv
<1>. QED  BY <1>1, <1>2, PTL DEF Spec

(* Every variable keeps its type: no count of references goes below zero,  *)
(* and usedGlobalMemory stays between zero and globalMemorySize.           *)
THEOREM TypeCorrect == Spec => []TypeOK
<1>1. Inv => TypeOK
  BY DEF Inv
<1>. QED  BY <1>1, Invariant, PTL

LEMMA InvRefs == Inv => RefsAccounted
<1>. SUFFICES ASSUME Inv, ~dangling, NEW o \in Existing
     PROVE  refs[o] + (IF o \in Kernels THEN stolen[o] ELSE 0) = Holders(o)
  BY DEF RefsAccounted
<1>1. TypeOK /\ BalanceInv
  BY DEF Inv, Books
<1>2. o \in Objects /\ refs[o] > 0
  BY <1>1 DEF Existing, TypeOK
<1>3. refs[o] # 0
  BY <1>2
<1>. QED  BY <1>1, <1>2, <1>3 DEF BalanceInv, Balanced, Stolen

(* The referenceCount of every object is what its holders hold, however    *)
(* the destructors of kernels, programs, buffers and the queue, and the    *)
(* callbacks in them, interleave (CLObjectInfoAccessor, CLKernel, CLMem).  *)
THEOREM RefsCorrect == Spec => []RefsAccounted
<1>. QED  BY InvRefs, Invariant, PTL

(* CLDeviceId::usedGlobalMemory is the sum of the sizes of the buffers     *)
(* that exist: room is taken once and given back once, by clCreateBuffer   *)
(* and by the last release, and never more than there is.                  *)
THEOREM MemoryCorrect == Spec => []MemoryAccounted
<1>1. Inv => MemoryAccounted
  BY DEF Inv
<1>. QED  BY <1>1, Invariant, PTL

(* No call, command or destructor uses a destroyed object, except while a  *)
(* setArgument waits for the callback of its old value, after the          *)
(* destructor of a program took the reference of a kernel, or when that    *)
(* destructor releases a kernel of its program that was deleted before it. *)
THEOREM NoUseCorrect == Spec => []NoUseAfterDestroy
<1>1. Inv => NoUseAfterDestroy
  BY DEF Inv
<1>. QED  BY <1>1, Invariant, PTL

(* What is left when nobody holds anything and no call is under way.       *)
Idle ==
  /\ todo = <<>> /\ ~dangling
  /\ \A o \in Objects : held[o] = 0
  /\ \A k \in Kernels : stolen[k] = 0

LEMMA IdleCommands ==
  ASSUME Inv, Idle
  PROVE  /\ commands = <<>>
         /\ \A o \in Objects :
              refs[o] = Cardinality(Made(o)) + Cardinality(Given(o)) + Count(o \in unreachable)
                        + Lodged(o)
<1>1. TypeOK /\ LiveInv /\ BalanceInv /\ ~Lost /\ Order
  BY DEF Inv, Idle, Books, Lost
<1>2. commands = <<>>
  <2>1. held[Queue] = 0
    BY Kinds DEF Idle
  <2>2. todo # <<Flush, Release(Queue)>>
    BY DEF Idle
  <2>. QED  BY <1>1, <2>1, <2>2 DEF Order, LastInv
<1>3. ASSUME NEW o \in Objects
      PROVE  refs[o] = Cardinality(Made(o)) + Cardinality(Given(o)) + Count(o \in unreachable)
                       + Lodged(o)
  <2>. DEFINE h == held[o]
              i == Listed(o)
              m == Cardinality(Made(o))
              g == Cardinality(Given(o))
              n == Named(o)
              u == Count(o \in unreachable)
              l == Lodged(o)
              s == Stolen(o)
              r == refs[o]
  <2>1. /\ m \in Nat /\ g \in Nat /\ u \in Nat /\ l \in Nat /\ r \in Nat
        /\ Holders(o) = h + i + m + g + n + u + l
    BY <1>1, HoldersSum, CountType DEF AddsUp
  <2>2. h = 0 /\ s = 0
    BY DEF Idle, Stolen
  <2>3. i = 0 /\ n = 0
    BY <1>2, ItemFacts, CallsOfOne DEF Idle, Listed, Named
  <2>4. r + s = Holders(o)
    BY <1>1 DEF BalanceInv, Balanced
  <2>. HIDE DEF h, i, m, g, n, u, l, s, r
  <2>5. r = m + g + u + l
    BY ONLY <2>1, <2>2, <2>3, <2>4
  <2>. QED  BY <2>5 DEF m, g, u, l, r
<1>. QED  BY <1>2, <1>3

LEMMA InvLeaks == Inv => NothingLeaks
<1>. SUFFICES ASSUME Inv, Idle
     PROVE  /\ commands = <<>> /\ used = 0
            /\ live = unreachable \cup (IF unreachable = {} THEN {} ELSE {Context})
  BY DEF NothingLeaks, Idle
<1>1. TypeOK /\ LiveInv /\ MemoryAccounted
  BY DEF Inv, Idle, Books
<1>2. commands = <<>>
  BY IdleCommands
<1>3. \A o \in Objects :
        refs[o] = Cardinality(Made(o)) + Cardinality(Given(o)) + Count(o \in unreachable) + Lodged(o)
  BY IdleCommands
<1>4. unreachable \subseteq Programs /\ live \subseteq Objects /\ refs \in [Objects -> Nat]
  BY <1>1 DEF TypeOK
<1>5. ASSUME NEW o \in Objects PROVE o \in live <=> refs[o] # 0
  <2>1. Free(o) \notin ToSet(todo)
    BY ItemFacts, OneFacts DEF Idle
  <2>2. refs[o] \in Nat
    BY <1>4
  <2>3. refs[o] > 0 \/ refs[o] = 0
    BY <2>2
  <2>4. refs[o] > 0 => refs[o] # 0
    OBVIOUS
  <2>. QED  BY <1>1, <2>1, <2>3, <2>4 DEF LiveInv
<1>6. Existing = live
  <2>1. \A o \in live : refs[o] > 0
    BY <1>4, <1>5
  <2>. QED  BY <2>1 DEF Existing
<1>7. Kernels \cap live = {}
  <2>1. ASSUME NEW k \in Kernels PROVE refs[k] = 0
    <3>1. k \in Objects /\ k # Context /\ k \notin unreachable
      BY <1>4, Kinds
    <3>2. Made(k) = {}
      <4>1. \A j \in Kernels : program[j] # k
        BY <1>1, Kinds DEF TypeOK
      <4>. QED  BY <4>1 DEF Made
    <3>3. Given(k) = {}
      <4>1. \A j \in Kernels : argument[j] # k
        BY <1>1, Kinds DEF TypeOK, Values
      <4>. QED  BY <4>1 DEF Given
    <3>4. Cardinality(Made(k)) = 0 /\ Cardinality(Given(k)) = 0
      BY <3>2, <3>3, FS_EmptySet
    <3>5. Count(k \in unreachable) = 0 /\ Lodged(k) = 0
      BY <3>1 DEF Count, Lodged
    <3>. QED  BY <1>3, <3>1, <3>4, <3>5
  <2>. QED  BY <1>5, <2>1, Kinds
<1>8. ASSUME NEW o \in Objects PROVE refs[o] = Count(o \in unreachable) + Lodged(o)
  <2>1. Made(o) = {} /\ Given(o) = {}
    BY <1>6, <1>7 DEF Made, Given
  <2>2. Cardinality(Made(o)) = 0 /\ Cardinality(Given(o)) = 0
    BY <2>1, FS_EmptySet
  <2>. DEFINE u == Count(o \in unreachable)
              l == Lodged(o)
  <2>3. u \in Nat /\ l \in Nat
    BY <1>1, HoldersSum, CountType DEF AddsUp
  <2>4. refs[o] = 0 + 0 + u + l
    BY <1>3, <2>2
  <2>. HIDE DEF u, l
  <2>5. refs[o] = u + l
    BY <2>3, <2>4
  <2>. QED  BY <2>5 DEF u, l
<1>9. ASSUME NEW o \in Objects, o # Context PROVE o \in live <=> o \in unreachable
  <2>1. refs[o] = Count(o \in unreachable) + 0
    BY <1>8, <1>9 DEF Lodged
  <2>2. refs[o] # 0 <=> o \in unreachable
    BY <2>1 DEF Count
  <2>. QED  BY <1>5, <2>2
<1>10. Context \in live <=> unreachable # {}
  <2>1. Context \notin unreachable /\ Context \in Objects /\ Programs \subseteq Objects
    BY <1>4, Kinds
  <2>2. Others = unreachable
    <3>1. \A o \in Others : o \in unreachable
      BY <1>4, <1>6, <1>9 DEF Others
    <3>2. \A o \in unreachable : o \in Others
      BY <1>4, <1>6, <1>9, <2>1, Kinds DEF Others
    <3>. QED  BY <3>1, <3>2
  <2>3. IsFiniteSet(Others) /\ Cardinality(Others) \in Nat
    BY <1>1, <2>1, HoldersSum DEF AddsUp
  <2>. DEFINE n == Cardinality(Others)
  <2>4. refs[Context] = 0 + n
    BY <1>8, <2>1 DEF Count, Lodged
  <2>5. n = 0 <=> unreachable = {}
    BY <2>2, <2>3, FS_EmptySet
  <2>6. n \in Nat
    BY <2>3
  <2>. HIDE DEF n
  <2>7. refs[Context] # 0 <=> unreachable # {}
    BY <2>4, <2>5, <2>6
  <2>. QED  BY <1>5, <2>1, <2>7
<1>11. used = 0
  <2>1. Buffers \cap Existing = {}
    BY <1>4, <1>6, <1>9, Kinds
  <2>2. Bytes(Buffers \cap Existing, size) = {}
    BY <2>1 DEF Bytes
  <2>. QED  BY <1>1, <2>2, MemoryIs, FS_EmptySet
<1>12. live = unreachable \cup (IF unreachable = {} THEN {} ELSE {Context})
  <2>1. \A o \in Objects : o \in live <=> \/ o \in unreachable
                                          \/ o = Context /\ unreachable # {}
    BY <1>4, <1>9, <1>10, Kinds
  <2>2. unreachable \subseteq Objects /\ Context \in Objects
    BY <1>4, Kinds
  <2>. QED  BY <1>4, <2>1, <2>2
<1>. QED  BY <1>2, <1>11, <1>12

(* Once the application has released all it holds and every call returned, *)
(* no command waits, no memory is in use and nothing is allocated but the  *)
(* programs whose creation failed, and the context because of them.        *)
THEOREM LeaksCorrect == Spec => []NothingLeaks
<1>. QED  BY InvLeaks, Invariant, PTL
=============================================================================
