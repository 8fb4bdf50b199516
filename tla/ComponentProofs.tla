------------------------- MODULE ComponentProofs --------------------------
(***************************************************************************)
(* Proofs about four components.  RootSlice: for any number of programs,   *)
(* at most one executor owns a root cgroup.  BumpUp: for a buffer of any   *)
(* size and any types, blocks are aligned and apart, and at most the last  *)
(* one leaves the buffer.  PollPushPop: for any bound and limits the walk  *)
(* visits each admitted sequence once, and gives the rules back as it got  *)
(* them.  ExceptionStack: contexts reach their exception, for any number   *)
(* of exceptions and any nesting.                                          *)
(***************************************************************************)
EXTENDS RootSlice, BumpUp, PollPushPop, ExceptionStack,
        FiniteSetTheorems, SequenceTheorems, WellFoundedInduction, TLAPS

-----------------------------------------------------------------------------
(* RootSlice                                                               *)

\* A program that counts one process while it is a member is the only member.
LEMMA AloneMeansOnly ==
    ASSUME TypeOK, pids_current = 1, NEW p \in members, NEW q \in members
    PROVE  p = q
<1>1. IsFiniteSet(members)
    BY ProgramIsFinite, FS_Subset DEF TypeOK
<1>2. PICK x : members = {x}
    BY <1>1, FS_Singleton DEF pids_current
<1> QED BY <1>2

\* IInv holds initially and every step of every program keeps it.
THEOREM IInvInductive == Spec => []IInv
<1>1. Init => IInv
    BY DEF Init, IInv, TypeOK, JoinedAreMembers, OneExecutor, Stages
<1>2. IInv /\ [Next]_vars => IInv'
  <2> SUFFICES ASSUME IInv, [Next]_vars PROVE IInv'
      OBVIOUS
  <2> USE DEF IInv, TypeOK, Stages, JoinedAreMembers, OneExecutor, Goto
  <2>1. ASSUME NEW p \in Program, Stat(p) PROVE IInv'
      BY <2>1 DEF Stat
  <2>2. ASSUME NEW p \in Program, Mkdir(p) PROVE IInv'
      BY <2>2 DEF Mkdir
  <2>3. ASSUME NEW p \in Program, CheckEmpty(p) PROVE IInv'
      BY <2>3 DEF CheckEmpty
  <2>4. ASSUME NEW p \in Program, Join(p) PROVE IInv'
      BY <2>4 DEF Join
  <2>5. ASSUME NEW p \in Program, CheckAlone(p) PROVE IInv'
    <3>1. CASE pids_current = 1
      <4>1. \A q \in Program : at[q] = "built" => q = p
          BY <2>5, <3>1, AloneMeansOnly DEF CheckAlone
      <4> QED BY <2>5, <3>1, <4>1 DEF CheckAlone
    <3>2. CASE pids_current # 1
        BY <2>5, <3>2 DEF CheckAlone
    <3> QED BY <3>1, <3>2
  <2>6. ASSUME NEW p \in Program, End(p) PROVE IInv'
      BY <2>6 DEF End
  <2>7. ASSUME NEW p \in Program, WaitedFor(p) PROVE IInv'
      BY <2>7 DEF WaitedFor
  <2>8. CASE UNCHANGED vars
      BY <2>8 DEF vars
  <2> QED BY <2>1, <2>2, <2>3, <2>4, <2>5, <2>6, <2>7, <2>8 DEF Next
<1> QED BY <1>1, <1>2, PTL DEF Spec

\* The contract_asserts on pids.current keep a second executor out of a root,
\* however the reads and writes of the programs interleave.
THEOREM AtMostOneExecutor == Spec => []OneExecutor
<1>1. IInv => OneExecutor
    BY DEF IInv
<1> QED BY <1>1, IInvInductive, PTL

-----------------------------------------------------------------------------
(* BumpUp: alignment                                                       *)

\* What Aligned returns is the least multiple that is not below its argument.
LEMMA AlignedIsNext ==
    ASSUME NEW x \in Int, NEW a \in Nat \ {0}
    PROVE  /\ Aligned(x, a) \in Int
           /\ Aligned(x, a) % a = 0
           /\ x <= Aligned(x, a) /\ Aligned(x, a) < x + a
<1> DEFINE q == (x - 1) \div a
<1>1. /\ q \in Int /\ q * a \in Int
      /\ q * a <= x - 1 /\ x - 1 < q * a + a
    OBVIOUS
<1>2. Aligned(x, a) = q * a + a
    BY DEF Aligned
<1> HIDE DEF q
<1>3. q * a + a = (q + 1) * a /\ q + 1 \in Int
    BY <1>1
<1>4. \A k \in Int : (k * a) % a = 0
    OBVIOUS
<1> QED
    BY <1>1, <1>2, <1>3, <1>4

\* Elements of more than one size fill more than one.
LEMMA SizesGrow ==
    ASSUME NEW s \in Nat \ {0}, NEW n \in Nat
    PROVE  /\ s * n \in Nat
           /\ s * n > s => n > 1
<1>1. CASE n = 0
    BY <1>1
<1>2. CASE n = 1
    BY <1>2
<1>3. CASE n > 1
    BY <1>3
<1> QED
    BY <1>1, <1>2, <1>3

-----------------------------------------------------------------------------
(* BumpUp: the buffer                                                      *)

\* Every block lies behind the start of the buffer and before low, which only
\* reset takes back.
BlocksAreBelow ==
    /\ low \in Int /\ Memory <= low
    /\ bumped \subseteq [begin : Int, end : Int, n : Nat, align : Nat \ {0}]
    /\ \A b \in bumped : b.begin <= b.end /\ b.end <= low

BumpInv == BlocksAreBelow /\ BlocksAreApart

\* A block that is handed out starts at low or later, so behind all others; and
\* when one left the buffer, low is outside and no further one fits.
LEMMA AllocateApart ==
    ASSUME BumpInv, NEW t \in Types, NEW n \in Counts, allocate(t, n)
    PROVE  BumpInv'
<1> DEFINE begin == Aligned(low, t.alignof)
           end   == begin + t.sizeof * n
           new   == [begin |-> begin, end |-> end, n |-> n, align |-> t.alignof]
<1>1. t.sizeof \in Nat \ {0} /\ t.alignof \in Nat \ {0} /\ n \in Nat /\ Memory \in Nat
    BY BufferAssumption
<1>2. low \in Int /\ Memory <= low /\ high \in Int
    BY BufferAssumption DEF BumpInv, BlocksAreBelow, high
<1>3. begin \in Int /\ begin % t.alignof = 0 /\ low <= begin
    BY <1>1, <1>2, AlignedIsNext
<1>4. t.sizeof * n \in Nat /\ (t.sizeof * n > t.sizeof => n > 1)
    BY <1>1, SizesGrow
<1>5. /\ begin + t.sizeof <= high /\ low' = end
      /\ bumped' = bumped \cup {new}
    BY DEF allocate
<1>6. end \in Int /\ begin <= end
    BY <1>3, <1>4
<1>7. /\ new.begin = begin /\ new.end = end /\ new.n = n /\ new.align = t.alignof
      /\ new \in [begin : Int, end : Int, n : Nat, align : Nat \ {0}]
    BY <1>1, <1>3, <1>6
<1>8. high' = high
    BY DEF high
<1> HIDE DEF begin, end, new
<1>9. \A b \in bumped : /\ b.begin \in Int /\ b.end \in Int /\ b.n \in Nat
                        /\ b.begin <= b.end /\ b.end <= low
    BY DEF BumpInv, BlocksAreBelow
<1>10. BlocksAreBelow'
    BY <1>2, <1>3, <1>5, <1>6, <1>7, <1>9, <1>1 DEF BumpInv, BlocksAreBelow
<1>11. \A b \in bumped' : b.begin % b.align = 0 /\ Memory <= b.begin
    BY <1>1, <1>2, <1>3, <1>5, <1>7 DEF BumpInv, BlocksAreApart
<1>12. \A b, c \in bumped' : b = c \/ b.end <= c.begin \/ c.end <= b.begin
    BY <1>2, <1>3, <1>5, <1>7, <1>9 DEF BumpInv, BlocksAreApart
<1>13. \A b \in bumped : ~(b.end > high)
    BY <1>1, <1>2, <1>3, <1>5, <1>9
<1>14. new.end > high => new.n > 1 /\ new.begin < high
  <2>1. end = begin + t.sizeof * n
      BY DEF end
  <2> QED
      BY <2>1, <1>1, <1>2, <1>3, <1>4, <1>5, <1>7
<1>15. \A c \in bumped' : c.begin <= new.begin
    BY <1>2, <1>3, <1>5, <1>7, <1>9
<1>16. \A b \in bumped' : b.end > high' =>
           /\ b.n > 1 /\ b.begin < high'
           /\ \A c \in bumped' : c.begin <= b.begin
    BY <1>5, <1>8, <1>13, <1>14, <1>15
<1> QED
    BY <1>10, <1>11, <1>12, <1>16 DEF BumpInv, BlocksAreApart

\* Initially there is no block, and reset returns to that.
LEMMA NoneIsApart ==
    /\ BumpInit => BumpInv
    /\ reset => BumpInv'
BY BufferAssumption DEF BumpInit, reset, BumpInv, BlocksAreBelow, BlocksAreApart

\* Blocks of any size and type are aligned and share no byte; an array may end
\* outside of the buffer, as the check at bump_up.hpp:60 counts one element, but
\* then it is the last one.
THEOREM BlocksApart == BumpSpec => []BlocksAreApart
<1>1. BumpInit => BumpInv
    BY NoneIsApart
<1>2. BumpInv /\ [BumpNext]_bumpVars => BumpInv'
  <2> SUFFICES ASSUME BumpInv, [BumpNext]_bumpVars
               PROVE  BumpInv'
      OBVIOUS
  <2>1. ASSUME NEW t \in Types, NEW n \in Counts, allocate(t, n)
        PROVE  BumpInv'
      BY <2>1, AllocateApart
  <2>2. CASE reset
      BY <2>2, NoneIsApart
  <2>3. CASE UNCHANGED bumpVars
      BY <2>3 DEF bumpVars, BumpInv, BlocksAreBelow, BlocksAreApart, high
  <2> QED
      BY <2>1, <2>2, <2>3 DEF BumpNext
<1>3. BumpInv => BlocksAreApart
    BY DEF BumpInv
<1> QED
    BY <1>1, <1>2, <1>3, PTL DEF BumpSpec

-----------------------------------------------------------------------------
(***************************************************************************)
(* PollPushPop                                                             *)
(***************************************************************************)
(* The inductive invariant                                                 *)

\* What the rules know of the first n indices of s, and admit after them.
OccursIn(s, n, i) == Cardinality({k \in 1..n : s[k] = i})

SeenIn(s, n) == {s[k] : k \in 1..n}

Polled(c, s, n) ==
    {i \in Index : /\ n < c.total
                   /\ i = LimitedIndex => OccursIn(s, n, i) < c.limit
                   /\ i <= Cardinality(SeenIn(s, n))}

RuleType == [total : Nat, limit : Nat, counts : Seq(Nat)]

WalkTypes ==
    /\ call \in [total : Nat, limit : Nat] /\ rules \in RuleType
    /\ stack \in Seq(SUBSET Index) /\ top \in SUBSET Index
    /\ path \in Seq(Index) /\ visited \in Seq(Seq(Index))

\* No index before all smaller ones: what was seen has no holes.
SeenIsFull(s, n) == SeenIn(s, n) = 0..(Cardinality(SeenIn(s, n)) - 1)

\* The rules r are a function of the call and of what was pushed.
RulesFit(r, s) ==
    /\ r.total = call.total - Len(s)
    /\ r.limit = call.limit - OccursIn(s, Len(s), LimitedIndex)
    /\ Len(r.counts) = Cardinality(SeenIn(s, Len(s)))
    /\ \A i \in SeenIn(s, Len(s)) : r.counts[i + 1] = OccursIn(s, Len(s), i)
    /\ \A m \in 0..Len(s) : SeenIsFull(s, m)

\* The indices left at each depth, the one taken there included.
Masks == Append(stack, top)

MasksFollowPath ==
    IF label = "idle"
    THEN path = <<>>
    ELSE /\ Len(path) = IF label = "push" THEN Len(Masks) - 1 ELSE Len(Masks)
         /\ \A d \in 1..Len(Masks) : Masks[d] # {} /\ Masks[d] \subseteq Polled(call, path, d - 1)
         /\ \A d \in 1..Len(path) : path[d] \in Masks[d] /\ \A j \in Masks[d] : path[d] <= j

\* s leaves the path with an index that is left there.
Ahead(s) ==
    /\ label # "idle"
    /\ \E d \in 1..Len(Masks) :
          /\ d \in DOMAIN s /\ \A k \in 1..(d - 1) : s[k] = path[k]
          /\ s[d] \in Masks[d]
          /\ d <= Len(path) => s[d] # path[d]

\* What is left and what was visited divide the admitted sequences.
VisitedIsRest ==
    /\ \A a \in DOMAIN visited : visited[a] \in Admitted
    /\ \A s \in Admitted : Ahead(s) <=> \A a \in DOMAIN visited : visited[a] # s
    /\ \A a, b \in DOMAIN visited : visited[a] = visited[b] => a = b

WalkInv ==
    /\ label \in {"idle", "push", "pop"}
    /\ WalkTypes /\ RulesFit(rules, path) /\ MasksFollowPath /\ VisitedIsRest

-----------------------------------------------------------------------------
(* Counting in sequences                                                   *)

LEMMA OccursGrows ==
    ASSUME NEW s, NEW i, NEW n \in Nat
    PROVE  /\ OccursIn(s, n, i) \in Nat /\ OccursIn(s, 0, i) = 0
           /\ OccursIn(s, n + 1, i) = IF s[n + 1] = i THEN OccursIn(s, n, i) + 1
                                                     ELSE OccursIn(s, n, i)
<1> DEFINE D(m) == {k \in 1..m : s[k] = i}
<1>1. IsFiniteSet(1..n) /\ D(n) \subseteq 1..n
    BY FS_Interval
<1>2. IsFiniteSet(D(n)) /\ Cardinality(D(n)) \in Nat
    BY <1>1, FS_Subset, FS_CardinalityType
<1>3. D(0) = {} /\ Cardinality({}) = 0
    BY FS_EmptySet
<1>4. n + 1 \notin D(n)
    OBVIOUS
<1>5. D(n + 1) = IF s[n + 1] = i THEN D(n) \cup {n + 1} ELSE D(n)
    <2>1. 1..(n + 1) = (1..n) \cup {n + 1}
        OBVIOUS
    <2> QED
        BY <2>1
<1>6. Cardinality(D(n) \cup {n + 1}) = Cardinality(D(n)) + 1
    BY <1>2, <1>4, FS_AddElement
<1> QED
    BY <1>2, <1>3, <1>5, <1>6 DEF OccursIn

LEMMA OccursIsMonotone ==
    ASSUME NEW s, NEW i, NEW m \in Nat, NEW n \in Nat, m <= n
    PROVE  OccursIn(s, m, i) <= OccursIn(s, n, i)
<1> DEFINE D(j) == {k \in 1..j : s[k] = i}
<1>1. IsFiniteSet(1..n)
    BY FS_Interval
<1>2. IsFiniteSet(D(n))
    BY <1>1, FS_Subset
<1>3. D(m) \subseteq D(n)
    OBVIOUS
<1> QED
    BY <1>2, <1>3, FS_Subset DEF OccursIn

LEMMA OccursIffSeen ==
    ASSUME NEW s, NEW i, NEW n \in Nat
    PROVE  i \in SeenIn(s, n) <=> OccursIn(s, n, i) > 0
<1> DEFINE D == {k \in 1..n : s[k] = i}
<1>1. IsFiniteSet(1..n)
    BY FS_Interval
<1>2. IsFiniteSet(D) /\ Cardinality(D) \in Nat
    BY <1>1, FS_Subset, FS_CardinalityType
<1>3. Cardinality(D) = 0 <=> D = {}
    BY <1>2, FS_EmptySet
<1>4. i \in SeenIn(s, n) <=> D # {}
    BY DEF SeenIn
<1> QED
    BY <1>2, <1>3, <1>4 DEF OccursIn

LEMMA SeenGrows ==
    ASSUME NEW s, NEW n \in Nat
    PROVE  /\ IsFiniteSet(SeenIn(s, n)) /\ Cardinality(SeenIn(s, n)) \in Nat
           /\ SeenIn(s, 0) = {}
           /\ SeenIn(s, n + 1) = SeenIn(s, n) \cup {s[n + 1]}
<1>1. IsFiniteSet(1..n)
    BY FS_Interval
<1>2. IsFiniteSet(SeenIn(s, n))
  <2>1. [k \in 1..n |-> s[k]] \in Surjection(1..n, SeenIn(s, n))
      BY DEF SeenIn, Surjection
  <2> QED
      BY <1>1, <2>1, FS_Surjection
<1>3. 1..(n + 1) = (1..n) \cup {n + 1} /\ 1..0 = {}
    OBVIOUS
<1>4. SeenIn(s, 0) = {} /\ SeenIn(s, n + 1) = SeenIn(s, n) \cup {s[n + 1]}
    BY <1>3 DEF SeenIn
<1> QED
    BY <1>2, <1>4, FS_CardinalityType

\* Only the first n indices matter.
LEMMA PrefixDecides ==
    ASSUME NEW s, NEW t, NEW n, \A k \in 1..n : t[k] = s[k]
    PROVE  /\ \A i : OccursIn(t, n, i) = OccursIn(s, n, i)
           /\ SeenIn(t, n) = SeenIn(s, n)
           /\ \A c : Polled(c, t, n) = Polled(c, s, n)
<1>1. ASSUME NEW i PROVE OccursIn(t, n, i) = OccursIn(s, n, i)
  <2>1. {k \in 1..n : t[k] = i} = {k \in 1..n : s[k] = i}
      OBVIOUS
  <2> QED
      BY <2>1 DEF OccursIn
<1>2. SeenIn(t, n) = SeenIn(s, n)
    BY DEF SeenIn
<1> QED
    BY <1>1, <1>2 DEF Polled

\* Of what has no holes, the size says what it is.
LEMMA FullIsInterval ==
    ASSUME NEW m \in Nat
    PROVE  Cardinality(0..(m - 1)) = m /\ IsFiniteSet(0..(m - 1))
<1>1. 0 \in Int /\ m - 1 \in Int
    OBVIOUS
<1>2. /\ IsFiniteSet(0..(m - 1))
      /\ Cardinality(0..(m - 1)) = IF 0 > m - 1 THEN 0 ELSE m - 1 - 0 + 1
    BY <1>1, FS_Interval
<1> QED
    BY <1>2

-----------------------------------------------------------------------------
(* Admitted sequences                                                      *)

LEMMA AdmittedMeans ==
    ASSUME WalkTypes, NEW s
    PROVE  s \in Admitted <=>
               \E n \in 1..call.total :
                  /\ s \in [1..n -> Index]
                  /\ OccursIn(s, n, LimitedIndex) <= call.limit
                  /\ \A k \in 1..n : s[k] <= Cardinality(SeenIn(s, k - 1))
<1>1. ASSUME NEW n, s \in [1..n -> Index]
      PROVE  /\ Occurrences(s, LimitedIndex) = OccursIn(s, n, LimitedIndex)
             /\ \A k : {s[j] : j \in 1..(k - 1)} = SeenIn(s, k - 1)
    BY <1>1 DEF Occurrences, OccursIn, SeenIn
<1> DEFINE A(n) == {t \in [1..n -> Index] :
                      /\ Occurrences(t, LimitedIndex) <= call.limit
                      /\ \A k \in 1..n : t[k] <= Cardinality({t[j] : j \in 1..(k - 1)})}
<1>2. s \in Admitted <=> \E n \in 1..call.total : s \in A(n)
    BY DEF Admitted
<1>3. ASSUME NEW n
      PROVE  s \in A(n) <=> /\ s \in [1..n -> Index]
                            /\ OccursIn(s, n, LimitedIndex) <= call.limit
                            /\ \A k \in 1..n : s[k] <= Cardinality(SeenIn(s, k - 1))
    BY <1>1
<1> QED
    BY <1>2, <1>3

\* The rules admit each index of an admitted sequence at its turn.
LEMMA AdmittedIsPolled ==
    ASSUME WalkTypes, NEW s \in Admitted
    PROVE  \E n \in 1..call.total :
              /\ s \in [1..n -> Index]
              /\ \A k \in 1..n : s[k] \in Polled(call, s, k - 1)
<1>1. PICK n \in 1..call.total :
          /\ s \in [1..n -> Index]
          /\ OccursIn(s, n, LimitedIndex) <= call.limit
          /\ \A k \in 1..n : s[k] <= Cardinality(SeenIn(s, k - 1))
    BY AdmittedMeans
<1>2. call.total \in Nat /\ call.limit \in Nat
    BY DEF WalkTypes
<1>3. ASSUME NEW k \in 1..n, s[k] = LimitedIndex
      PROVE  OccursIn(s, k - 1, LimitedIndex) < call.limit
  <2> DEFINE m == k - 1
  <2>1. m \in Nat /\ m + 1 = k /\ n \in Nat /\ k \in Nat /\ k <= n
      BY <1>2
  <2> HIDE DEF m
  <2>2. OccursIn(s, k, LimitedIndex) = OccursIn(s, m, LimitedIndex) + 1 /\ OccursIn(s, m, LimitedIndex) \in Nat
      BY <2>1, <1>3, OccursGrows
  <2>3. OccursIn(s, k, LimitedIndex) <= OccursIn(s, n, LimitedIndex) /\ OccursIn(s, n, LimitedIndex) \in Nat
      BY <2>1, OccursIsMonotone, OccursGrows
  <2>4. OccursIn(s, m, LimitedIndex) < call.limit
      BY <2>2, <2>3, <1>1, <1>2
  <2> QED
      BY <2>4 DEF m
<1>4. ASSUME NEW k \in 1..n PROVE s[k] \in Polled(call, s, k - 1)
    BY <1>1, <1>2, <1>3 DEF Polled
<1> QED
    BY <1>1, <1>4

-----------------------------------------------------------------------------
(* The rules                                                               *)

LEMMA IndexIsNat ==
    ASSUME NEW s \in Seq(Index), Bound \in Nat
    PROVE  /\ Index \subseteq Nat
           /\ Len(s) \in Nat /\ DOMAIN s = 1..Len(s) /\ s \in [1..Len(s) -> Index]
           /\ \A n \in 0..Len(s) : SeenIn(s, n) \subseteq Index
<1>1. Len(s) \in Nat /\ DOMAIN s = 1..Len(s) /\ s \in [1..Len(s) -> Index]
    BY LenProperties
<1> QED
    BY <1>1 DEF SeenIn, Index

\* One index more at the end.
LEMMA AppendCounts ==
    ASSUME NEW s \in Seq(Index), NEW i \in Index, Bound \in Nat
    PROVE  LET t == Append(s, i)
               n == Len(s)
           IN  /\ t \in Seq(Index) /\ Len(t) = n + 1 /\ t[n + 1] = i
               /\ \A k \in 1..n : t[k] = s[k]
               /\ \A j : OccursIn(t, n + 1, j) = IF j = i THEN OccursIn(s, n, j) + 1
                                                          ELSE OccursIn(s, n, j)
               /\ SeenIn(t, n + 1) = SeenIn(s, n) \cup {i}
               /\ \A m \in 0..n : SeenIn(t, m) = SeenIn(s, m)
               /\ \A m \in 0..n : Polled(call, t, m) = Polled(call, s, m)
<1> DEFINE t == Append(s, i)
           n == Len(s)
<1>1. /\ t \in Seq(Index) /\ Len(t) = n + 1 /\ t[n + 1] = i /\ n \in Nat
      /\ \A k \in 1..n : t[k] = s[k]
    BY AppendProperties, LenProperties
<1> HIDE DEF t, n
<1>2. \A m \in 0..n : \A k \in 1..m : t[k] = s[k]
    BY <1>1
<1>3. \A m \in 0..n : /\ \A j : OccursIn(t, m, j) = OccursIn(s, m, j)
                      /\ SeenIn(t, m) = SeenIn(s, m)
                      /\ Polled(call, t, m) = Polled(call, s, m)
  <2> TAKE m \in 0..n
  <2>1. \A k \in 1..m : t[k] = s[k]
      BY <1>2
  <2>2. /\ \A j : OccursIn(t, m, j) = OccursIn(s, m, j)
        /\ SeenIn(t, m) = SeenIn(s, m)
        /\ \A c : Polled(c, t, m) = Polled(c, s, m)
      BY <2>1, PrefixDecides
  <2> QED
      BY <2>2
<1>4. n \in 0..n
    BY <1>1
<1>5. ASSUME NEW j
      PROVE  OccursIn(t, n + 1, j) = IF j = i THEN OccursIn(s, n, j) + 1 ELSE OccursIn(s, n, j)
  <2>1. OccursIn(t, n + 1, j) = IF t[n + 1] = j THEN OccursIn(t, n, j) + 1 ELSE OccursIn(t, n, j)
      BY <1>1, OccursGrows
  <2>2. OccursIn(t, n, j) = OccursIn(s, n, j)
      BY <1>3, <1>4
  <2> QED
      BY <1>1, <2>1, <2>2
<1>6. SeenIn(t, n + 1) = SeenIn(s, n) \cup {i}
  <2>1. SeenIn(t, n + 1) = SeenIn(t, n) \cup {t[n + 1]}
      BY <1>1, SeenGrows
  <2>2. SeenIn(t, n) = SeenIn(s, n)
      BY <1>3, <1>4
  <2> QED
      BY <1>1, <2>1, <2>2
<1> QED
    BY <1>1, <1>3, <1>5, <1>6 DEF t, n

\* The conjunction of the polls depends on what was pushed, in any order of checks.
LEMMA PollIsPolled ==
    ASSUME WalkTypes, Bound \in Nat, NEW r \in RuleType, NEW s \in Seq(Index), RulesFit(r, s)
    PROVE  poll(r) = Polled(call, s, Len(s))
<1>1. /\ Len(s) \in Nat /\ OccursIn(s, Len(s), LimitedIndex) \in Nat
      /\ call.total \in Nat /\ call.limit \in Nat
    BY IndexIsNat, OccursGrows DEF WalkTypes
<1>2. /\ r.total > 0 <=> Len(s) < call.total
      /\ r.limit > 0 <=> OccursIn(s, Len(s), LimitedIndex) < call.limit
    BY <1>1 DEF RulesFit
<1>3. Len(r.counts) = Cardinality(SeenIn(s, Len(s)))
    BY DEF RulesFit
<1>4. ASSUME NEW i \in Index
      PROVE  /\ i = LimitedIndex => (r.limit > 0 <=> OccursIn(s, Len(s), i) < call.limit)
             /\ i <= Len(r.counts) <=> i <= Cardinality(SeenIn(s, Len(s)))
    BY <1>2, <1>3
<1> QED
    BY <1>2, <1>4 DEF poll, Polled

\* What RulesFit says, with the seen indices as an interval.
LEMMA FitFacts ==
    ASSUME WalkTypes, Bound \in Nat, NEW r \in RuleType, NEW s \in Seq(Index), RulesFit(r, s)
    PROVE  LET n == Len(s)
               m == Len(r.counts)
           IN  /\ n \in Nat /\ m \in Nat /\ DOMAIN r.counts = 1..m
               /\ SeenIn(s, n) = 0..(m - 1)
               /\ \A i : OccursIn(s, n, i) \in Nat
               /\ \A i \in 0..(m - 1) : r.counts[i + 1] = OccursIn(s, n, i) /\ OccursIn(s, n, i) > 0
               /\ r.total = call.total - n /\ r.limit = call.limit - OccursIn(s, n, LimitedIndex)
               /\ call.total \in Nat /\ call.limit \in Nat
<1> DEFINE n == Len(s)
           m == Len(r.counts)
<1>1. n \in Nat /\ r.counts \in Seq(Nat) /\ call.total \in Nat /\ call.limit \in Nat
    BY IndexIsNat DEF RuleType, WalkTypes
<1>2. m \in Nat /\ DOMAIN r.counts = 1..m
    BY <1>1, LenProperties
<1> HIDE DEF n, m
<1>3. \A i : OccursIn(s, n, i) \in Nat
    BY <1>1, OccursGrows
<1>4. SeenIn(s, n) = 0..(m - 1)
    BY <1>1 DEF RulesFit, SeenIsFull, n, m
<1>5. \A i \in 0..(m - 1) : OccursIn(s, n, i) > 0
    BY <1>1, <1>4, OccursIffSeen
<1>6. \A i \in 0..(m - 1) : r.counts[i + 1] = OccursIn(s, n, i)
    BY <1>4 DEF RulesFit, n
<1> QED
    BY <1>1, <1>2, <1>3, <1>4, <1>5, <1>6 DEF RulesFit, n, m

\* A push of the rules counts one index more at the end.
LEMMA PushedFits ==
    ASSUME WalkTypes, Bound \in Nat, NEW r \in RuleType, NEW s \in Seq(Index), RulesFit(r, s),
           NEW i \in poll(r)
    PROVE  pushed(r, i) \in RuleType /\ RulesFit(pushed(r, i), Append(s, i))
<1> DEFINE t == Append(s, i)
           n == Len(s)
           m == Len(r.counts)
           p == pushed(r, i)
<1>1. /\ n \in Nat /\ m \in Nat /\ DOMAIN r.counts = 1..m
      /\ SeenIn(s, n) = 0..(m - 1)
      /\ \A j : OccursIn(s, n, j) \in Nat
      /\ \A j \in 0..(m - 1) : r.counts[j + 1] = OccursIn(s, n, j) /\ OccursIn(s, n, j) > 0
      /\ r.total = call.total - n /\ r.limit = call.limit - OccursIn(s, n, LimitedIndex)
      /\ call.total \in Nat /\ call.limit \in Nat
    BY FitFacts
<1>2. /\ i \in Index /\ i \in Nat /\ i <= m
      /\ r.total > 0
      /\ i = LimitedIndex => r.limit > 0
    BY IndexIsNat DEF poll, Index
<1>3. /\ t \in Seq(Index) /\ Len(t) = n + 1
      /\ \A j : OccursIn(t, n + 1, j) = IF j = i THEN OccursIn(s, n, j) + 1 ELSE OccursIn(s, n, j)
      /\ SeenIn(t, n + 1) = SeenIn(s, n) \cup {i}
      /\ \A k \in 0..n : SeenIn(t, k) = SeenIn(s, k)
    BY <1>2, AppendCounts
<1>4. r.counts \in Seq(Nat) /\ r.total \in Nat /\ r.limit \in Nat
    BY DEF RuleType
<1>5. /\ p.total = r.total - 1
      /\ p.limit = IF i = LimitedIndex THEN r.limit - 1 ELSE r.limit
      /\ p.counts = IF i = m THEN Append(r.counts, 1) ELSE [r.counts EXCEPT ![i + 1] = @ + 1]
      /\ p = [total |-> p.total, limit |-> p.limit, counts |-> p.counts]
    BY DEF pushed
<1> DEFINE c == IF i = m THEN m + 1 ELSE m
<1> HIDE DEF t, n, p, m
<1>15. (i = m => c = m + 1) /\ (i # m => c = m)
    OBVIOUS
<1> HIDE DEF c
<1>6. SeenIn(t, n + 1) = 0..(c - 1) /\ c \in Nat
  <2>1. SeenIn(t, n + 1) = (0..(m - 1)) \cup {i}
      BY <1>1, <1>3
  <2>2. m \in Nat /\ i \in Nat /\ i <= m
      BY <1>1, <1>2
  <2>3. CASE i = m
    <3>1. c - 1 = m /\ c \in Nat
        BY <2>2, <2>3, <1>15
    <3>2. (0..(m - 1)) \cup {m} = 0..m
        BY <2>2
    <3> QED
        BY <3>1, <3>2, <2>1, <2>3
  <2>4. CASE i # m
    <3>1. c = m /\ i \in 0..(m - 1)
        BY <2>2, <2>4, <1>15
    <3> QED
        BY <3>1, <2>1, <2>2
  <2> QED
      BY <2>3, <2>4
<1>7. /\ p.counts \in Seq(Nat) /\ Len(p.counts) = c
      /\ \A j \in 0..(c - 1) : p.counts[j + 1] = OccursIn(t, n + 1, j)
  <2>1. CASE i = m
    <3>1. p.counts = Append(r.counts, 1)
        BY <1>5, <2>1
    <3>2. /\ Append(r.counts, 1) \in Seq(Nat) /\ Len(Append(r.counts, 1)) = m + 1
          /\ Append(r.counts, 1)[m + 1] = 1
          /\ \A k \in 1..m : Append(r.counts, 1)[k] = r.counts[k]
        BY <1>4, AppendProperties DEF m
    <3>3. OccursIn(s, n, m) = 0
      <4>1. m \notin SeenIn(s, n)
          BY <1>1
      <4>2. OccursIn(s, n, m) \in Nat /\ n \in Nat
          BY <1>1
      <4>3. ~ OccursIn(s, n, m) > 0
          BY <4>1, <4>2, OccursIffSeen
      <4> QED
          BY <4>2, <4>3
    <3>4. ASSUME NEW j \in 0..m PROVE p.counts[j + 1] = OccursIn(t, n + 1, j)
      <4>1. CASE j = m
          BY <4>1, <3>1, <3>2, <3>3, <1>3, <2>1
      <4>2. CASE j # m
        <5>1. j \in 0..(m - 1) /\ j + 1 \in 1..m
            BY <4>2, <1>1
        <5>2. p.counts[j + 1] = r.counts[j + 1]
            BY <5>1, <3>1, <3>2
        <5>3. OccursIn(t, n + 1, j) = OccursIn(s, n, j)
            BY <4>2, <2>1, <1>3
        <5> QED
            BY <5>1, <5>2, <5>3, <1>1
      <4> QED
          BY <4>1, <4>2
    <3> QED
        BY <3>1, <3>2, <3>4, <2>1, <1>1, <1>15
  <2>2. CASE i # m
    <3>1. p.counts = [r.counts EXCEPT ![i + 1] = @ + 1] /\ i + 1 \in 1..m /\ i \in 0..(m - 1)
        BY <1>1, <1>2, <1>5, <2>2
    <3>2. r.counts[i + 1] \in Nat
        BY <1>1, <3>1
    <3>3. p.counts \in Seq(Nat) /\ Len(p.counts) = m
        BY <3>1, <3>2, <1>4, ExceptSeq DEF m
    <3>4. ASSUME NEW j \in 0..(m - 1) PROVE p.counts[j + 1] = OccursIn(t, n + 1, j)
      <4>1. j + 1 \in 1..m /\ r.counts[j + 1] = OccursIn(s, n, j)
          BY <1>1
      <4>2. CASE j = i
          BY <4>1, <4>2, <3>1, <1>1, <1>3
      <4>3. CASE j # i
        <5>1. j + 1 # i + 1
            BY <4>3, <1>2
        <5>2. p.counts[j + 1] = r.counts[j + 1]
            BY <5>1, <4>1, <3>1, <1>1
        <5> QED
            BY <5>2, <4>1, <4>3, <1>3
      <4> QED
          BY <4>2, <4>3
    <3> QED
        BY <3>3, <3>4, <2>2, <1>15
  <2> QED
      BY <2>1, <2>2
<1>8. p.total \in Nat /\ p.limit \in Nat
    BY <1>2, <1>4, <1>5
<1>9. p \in RuleType
    BY <1>5, <1>7, <1>8 DEF RuleType
<1>10. p.total = call.total - Len(t) /\ p.limit = call.limit - OccursIn(t, Len(t), LimitedIndex)
  <2>1. p.total = call.total - Len(t)
    <3>1. p.total = r.total - 1 /\ r.total = call.total - n /\ Len(t) = n + 1 /\ n \in Nat /\ call.total \in Nat
        BY <1>1, <1>3, <1>5
    <3> QED
        BY <3>1
  <2>2. CASE i = LimitedIndex
    <3>1. /\ p.limit = r.limit - 1 /\ r.limit = call.limit - OccursIn(s, n, LimitedIndex)
          /\ OccursIn(s, n, LimitedIndex) \in Nat /\ call.limit \in Nat /\ Len(t) = n + 1
        BY <2>2, <1>1, <1>3, <1>5
    <3>2. OccursIn(t, n + 1, LimitedIndex) = OccursIn(s, n, LimitedIndex) + 1
        BY <2>2, <1>3
    <3> QED
        BY <3>1, <3>2, <2>1
  <2>3. CASE i # LimitedIndex
      BY <2>3, <2>1, <1>1, <1>3, <1>5
  <2> QED
      BY <2>2, <2>3
<1>11. Cardinality(SeenIn(t, Len(t))) = c
    BY <1>3, <1>6, FullIsInterval
<1>12. \A j \in SeenIn(t, Len(t)) : p.counts[j + 1] = OccursIn(t, Len(t), j)
    BY <1>3, <1>6, <1>7
<1>13. ASSUME NEW k \in 0..Len(t) PROVE SeenIsFull(t, k)
  <2>1. CASE k = n + 1
      BY <2>1, <1>3, <1>6, <1>11 DEF SeenIsFull
  <2>2. CASE k # n + 1
    <3>1. k \in 0..n
        BY <2>2, <1>1, <1>3
    <3>2. SeenIn(t, k) = SeenIn(s, k)
        BY <3>1, <1>3
    <3>3. SeenIsFull(s, k)
        BY <3>1 DEF RulesFit, n
    <3> QED
        BY <3>2, <3>3 DEF SeenIsFull
  <2> QED
      BY <2>1, <2>2
<1>14. RulesFit(p, t)
    BY <1>7, <1>10, <1>11, <1>12, <1>13 DEF RulesFit
<1> QED
    BY <1>9, <1>14 DEF p, t

\* A pop of the rules undoes the push.
LEMMA PoppedFits ==
    ASSUME WalkTypes, Bound \in Nat, NEW r \in RuleType, NEW s \in Seq(Index), NEW i \in Index,
           RulesFit(r, Append(s, i))
    PROVE  popped(r, i) \in RuleType /\ RulesFit(popped(r, i), s)
<1> DEFINE t == Append(s, i)
           n == Len(s)
           m == Len(r.counts)
           p == popped(r, i)
           C == [r.counts EXCEPT ![i + 1] = @ - 1]
<1>1. /\ t \in Seq(Index) /\ Len(t) = n + 1 /\ n \in Nat
      /\ \A j : OccursIn(t, n + 1, j) = IF j = i THEN OccursIn(s, n, j) + 1 ELSE OccursIn(s, n, j)
      /\ SeenIn(t, n + 1) = SeenIn(s, n) \cup {i}
      /\ \A k \in 0..n : SeenIn(t, k) = SeenIn(s, k)
    BY AppendCounts, IndexIsNat
<1>2. /\ m \in Nat /\ DOMAIN r.counts = 1..m
      /\ SeenIn(t, n + 1) = 0..(m - 1)
      /\ \A j \in 0..(m - 1) : r.counts[j + 1] = OccursIn(t, n + 1, j)
      /\ r.total = call.total - (n + 1) /\ r.limit = call.limit - OccursIn(t, n + 1, LimitedIndex)
      /\ call.total \in Nat /\ call.limit \in Nat
    BY <1>1, FitFacts
<1>3. r.counts \in Seq(Nat) /\ r.total \in Nat /\ r.limit \in Nat
    BY DEF RuleType
<1>4. /\ p.total = r.total + 1
      /\ p.limit = IF i = LimitedIndex THEN r.limit + 1 ELSE r.limit
      /\ p.counts = IF Last(C) = 0 THEN Front(C) ELSE C
      /\ p = [total |-> p.total, limit |-> p.limit, counts |-> p.counts]
    BY DEF popped
<1>5. i \in 0..(m - 1) /\ i \in Nat
    BY <1>1, <1>2
<1>6. \A j : OccursIn(s, n, j) \in Nat
    BY <1>1, OccursGrows
<1>7. \A k \in 0..n : SeenIsFull(s, k)
  <2> TAKE k \in 0..n
  <2>1. SeenIsFull(t, k)
      BY <1>1 DEF RulesFit
  <2> QED
      BY <2>1, <1>1 DEF SeenIsFull
<1> HIDE DEF t, n, p, m
<1>8. C \in Seq(Nat) /\ Len(C) = m /\ \A j \in 0..(m - 1) : C[j + 1] = OccursIn(s, n, j)
  <2>1. r.counts[i + 1] = OccursIn(s, n, i) + 1 /\ i + 1 \in 1..m
      BY <1>1, <1>2, <1>5
  <2>2. r.counts[i + 1] - 1 \in Nat
      BY <2>1, <1>6
  <2>3. C \in Seq(Nat) /\ Len(C) = m
      BY <2>1, <2>2, <1>3, ExceptSeq DEF m
  <2>4. ASSUME NEW j \in 0..(m - 1) PROVE C[j + 1] = OccursIn(s, n, j)
    <3>1. j + 1 \in 1..m /\ r.counts[j + 1] = OccursIn(t, n + 1, j)
        BY <1>2
    <3>2. CASE j = i
        BY <3>1, <3>2, <2>1, <1>2, <1>6
    <3>3. CASE j # i
      <4>1. j + 1 # i + 1
          BY <3>3, <1>5
      <4>2. C[j + 1] = r.counts[j + 1]
          BY <4>1, <3>1, <1>2
      <4> QED
          BY <4>2, <3>1, <3>3, <1>1
    <3> QED
        BY <3>2, <3>3
  <2> QED
      BY <2>3, <2>4
<1> HIDE DEF C
<1>9. m - 1 \in 0..(m - 1) /\ m \in 1..m /\ Last(C) = OccursIn(s, n, m - 1)
  <2>1. m - 1 \in 0..(m - 1) /\ m \in 1..m /\ (m - 1) + 1 = m
      BY <1>2, <1>5
  <2>2. C[m] = OccursIn(s, n, m - 1)
      BY <2>1, <1>8
  <2> QED
      BY <2>1, <2>2, <1>8 DEF Last
<1> DEFINE c == IF Last(C) = 0 THEN m - 1 ELSE m
<1>10. c \in Nat /\ SeenIn(s, n) = 0..(c - 1)
  <2>1. PICK d \in Nat : SeenIn(s, n) = 0..(d - 1)
    <3>1. SeenIsFull(s, n)
        BY <1>7, <1>1
    <3>2. Cardinality(SeenIn(s, n)) \in Nat
        BY <1>1, SeenGrows
    <3> QED
        BY <3>1, <3>2 DEF SeenIsFull
  <2>2. 0..(m - 1) = (0..(d - 1)) \cup {i}
      BY <2>1, <1>1, <1>2
  <2>3. Last(C) = 0 <=> m - 1 \notin SeenIn(s, n)
      BY <1>9, <1>6, <1>1, OccursIffSeen
  <2>4. CASE Last(C) = 0
    <3>1. m - 1 \notin 0..(d - 1) /\ i = m - 1
        BY <2>1, <2>2, <2>3, <2>4, <1>9
    <3>2. d = m - 1
      <4>1. d <= m - 1
          BY <3>1, <2>1, <1>2, <1>5
      <4>2. ~ d < m - 1
        <5>1. SUFFICES ASSUME d < m - 1 PROVE FALSE
            OBVIOUS
        <5>2. d \in 0..(m - 1) /\ d # i /\ d \notin 0..(d - 1)
            BY <5>1, <3>1, <2>1, <1>2
        <5> QED
            BY <5>2, <2>2
      <4> QED
          BY <4>1, <4>2, <2>1, <1>2
    <3> QED
        BY <3>2, <2>1, <2>4
  <2>5. CASE Last(C) # 0
    <3>1. m - 1 \in 0..(d - 1)
        BY <2>1, <2>3, <2>5
    <3>2. d - 1 \in 0..(m - 1)
        BY <3>1, <2>1, <2>2
    <3>3. d = m
        BY <3>1, <3>2, <2>1, <1>2
    <3> QED
        BY <3>3, <2>1, <2>5
  <2> QED
      BY <2>4, <2>5
<1>11. /\ p.counts \in Seq(Nat) /\ Len(p.counts) = c
       /\ \A j \in 0..(c - 1) : p.counts[j + 1] = OccursIn(s, n, j)
  <2>1. CASE Last(C) = 0
    <3>1. p.counts = Front(C)
        BY <2>1, <1>4
    <3>2. Front(C) = SubSeq(C, 1, m - 1)
        BY <1>8 DEF Front
    <3>3. \A k \in 1..(m - 1) : C[k] \in Nat
        BY <1>2, <1>8, ElementOfSeq
    <3>4. /\ Front(C) \in Seq(Nat) /\ Len(Front(C)) = m - 1
          /\ \A k \in 1..(m - 1) : Front(C)[k] = C[k]
      <4> DEFINE l == m - 1
      <4>1. 1 \in Int /\ l \in Int /\ l \in Nat
          BY <1>2, <1>9
      <4> HIDE DEF l
      <4>2. \A k \in 1..l : C[k] \in Nat
          BY <3>3 DEF l
      <4>3. /\ SubSeq(C, 1, l) \in Seq(Nat)
            /\ Len(SubSeq(C, 1, l)) = IF 1 <= l THEN l - 1 + 1 ELSE 0
            /\ \A k \in 1..(l - 1 + 1) : SubSeq(C, 1, l)[k] = C[1 + k - 1]
          BY ONLY <4>1, <4>2, SubSeqProperties
      <4>4. Len(SubSeq(C, 1, l)) = l
          BY <4>1, <4>3
      <4>5. \A k \in 1..l : SubSeq(C, 1, l)[k] = C[k]
          BY <4>1, <4>3
      <4> QED
          BY <4>3, <4>4, <4>5, <3>2 DEF l
    <3>5. ASSUME NEW j \in 0..(m - 1 - 1) PROVE p.counts[j + 1] = OccursIn(s, n, j)
      <4>1. j + 1 \in 1..(m - 1) /\ j \in 0..(m - 1)
          BY <1>2
      <4> QED
          BY <4>1, <3>1, <3>4, <1>8
    <3> QED
        BY <3>1, <3>4, <3>5, <2>1
  <2>2. CASE Last(C) # 0
      BY <2>2, <1>4, <1>8
  <2> QED
      BY <2>1, <2>2
<1> HIDE DEF c
<1>12. p.total = call.total - n /\ p.limit = call.limit - OccursIn(s, n, LimitedIndex)
  <2>1. p.total = call.total - n
    <3>1. p.total = r.total + 1 /\ r.total = call.total - (n + 1) /\ n \in Nat /\ call.total \in Nat
        BY <1>1, <1>2, <1>4
    <3> QED
        BY <3>1
  <2>2. CASE i = LimitedIndex
    <3>1. /\ p.limit = r.limit + 1 /\ r.limit = call.limit - OccursIn(t, n + 1, LimitedIndex)
          /\ OccursIn(s, n, LimitedIndex) \in Nat /\ call.limit \in Nat
        BY <2>2, <1>2, <1>4, <1>6
    <3>2. OccursIn(t, n + 1, LimitedIndex) = OccursIn(s, n, LimitedIndex) + 1
        BY <2>2, <1>1
    <3> QED
        BY <3>1, <3>2, <2>1
  <2>3. CASE i # LimitedIndex
      BY <2>3, <2>1, <1>1, <1>2, <1>4, <1>6
  <2> QED
      BY <2>2, <2>3
<1>13. p \in RuleType
  <2>1. p.total \in Nat /\ p.limit \in Nat
      BY <1>3, <1>4
  <2> QED
      BY <2>1, <1>4, <1>11 DEF RuleType
<1>14. Cardinality(SeenIn(s, n)) = c
    BY <1>10, FullIsInterval
<1>15. RulesFit(p, s)
    BY <1>7, <1>10, <1>11, <1>12, <1>14 DEF RulesFit, n
<1> QED
    BY <1>13, <1>15 DEF p

-----------------------------------------------------------------------------
(* The masks                                                               *)

\* The lowest bit of a mask.
LEMMA LowestBit ==
    ASSUME Bound \in Nat, NEW m \in SUBSET Index
    PROVE  /\ m # {} => countr_zero(m) \in m /\ \A j \in m : countr_zero(m) <= j
           /\ \A i \in m : (\A j \in m : i <= j) => i = countr_zero(m)
<1>1. m \subseteq Nat
    BY DEF Index
<1>2. ASSUME m # {} PROVE \E i \in m : \A j \in m : i <= j
  <2>1. PICK i \in m : \A j \in m : <<j, i>> \notin OpToRel(<, Nat)
      BY <1>1, <1>2, NatLessThanWellFounded, WFMin
  <2>2. \A j \in m : ~ j < i
      BY <1>1, <2>1 DEF OpToRel
  <2>3. \A j \in m : i <= j
      BY <1>1, <2>2
  <2> QED
      BY <2>3
<1>3. m # {} => countr_zero(m) \in m /\ \A j \in m : countr_zero(m) <= j
    BY <1>2 DEF countr_zero
<1>4. ASSUME NEW i \in m, \A j \in m : i <= j PROVE i = countr_zero(m)
  <2>1. countr_zero(m) \in m /\ i <= countr_zero(m) /\ countr_zero(m) <= i
      BY <1>3, <1>4
  <2>2. i \in Nat /\ countr_zero(m) \in Nat
      BY <1>1, <2>1
  <2> QED
      BY <2>1, <2>2
<1> QED
    BY <1>3, <1>4

\* AdmittedIsPolled, for the state after a step too.
LEMMA AdmittedIsPolledAfter ==
    (WalkTypes => \A s \in Admitted :
        \E n \in 1..call.total : s \in [1..n -> Index] /\ \A k \in 1..n : s[k] \in Polled(call, s, k - 1))'
<1>1. WalkTypes => \A s \in Admitted :
        \E n \in 1..call.total : s \in [1..n -> Index] /\ \A k \in 1..n : s[k] \in Polled(call, s, k - 1)
    BY AdmittedIsPolled
<1> QED
    BY <1>1, PTL

-----------------------------------------------------------------------------
(* A call begins                                                           *)

LEMMA EmptyPath ==
    /\ OccursIn(<<>>, 0, LimitedIndex) = 0
    /\ SeenIn(<<>>, 0) = {} /\ Cardinality({}) = 0
    /\ Len(<<>>) = 0 /\ 0..0 = {0} /\ SeenIsFull(<<>>, 0)
<1>1. SeenIn(<<>>, 0) = {} /\ Cardinality({}) = 0
    BY FS_EmptySet DEF SeenIn
<1>2. OccursIn(<<>>, 0, LimitedIndex) = 0
    BY OccursGrows
<1>3. Len(<<>>) = 0 /\ 0..0 = {0} /\ 0..(0 - 1) = {}
    BY EmptySeq
<1>4. SeenIsFull(<<>>, 0)
    BY <1>1, <1>3 DEF SeenIsFull
<1> QED
    BY <1>1, <1>2, <1>3, <1>4

LEMMA InitHolds ==
    ASSUME WalkInit PROVE WalkInv
<1>1. /\ label = "idle" /\ path = <<>> /\ visited = <<>> /\ stack = <<>> /\ top = {}
      /\ call = [total |-> 0, limit |-> 0]
      /\ rules = [total |-> 0, limit |-> 0, counts |-> <<>>]
    BY DEF WalkInit
<1>2. WalkTypes
    BY <1>1, EmptySeq DEF WalkTypes, RuleType
<1>3. RulesFit(rules, path)
  <2>1. \A m \in 0..Len(path) : SeenIsFull(path, m)
      BY <1>1, EmptyPath
  <2>2. rules.total = 0 /\ rules.limit = 0 /\ rules.counts = <<>> /\ call.total = 0 /\ call.limit = 0
      BY <1>1
  <2>3. Len(path) = 0 /\ OccursIn(path, Len(path), LimitedIndex) = 0 /\ SeenIn(path, Len(path)) = {}
      BY <1>1, EmptyPath
  <2>4. Len(rules.counts) = Cardinality(SeenIn(path, Len(path)))
      BY <2>2, <2>3, EmptyPath
  <2>5. rules.total = call.total - Len(path) /\ rules.limit = call.limit - OccursIn(path, Len(path), LimitedIndex)
      BY <2>2, <2>3
  <2>6. \A i \in SeenIn(path, Len(path)) : rules.counts[i + 1] = OccursIn(path, Len(path), i)
      BY <2>3
  <2> QED
      BY <2>1, <2>4, <2>5, <2>6 DEF RulesFit
<1>4. Admitted = {}
  <2>1. 1..call.total = {}
      BY <1>1
  <2> QED
      BY <2>1 DEF Admitted
<1>5. VisitedIsRest
    BY <1>1, <1>4, EmptySeq DEF VisitedIsRest
<1> QED
    BY <1>1, <1>2, <1>3, <1>5 DEF WalkInv, MasksFollowPath

LEMMA IterateKeeps ==
    ASSUME WalkInv, NEW total \in Totals, NEW limit \in Limits, iterate(total, limit)
    PROVE  WalkInv'
<1> DEFINE fresh == [total |-> total, limit |-> limit, counts |-> <<>>]
<1>1. /\ call' = [total |-> total, limit |-> limit]
      /\ rules' = fresh /\ top' = poll(fresh)
      /\ label' = IF poll(fresh) = {} THEN "idle" ELSE "push"
      /\ stack' = <<>> /\ path' = <<>> /\ visited' = <<>>
      /\ total \in Nat /\ limit \in Nat
    BY WalkAssumption DEF iterate
<1>2. poll(fresh) \subseteq Index
    BY DEF poll
<1>3. WalkTypes'
    BY <1>1, <1>2, EmptySeq DEF WalkTypes, RuleType
<1>4. RulesFit(rules, path)'
  <2>1. \A m \in 0..Len(path') : SeenIsFull(path', m)
      BY <1>1, EmptyPath
  <2>2. /\ rules'.total = total /\ rules'.limit = limit /\ rules'.counts = <<>>
        /\ call'.total = total /\ call'.limit = limit
      BY <1>1
  <2>3. Len(path') = 0 /\ OccursIn(path', Len(path'), LimitedIndex) = 0 /\ SeenIn(path', Len(path')) = {}
      BY <1>1, EmptyPath
  <2>4. Len(rules'.counts) = Cardinality(SeenIn(path', Len(path')))
      BY <2>2, <2>3, EmptyPath
  <2>5. rules'.total = call'.total - Len(path') /\ rules'.limit = call'.limit - OccursIn(path', Len(path'), LimitedIndex)
      BY <2>2, <2>3, <1>1
  <2>6. \A i \in SeenIn(path', Len(path')) : rules'.counts[i + 1] = OccursIn(path', Len(path'), i)
      BY <2>3
  <2> QED
      BY <2>1, <2>4, <2>5, <2>6 DEF RulesFit
<1>5. top' = Polled(call', <<>>, 0)
    BY <1>1, EmptyPath, EmptySeq DEF poll, Polled
<1>6. ASSUME NEW s PROVE Polled(call', s, 0) = Polled(call', <<>>, 0)
  <2>1. \A i : OccursIn(s, 0, i) = 0 /\ OccursIn(<<>>, 0, i) = 0
      BY OccursGrows
  <2>2. SeenIn(s, 0) = {} /\ SeenIn(<<>>, 0) = {}
      BY SeenGrows
  <2> QED
      BY <2>1, <2>2 DEF Polled
<1>7. Len(Masks') = 1 /\ Masks'[1] = top' /\ Len(path') = 0
  <2>1. Masks' = Append(<<>>, top')
      BY <1>1 DEF Masks
  <2> QED
      BY <2>1, <1>1, EmptySeq
<1>8. MasksFollowPath'
  <2>1. CASE label' = "idle"
      BY <2>1, <1>1 DEF MasksFollowPath
  <2>2. CASE label' # "idle"
    <3>1. label' = "push" /\ top' # {} /\ path' = <<>>
        BY <2>2, <1>1
    <3>2. ASSUME NEW d \in 1..Len(Masks') PROVE Masks'[d] # {} /\ Masks'[d] \subseteq Polled(call', path', d - 1)
      <4>1. d = 1 /\ d - 1 = 0
          BY <1>7
      <4> QED
          BY <4>1, <3>1, <1>5, <1>7
    <3>3. 1..Len(path') = {}
        BY <1>7
    <3> QED
        BY <3>1, <3>2, <3>3, <1>7 DEF MasksFollowPath
  <2> QED
      BY <2>1, <2>2
<1>9. ASSUME NEW s \in Admitted' PROVE Ahead(s)'
  <2>1. PICK n \in 1..call'.total : s \in [1..n -> Index] /\ \A k \in 1..n : s[k] \in Polled(call', s, k - 1)
      BY <1>3, AdmittedIsPolledAfter
  <2>2. n \in Nat /\ 1 \in 1..n /\ DOMAIN s = 1..n
      BY <2>1, <1>1
  <2>3. s[1] \in top'
      BY <2>1, <2>2, <1>5, <1>6
  <2>4. label' # "idle"
      BY <2>3, <1>1
  <2> QED
      BY <2>2, <2>3, <2>4, <1>1, <1>7 DEF Ahead
<1>10. VisitedIsRest'
    BY <1>1, <1>9, EmptySeq DEF VisitedIsRest
<1> QED
    BY <1>1, <1>3, <1>4, <1>8, <1>10 DEF WalkInv

-----------------------------------------------------------------------------
(* A step of the walk                                                      *)

\* What the masks of a call under way say of the depth it is at.
LEMMA AtDepth ==
    ASSUME WalkInv, label # "idle"
    PROVE  /\ Masks \in Seq(SUBSET Index) /\ Len(Masks) \in Nat /\ Len(Masks) = Len(stack) + 1
           /\ Masks[Len(Masks)] = top /\ Len(Masks) \in 1..Len(Masks)
           /\ \A d \in 1..Len(stack) : Masks[d] = stack[d]
           /\ top # {} /\ countr_zero(top) \in top /\ top \subseteq Index
           /\ top \subseteq Polled(call, path, Len(stack))
           /\ \A j \in top : countr_zero(top) <= j
           /\ label = "push" => Len(path) = Len(stack)
           /\ label = "pop" => Len(path) = Len(stack) + 1 /\ path[Len(path)] = countr_zero(top)
<1>1. stack \in Seq(SUBSET Index) /\ top \in SUBSET Index /\ Bound \in Nat
    BY WalkAssumption DEF WalkInv, WalkTypes
<1>2. /\ Masks \in Seq(SUBSET Index) /\ Len(Masks) = Len(stack) + 1
      /\ Masks[Len(stack) + 1] = top /\ Len(stack) \in Nat
      /\ \A d \in 1..Len(stack) : Masks[d] = stack[d]
    BY <1>1, AppendProperties, LenProperties DEF Masks
<1>3. Len(Masks) \in 1..Len(Masks) /\ Len(Masks) - 1 = Len(stack)
    BY <1>2
<1>4. /\ Len(path) = IF label = "push" THEN Len(Masks) - 1 ELSE Len(Masks)
      /\ \A d \in 1..Len(Masks) : Masks[d] # {} /\ Masks[d] \subseteq Polled(call, path, d - 1)
      /\ \A d \in 1..Len(path) : path[d] \in Masks[d] /\ \A j \in Masks[d] : path[d] <= j
    BY DEF WalkInv, MasksFollowPath
<1>5. top # {} /\ top \subseteq Polled(call, path, Len(stack))
    BY <1>2, <1>3, <1>4
<1>6. countr_zero(top) \in top /\ \A j \in top : countr_zero(top) <= j
    BY <1>1, <1>5, LowestBit
<1>7. ASSUME label = "pop"
      PROVE  Len(path) = Len(stack) + 1 /\ path[Len(path)] = countr_zero(top)
  <2>1. Len(path) = Len(Masks) /\ Len(path) \in 1..Len(path)
      BY <1>3, <1>4, <1>7
  <2>2. path[Len(path)] \in top /\ \A j \in top : path[Len(path)] <= j
      BY <2>1, <1>2, <1>4
  <2>3. path[Len(path)] = countr_zero(top)
      BY <2>2, <1>1, LowestBit
  <2> QED
      BY <2>1, <2>3, <1>2
<1>8. label = "push" => Len(path) = Len(stack)
    BY <1>3, <1>4
<1>9. Masks[Len(Masks)] = top /\ Len(Masks) \in Nat
    BY <1>2
<1> QED
    BY <1>1, <1>2, <1>3, <1>5, <1>6, <1>7, <1>8, <1>9

\* A push takes the lowest index left; what the rules admit next is left there.
LEMMA PushFacts ==
    ASSUME WalkInv, push_section
    PROVE  LET i == countr_zero(top)
               d == Len(Masks)
           IN  /\ call' = call /\ path \in Seq(Index) /\ d = Len(path) + 1 /\ d \in Nat
               /\ i \in Index /\ i \in top /\ top = Masks[d] /\ (\A j \in top : i <= j)
               /\ path' = Append(path, i) /\ path' \in Seq(Index) /\ Len(path') = d
               /\ path'[d] = i /\ (\A k \in 1..(d - 1) : path'[k] = path[k])
               /\ \A k \in 0..(d - 1) : Polled(call, path', k) = Polled(call, path, k)
               /\ rules' \in RuleType /\ RulesFit(rules', path')
               /\ Masks' = IF Polled(call, path', d) = {} THEN Masks
                           ELSE Append(Masks, Polled(call, path', d))
               /\ label' = IF Polled(call, path', d) = {} THEN "pop" ELSE "push"
               /\ visited' = Append(visited, path')
               /\ WalkTypes'
<1> DEFINE i == countr_zero(top)
           d == Len(Masks)
           next == poll(pushed(rules, i))
<1>1. /\ label = "push" /\ WalkTypes /\ RulesFit(rules, path) /\ Bound \in Nat
      /\ call' = call /\ rules' = pushed(rules, i) /\ path' = Append(path, i)
      /\ visited' = Append(visited, Append(path, i))
    BY WalkAssumption DEF WalkInv, push_section
<1>2. \/ next = {} /\ label' = "pop" /\ stack' = stack /\ top' = top
      \/ next # {} /\ label' = "push" /\ stack' = Append(stack, top) /\ top' = next
    BY DEF push_section
<1>3. /\ rules \in RuleType /\ path \in Seq(Index) /\ stack \in Seq(SUBSET Index)
      /\ top \in SUBSET Index /\ visited \in Seq(Seq(Index)) /\ call \in [total : Nat, limit : Nat]
    BY <1>1 DEF WalkTypes
<1>4. /\ i \in top /\ i \in Index /\ top = Masks[d] /\ \A j \in top : i <= j
      /\ d = Len(path) + 1 /\ d \in Nat /\ Masks \in Seq(SUBSET Index)
      /\ i \in Polled(call, path, Len(path))
    BY <1>1, AtDepth
<1>5. /\ path' \in Seq(Index) /\ Len(path') = d /\ path'[d] = i
      /\ \A k \in 1..(d - 1) : path'[k] = path[k]
      /\ \A k \in 0..(d - 1) : Polled(call, path', k) = Polled(call, path, k)
  <2>1. Len(path) = d - 1 /\ Len(path) \in Nat
      BY <1>3, <1>4, LenProperties
  <2> QED
      BY <2>1, <1>1, <1>3, <1>4, AppendCounts
<1>6. i \in poll(rules)
    BY <1>1, <1>3, <1>4, PollIsPolled
<1>7. rules' \in RuleType /\ RulesFit(rules', path')
    BY <1>1, <1>3, <1>6, PushedFits
<1>8. next = Polled(call, path', d)
    BY <1>1, <1>5, <1>7, PollIsPolled
<1>9. next \subseteq Index
    BY DEF poll
<1>10. Masks' = IF next = {} THEN Masks ELSE Append(Masks, next)
    BY <1>2 DEF Masks
<1>11. WalkTypes'
  <2>1. stack' \in Seq(SUBSET Index) /\ top' \in SUBSET Index
    <3>1. Append(stack, top) \in Seq(SUBSET Index)
        BY <1>3, AppendProperties
    <3> QED
        BY <3>1, <1>2, <1>3, <1>9
  <2>2. visited' \in Seq(Seq(Index))
      BY <1>1, <1>3, <1>5, AppendProperties
  <2> QED
      BY <2>1, <2>2, <1>1, <1>3, <1>5, <1>7 DEF WalkTypes
<1>12. label' = IF next = {} THEN "pop" ELSE "push"
    BY <1>2
<1> HIDE DEF i, next
<1> QED
    BY <1>1, <1>3, <1>4, <1>5, <1>7, <1>8, <1>10, <1>11, <1>12 DEF i

\* A push takes the new path, and nothing else, from what is ahead.
LEMMA PushKeeps ==
    ASSUME WalkInv, push_section
    PROVE  WalkInv'
<1> DEFINE i == countr_zero(top)
           d == Len(Masks)
           t == path'
           next == Polled(call, t, d)
<1>1. /\ call' = call /\ path \in Seq(Index) /\ d = Len(path) + 1 /\ d \in Nat
      /\ i \in Index /\ i \in top /\ top = Masks[d] /\ (\A j \in top : i <= j)
      /\ t = Append(path, i) /\ t \in Seq(Index) /\ Len(t) = d
      /\ t[d] = i /\ (\A k \in 1..(d - 1) : t[k] = path[k])
      /\ \A k \in 0..(d - 1) : Polled(call, t, k) = Polled(call, path, k)
      /\ rules' \in RuleType /\ RulesFit(rules', t)
      /\ Masks' = IF next = {} THEN Masks ELSE Append(Masks, next)
      /\ label' = IF next = {} THEN "pop" ELSE "push"
      /\ visited' = Append(visited, t)
      /\ WalkTypes'
    BY PushFacts
<1>2. /\ label = "push" /\ Masks \in Seq(SUBSET Index) /\ WalkTypes /\ VisitedIsRest /\ Bound \in Nat
      /\ visited \in Seq(Seq(Index)) /\ call \in [total : Nat, limit : Nat]
    BY AtDepth, WalkAssumption DEF push_section, WalkInv, WalkTypes
<1>3. /\ \A k \in 1..d : Masks[k] # {} /\ Masks[k] \subseteq Polled(call, path, k - 1)
      /\ \A k \in 1..(d - 1) : path[k] \in Masks[k] /\ \A j \in Masks[k] : path[k] <= j
  <2>1. Len(path) = d - 1
      BY <1>1, <1>2, LenProperties
  <2> QED
      BY <2>1, <1>2 DEF WalkInv, MasksFollowPath
<1> HIDE DEF i, d, t, next
<1>4. /\ \A k \in 1..d : Masks'[k] = Masks[k]
      /\ next = {} => Len(Masks') = d
      /\ next # {} => Len(Masks') = d + 1 /\ Masks'[d + 1] = next
  <2>1. next \in SUBSET Index
      BY DEF next, Polled
  <2>2. /\ Len(Append(Masks, next)) = d + 1 /\ Append(Masks, next)[d + 1] = next
        /\ \A k \in 1..d : Append(Masks, next)[k] = Masks[k]
      BY <1>2, <2>1, AppendProperties DEF d
  <2>3. Len(Masks) = d
      BY DEF d
  <2> QED
      BY <1>1, <2>2, <2>3
<1>5. /\ d >= 1 /\ 1..d = 1..(d - 1) \cup {d} /\ 1..(d + 1) = (1..d) \cup {d + 1}
      /\ Len(path) = d - 1 /\ DOMAIN t = 1..d /\ t \in [1..d -> Index]
  <2>1. Len(path) \in Nat /\ d = Len(path) + 1
      BY <1>1, LenProperties
  <2>2. t \in Seq(Index) /\ Len(t) = d
      BY <1>1
  <2>3. DOMAIN t = 1..d /\ t \in [1..d -> Index]
      BY <2>2, LenProperties
  <2> QED
      BY <2>1, <2>3
<1>6. MasksFollowPath'
  <2>1. label' # "idle" /\ Len(t) = IF label' = "push" THEN Len(Masks') - 1 ELSE Len(Masks')
      BY <1>1, <1>4
  <2>2. ASSUME NEW k \in 1..Len(Masks')
        PROVE  Masks'[k] # {} /\ Masks'[k] \subseteq Polled(call', t, k - 1)
    <3>1. CASE k \in 1..d
      <4>1. k - 1 \in 0..(d - 1)
          BY <3>1, <1>1
      <4> QED
          BY <4>1, <3>1, <1>1, <1>3, <1>4
    <3>2. CASE k \notin 1..d
      <4>1. k = d + 1 /\ next # {} /\ k - 1 = d
          BY <3>2, <1>1, <1>4, <1>5
      <4> QED
          BY <4>1, <1>1, <1>4 DEF next
    <3> QED
        BY <3>1, <3>2
  <2>3. ASSUME NEW k \in 1..Len(t)
        PROVE  t[k] \in Masks'[k] /\ \A j \in Masks'[k] : t[k] <= j
    <3>1. CASE k = d
        BY <3>1, <1>1, <1>4, <1>5
    <3>2. CASE k # d
      <4>1. k \in 1..(d - 1) /\ k \in 1..d
          BY <3>2, <1>1, <1>5
      <4> QED
          BY <4>1, <1>1, <1>3, <1>4
    <3> QED
        BY <3>1, <3>2
  <2> QED
      BY <2>1, <2>2, <2>3 DEF MasksFollowPath, t
<1>7. Admitted' = Admitted
    BY <1>1 DEF Admitted
<1>8. t \in Admitted
  <2>1. d \in 1..call.total /\ OccursIn(t, d, LimitedIndex) <= call.limit
    <3>1. /\ rules'.total \in Nat /\ rules'.limit \in Nat /\ OccursIn(t, d, LimitedIndex) \in Nat
          /\ call.total \in Nat /\ call.limit \in Nat
        BY <1>1, <1>2, OccursGrows DEF RuleType
    <3>2. /\ rules'.total = call.total - d
          /\ rules'.limit = call.limit - OccursIn(t, d, LimitedIndex)
        BY <1>1 DEF RulesFit
    <3> QED
        BY <3>1, <3>2, <1>1, <1>5
  <2>2. ASSUME NEW k \in 1..d PROVE t[k] <= Cardinality(SeenIn(t, k - 1))
    <3>1. k \in 1..Len(Masks') /\ k \in 1..Len(t)
        BY <1>1, <1>4
    <3>2. t[k] \in Polled(call, t, k - 1)
        BY <3>1, <1>6, <1>1 DEF MasksFollowPath, t
    <3> QED
        BY <3>2 DEF Polled
  <2> QED
      BY <2>1, <2>2, <1>2, <1>5, AdmittedMeans
<1>9. Ahead(t)
  <2>1. d \in 1..Len(Masks) /\ d \in DOMAIN t /\ ~ d <= Len(path)
      BY <1>1, <1>5 DEF d
  <2> QED
      BY <2>1, <1>1, <1>2 DEF Ahead
<1>10. ASSUME NEW s \in Admitted, Ahead(s)' PROVE Ahead(s) /\ s # t
  <2>1. PICK k \in 1..Len(Masks') :
          /\ k \in DOMAIN s /\ \A l \in 1..(k - 1) : s[l] = t[l]
          /\ s[k] \in Masks'[k]
          /\ k <= Len(t) => s[k] # t[k]
      BY <1>10 DEF Ahead, t
  <2>2. CASE k \in 1..d
    <3>1. s[k] # t[k] /\ s[k] \in Masks[k] /\ k \in 1..Len(Masks)
        BY <2>1, <2>2, <1>1, <1>4 DEF d
    <3>2. \A l \in 1..(k - 1) : l \in 1..(d - 1) /\ s[l] = path[l]
        BY <2>1, <2>2, <1>1
    <3>3. k <= Len(path) => s[k] # path[k]
      <4>1. k <= Len(path) => k \in 1..(d - 1)
          BY <2>2, <1>1, <1>5
      <4> QED
          BY <4>1, <3>1, <1>1
    <3> QED
        BY <3>1, <3>2, <3>3, <2>1, <1>2 DEF Ahead
  <2>3. CASE k \notin 1..d
    <3>1. k = d + 1
        BY <2>3, <1>1, <1>4, <1>5
    <3>2. PICK n \in Nat : s \in [1..n -> Index]
        BY <1>2, AdmittedIsPolled
    <3>3. d \in DOMAIN s /\ d + 1 \in DOMAIN s /\ d + 1 \notin DOMAIN t
        BY <3>1, <3>2, <2>1, <1>1, <1>5
    <3>4. s[d] = t[d] /\ \A l \in 1..(d - 1) : s[l] = path[l]
        BY <3>1, <2>1, <1>1, <1>5
    <3>5. s[d] \in Masks[d] /\ d \in 1..Len(Masks) /\ ~ d <= Len(path)
        BY <3>4, <1>1, <1>5 DEF d
    <3> QED
        BY <3>3, <3>4, <3>5, <1>2 DEF Ahead
  <2> QED
      BY <2>2, <2>3
<1>11. ASSUME NEW s \in Admitted, Ahead(s), s # t PROVE Ahead(s)'
  <2>1. PICK k \in 1..Len(Masks) :
          /\ k \in DOMAIN s /\ \A l \in 1..(k - 1) : s[l] = path[l]
          /\ s[k] \in Masks[k]
          /\ k <= Len(path) => s[k] # path[k]
      BY <1>11 DEF Ahead
  <2>2. k \in 1..d /\ k \in 1..Len(Masks') /\ s[k] \in Masks'[k] /\ label' # "idle"
      BY <2>1, <1>1, <1>4 DEF d
  <2>3. \A l \in 1..(k - 1) : l \in 1..(d - 1) /\ s[l] = t[l]
      BY <2>1, <2>2, <1>1
  <2>4. CASE s[k] # t[k]
      BY <2>1, <2>2, <2>3, <2>4 DEF Ahead, t
  <2>5. CASE s[k] = t[k]
    <3>1. k = d
      <4>1. k # d => k \in 1..(d - 1) /\ k <= Len(path)
          BY <2>2, <1>1, <1>5
      <4> QED
          BY <4>1, <2>1, <2>5, <1>1
    <3>2. \A l \in 1..d : s[l] = t[l]
        BY <3>1, <2>3, <2>5, <1>5
    <3>3. PICK n \in 1..call.total :
             s \in [1..n -> Index] /\ \A l \in 1..n : s[l] \in Polled(call, s, l - 1)
        BY <1>2, AdmittedIsPolled
    <3>4. n \in Nat /\ DOMAIN s = 1..n /\ d <= n
        BY <3>1, <3>3, <2>1, <1>2
    <3>5. n # d
      <4>1. SUFFICES ASSUME n = d PROVE FALSE
          OBVIOUS
      <4>2. s = t
          BY <4>1, <3>2, <3>3, <1>5
      <4> QED
          BY <4>2, <1>11
    <3>6. d + 1 \in 1..n /\ (d + 1) - 1 = d
        BY <3>4, <3>5, <1>1
    <3>7. s[d + 1] \in next
      <4>1. s[d + 1] \in Polled(call, s, d)
          BY <3>3, <3>6
      <4>2. \A c : Polled(c, s, d) = Polled(c, t, d)
          BY <3>2, PrefixDecides
      <4> QED
          BY <4>1, <4>2 DEF next
    <3>8. /\ d + 1 \in 1..Len(Masks') /\ s[d + 1] \in Masks'[d + 1]
          /\ d + 1 \in DOMAIN s /\ ~ d + 1 <= Len(t)
        BY <3>4, <3>6, <3>7, <1>1, <1>4
    <3>9. \A l \in 1..((d + 1) - 1) : s[l] = t[l]
        BY <3>2, <3>6
    <3> QED
        BY <3>8, <3>9, <2>2 DEF Ahead, t
  <2> QED
      BY <2>4, <2>5
<1>12. VisitedIsRest'
  <2>1. \A s \in Admitted : Ahead(s)' <=> Ahead(s) /\ s # t
      BY <1>10, <1>11
  <2>2. \A a \in DOMAIN visited : visited[a] # t
      BY <1>2, <1>8, <1>9 DEF VisitedIsRest
  <2>3. /\ DOMAIN visited = 1..Len(visited) /\ Len(visited) \in Nat
        /\ DOMAIN visited' = (DOMAIN visited) \cup {Len(visited) + 1}
        /\ Len(visited) + 1 \notin DOMAIN visited
        /\ visited'[Len(visited) + 1] = t
        /\ \A a \in DOMAIN visited : visited'[a] = visited[a]
    <3>1. Len(visited) \in Nat /\ DOMAIN visited = 1..Len(visited)
        BY <1>2, LenProperties
    <3>2. /\ visited' \in Seq(Seq(Index)) /\ Len(visited') = Len(visited) + 1
          /\ visited'[Len(visited) + 1] = t
          /\ \A a \in 1..Len(visited) : visited'[a] = visited[a]
        BY <1>1, <1>2, AppendProperties
    <3>3. DOMAIN visited' = 1..(Len(visited) + 1)
        BY <3>2, LenProperties
    <3> QED
        BY <3>1, <3>2, <3>3
  <2> DEFINE V == DOMAIN visited
  <2>4. \A a \in DOMAIN visited' : visited'[a] \in Admitted'
      BY <2>3, <1>2, <1>7, <1>8 DEF VisitedIsRest
  <2>5. ASSUME NEW s \in Admitted' PROVE Ahead(s)' <=> \A a \in DOMAIN visited' : visited'[a] # s
    <3>1. Ahead(s) <=> \A a \in DOMAIN visited : visited[a] # s
        BY <1>2, <1>7 DEF VisitedIsRest
    <3>2. Ahead(s)' <=> Ahead(s) /\ s # t
        BY <2>1, <1>7
    <3> QED
        BY <3>1, <3>2, <2>3
  <2>6. ASSUME NEW a \in DOMAIN visited', NEW b \in DOMAIN visited', visited'[a] = visited'[b]
        PROVE  a = b
    <3>1. CASE a \in DOMAIN visited /\ b \in DOMAIN visited
        BY <3>1, <2>3, <2>6, <1>2 DEF VisitedIsRest
    <3>2. CASE a \notin DOMAIN visited \/ b \notin DOMAIN visited
        BY <3>2, <2>2, <2>3, <2>6
    <3> QED
        BY <3>1, <3>2
  <2> QED
      BY <2>4, <2>5, <2>6 DEF VisitedIsRest
<1>13. RulesFit(rules, path)'
    BY <1>1 DEF RulesFit, t
<1> QED
    BY <1>1, <1>6, <1>12, <1>13 DEF WalkInv

\* A pop undoes the last push; what is left at its depth stays ahead.
LEMMA PopFacts ==
    ASSUME WalkInv, pop_section
    PROVE  LET i == countr_zero(top)
               d == Len(Masks)
               left == top \ {i}
           IN  /\ call' = call /\ visited' = visited /\ WalkTypes'
               /\ path \in Seq(Index) /\ Len(path) = d /\ d \in Nat /\ d >= 1
               /\ Masks \in Seq(SUBSET Index) /\ i = path[d] /\ top = Masks[d] /\ d = Len(stack) + 1
               /\ path' = SubSeq(path, 1, d - 1) /\ path' \in Seq(Index) /\ Len(path') = d - 1
               /\ \A k \in 1..(d - 1) : path'[k] = path[k]
               /\ RulesFit(rules', path')
               /\ left # {} => label' = "push" /\ Masks' = Append(stack, left)
               /\ left = {} /\ stack = <<>> => label' = "idle"
               /\ left = {} /\ stack # <<>> => label' = "pop" /\ Masks' = stack
<1> DEFINE i == countr_zero(top)
           d == Len(Masks)
           left == top \ {i}
<1>1. /\ label = "pop" /\ WalkTypes /\ RulesFit(rules, path) /\ Bound \in Nat
      /\ call' = call /\ visited' = visited
      /\ rules' = popped(rules, i) /\ path' = Front(path)
    BY WalkAssumption DEF WalkInv, pop_section
<1>2. \/ left # {} /\ label' = "push" /\ top' = left /\ stack' = stack
      \/ left = {} /\ stack = <<>> /\ label' = "idle" /\ top' = {} /\ stack' = stack
      \/ left = {} /\ stack # <<>> /\ label' = "pop" /\ top' = Last(stack) /\ stack' = Front(stack)
    BY DEF pop_section
<1>3. /\ rules \in RuleType /\ path \in Seq(Index) /\ stack \in Seq(SUBSET Index)
      /\ top \in SUBSET Index /\ visited \in Seq(Seq(Index)) /\ call \in [total : Nat, limit : Nat]
    BY <1>1 DEF WalkTypes
<1>4. /\ i \in top /\ i \in Index /\ top = Masks[d]
      /\ d = Len(stack) + 1 /\ d \in Nat /\ Masks \in Seq(SUBSET Index)
      /\ Len(path) = d /\ i = path[d]
    BY <1>1, AtDepth
<1>5. d >= 1 /\ Len(stack) \in Nat /\ path # <<>>
    BY <1>3, <1>4, LenProperties, EmptySeq
<1> HIDE DEF i, d, left
<1>6. /\ path' = SubSeq(path, 1, d - 1) /\ path' \in Seq(Index) /\ Len(path') = d - 1
      /\ \A k \in 1..(d - 1) : path'[k] = path[k]
      /\ path = Append(path', i)
  <2>1. path' = SubSeq(path, 1, d - 1)
      BY <1>1, <1>4 DEF Front
  <2>2. path' \in Seq(Index) /\ Len(path') = d - 1 /\ \A k \in 1..(d - 1) : path'[k] = path[k]
    <3> DEFINE l == d - 1
    <3>1. 1 \in Int /\ l \in Int /\ l \in Nat /\ l + 1 = d
        BY <1>4, <1>5
    <3>2. \A k \in 1..l : path[k] \in Index
        BY <1>3, <1>4, <3>1, ElementOfSeq
    <3> HIDE DEF l
    <3>3. /\ SubSeq(path, 1, l) \in Seq(Index)
          /\ Len(SubSeq(path, 1, l)) = IF 1 <= l THEN l - 1 + 1 ELSE 0
          /\ \A k \in 1..(l - 1 + 1) : SubSeq(path, 1, l)[k] = path[1 + k - 1]
        BY ONLY <3>1, <3>2, SubSeqProperties
    <3>4. Len(SubSeq(path, 1, l)) = l /\ \A k \in 1..l : SubSeq(path, 1, l)[k] = path[k]
        BY <3>1, <3>3
    <3> QED
        BY <3>3, <3>4, <2>1 DEF l
  <2>3. path = Append(path', i)
    <3>1. /\ Append(path', i) \in Seq(Index) /\ Len(Append(path', i)) = d
          /\ Append(path', i)[d] = i
          /\ \A k \in 1..(d - 1) : Append(path', i)[k] = path'[k]
      <4>1. (d - 1) + 1 = d
          BY <1>4
      <4> QED
          BY <4>1, <2>2, <1>4, AppendProperties
    <3>2. \A k \in 1..d : path[k] = Append(path', i)[k]
      <4> TAKE k \in 1..d
      <4>1. k = d \/ k \in 1..(d - 1)
          BY <1>4
      <4> QED
          BY <4>1, <3>1, <2>2, <1>4
    <3> QED
        BY <3>1, <3>2, <1>3, <1>4, SeqEqual
  <2> QED
      BY <2>1, <2>2, <2>3
<1>7. rules' \in RuleType /\ RulesFit(rules', path')
  <2>1. RulesFit(rules, Append(path', i))
      BY <1>1, <1>6
  <2> QED
      BY <2>1, <1>1, <1>3, <1>4, <1>6, PoppedFits
<1>8. stack # <<>> =>
          /\ Front(stack) \in Seq(SUBSET Index) /\ Last(stack) \in SUBSET Index
          /\ Append(Front(stack), Last(stack)) = stack
  <2> SUFFICES ASSUME stack # <<>>
               PROVE  /\ Front(stack) \in Seq(SUBSET Index) /\ Last(stack) \in SUBSET Index
                      /\ Append(Front(stack), Last(stack)) = stack
      OBVIOUS
  <2>1. Len(stack) \in Nat /\ Len(stack) >= 1
      BY <1>3, EmptySeq
  <2> DEFINE l == Len(stack) - 1
  <2>2. 1 \in Int /\ l \in Int /\ l \in Nat /\ l + 1 = Len(stack) /\ Len(stack) \in 1..Len(stack)
      BY <2>1
  <2>3. Last(stack) \in SUBSET Index
      BY <2>2, <1>3, ElementOfSeq DEF Last
  <2>4. \A k \in 1..l : stack[k] \in SUBSET Index
      BY <2>1, <1>3, ElementOfSeq
  <2>5. Front(stack) = SubSeq(stack, 1, l)
      BY DEF Front
  <2> HIDE DEF l
  <2>6. /\ SubSeq(stack, 1, l) \in Seq(SUBSET Index)
        /\ Len(SubSeq(stack, 1, l)) = IF 1 <= l THEN l - 1 + 1 ELSE 0
        /\ \A k \in 1..(l - 1 + 1) : SubSeq(stack, 1, l)[k] = stack[1 + k - 1]
      BY ONLY <2>2, <2>4, SubSeqProperties
  <2>7. /\ Front(stack) \in Seq(SUBSET Index) /\ Len(Front(stack)) = l
        /\ \A k \in 1..l : Front(stack)[k] = stack[k]
      BY <2>2, <2>5, <2>6
  <2> DEFINE whole == Append(Front(stack), Last(stack))
  <2>8. /\ whole \in Seq(SUBSET Index) /\ Len(whole) = l + 1 /\ whole[l + 1] = Last(stack)
        /\ \A k \in 1..l : whole[k] = Front(stack)[k]
      BY <2>3, <2>7, AppendProperties
  <2> HIDE DEF whole
  <2>9. \A k \in 1..Len(stack) : whole[k] = stack[k]
    <3> TAKE k \in 1..Len(stack)
    <3>1. k = l + 1 \/ k \in 1..l
        BY <2>2
    <3> QED
        BY <3>1, <2>2, <2>7, <2>8 DEF Last
  <2>10. whole = stack
      BY <2>2, <2>8, <2>9, <1>3, SeqEqual
  <2> QED
      BY <2>3, <2>7, <2>10 DEF whole
<1>9. /\ left # {} => Masks' = Append(stack, left)
      /\ left = {} /\ stack # <<>> => Masks' = stack
    BY <1>2, <1>8 DEF Masks
<1>10. WalkTypes'
  <2>1. left \in SUBSET Index
      BY <1>3 DEF left
  <2>2. stack' \in Seq(SUBSET Index) /\ top' \in SUBSET Index
      BY <2>1, <1>2, <1>3, <1>8
  <2> QED
      BY <2>2, <1>1, <1>3, <1>6, <1>7 DEF WalkTypes
<1>11. /\ left # {} => label' = "push"
       /\ left = {} /\ stack = <<>> => label' = "idle"
       /\ left = {} /\ stack # <<>> => label' = "pop"
    BY <1>2
<1> QED
    BY <1>1, <1>3, <1>4, <1>5, <1>6, <1>7, <1>9, <1>10, <1>11 DEF i, d, left

LEMMA PopKeeps ==
    ASSUME WalkInv, pop_section
    PROVE  WalkInv'
<1> DEFINE i == countr_zero(top)
           d == Len(Masks)
           left == top \ {i}
           p == path'
<1>1. /\ call' = call /\ visited' = visited /\ WalkTypes'
      /\ path \in Seq(Index) /\ Len(path) = d /\ d \in Nat /\ d >= 1
      /\ Masks \in Seq(SUBSET Index) /\ i = path[d] /\ top = Masks[d] /\ d = Len(stack) + 1
      /\ p = SubSeq(path, 1, d - 1) /\ p \in Seq(Index) /\ Len(p) = d - 1
      /\ \A k \in 1..(d - 1) : p[k] = path[k]
      /\ RulesFit(rules', p)
      /\ left # {} => label' = "push" /\ Masks' = Append(stack, left)
      /\ left = {} /\ stack = <<>> => label' = "idle"
      /\ left = {} /\ stack # <<>> => label' = "pop" /\ Masks' = stack
    BY PopFacts
<1>2. /\ label = "pop" /\ WalkTypes /\ VisitedIsRest
      /\ stack \in Seq(SUBSET Index) /\ Len(stack) \in Nat /\ top \in SUBSET Index
      /\ \A k \in 1..Len(stack) : Masks[k] = stack[k]
    BY AtDepth, LenProperties DEF pop_section, WalkInv, WalkTypes
<1>3. /\ \A k \in 1..d : Masks[k] # {} /\ Masks[k] \subseteq Polled(call, path, k - 1)
      /\ \A k \in 1..d : path[k] \in Masks[k] /\ \A j \in Masks[k] : path[k] <= j
    BY <1>1, <1>2 DEF WalkInv, MasksFollowPath
<1>4. left \in SUBSET Index /\ left \subseteq top /\ \A j \in top : j \in left <=> j # i
    BY <1>2
<1> HIDE DEF i, d, left, p
<1>5. /\ d - 1 = Len(stack) /\ 1..d = 1..(d - 1) \cup {d}
      /\ stack = <<>> => d = 1
    BY <1>1, <1>2, EmptySeq
<1>6. \A k \in 0..(d - 1) : Polled(call, p, k) = Polled(call, path, k)
  <2> TAKE k \in 0..(d - 1)
  <2>1. \A l \in 1..k : p[l] = path[l]
      BY <1>1
  <2>2. \A c : Polled(c, p, k) = Polled(c, path, k)
      BY <2>1, PrefixDecides
  <2> QED
      BY <2>2
\* What the masks are after the step.
<1>7. label' # "idle" =>
          /\ Len(Masks') = IF left # {} THEN d ELSE d - 1
          /\ Len(p) = IF label' = "push" THEN Len(Masks') - 1 ELSE Len(Masks')
          /\ \A k \in 1..(d - 1) : Masks'[k] = Masks[k]
          /\ left # {} => Masks'[d] = left
  <2>1. CASE left # {}
    <3>1. /\ Len(Append(stack, left)) = d /\ Append(stack, left)[d] = left
          /\ \A k \in 1..(d - 1) : Append(stack, left)[k] = stack[k]
        BY <1>1, <1>2, <1>4, <1>5, AppendProperties
    <3> QED
        BY <3>1, <2>1, <1>1, <1>2, <1>5
  <2>2. CASE left = {} /\ stack # <<>>
    <3>1. label' = "pop" /\ Masks' = stack /\ Len(Masks') = d - 1
        BY <2>2, <1>1, <1>5
    <3> QED
        BY <3>1, <2>2, <1>1, <1>2, <1>5
  <2>3. CASE left = {} /\ stack = <<>>
      BY <2>3, <1>1
  <2> QED
      BY <2>1, <2>2, <2>3
<1>8. label' = "idle" => left = {} /\ d = 1 /\ p = <<>>
  <2>1. label' = "idle" => left = {} /\ stack = <<>>
      BY <1>1
  <2>2. d = 1 => p = <<>>
      BY <1>1, EmptySeq
  <2> QED
      BY <2>1, <2>2, <1>5
<1>9. MasksFollowPath'
  <2>1. CASE label' = "idle"
      BY <2>1, <1>8 DEF MasksFollowPath, p
  <2>2. CASE label' # "idle"
    <3>1. ASSUME NEW k \in 1..Len(Masks')
          PROVE  Masks'[k] # {} /\ Masks'[k] \subseteq Polled(call', p, k - 1)
      <4>1. k \in 1..d /\ k - 1 \in 0..(d - 1)
          BY <2>2, <1>1, <1>7
      <4>2. CASE k \in 1..(d - 1)
          BY <4>1, <4>2, <2>2, <1>1, <1>3, <1>6, <1>7
      <4>3. CASE k \notin 1..(d - 1)
        <5>1. k = d /\ left # {}
            BY <4>1, <4>3, <2>2, <1>1, <1>5, <1>7
        <5>2. Masks'[k] = left /\ left \subseteq Masks[k]
            BY <5>1, <2>2, <1>1, <1>4, <1>7
        <5> QED
            BY <5>1, <5>2, <4>1, <1>1, <1>3, <1>6
      <4> QED
          BY <4>2, <4>3
    <3>2. ASSUME NEW k \in 1..Len(p)
          PROVE  p[k] \in Masks'[k] /\ \A j \in Masks'[k] : p[k] <= j
      <4>1. k \in 1..(d - 1) /\ k \in 1..d
          BY <1>1
      <4> QED
          BY <4>1, <2>2, <1>1, <1>3, <1>7
    <3> QED
        BY <3>1, <3>2, <2>2, <1>7 DEF MasksFollowPath, p
  <2> QED
      BY <2>1, <2>2
<1>10. Admitted' = Admitted
    BY <1>1 DEF Admitted
<1>11. ASSUME NEW s, Ahead(s)' PROVE Ahead(s)
  <2>1. PICK k \in 1..Len(Masks') :
          /\ k \in DOMAIN s /\ \A l \in 1..(k - 1) : s[l] = p[l]
          /\ s[k] \in Masks'[k]
          /\ k <= Len(p) => s[k] # p[k]
      BY <1>11 DEF Ahead, p
  <2>2. label' # "idle" /\ k \in 1..d /\ k \in 1..Len(Masks)
    <3>1. label' # "idle"
        BY <1>11 DEF Ahead
    <3> QED
        BY <3>1, <1>1, <1>7 DEF d
  <2>3. \A l \in 1..(k - 1) : s[l] = path[l]
    <3> TAKE l \in 1..(k - 1)
    <3>1. l \in 1..(d - 1)
        BY <2>2, <1>1
    <3> QED
        BY <3>1, <2>1, <1>1
  <2>4. s[k] \in Masks[k] /\ s[k] # path[k]
    <3>1. CASE k \in 1..(d - 1)
        BY <3>1, <2>1, <2>2, <1>1, <1>7
    <3>2. CASE k \notin 1..(d - 1)
      <4>1. k = d /\ left # {}
          BY <3>2, <2>1, <2>2, <1>1, <1>5, <1>7
      <4> QED
          BY <4>1, <2>1, <2>2, <1>1, <1>4, <1>7
    <3> QED
        BY <3>1, <3>2
  <2> QED
      BY <2>1, <2>2, <2>3, <2>4, <1>2 DEF Ahead
<1>12. ASSUME NEW s, Ahead(s) PROVE Ahead(s)'
  <2>1. PICK k \in 1..Len(Masks) :
          /\ k \in DOMAIN s /\ \A l \in 1..(k - 1) : s[l] = path[l]
          /\ s[k] \in Masks[k]
          /\ k <= Len(path) => s[k] # path[k]
      BY <1>12 DEF Ahead
  <2>2. k \in 1..d /\ s[k] # path[k]
      BY <2>1, <1>1 DEF d
  <2>3. \A l \in 1..(k - 1) : s[l] = p[l]
    <3> TAKE l \in 1..(k - 1)
    <3>1. l \in 1..(d - 1)
        BY <2>2, <1>1
    <3> QED
        BY <3>1, <2>1, <1>1
  <2>4. k = d => s[k] \in left
      BY <2>1, <2>2, <1>1, <1>4
  <2>5. label' # "idle"
    <3>1. label' = "idle" => k = d /\ left = {}
        BY <2>2, <1>8
    <3> QED
        BY <3>1, <2>4
  <2>6. k \in 1..Len(Masks') /\ s[k] \in Masks'[k]
    <3>1. CASE k \in 1..(d - 1)
        BY <3>1, <2>1, <2>5, <1>1, <1>7
    <3>2. CASE k \notin 1..(d - 1)
      <4>1. k = d
          BY <3>2, <2>2, <1>5
      <4> QED
          BY <4>1, <2>2, <2>4, <2>5, <1>7
    <3> QED
        BY <3>1, <3>2
  <2>7. k <= Len(p) => s[k] # p[k]
    <3>1. k <= Len(p) => k \in 1..(d - 1)
        BY <2>2, <1>1
    <3> QED
        BY <3>1, <2>2, <1>1
  <2> QED
      BY <2>1, <2>3, <2>5, <2>6, <2>7 DEF Ahead, p
<1>13. VisitedIsRest'
  <2>1. \A s \in Admitted : Ahead(s)' <=> Ahead(s)
      BY <1>11, <1>12
  <2> QED
      BY <2>1, <1>1, <1>2, <1>10 DEF VisitedIsRest
<1>14. RulesFit(rules, path)'
    BY <1>1 DEF RulesFit, p
<1>15. label' \in {"idle", "push", "pop"}
    BY <1>1
<1> QED
    BY <1>1, <1>9, <1>13, <1>14, <1>15 DEF WalkInv

-----------------------------------------------------------------------------
(* The theorem                                                             *)

LEMMA InvIsInvariant == WalkSpec => []WalkInv
<1>1. WalkInit => WalkInv
    BY InitHolds
<1>2. WalkInv /\ [WalkNext]_walkVars => WalkInv'
  <2> SUFFICES ASSUME WalkInv, [WalkNext]_walkVars PROVE WalkInv'
      OBVIOUS
  <2>1. ASSUME NEW total \in Totals, NEW limit \in Limits, iterate(total, limit) PROVE WalkInv'
      BY <2>1, IterateKeeps
  <2>2. CASE push_section
      BY <2>2, PushKeeps
  <2>3. CASE pop_section
      BY <2>3, PopKeeps
  <2>4. CASE UNCHANGED walkVars
    <3>1. Admitted' = Admitted /\ Masks' = Masks
        BY <2>4 DEF Admitted, Masks, walkVars
    <3>2. WalkTypes' /\ RulesFit(rules, path)' /\ MasksFollowPath'
        BY <2>4, <3>1 DEF WalkInv, WalkTypes, RulesFit, MasksFollowPath, walkVars
    <3>3. \A s : Ahead(s)' <=> Ahead(s)
        BY <2>4, <3>1 DEF Ahead, walkVars
    <3>4. VisitedIsRest'
        BY <2>4, <3>1, <3>3 DEF WalkInv, VisitedIsRest, walkVars
    <3> QED
        BY <2>4, <3>2, <3>4 DEF WalkInv, walkVars
  <2> QED
      BY <2>1, <2>2, <2>3, <2>4 DEF WalkNext
<1> QED
    BY <1>1, <1>2, PTL DEF WalkSpec

\* Nothing is ahead of a call that has returned, so all was visited.
LEMMA InvIsExact ==
    ASSUME WalkInv, label = "idle"
    PROVE  /\ ToSet(visited) = Admitted
           /\ Len(visited) = Cardinality(Admitted)
           /\ rules = [total |-> call.total, limit |-> call.limit, counts |-> <<>>]
<1>1. /\ visited \in Seq(Seq(Index)) /\ path = <<>> /\ rules \in RuleType /\ RulesFit(rules, path)
      /\ VisitedIsRest /\ call \in [total : Nat, limit : Nat]
    BY DEF WalkInv, WalkTypes, MasksFollowPath
<1>2. \A s : ~ Ahead(s)
    BY DEF Ahead
<1>3. \A s \in Admitted : \E a \in DOMAIN visited : visited[a] = s
    BY <1>1, <1>2 DEF VisitedIsRest
<1>4. /\ \A a \in DOMAIN visited : visited[a] \in Admitted
      /\ \A a, b \in DOMAIN visited : visited[a] = visited[b] => a = b
    BY <1>1 DEF VisitedIsRest
<1>5. ToSet(visited) = Admitted
    BY <1>3, <1>4 DEF ToSet
<1>6. Len(visited) = Cardinality(Admitted)
  <2> DEFINE D == 1..Len(visited)
  <2>1. Len(visited) \in Nat /\ DOMAIN visited = D /\ visited \in [D -> Seq(Index)]
      BY <1>1, LenProperties
  <2>2. IsFiniteSet(D) /\ Cardinality(D) = Len(visited)
      BY <2>1, FS_Interval
  <2> HIDE DEF D
  <2>3. visited \in [D -> Admitted]
      BY <2>1, <1>4
  <2>4. visited \in Surjection(D, Admitted)
      BY <2>1, <2>3, <1>3 DEF Surjection
  <2>5. visited \in Injection(D, Admitted)
    <3>1. \A a, b \in D : visited[a] = visited[b] => a = b
        BY <2>1, <1>4
    <3> QED
        BY <2>3, <3>1 DEF Injection, IsInjective
  <2> QED
      BY <2>2, <2>4, <2>5, FS_Surjection
<1>7. rules = [total |-> call.total, limit |-> call.limit, counts |-> <<>>]
  <2>1. rules.total = call.total /\ rules.limit = call.limit /\ Len(rules.counts) = 0
    <3>1. call.total \in Nat /\ call.limit \in Nat
        BY <1>1
    <3>2. Len(path) = 0 /\ OccursIn(path, Len(path), LimitedIndex) = 0 /\ SeenIn(path, Len(path)) = {}
        BY <1>1, EmptyPath
    <3>3. /\ rules.total = call.total - Len(path)
          /\ rules.limit = call.limit - OccursIn(path, Len(path), LimitedIndex)
          /\ Len(rules.counts) = Cardinality(SeenIn(path, Len(path)))
        BY <1>1 DEF RulesFit
    <3> QED
        BY <3>1, <3>2, <3>3, EmptyPath
  <2>2. rules.counts = <<>>
      BY <2>1, <1>1, EmptySeq DEF RuleType
  <2> QED
      BY <2>1, <2>2, <1>1 DEF RuleType
<1> QED
    BY <1>5, <1>6, <1>7

\* Whatever the bound and the limits, a call of iterate visits each sequence the
\* rules admit once and no other, and each pop undoes its push: at the end
\* the rules are as the caller gave them.
THEOREM WalkExact == WalkSpec => []WalkIsExact
<1>1. WalkInv => WalkIsExact
    BY InvIsExact DEF WalkIsExact
<1> QED
    BY <1>1, InvIsInvariant, PTL

-----------------------------------------------------------------------------
(***************************************************************************)
(* ExceptionStack: the scopes between two destructors are one level; an    *)
(* exception thrown there has the level's number as its idx, and only one  *)
(* is flying there at a time.  One of another type has no handle.          *)
(***************************************************************************)
(* The inductive invariant                                                 *)

\* What Enter gives a scope that has no exception.
None == CHOOSE e \in Exception : TRUE

ScopeType == [kind : {"context", "try", "destructor", "handler"},
              count : Nat, e : Exception \cup {None}]

StackTypes ==
    /\ inflight_exceptions \in Seq([ptr : Exception, idx : Nat])
    /\ flying \in Seq(Exception)
    /\ kept = {} /\ dangling = FALSE

\* The level inside of the first n scopes: the destructors among them.
Level(s, n) == Cardinality({i \in 1..n : s[i].kind = "destructor"})

Inmost == Level(scopes, Len(scopes))

\* The count a scope was entered with tells its level; that of a handler still
\* counts the exception that it took.
ScopesFit(s) ==
    /\ s \in Seq(ScopeType)
    /\ \A i \in DOMAIN s :
          IF s[i].kind = "handler" THEN s[i].e \in Exception /\ s[i].count = Level(s, i) + 1
                                   ELSE s[i].count = Level(s, i)

\* Each level but the innermost is left by an exception; that one may be.
OneFliesPerLevel == Len(flying) \in {Inmost, Inmost + 1}

IsHandler(i) == scopes[i].kind = "handler"

Ptr(p) == inflight_exceptions[p].ptr
Idx(p) == inflight_exceptions[p].idx
Handles == DOMAIN inflight_exceptions

\* The handles are those of the base_exceptions that somebody refers to, once each.
HandlesAreHeld ==
    /\ {Ptr(p) : p \in Handles} = Held(flying, scopes, kept) \ Foreign
    /\ Held(flying, scopes, kept) \subseteq thrown
    /\ \A p, q \in Handles : Ptr(p) = Ptr(q) => p = q

\* An exception stays on the level where it was thrown, flying or handled.
IndexIsLevel ==
    \A p \in Handles :
        /\ \A i \in DOMAIN scopes : IsHandler(i) /\ scopes[i].e = Ptr(p) => Idx(p) = Level(scopes, i)
        /\ \A j \in DOMAIN flying : flying[j] = Ptr(p) => Idx(p) = j - 1

\* The stack is in the order of the levels, within a level in that of the
\* handlers, and the exception that flies there comes last.
HandlesAreNested ==
    \A p, q \in Handles :
        /\ p <= q => Idx(p) <= Idx(q)
        /\ \A i, k \in DOMAIN scopes :
              /\ IsHandler(i) /\ IsHandler(k) /\ i <= k
              /\ scopes[i].e = Ptr(p) /\ scopes[k].e = Ptr(q)
              => p <= q
        /\ \A i \in DOMAIN scopes, j \in DOMAIN flying :
              /\ IsHandler(i) /\ j = Level(scopes, i) + 1
              /\ scopes[i].e = Ptr(p) /\ flying[j] = Ptr(q)
              => p <= q

Nested ==
    /\ StackTypes /\ ScopesFit(scopes) /\ OneFliesPerLevel
    /\ HandlesAreHeld /\ IndexIsLevel /\ HandlesAreNested

\* It breaks when a base_exception leaves the handler of another, or one is kept.
NestedInv ==
    /\ everEscaped \in BOOLEAN /\ everKept \in BOOLEAN
    /\ ~everEscaped /\ ~everKept => Nested

-----------------------------------------------------------------------------
(* Sequences and levels                                                    *)

LEMMA FrontOf ==
    ASSUME NEW S, NEW s \in Seq(S), s # <<>>
    PROVE  /\ Len(s) \in Nat \ {0} /\ DOMAIN s = 1..Len(s)
           /\ Front(s) \in Seq(S) /\ Len(Front(s)) = Len(s) - 1
           /\ DOMAIN Front(s) = 1..(Len(s) - 1)
           /\ \A i \in 1..(Len(s) - 1) : Front(s)[i] = s[i]
           /\ Last(s) = s[Len(s)] /\ Last(s) \in S
<1> DEFINE n == Len(s) - 1
<1>1. Len(s) \in Nat \ {0} /\ DOMAIN s = 1..Len(s) /\ \A i \in 1..Len(s) : s[i] \in S
    BY EmptySeq, LenProperties
<1>2. n \in Nat /\ \A i \in 1..n : s[i] \in S
    BY <1>1
<1>3. /\ Front(s) \in Seq(S) /\ Len(Front(s)) = n
      /\ \A i \in 1..n : Front(s)[i] = s[i]
  <2> HIDE DEF n
  <2>1. /\ SubSeq(s, 1, n) \in Seq(S) /\ Len(SubSeq(s, 1, n)) = IF 1 <= n THEN n - 1 + 1 ELSE 0
        /\ \A i \in 1..(n - 1 + 1) : SubSeq(s, 1, n)[i] = s[1 + i - 1]
      BY <1>2, SubSeqProperties
  <2>2. Front(s) = SubSeq(s, 1, n)
      BY DEF Front, n
  <2>3. \A i \in 1..n : 1 + i - 1 = i
      OBVIOUS
  <2> QED
      BY <1>2, <2>1, <2>2, <2>3
<1>4. DOMAIN Front(s) = 1..n
    BY <1>3, LenProperties
<1> QED
    BY <1>1, <1>3, <1>4 DEF Last

LEMMA AppendOf ==
    ASSUME NEW S, NEW s \in Seq(S), NEW x \in S
    PROVE  /\ Len(s) \in Nat /\ DOMAIN s = 1..Len(s)
           /\ Append(s, x) \in Seq(S) /\ Len(Append(s, x)) = Len(s) + 1
           /\ DOMAIN Append(s, x) = 1..(Len(s) + 1)
           /\ \A i \in 1..Len(s) : Append(s, x)[i] = s[i]
           /\ Append(s, x)[Len(s) + 1] = x
OBVIOUS

\* One scope more is one level more when it is a destructor's.
LEMMA LevelGrows ==
    ASSUME NEW s, NEW n \in Nat
    PROVE  /\ Level(s, n) \in Nat /\ Level(s, 0) = 0
           /\ Level(s, n + 1) = IF s[n + 1].kind = "destructor" THEN Level(s, n) + 1 ELSE Level(s, n)
<1> DEFINE D(k) == {i \in 1..k : s[i].kind = "destructor"}
<1>1. IsFiniteSet(1..n) /\ D(n) \subseteq 1..n
    BY FS_Interval
<1>2. IsFiniteSet(D(n)) /\ Cardinality(D(n)) \in Nat
    BY <1>1, FS_Subset, FS_CardinalityType
<1>3. D(0) = {} /\ Cardinality({}) = 0
    BY FS_EmptySet
<1>4. n + 1 \notin D(n)
    OBVIOUS
<1>5. D(n + 1) = IF s[n + 1].kind = "destructor" THEN D(n) \cup {n + 1} ELSE D(n)
    <2>1. 1..(n + 1) = (1..n) \cup {n + 1}
        OBVIOUS
    <2> QED
        BY <2>1
<1>6. Cardinality(D(n) \cup {n + 1}) = Cardinality(D(n)) + 1
    BY <1>2, <1>4, FS_AddElement
<1> QED
    BY <1>2, <1>3, <1>5, <1>6 DEF Level

LEMMA LevelIsMonotone ==
    ASSUME NEW s, NEW m \in Nat, NEW n \in Nat, m <= n
    PROVE  Level(s, m) <= Level(s, n)
<1> DEFINE D(k) == {i \in 1..k : s[i].kind = "destructor"}
<1>1. IsFiniteSet(1..n)
    BY FS_Interval
<1>2. IsFiniteSet(D(n))
    BY <1>1, FS_Subset
<1>3. D(m) \subseteq D(n)
    OBVIOUS
<1> QED
    BY <1>2, <1>3, FS_Subset DEF Level

\* Only the kinds of the scopes make the level.
LEMMA LevelDepends ==
    ASSUME NEW s, NEW t, NEW n, \A i \in 1..n : t[i].kind = s[i].kind
    PROVE  Level(t, n) = Level(s, n)
<1>1. {i \in 1..n : t[i].kind = "destructor"} = {i \in 1..n : s[i].kind = "destructor"}
    OBVIOUS
<1> QED
    BY <1>1 DEF Level

\* Contexts, try blocks and handlers do not change it.
LEMMA LevelStays ==
    ASSUME NEW s, NEW m \in Nat, NEW n \in Nat, m <= n,
           \A i \in 1..n : i > m => s[i].kind # "destructor"
    PROVE  Level(s, m) = Level(s, n)
<1>1. {i \in 1..m : s[i].kind = "destructor"} = {i \in 1..n : s[i].kind = "destructor"}
    OBVIOUS
<1> QED
    BY <1>1 DEF Level

LEMMA FrontFits ==
    ASSUME NEW s, ScopesFit(s), s # <<>>
    PROVE  LET t == Front(s)
           IN  /\ ScopesFit(t) /\ Len(t) \in Nat /\ DOMAIN t = 1..Len(t)
               /\ Len(s) = Len(t) + 1 /\ DOMAIN s = 1..Len(s)
               /\ \A i \in DOMAIN t : t[i] = s[i] /\ Level(t, i) = Level(s, i)
               /\ Last(s) = s[Len(s)] /\ Last(s) \in ScopeType
               /\ Level(s, Len(s)) = IF Last(s).kind = "destructor" THEN Level(t, Len(t)) + 1
                                                                  ELSE Level(t, Len(t))
<1> DEFINE t == Front(s)
<1>1. /\ t \in Seq(ScopeType) /\ Len(t) \in Nat /\ DOMAIN t = 1..Len(t)
      /\ Len(s) = Len(t) + 1 /\ DOMAIN s = 1..Len(s)
      /\ \A i \in 1..Len(t) : t[i] = s[i]
      /\ Last(s) = s[Len(s)] /\ Last(s) \in ScopeType
  <2>1. s \in Seq(ScopeType) /\ s # <<>>
      BY DEF ScopesFit
  <2>2. /\ Len(s) \in Nat \ {0} /\ DOMAIN s = 1..Len(s)
        /\ t \in Seq(ScopeType) /\ Len(t) = Len(s) - 1 /\ DOMAIN t = 1..(Len(s) - 1)
        /\ \A i \in 1..(Len(s) - 1) : t[i] = s[i]
        /\ Last(s) = s[Len(s)] /\ Last(s) \in ScopeType
      BY ONLY <2>1, FrontOf
  <2> HIDE DEF t
  <2> QED
      BY <2>2
<1> HIDE DEF t
<1>2. \A i \in 0..Len(t) : Level(t, i) = Level(s, i)
  <2> SUFFICES ASSUME NEW i \in 0..Len(t) PROVE Level(t, i) = Level(s, i)
      OBVIOUS
  <2>1. \A k \in 1..i : t[k] = s[k]
      BY <1>1
  <2> QED
      BY <2>1, LevelDepends
<1>3. \A i \in DOMAIN t : i \in DOMAIN s /\ i \in 0..Len(t)
    BY <1>1
<1>4. ScopesFit(t)
    BY <1>1, <1>2, <1>3 DEF ScopesFit
<1>5. Level(s, Len(t) + 1) = IF Last(s).kind = "destructor" THEN Level(s, Len(t)) + 1
                                                            ELSE Level(s, Len(t))
  <2>1. Level(s, Len(t) + 1) = IF s[Len(t) + 1].kind = "destructor" THEN Level(s, Len(t)) + 1
                                                                    ELSE Level(s, Len(t))
      BY <1>1, LevelGrows
  <2>2. s[Len(t) + 1] = Last(s)
      BY <1>1
  <2> QED
      BY <2>1, <2>2
<1>6. Level(s, Len(t)) = Level(t, Len(t))
    BY <1>1, <1>2
<1> QED
    BY <1>1, <1>2, <1>3, <1>4, <1>5, <1>6 DEF t

LEMMA AppendFits ==
    ASSUME NEW s, ScopesFit(s), NEW x \in ScopeType,
           x.kind = "handler" => x.e \in Exception,
           x.count = IF x.kind \in {"destructor", "handler"} THEN Level(s, Len(s)) + 1
                                                             ELSE Level(s, Len(s))
    PROVE  LET t == Append(s, x)
           IN  /\ ScopesFit(t) /\ Len(s) \in Nat /\ DOMAIN s = 1..Len(s)
               /\ Len(t) = Len(s) + 1 /\ DOMAIN t = 1..Len(t) /\ t[Len(t)] = x
               /\ \A i \in DOMAIN s : t[i] = s[i] /\ Level(t, i) = Level(s, i)
               /\ Level(t, Len(t)) = IF x.kind = "destructor" THEN Level(s, Len(s)) + 1
                                                              ELSE Level(s, Len(s))
<1> DEFINE t == Append(s, x)
<1>1. /\ t \in Seq(ScopeType) /\ Len(s) \in Nat /\ DOMAIN s = 1..Len(s)
      /\ Len(t) = Len(s) + 1 /\ DOMAIN t = 1..Len(t) /\ t[Len(s) + 1] = x
      /\ \A i \in 1..Len(s) : t[i] = s[i]
    BY AppendOf DEF ScopesFit
<1> HIDE DEF t
<1>2. \A i \in 0..Len(s) : Level(t, i) = Level(s, i)
  <2> SUFFICES ASSUME NEW i \in 0..Len(s) PROVE Level(t, i) = Level(s, i)
      OBVIOUS
  <2>1. \A k \in 1..i : t[k] = s[k]
      BY <1>1
  <2> QED
      BY <2>1, LevelDepends
<1>3. \A i \in DOMAIN s : i \in 0..Len(s)
    BY <1>1
<1>4. Level(t, Len(t)) = IF x.kind = "destructor" THEN Level(s, Len(s)) + 1
                                                  ELSE Level(s, Len(s))
  <2>1. Level(t, Len(s) + 1) = IF t[Len(s) + 1].kind = "destructor" THEN Level(t, Len(s)) + 1
                                                                    ELSE Level(t, Len(s))
      BY <1>1, LevelGrows
  <2>2. Level(t, Len(s)) = Level(s, Len(s))
      BY <1>1, <1>2
  <2> QED
      BY <1>1, <2>1, <2>2
<1>5. ScopesFit(t)
  <2>1. ASSUME NEW i \in DOMAIN s
        PROVE  IF t[i].kind = "handler" THEN t[i].e \in Exception /\ t[i].count = Level(t, i) + 1
                                        ELSE t[i].count = Level(t, i)
      BY <1>1, <1>2, <1>3, <2>1 DEF ScopesFit
  <2>2. IF x.kind = "handler" THEN x.e \in Exception /\ x.count = Level(t, Len(t)) + 1
                              ELSE x.count = Level(t, Len(t))
      BY <1>4
  <2>3. \A i \in DOMAIN t : i \in DOMAIN s \/ i = Len(t)
      BY <1>1
  <2> QED
      BY <1>1, <2>1, <2>2, <2>3 DEF ScopesFit
<1> QED
    BY <1>1, <1>2, <1>3, <1>4, <1>5 DEF t

-----------------------------------------------------------------------------
(* The top of the stack                                                    *)

\* What the invariant says of sizes and of single handles.
LEMMA NestedFacts ==
    ASSUME Nested
    PROVE  /\ Len(scopes) \in Nat /\ DOMAIN scopes = 1..Len(scopes)
           /\ Len(flying) \in Nat /\ DOMAIN flying = 1..Len(flying)
           /\ Len(inflight_exceptions) \in Nat /\ Handles = 1..Len(inflight_exceptions)
           /\ Inmost \in Nat
           /\ Unwinding => Len(flying) = Inmost + 1
           /\ ~Unwinding => Len(flying) = Inmost
           /\ \A i \in DOMAIN scopes : Level(scopes, i) \in Nat /\ Level(scopes, i) <= Inmost
           /\ \A p \in Handles : Ptr(p) \in Exception /\ Idx(p) \in Nat
<1>1. /\ Len(scopes) \in Nat /\ DOMAIN scopes = 1..Len(scopes)
      /\ Len(flying) \in Nat /\ DOMAIN flying = 1..Len(flying)
      /\ Len(inflight_exceptions) \in Nat /\ Handles = 1..Len(inflight_exceptions)
    BY LenProperties DEF Nested, StackTypes, ScopesFit, Handles
<1>2. Inmost \in Nat
    BY <1>1, LevelGrows DEF Inmost
<1>3. Unwinding <=> Inmost < Len(flying)
    BY <1>1 DEF Unwinding, Inmost, Level
<1>4. \A i \in DOMAIN scopes : i \in Nat /\ i <= Len(scopes)
    BY <1>1
<1>5. \A i \in DOMAIN scopes : Level(scopes, i) \in Nat /\ Level(scopes, i) <= Inmost
    BY <1>1, <1>4, LevelGrows, LevelIsMonotone DEF Inmost
<1>6. \A p \in Handles : Ptr(p) \in Exception /\ Idx(p) \in Nat
  <2>1. \A p \in Handles : inflight_exceptions[p] \in [ptr : Exception, idx : Nat]
    <3>1. inflight_exceptions \in Seq([ptr : Exception, idx : Nat])
        BY DEF Nested, StackTypes
    <3>2. inflight_exceptions \in [1..Len(inflight_exceptions) -> [ptr : Exception, idx : Nat]]
        BY <3>1, LenProperties
    <3> QED
        BY <1>1, <3>2
  <2> QED
      BY <2>1 DEF Ptr, Idx
<1>7. Len(flying) = Inmost \/ Len(flying) = Inmost + 1
    BY DEF Nested, OneFliesPerLevel
<1>8. /\ Unwinding => Len(flying) = Inmost + 1
      /\ ~Unwinding => Len(flying) = Inmost
    BY <1>2, <1>3, <1>7
<1> QED
    BY <1>1, <1>2, <1>5, <1>6, <1>8

\* Somebody refers to each handle: a handler, or the one who throws it.
LEMMA Holders ==
    ASSUME Nested
    PROVE  /\ \A p \in Handles :
                 \/ \E i \in DOMAIN scopes : /\ IsHandler(i) /\ scopes[i].e = Ptr(p)
                                             /\ Idx(p) = Level(scopes, i)
                 \/ \E j \in DOMAIN flying : flying[j] = Ptr(p) /\ Idx(p) = j - 1
           /\ \A i \in DOMAIN scopes : IsHandler(i) /\ scopes[i].e \notin Foreign =>
                 \E p \in Handles : Ptr(p) = scopes[i].e /\ Idx(p) = Level(scopes, i)
           /\ \A j \in DOMAIN flying : flying[j] \notin Foreign =>
                 \E p \in Handles : Ptr(p) = flying[j] /\ Idx(p) = j - 1
           /\ \A p \in Handles : Ptr(p) \notin Foreign
<1>1. Held(flying, scopes, kept) = {flying[j] : j \in DOMAIN flying}
          \cup {scopes[i].e : i \in {k \in DOMAIN scopes : IsHandler(k)}}
    BY DEF Nested, StackTypes, Held, ToSet, IsHandler
<1>2. {Ptr(p) : p \in Handles} = Held(flying, scopes, kept) \ Foreign
    BY DEF Nested, HandlesAreHeld
<1> QED
    BY <1>1, <1>2 DEF Nested, IndexIsLevel

\* While a base_exception passes, the last handle is its own.
LEMMA TopFlies ==
    ASSUME Nested, Unwinding, Last(flying) \notin Foreign
    PROVE  /\ inflight_exceptions # <<>>
           /\ Last(inflight_exceptions).ptr = Last(flying)
           /\ Last(inflight_exceptions).idx + 1 = Len(flying)
<1> DEFINE j == Len(flying)
           n == Len(inflight_exceptions)
<1>1. /\ j \in DOMAIN flying /\ j = Inmost + 1 /\ Inmost \in Nat
      /\ n \in Nat /\ Handles = 1..n
      /\ DOMAIN flying = 1..j
    BY NestedFacts
<1>2. PICK p \in Handles : Ptr(p) = flying[j] /\ Idx(p) = j - 1
    BY <1>1, Holders DEF Last
<1>3. n \in Handles /\ p <= n
    BY <1>1
<1>4. n = p
  <2>1. Idx(p) <= Idx(n) /\ Idx(n) \in Nat
      BY <1>3, NestedFacts DEF Nested, HandlesAreNested
  <2>2. CASE \E i \in DOMAIN scopes : /\ IsHandler(i) /\ scopes[i].e = Ptr(n)
                                      /\ Idx(n) = Level(scopes, i)
    <3>1. PICK i \in DOMAIN scopes : /\ IsHandler(i) /\ scopes[i].e = Ptr(n)
                                     /\ Idx(n) = Level(scopes, i)
        BY <2>2
    <3>2. j = Level(scopes, i) + 1
        BY <1>1, <1>2, <2>1, <3>1, NestedFacts
    <3>3. n <= p
        BY <1>1, <1>2, <1>3, <3>1, <3>2 DEF Nested, HandlesAreNested
    <3> QED
        BY <1>1, <1>3, <3>3
  <2>3. CASE \E k \in DOMAIN flying : flying[k] = Ptr(n) /\ Idx(n) = k - 1
    <3>1. PICK k \in DOMAIN flying : flying[k] = Ptr(n) /\ Idx(n) = k - 1
        BY <2>3
    <3>2. k = j
        BY <1>1, <1>2, <2>1, <3>1
    <3> QED
        BY <1>2, <1>3, <3>1, <3>2 DEF Nested, HandlesAreHeld
  <2> QED
      BY <1>3, <2>2, <2>3, Holders
<1>5. inflight_exceptions # <<>>
    BY <1>1, <1>3
<1> QED
    BY <1>1, <1>2, <1>4, <1>5 DEF Last, Ptr, Idx

\* While none does, in a handler, it is that of the handler's exception.
LEMMA TopIsHandled ==
    ASSUME Nested, Inside("handler"), Last(scopes).e \notin Foreign,
           Unwinding => Last(flying) \in Foreign
    PROVE  /\ inflight_exceptions # <<>>
           /\ Last(inflight_exceptions).ptr = Last(scopes).e
<1> DEFINE h == Len(scopes)
           n == Len(inflight_exceptions)
<1>1. /\ h \in DOMAIN scopes /\ IsHandler(h) /\ Last(scopes) = scopes[h]
      /\ h \in Nat /\ DOMAIN scopes = 1..h
  <2>1. scopes \in Seq(ScopeType) /\ scopes # <<>> /\ Last(scopes).kind = "handler"
      BY DEF Inside, Nested, ScopesFit
  <2>2. /\ h \in Nat \ {0} /\ DOMAIN scopes = 1..h /\ Last(scopes) = scopes[h]
      BY <2>1, FrontOf
  <2> QED
      BY <2>1, <2>2 DEF IsHandler
<1>2. /\ Level(scopes, h) = Inmost /\ Inmost \in Nat
      /\ n \in Nat /\ Handles = 1..n
    BY NestedFacts DEF Inmost
<1>8. \A j \in DOMAIN flying : j \in Nat /\ (j <= Inmost \/ flying[j] \in Foreign)
  <2>1. DOMAIN flying = 1..Len(flying) /\ Len(flying) \in Nat
      BY NestedFacts
  <2>2. CASE ~Unwinding
    <3>1. Len(flying) = Inmost
        BY <2>2, NestedFacts
    <3> QED
        BY <1>2, <2>1, <3>1
  <2>3. CASE Unwinding
    <3>1. Len(flying) = Inmost + 1 /\ flying[Len(flying)] \in Foreign
        BY <2>3, NestedFacts DEF Last
    <3> QED
        BY <1>2, <2>1, <3>1
  <2> QED
      BY <2>2, <2>3
<1>3. PICK p \in Handles : Ptr(p) = scopes[h].e /\ Idx(p) = Inmost
  <2>1. scopes[h].e \notin Foreign
      BY <1>1
  <2> HIDE DEF h
  <2> QED
      BY <1>1, <1>2, <2>1, Holders
<1>4. n \in Handles /\ p <= n
    BY <1>2
<1>5. n <= p
  <2>1. Idx(p) <= Idx(n) /\ Idx(n) \in Nat
      BY <1>4, NestedFacts DEF Nested, HandlesAreNested
  <2>2. CASE \E i \in DOMAIN scopes : IsHandler(i) /\ scopes[i].e = Ptr(n)
    <3>1. PICK i \in DOMAIN scopes : IsHandler(i) /\ scopes[i].e = Ptr(n)
        BY <2>2
    <3>2. i <= h
        BY <1>1
    <3> QED
        BY <1>1, <1>3, <1>4, <3>1, <3>2 DEF Nested, HandlesAreNested
  <2>3. CASE \E k \in DOMAIN flying : flying[k] = Ptr(n) /\ Idx(n) = k - 1
    <3>1. PICK k \in DOMAIN flying : flying[k] = Ptr(n) /\ Idx(n) = k - 1
        BY <2>3
    <3>2. k \in Nat /\ k <= Inmost
        BY <1>4, <1>8, <3>1, Holders
    <3> QED
        BY <1>2, <1>3, <2>1, <3>1, <3>2
  <2> QED
      BY <1>4, <2>2, <2>3, Holders
<1>6. n = p
    BY <1>2, <1>4, <1>5
<1>7. inflight_exceptions # <<>>
    BY <1>2, <1>4
<1> QED
    BY <1>1, <1>3, <1>6, <1>7 DEF Last, Ptr

-----------------------------------------------------------------------------
(* References that come and go                                             *)

HandledIn(s) == {s[i].e : i \in {j \in DOMAIN s : s[j].kind = "handler"}}

LEMMA HeldIs ==
    ASSUME NEW fl, NEW sc
    PROVE  Held(fl, sc, {}) = ToSet(fl) \cup HandledIn(sc)
BY DEF Held, HandledIn

LEMMA SetOfFront ==
    ASSUME NEW S, NEW s \in Seq(S), s # <<>>
    PROVE  ToSet(s) = ToSet(Front(s)) \cup {Last(s)}
<1>1. /\ DOMAIN s = 1..Len(s) /\ DOMAIN Front(s) = 1..(Len(s) - 1)
      /\ \A i \in 1..(Len(s) - 1) : Front(s)[i] = s[i]
      /\ Last(s) = s[Len(s)] /\ Len(s) \in Nat \ {0}
    BY FrontOf
<1>2. 1..Len(s) = (1..(Len(s) - 1)) \cup {Len(s)}
    BY <1>1
<1> QED
    BY <1>1, <1>2 DEF ToSet

LEMMA SetOfAppend ==
    ASSUME NEW S, NEW s \in Seq(S), NEW x \in S
    PROVE  ToSet(Append(s, x)) = ToSet(s) \cup {x}
<1> DEFINE t == Append(s, x)
<1>1. /\ Len(s) \in Nat /\ DOMAIN s = 1..Len(s) /\ DOMAIN t = 1..(Len(s) + 1)
      /\ \A i \in 1..Len(s) : t[i] = s[i]
      /\ t[Len(s) + 1] = x
    BY AppendOf
<1> HIDE DEF t
<1>2. 1..(Len(s) + 1) = (1..Len(s)) \cup {Len(s) + 1}
    BY <1>1
<1>3. ToSet(t) = ToSet(s) \cup {x}
    BY <1>1, <1>2 DEF ToSet
<1> QED
    BY <1>3 DEF t

LEMMA HandledInFront ==
    ASSUME NEW s, ScopesFit(s), s # <<>>
    PROVE  HandledIn(s) = HandledIn(Front(s))
               \cup (IF Last(s).kind = "handler" THEN {Last(s).e} ELSE {})
<1> DEFINE t == Front(s)
<1>1. /\ DOMAIN s = DOMAIN t \cup {Len(s)} /\ Last(s) = s[Len(s)]
      /\ \A i \in DOMAIN t : t[i] = s[i]
  <2>1. /\ DOMAIN t = 1..Len(t) /\ Len(t) \in Nat /\ Len(s) = Len(t) + 1 /\ DOMAIN s = 1..Len(s)
        /\ \A i \in DOMAIN t : t[i] = s[i]
        /\ Last(s) = s[Len(s)]
      BY FrontFits
  <2> HIDE DEF t
  <2>2. 1..Len(s) = (1..Len(t)) \cup {Len(s)}
      BY <2>1
  <2> QED
      BY <2>1, <2>2
<1> HIDE DEF t
<1>2. HandledIn(s) = HandledIn(t) \cup (IF Last(s).kind = "handler" THEN {Last(s).e} ELSE {})
    BY <1>1 DEF HandledIn
<1> QED
    BY <1>2 DEF t

LEMMA HandledInAppend ==
    ASSUME NEW s \in Seq(ScopeType), NEW x \in ScopeType
    PROVE  HandledIn(Append(s, x)) = HandledIn(s)
               \cup (IF x.kind = "handler" THEN {x.e} ELSE {})
<1> DEFINE t == Append(s, x)
<1>1. /\ DOMAIN t = DOMAIN s \cup {Len(s) + 1} /\ t[Len(s) + 1] = x
      /\ \A i \in DOMAIN s : t[i] = s[i]
    BY AppendOf
<1> HIDE DEF t
<1>2. HandledIn(t) = HandledIn(s) \cup (IF x.kind = "handler" THEN {x.e} ELSE {})
    BY <1>1 DEF HandledIn
<1> QED
    BY <1>2 DEF t

\* Order and levels are kept while handles and references only go.
LEMMA FewerReferences ==
    ASSUME IndexIsLevel, HandlesAreNested,
           \A p \in Handles' : p \in Handles /\ inflight_exceptions'[p] = inflight_exceptions[p],
           \A i \in DOMAIN scopes' : scopes'[i].kind = "handler" =>
               /\ i \in DOMAIN scopes /\ scopes'[i] = scopes[i]
               /\ Level(scopes', i) = Level(scopes, i),
           \A j \in DOMAIN flying' : j \in DOMAIN flying /\ flying'[j] = flying[j]
    PROVE  IndexIsLevel' /\ HandlesAreNested'
<1>1. IndexIsLevel'
    BY DEF IndexIsLevel, Ptr, Idx, IsHandler
<1>2. HandlesAreNested'
  <2> SUFFICES ASSUME NEW p \in Handles', NEW q \in Handles'
               PROVE  /\ p <= q => Idx(p)' <= Idx(q)'
                      /\ \A i, k \in DOMAIN scopes' :
                            /\ IsHandler(i)' /\ IsHandler(k)' /\ i <= k
                            /\ scopes'[i].e = Ptr(p)' /\ scopes'[k].e = Ptr(q)'
                            => p <= q
                      /\ \A i \in DOMAIN scopes', j \in DOMAIN flying' :
                            /\ IsHandler(i)' /\ j = Level(scopes', i) + 1
                            /\ scopes'[i].e = Ptr(p)' /\ flying'[j] = Ptr(q)'
                            => p <= q
      BY DEF HandlesAreNested
  <2>1. /\ p \in Handles /\ q \in Handles
        /\ Ptr(p)' = Ptr(p) /\ Ptr(q)' = Ptr(q) /\ Idx(p)' = Idx(p) /\ Idx(q)' = Idx(q)
      BY DEF Ptr, Idx
  <2> QED
      BY <2>1 DEF HandlesAreNested, IsHandler
<1> QED
    BY <1>1, <1>2

-----------------------------------------------------------------------------
(* The steps                                                               *)

\* A scope that is entered refers to nothing.
LEMMA EnterNested ==
    ASSUME Nested, NEW kind \in {"context", "try", "destructor"}, Enter(kind)
    PROVE  Nested'
<1> DEFINE x == Scope(kind, None)
<1>1. /\ scopes' = Append(scopes, x)
      /\ UNCHANGED <<inflight_exceptions, flying, kept, thrown, dangling>>
      /\ IF kind = "destructor" THEN Unwinding ELSE ~Unwinding
    BY DEF Enter, Running, history, None
<1>2. /\ Len(flying) \in Nat /\ Inmost \in Nat
      /\ Unwinding => Len(flying) = Inmost + 1
      /\ ~Unwinding => Len(flying) = Inmost
    BY NestedFacts
<1>3. x \in ScopeType /\ x.kind = kind /\ x.count = Len(flying)
    BY <1>2 DEF Scope, ScopeType, uncaught_exceptions
<1> HIDE DEF x
<1>4. ScopesFit(scopes) /\ scopes \in Seq(ScopeType)
    BY DEF Nested, ScopesFit
<1>5. x.count = IF x.kind \in {"destructor", "handler"} THEN Level(scopes, Len(scopes)) + 1
                                                        ELSE Level(scopes, Len(scopes))
    BY <1>1, <1>2, <1>3 DEF Inmost
<1>6. /\ ScopesFit(scopes') /\ Len(scopes) \in Nat /\ DOMAIN scopes = 1..Len(scopes)
      /\ Len(scopes') = Len(scopes) + 1 /\ DOMAIN scopes' = 1..Len(scopes')
      /\ scopes'[Len(scopes')] = x
      /\ \A i \in DOMAIN scopes : scopes'[i] = scopes[i] /\ Level(scopes', i) = Level(scopes, i)
      /\ Inmost' = IF kind = "destructor" THEN Inmost + 1 ELSE Inmost
    BY <1>1, <1>3, <1>4, <1>5, AppendFits DEF Inmost
<1>7. OneFliesPerLevel'
    BY <1>1, <1>2, <1>6 DEF OneFliesPerLevel
<1>8. \A i \in DOMAIN scopes' : scopes'[i].kind = "handler" => i \in DOMAIN scopes
    BY <1>3, <1>6
<1>9. HandlesAreHeld'
  <2>1. HandledIn(scopes') = HandledIn(scopes)
      BY <1>1, <1>3, <1>4, HandledInAppend
  <2>2. kept = {}
      BY DEF Nested, StackTypes
  <2>3. Held(flying, scopes, kept)' = Held(flying, scopes, kept)
      BY <1>1, <2>1, <2>2, HeldIs
  <2> QED
      BY <1>1, <2>3 DEF Nested, HandlesAreHeld, Handles, Ptr
<1>10. IndexIsLevel' /\ HandlesAreNested'
    BY <1>1, <1>6, <1>8, FewerReferences DEF Nested, Handles
<1> QED
    BY <1>1, <1>6, <1>7, <1>9, <1>10 DEF Nested, StackTypes

\* Its scope left, a reference that stays elsewhere or was none takes nothing along.
LEMMA ScopeEnds ==
    ASSUME Nested, scopes # <<>>, scopes' = Front(scopes),
           UNCHANGED <<inflight_exceptions, flying, kept, thrown, dangling>>,
           OneFliesPerLevel',
           Last(scopes).kind = "handler" =>
               Last(scopes).e \in Held(flying, Front(scopes), kept) \cup Foreign
    PROVE  Nested'
<1>1. ScopesFit(scopes) /\ kept = {}
    BY DEF Nested, StackTypes
<1>2. /\ ScopesFit(scopes') /\ Len(scopes') \in Nat /\ DOMAIN scopes' = 1..Len(scopes')
      /\ Len(scopes) = Len(scopes') + 1 /\ DOMAIN scopes = 1..Len(scopes)
      /\ \A i \in DOMAIN scopes' : scopes'[i] = scopes[i] /\ Level(scopes', i) = Level(scopes, i)
    BY <1>1, FrontFits
<1>3. \A i \in DOMAIN scopes' : i \in DOMAIN scopes
    BY <1>2
<1>4. HandlesAreHeld'
  <2>1. HandledIn(scopes) = HandledIn(scopes')
            \cup (IF Last(scopes).kind = "handler" THEN {Last(scopes).e} ELSE {})
      BY <1>1, HandledInFront
  <2>2. /\ Held(flying, scopes, kept) = ToSet(flying) \cup HandledIn(scopes)
        /\ Held(flying, Front(scopes), kept) = ToSet(flying) \cup HandledIn(scopes')
      BY <1>1, HeldIs
  <2>3. Held(flying, Front(scopes), kept) \ Foreign = Held(flying, scopes, kept) \ Foreign
      BY <2>1, <2>2
  <2>4. /\ Held(flying, scopes, kept)' \ Foreign = Held(flying, scopes, kept) \ Foreign
        /\ Held(flying, scopes, kept)' \subseteq Held(flying, scopes, kept)
      BY <2>1, <2>2, <2>3
  <2> QED
      BY <2>4 DEF Nested, HandlesAreHeld, Handles, Ptr
<1>5. IndexIsLevel' /\ HandlesAreNested'
    BY <1>2, <1>3, FewerReferences DEF Nested, Handles
<1> QED
    BY <1>2, <1>4, <1>5 DEF Nested, StackTypes

\* The constructor puts the new handle on top, on the level where it flies.
LEMMA ThrowNested ==
    ASSUME Nested, NEW e \in Exception, Throw(e), e \notin Foreign
    PROVE  Nested'
<1> DEFINE n == Len(inflight_exceptions)
           m == Len(flying)
           x == [ptr |-> e, idx |-> m]
<1>1. /\ inflight_exceptions' = Append(inflight_exceptions, x)
      /\ flying' = Append(flying, e) /\ thrown' = thrown \cup {e}
      /\ UNCHANGED <<scopes, kept, dangling>>
      /\ e \notin thrown /\ ~Unwinding
    BY DEF Throw, Running, history, uncaught_exceptions
<1>2. /\ m \in Nat /\ DOMAIN flying = 1..m /\ n \in Nat /\ Handles = 1..n
      /\ m = Inmost
      /\ \A i \in DOMAIN scopes : Level(scopes, i) \in Nat /\ Level(scopes, i) <= m
      /\ \A p \in Handles : Ptr(p) \in Exception /\ Idx(p) \in Nat
    BY <1>1, NestedFacts
<1>3. /\ flying \in Seq(Exception) /\ x \in [ptr : Exception, idx : Nat]
      /\ inflight_exceptions \in Seq([ptr : Exception, idx : Nat]) /\ kept = {}
    BY <1>2 DEF Nested, StackTypes
<1>4. /\ flying' \in Seq(Exception) /\ Len(flying') = m + 1 /\ DOMAIN flying' = 1..(m + 1)
      /\ \A j \in 1..m : flying'[j] = flying[j]
      /\ flying'[m + 1] = e
    BY <1>1, <1>3, AppendOf
<1>5. /\ inflight_exceptions' \in Seq([ptr : Exception, idx : Nat])
      /\ Handles' = 1..(n + 1)
      /\ \A p \in 1..n : inflight_exceptions'[p] = inflight_exceptions[p]
      /\ inflight_exceptions'[n + 1] = x
  <2> HIDE DEF x, n
  <2> QED
      BY <1>1, <1>3, AppendOf DEF Handles, n
<1>6. /\ \A p \in Handles' : p = n + 1 => Ptr(p)' = e /\ Idx(p)' = m
      /\ \A p \in Handles : Ptr(p)' = Ptr(p) /\ Idx(p)' = Idx(p)
    BY <1>2, <1>5 DEF Ptr, Idx
<1> HIDE DEF x, m, n
<1>7. Handles' = Handles \cup {n + 1} /\ n + 1 \notin Handles
    BY <1>2, <1>5
<1>8. \A p \in Handles : Ptr(p) # e
    BY <1>1 DEF Nested, HandlesAreHeld
<1>9. /\ \A i \in DOMAIN scopes : IsHandler(i) => scopes[i].e # e
      /\ \A j \in DOMAIN flying : flying[j] # e
    BY <1>8, Holders
<1>10. HandlesAreHeld'
  <2>1. Held(flying, scopes, kept)' = Held(flying, scopes, kept) \cup {e}
      BY <1>1, <1>3, HeldIs, SetOfAppend
  <2>2. {Ptr(p)' : p \in Handles'} = {Ptr(p) : p \in Handles} \cup {e}
      BY <1>6, <1>7
  <2>4. (Held(flying, scopes, kept) \cup {e}) \ Foreign
            = (Held(flying, scopes, kept) \ Foreign) \cup {e}
      OBVIOUS
  <2>3. \A p, q \in Handles' : Ptr(p)' = Ptr(q)' => p = q
      BY <1>6, <1>7, <1>8 DEF Nested, HandlesAreHeld
  <2> QED
      BY <1>1, <2>1, <2>2, <2>3, <2>4 DEF Nested, HandlesAreHeld
<1>11. \A p \in Handles : Idx(p) <= m
  <2> SUFFICES ASSUME NEW p \in Handles PROVE Idx(p) <= m
      OBVIOUS
  <2>1. \A j \in DOMAIN flying : j - 1 <= m
      BY <1>2
  <2> QED
      BY <1>2, <2>1, Holders
<1>12. \A j \in DOMAIN flying' : \/ j \in DOMAIN flying /\ flying'[j] = flying[j]
                                 \/ j = m + 1
    BY <1>2, <1>4
<1>13. IndexIsLevel'
  <2> SUFFICES ASSUME NEW p \in Handles'
               PROVE  /\ \A i \in DOMAIN scopes : IsHandler(i) /\ scopes[i].e = Ptr(p)' => Idx(p)' = Level(scopes, i)
                      /\ \A j \in DOMAIN flying' : flying'[j] = Ptr(p)' => Idx(p)' = j - 1
      BY <1>1 DEF IndexIsLevel, IsHandler
  <2>1. CASE p \in Handles
      BY <2>1, <1>4, <1>6, <1>8, <1>12 DEF Nested, IndexIsLevel
  <2>2. CASE p = n + 1
      BY <2>2, <1>2, <1>6, <1>9, <1>12
  <2> QED
      BY <1>7, <2>1, <2>2
<1>14. HandlesAreNested'
  <2> SUFFICES ASSUME NEW p \in Handles', NEW q \in Handles'
               PROVE  /\ p <= q => Idx(p)' <= Idx(q)'
                      /\ \A i, k \in DOMAIN scopes :
                            /\ IsHandler(i) /\ IsHandler(k) /\ i <= k
                            /\ scopes[i].e = Ptr(p)' /\ scopes[k].e = Ptr(q)'
                            => p <= q
                      /\ \A i \in DOMAIN scopes, j \in DOMAIN flying' :
                            /\ IsHandler(i) /\ j = Level(scopes, i) + 1
                            /\ scopes[i].e = Ptr(p)' /\ flying'[j] = Ptr(q)'
                            => p <= q
      BY <1>1 DEF HandlesAreNested, IsHandler
  <2>1. CASE p \in Handles /\ q \in Handles
      BY <2>1, <1>4, <1>6, <1>8, <1>12 DEF Nested, HandlesAreNested
  <2>2. CASE q = n + 1
    <3>1. p <= q /\ Idx(p)' <= Idx(q)'
        BY <2>2, <1>2, <1>6, <1>7, <1>11
    <3> QED
        BY <3>1
  <2>3. CASE p = n + 1 /\ q \in Handles
    <3>1. ~(p <= q)
        BY <2>3, <1>2
    <3> QED
        BY <2>3, <3>1, <1>6, <1>9
  <2> QED
      BY <1>7, <2>1, <2>2, <2>3
<1>15. OneFliesPerLevel'
    BY <1>1, <1>2, <1>4 DEF OneFliesPerLevel, Inmost, m
<1> QED
    BY <1>1, <1>4, <1>5, <1>10, <1>13, <1>14, <1>15 DEF Nested, StackTypes

\* One of another type flies without a handle.
LEMMA ThrowForeignNested ==
    ASSUME Nested, NEW e \in Exception, Throw(e), e \in Foreign
    PROVE  Nested'
<1> DEFINE m == Len(flying)
<1>1. /\ flying' = Append(flying, e) /\ thrown' = thrown \cup {e}
      /\ UNCHANGED <<inflight_exceptions, scopes, kept, dangling>>
      /\ ~Unwinding
    BY DEF Throw, Running, history
<1>2. m \in Nat /\ DOMAIN flying = 1..m /\ m = Inmost
    BY <1>1, NestedFacts
<1>3. flying \in Seq(Exception) /\ kept = {}
    BY DEF Nested, StackTypes
<1>4. /\ flying' \in Seq(Exception) /\ Len(flying') = m + 1 /\ DOMAIN flying' = 1..(m + 1)
      /\ \A j \in 1..m : flying'[j] = flying[j]
      /\ flying'[m + 1] = e
    BY <1>1, <1>3, AppendOf
<1> HIDE DEF m
<1>5. \A j \in DOMAIN flying' : \/ j \in DOMAIN flying /\ flying'[j] = flying[j]
                                \/ flying'[j] = e
    BY <1>2, <1>4
<1>6. \A p \in Handles : Ptr(p) # e
    BY Holders
<1>7. HandlesAreHeld'
  <2>1. Held(flying, scopes, kept)' = Held(flying, scopes, kept) \cup {e}
      BY <1>1, <1>3, HeldIs, SetOfAppend
  <2>2. Held(flying, scopes, kept)' \ Foreign = Held(flying, scopes, kept) \ Foreign
      BY <2>1
  <2> QED
      BY <1>1, <2>1, <2>2 DEF Nested, HandlesAreHeld, Handles, Ptr
<1>8. IndexIsLevel' /\ HandlesAreNested'
    BY <1>1, <1>5, <1>6 DEF Nested, IndexIsLevel, HandlesAreNested, IsHandler, Handles, Ptr, Idx
<1>9. OneFliesPerLevel'
    BY <1>1, <1>2, <1>4 DEF OneFliesPerLevel, Inmost
<1> QED
    BY <1>1, <1>4, <1>7, <1>8, <1>9 DEF Nested, StackTypes

\* What is thrown again flies on the level of its handler, which is the last one
\* there.
LEMMA RethrowNested ==
    ASSUME Nested, NEW e \in Exception, Rethrow(e)
    PROVE  Nested'
<1> DEFINE m == Len(flying)
<1>1. /\ flying' = Append(flying, e)
      /\ UNCHANGED <<inflight_exceptions, scopes, kept, thrown, dangling>>
      /\ ~Unwinding
    BY DEF Rethrow, Running, history
<1>2. /\ m \in Nat /\ DOMAIN flying = 1..m /\ m = Inmost
      /\ Len(scopes) \in Nat /\ DOMAIN scopes = 1..Len(scopes)
    BY <1>1, NestedFacts
<1>3. flying \in Seq(Exception) /\ kept = {}
    BY DEF Nested, StackTypes
<1>4. PICK i \in DOMAIN scopes :
          /\ IsHandler(i) /\ scopes[i].e = e
          /\ \A j \in DOMAIN scopes : j > i => scopes[j].kind \in {"context", "try"}
    BY <1>3 DEF Rethrow, IsHandler
<1>5. Level(scopes, i) = m
  <2>1. i \in Nat /\ i <= Len(scopes) /\ \A j \in 1..Len(scopes) : j > i => scopes[j].kind # "destructor"
      BY <1>2, <1>4
  <2> QED
      BY <1>2, <2>1, LevelStays DEF Inmost
<1>6. \A k \in DOMAIN scopes : IsHandler(k) => k <= i
  <2> SUFFICES ASSUME NEW k \in DOMAIN scopes, k > i
               PROVE  ~IsHandler(k)
      BY <1>2
  <2>1. scopes[k].kind \in {"context", "try"}
      BY <1>4
  <2> QED
      BY <2>1 DEF IsHandler
<1>7. /\ flying' \in Seq(Exception) /\ Len(flying') = m + 1 /\ DOMAIN flying' = 1..(m + 1)
      /\ \A j \in 1..m : flying'[j] = flying[j]
      /\ flying'[m + 1] = e
    BY <1>1, <1>3, AppendOf
<1> HIDE DEF m
<1>8. \A j \in DOMAIN flying' : \/ j \in DOMAIN flying /\ flying'[j] = flying[j]
                                \/ j = m + 1 /\ flying'[j] = e
    BY <1>2, <1>7
<1>9. HandlesAreHeld'
  <2>1. e \in HandledIn(scopes)
      BY <1>4 DEF HandledIn, IsHandler
  <2>2. Held(flying, scopes, kept)' = Held(flying, scopes, kept) \cup {e}
      BY <1>1, <1>3, HeldIs, SetOfAppend
  <2>3. e \in Held(flying, scopes, kept)
      BY <1>3, <2>1, HeldIs
  <2>4. Held(flying, scopes, kept)' = Held(flying, scopes, kept)
      BY <2>2, <2>3
  <2> QED
      BY <1>1, <2>4 DEF Nested, HandlesAreHeld, Handles, Ptr
<1>10. IndexIsLevel'
  <2> SUFFICES ASSUME NEW p \in Handles, NEW j \in DOMAIN flying', flying'[j] = Ptr(p)
               PROVE  Idx(p) = j - 1
      BY <1>1 DEF Nested, IndexIsLevel, IsHandler, Handles, Ptr, Idx
  <2>1. CASE j \in DOMAIN flying /\ flying'[j] = flying[j]
      BY <2>1 DEF Nested, IndexIsLevel
  <2>2. CASE j = m + 1 /\ flying'[j] = e
    <3>1. Idx(p) = m
        BY <2>2, <1>4, <1>5 DEF Nested, IndexIsLevel
    <3> QED
        BY <2>2, <3>1, <1>2
  <2> QED
      BY <1>8, <2>1, <2>2
<1>11. HandlesAreNested'
  <2> SUFFICES ASSUME NEW p \in Handles, NEW q \in Handles,
                      NEW k \in DOMAIN scopes, NEW j \in DOMAIN flying',
                      IsHandler(k), j = Level(scopes, k) + 1,
                      scopes[k].e = Ptr(p), flying'[j] = Ptr(q)
               PROVE  p <= q
      BY <1>1 DEF Nested, HandlesAreNested, IsHandler, Handles, Ptr, Idx
  <2>1. CASE j \in DOMAIN flying /\ flying'[j] = flying[j]
      BY <2>1 DEF Nested, HandlesAreNested
  <2>2. CASE j = m + 1 /\ flying'[j] = e
      BY <2>2, <1>4, <1>6 DEF Nested, HandlesAreNested
  <2> QED
      BY <1>8, <2>1, <2>2
<1>12. OneFliesPerLevel'
    BY <1>1, <1>2, <1>7 DEF OneFliesPerLevel, Inmost
<1> QED
    BY <1>1, <1>7, <1>9, <1>10, <1>11, <1>12 DEF Nested, StackTypes

\* What a handler takes was the last handle, and the handler is the last of its level.
LEMMA CatchNested ==
    ASSUME Nested, Catch
    PROVE  Nested'
<1> DEFINE m == Len(flying)
           e == Last(flying)
           x == Scope("handler", e)
           s == Front(scopes)
<1>1. /\ scopes' = Append(s, x) /\ flying' = Front(flying)
      /\ UNCHANGED <<inflight_exceptions, kept, thrown, dangling>>
      /\ Unwinding /\ scopes # <<>> /\ Last(scopes).kind = "try"
    BY DEF Catch, Inside, history
<1>2. /\ m \in Nat /\ DOMAIN flying = 1..m /\ m = Inmost + 1 /\ Inmost \in Nat
      /\ \A i \in DOMAIN scopes : Level(scopes, i) \in Nat /\ Level(scopes, i) <= Inmost
    BY <1>1, NestedFacts
<1>3. ScopesFit(scopes) /\ kept = {} /\ flying \in Seq(Exception) /\ flying # <<>>
    BY <1>2 DEF Nested, StackTypes
<1>4. /\ flying' \in Seq(Exception) /\ Len(flying') = m - 1 /\ DOMAIN flying' = 1..(m - 1)
      /\ \A j \in 1..(m - 1) : flying'[j] = flying[j]
      /\ e = flying[m] /\ e \in Exception
    BY <1>1, <1>3, FrontOf
<1>5. /\ ScopesFit(s) /\ Len(s) \in Nat /\ DOMAIN s = 1..Len(s)
      /\ Len(scopes) = Len(s) + 1 /\ DOMAIN scopes = 1..Len(scopes)
      /\ \A i \in DOMAIN s : s[i] = scopes[i] /\ Level(s, i) = Level(scopes, i)
      /\ Level(s, Len(s)) = Inmost
    BY <1>1, <1>3, FrontFits DEF Inmost
<1>6. x \in ScopeType /\ x.kind = "handler" /\ x.count = m /\ x.e = e
    BY <1>2, <1>4 DEF Scope, ScopeType, uncaught_exceptions
<1> HIDE DEF s, x, e, m
<1>7. /\ ScopesFit(scopes') /\ Len(scopes') = Len(s) + 1 /\ DOMAIN scopes' = 1..Len(scopes')
      /\ scopes'[Len(scopes')] = x
      /\ \A i \in DOMAIN s : scopes'[i] = s[i] /\ Level(scopes', i) = Level(s, i)
      /\ Inmost' = Inmost
  <2>1. x.count = IF x.kind \in {"destructor", "handler"} THEN Level(s, Len(s)) + 1 ELSE Level(s, Len(s))
      BY <1>2, <1>5, <1>6
  <2> QED
      BY <1>1, <1>4, <1>5, <1>6, <2>1, AppendFits DEF Inmost
<1>8. \A i \in DOMAIN scopes' :
          \/ /\ i \in DOMAIN scopes /\ scopes'[i] = scopes[i]
             /\ Level(scopes', i) = Level(scopes, i)
          \/ /\ i = Len(scopes') /\ scopes'[i].e = e /\ Level(scopes', i) = Inmost
    BY <1>5, <1>6, <1>7 DEF Inmost
<1>9. HandlesAreHeld'
  <2>1. s \in Seq(ScopeType)
      BY <1>5 DEF ScopesFit
  <2>2. HandledIn(scopes') = HandledIn(s) \cup {e}
      BY <1>1, <1>6, <2>1, HandledInAppend
  <2>3. HandledIn(scopes) = HandledIn(s)
      BY <1>1, <1>3, HandledInFront DEF s
  <2>4. ToSet(flying) = ToSet(flying') \cup {e}
      BY <1>1, <1>3, SetOfFront DEF e
  <2>5. /\ Held(flying, scopes, kept) = ToSet(flying) \cup HandledIn(scopes)
        /\ Held(flying', scopes', kept) = ToSet(flying') \cup HandledIn(scopes')
      BY <1>3, HeldIs
  <2>6. ToSet(flying') \cup HandledIn(scopes') = ToSet(flying) \cup HandledIn(scopes)
      BY <2>2, <2>3, <2>4
  <2>7. Held(flying, scopes, kept)' = Held(flying, scopes, kept)
      BY <1>1, <2>5, <2>6
  <2> QED
      BY <1>1, <2>7 DEF Nested, HandlesAreHeld, Handles, Ptr
<1>10. \A j \in DOMAIN flying' : j \in DOMAIN flying /\ flying'[j] = flying[j] /\ j <= Inmost
    BY <1>2, <1>4
<1>11. IndexIsLevel'
  <2> SUFFICES ASSUME NEW p \in Handles, NEW i \in DOMAIN scopes',
                      scopes'[i].kind = "handler", scopes'[i].e = Ptr(p)
               PROVE  Idx(p) = Level(scopes', i)
      BY <1>1, <1>10 DEF Nested, IndexIsLevel, IsHandler, Handles, Ptr, Idx
  <2>1. m \in DOMAIN flying /\ flying[m] = e /\ m - 1 = Inmost
      BY <1>2, <1>4
  <2> QED
      BY <1>8, <2>1 DEF Nested, IndexIsLevel, IsHandler
<1>12. HandlesAreNested'
  <2>1. \A p, q \in Handles : p <= q => Idx(p) <= Idx(q)
      BY DEF Nested, HandlesAreNested
  <2>2. ASSUME NEW p \in Handles, NEW q \in Handles,
               NEW i \in DOMAIN scopes', NEW k \in DOMAIN scopes',
               scopes'[i].kind = "handler", scopes'[k].kind = "handler", i <= k,
               scopes'[i].e = Ptr(p), scopes'[k].e = Ptr(q)
        PROVE  p <= q
    <3>1. CASE k # Len(scopes')
      <4>1. i # Len(scopes')
          BY <2>2, <3>1, <1>5, <1>7
      <4> QED
          BY <2>2, <3>1, <4>1, <1>8 DEF Nested, HandlesAreNested, IsHandler
    <3>2. CASE k = Len(scopes') /\ i # Len(scopes')
      <4>1. /\ i \in DOMAIN scopes /\ IsHandler(i) /\ scopes[i].e = Ptr(p)
            /\ Idx(p) = Level(scopes, i) /\ Level(scopes, i) \in Nat /\ Level(scopes, i) <= Inmost
          BY <2>2, <3>2, <1>2, <1>8 DEF Nested, IndexIsLevel, IsHandler
      <4>2. m \in DOMAIN flying /\ flying[m] = Ptr(q) /\ Idx(q) = Inmost
          BY <2>2, <3>2, <1>2, <1>4, <1>6, <1>7 DEF Nested, IndexIsLevel
      <4>3. CASE Level(scopes, i) = Inmost
          BY <4>1, <4>2, <4>3, <1>2 DEF Nested, HandlesAreNested
      <4>4. CASE Level(scopes, i) < Inmost
        <5>1. ~(q <= p)
            BY <4>1, <4>2, <4>4, <1>2, <2>1
        <5> QED
            BY <5>1, NestedFacts
      <4> QED
          BY <4>1, <4>3, <4>4, <1>2
    <3>3. CASE k = Len(scopes') /\ i = Len(scopes')
      <4>1. Ptr(p) = Ptr(q)
          BY <2>2, <3>3
      <4>2. p = q
          BY <4>1 DEF Nested, HandlesAreHeld
      <4> QED
          BY <4>2, NestedFacts
    <3> QED
        BY <3>1, <3>2, <3>3
  <2>3. ASSUME NEW p \in Handles, NEW q \in Handles,
               NEW i \in DOMAIN scopes', NEW j \in DOMAIN flying',
               scopes'[i].kind = "handler", j = Level(scopes', i) + 1,
               scopes'[i].e = Ptr(p), flying'[j] = Ptr(q)
        PROVE  p <= q
    <3>1. Level(scopes', i) # Inmost
        BY <2>3, <1>2, <1>10
    <3> QED
        BY <2>3, <3>1, <1>8, <1>10 DEF Nested, HandlesAreNested, IsHandler
  <2> QED
      BY <1>1, <2>1, <2>2, <2>3 DEF HandlesAreNested, IsHandler, Handles, Ptr, Idx
<1>13. OneFliesPerLevel'
    BY <1>2, <1>4, <1>7 DEF OneFliesPerLevel
<1> QED
    BY <1>1, <1>4, <1>7, <1>9, <1>11, <1>12, <1>13 DEF Nested, StackTypes

\* The handler that ends is the last reference to a base_exception: its handle, the
\* last one, is the one that the destructor pops.
LEMMA LastReferenceEnds ==
    ASSUME Nested, Inside("handler"), scopes' = Front(scopes),
           Unwinding => Last(flying) \in Foreign,
           inflight_exceptions' = Front(inflight_exceptions),
           UNCHANGED <<flying, kept, thrown, dangling>>,
           Last(scopes).e \notin Held(flying, Front(scopes), kept) \cup Foreign
    PROVE  Nested'
<1> DEFINE e == Last(scopes).e
           n == Len(inflight_exceptions)
<1>1. ScopesFit(scopes) /\ kept = {} /\ scopes # <<>> /\ Last(scopes).kind = "handler"
    BY DEF Nested, StackTypes, Inside
<1>2. /\ ScopesFit(scopes') /\ Len(scopes') \in Nat /\ DOMAIN scopes' = 1..Len(scopes')
      /\ Len(scopes) = Len(scopes') + 1 /\ DOMAIN scopes = 1..Len(scopes)
      /\ \A i \in DOMAIN scopes' : scopes'[i] = scopes[i] /\ Level(scopes', i) = Level(scopes, i)
      /\ Inmost' = Inmost
    BY <1>1, FrontFits DEF Inmost
<1>3. \A i \in DOMAIN scopes' : i \in DOMAIN scopes
    BY <1>2
<1>4. /\ inflight_exceptions # <<>> /\ Last(inflight_exceptions).ptr = e
      /\ inflight_exceptions \in Seq([ptr : Exception, idx : Nat])
    BY TopIsHandled DEF Nested, StackTypes
<1>5. /\ inflight_exceptions' \in Seq([ptr : Exception, idx : Nat])
      /\ n \in Nat \ {0} /\ Handles = 1..n /\ Handles' = 1..(n - 1)
      /\ \A p \in 1..(n - 1) : inflight_exceptions'[p] = inflight_exceptions[p]
      /\ inflight_exceptions[n].ptr = e
    BY <1>4, FrontOf DEF Handles
<1> HIDE DEF e, n
<1>6. /\ Handles = Handles' \cup {n} /\ n \notin Handles' /\ Ptr(n) = e
      /\ \A p \in Handles' : p \in Handles /\ inflight_exceptions'[p] = inflight_exceptions[p]
    BY <1>5 DEF Ptr
<1>7. HandlesAreHeld'
  <2>1. HandledIn(scopes) = HandledIn(scopes') \cup {e}
      BY <1>1, HandledInFront DEF e
  <2>2. /\ Held(flying, scopes, kept) = ToSet(flying) \cup HandledIn(scopes)
        /\ Held(flying, Front(scopes), kept) = ToSet(flying) \cup HandledIn(scopes')
      BY <1>1, HeldIs
  <2>3. /\ Held(flying, scopes, kept)' = Held(flying, Front(scopes), kept)
        /\ e \notin Held(flying, Front(scopes), kept)
      BY DEF e
  <2>4. Held(flying, scopes, kept)' = Held(flying, scopes, kept) \ {e}
      BY <2>1, <2>2, <2>3
  <2>5. \A p \in Handles' : Ptr(p)' = Ptr(p) /\ Ptr(p) # e
      BY <1>6 DEF Nested, HandlesAreHeld, Ptr
  <2>6. {Ptr(p)' : p \in Handles'} = {Ptr(p) : p \in Handles} \ {e}
      BY <1>6, <2>5
  <2>8. (Held(flying, scopes, kept) \ {e}) \ Foreign = (Held(flying, scopes, kept) \ Foreign) \ {e}
      OBVIOUS
  <2>7. \A p, q \in Handles' : Ptr(p)' = Ptr(q)' => p = q
      BY <1>6, <2>5 DEF Nested, HandlesAreHeld
  <2> QED
      BY <2>4, <2>6, <2>7, <2>8 DEF Nested, HandlesAreHeld
<1>8. IndexIsLevel' /\ HandlesAreNested'
    BY <1>2, <1>3, <1>6, FewerReferences DEF Nested
<1>9. OneFliesPerLevel'
    BY <1>2 DEF Nested, OneFliesPerLevel
<1> QED
    BY <1>2, <1>5, <1>7, <1>8, <1>9 DEF Nested, StackTypes

\* A destructor that ends returns to the level where its exception flies.
LEMMA LeaveNested ==
    ASSUME Nested, Leave
    PROVE  Nested'
<1>1. /\ scopes # <<>> /\ scopes' = Front(scopes) /\ ~Unwinding
      /\ UNCHANGED <<flying, kept, thrown, dangling>>
    BY DEF Leave, Running, history
<1>2. ScopesFit(scopes) /\ kept = {}
    BY DEF Nested, StackTypes
<1>3. /\ Inmost = IF Last(scopes).kind = "destructor" THEN Inmost' + 1 ELSE Inmost'
      /\ Inmost' \in Nat /\ Len(flying) = Inmost
  <2>1. /\ Inmost = IF Last(scopes).kind = "destructor" THEN Inmost' + 1 ELSE Inmost'
        /\ Len(scopes') \in Nat
      BY <1>1, <1>2, FrontFits DEF Inmost
  <2> QED
      BY <1>1, <2>1, LevelGrows, NestedFacts DEF Inmost
<1>4. OneFliesPerLevel'
    BY <1>1, <1>3 DEF OneFliesPerLevel
<1>5. CASE Inside("handler")
  <2>1. inflight_exceptions' = IF Last(scopes).e \in Held(flying, Front(scopes), kept) \cup Foreign
                               THEN inflight_exceptions ELSE Front(inflight_exceptions)
      BY <1>5 DEF Leave, Destroys
  <2>2. CASE Last(scopes).e \in Held(flying, Front(scopes), kept) \cup Foreign
      BY <1>1, <1>4, <2>1, <2>2, ScopeEnds
  <2>3. CASE Last(scopes).e \notin Held(flying, Front(scopes), kept) \cup Foreign
      BY <1>1, <1>5, <2>1, <2>3, LastReferenceEnds
  <2> QED
      BY <2>2, <2>3
<1>6. CASE ~Inside("handler")
  <2>1. inflight_exceptions' = inflight_exceptions /\ Last(scopes).kind # "handler"
      BY <1>1, <1>6 DEF Leave, Inside
  <2> QED
      BY <1>1, <1>4, <2>1, ScopeEnds
<1> QED
    BY <1>5, <1>6

LEMMA PassTryNested ==
    ASSUME Nested, PassTry
    PROVE  Nested'
<1>1. /\ scopes # <<>> /\ scopes' = Front(scopes) /\ Last(scopes).kind = "try"
      /\ UNCHANGED <<inflight_exceptions, flying, kept, thrown, dangling>>
    BY DEF PassTry, Inside, history
<1>2. Inmost' = Inmost
    BY <1>1, FrontFits DEF Nested, Inmost
<1>3. OneFliesPerLevel'
    BY <1>1, <1>2 DEF Nested, OneFliesPerLevel
<1> QED
    BY <1>1, <1>3, ScopeEnds

\* A context was entered one uncaught exception ago.
LEMMA ContextCounts ==
    ASSUME Nested, Unwinding, Inside("context")
    PROVE  Len(flying) = Last(scopes).count + 1
<1>1. ScopesFit(scopes) /\ scopes # <<>> /\ Last(scopes).kind = "context"
    BY DEF Nested, Inside
<1>2. Last(scopes) = scopes[Len(scopes)] /\ Len(scopes) \in DOMAIN scopes
    BY <1>1, FrontFits
<1>3. Last(scopes).count = Inmost
    BY <1>1, <1>2 DEF ScopesFit, Inmost
<1> QED
    BY <1>3, NestedFacts

\* The line goes to an exception that exists.
LEMMA PassContextNested ==
    ASSUME Nested, PassContext
    PROVE  Nested'
<1>1. /\ Unwinding /\ scopes # <<>> /\ scopes' = Front(scopes) /\ Last(scopes).kind = "context"
      /\ UNCHANGED <<inflight_exceptions, flying, kept, thrown>>
    BY DEF PassContext, Inside
<1>2. ScopesFit(scopes) /\ inflight_exceptions \in Seq([ptr : Exception, idx : Nat])
    BY DEF Nested, StackTypes
<1>3. Receiver \subseteq Held(flying, scopes, kept)
  <2> SUFFICES ASSUME is_in_flight
               PROVE  Last(inflight_exceptions).ptr \in Held(flying, scopes, kept)
      BY DEF Receiver
  <2>1. inflight_exceptions # <<>>
      BY DEF is_in_flight
  <2>2. Len(inflight_exceptions) \in Handles
      BY <1>2, <2>1, FrontOf DEF Handles
  <2> QED
      BY <2>2 DEF Nested, HandlesAreHeld, Last, Ptr
<1>4. UNCHANGED dangling
    BY <1>3 DEF PassContext, Nested, StackTypes
<1>5. Inmost' = Inmost
    BY <1>1, <1>2, FrontFits DEF Inmost
<1>6. OneFliesPerLevel'
    BY <1>1, <1>5 DEF Nested, OneFliesPerLevel
<1> QED
    BY <1>1, <1>4, <1>6, ScopeEnds

\* A handler left by the exception that it caught, or one of the two is of another
\* type.
LEMMA PassHandlerNested ==
    ASSUME Nested, PassHandler,
           Last(scopes).e = Last(flying) \/ Foreign \cap {Last(scopes).e, Last(flying)} # {}
    PROVE  Nested'
<1>1. /\ Unwinding /\ scopes # <<>> /\ scopes' = Front(scopes) /\ Last(scopes).kind = "handler"
      /\ inflight_exceptions' = IF Last(scopes).e \in Held(flying, Front(scopes), kept) \cup Foreign
                                THEN inflight_exceptions ELSE Front(inflight_exceptions)
      /\ UNCHANGED <<flying, kept, thrown, dangling>>
    BY DEF PassHandler, Inside, Destroys
<1>2. flying \in Seq(Exception) /\ flying # <<>> /\ kept = {} /\ ScopesFit(scopes)
  <2>1. Len(flying) = Inmost + 1 /\ Inmost \in Nat
      BY <1>1, NestedFacts
  <2> QED
      BY <2>1 DEF Nested, StackTypes
<1>3. Inmost' = Inmost
    BY <1>1, <1>2, FrontFits DEF Inmost
<1>4. OneFliesPerLevel'
    BY <1>1, <1>3 DEF Nested, OneFliesPerLevel
<1>5. CASE Last(scopes).e \in Held(flying, Front(scopes), kept) \cup Foreign
    BY <1>1, <1>4, <1>5, ScopeEnds
<1>6. CASE Last(scopes).e \notin Held(flying, Front(scopes), kept) \cup Foreign
  <2>1. Last(flying) \in Held(flying, Front(scopes), kept)
    <3>1. Last(flying) \in ToSet(flying)
        BY <1>2, SetOfFront
    <3> QED
        BY <1>2, <3>1, HeldIs
  <2>2. Last(flying) \in Foreign
      BY <1>6, <2>1
  <2> QED
      BY <1>1, <1>6, <2>2, LastReferenceEnds DEF Inside
<1> QED
    BY <1>5, <1>6

-----------------------------------------------------------------------------
(* The theorem                                                             *)

LEMMA InitNested == ExceptionInit => NestedInv
<1> SUFFICES ASSUME ExceptionInit PROVE Nested
    BY DEF ExceptionInit, NestedInv
<1>1. /\ inflight_exceptions = <<>> /\ flying = <<>> /\ scopes = <<>>
      /\ kept = {} /\ thrown = {} /\ dangling = FALSE
    BY DEF ExceptionInit
<1>2. \A S : <<>> \in Seq(S) /\ Len(<<>>) = 0 /\ DOMAIN <<>> = {}
    OBVIOUS
<1>3. StackTypes /\ ScopesFit(scopes)
    BY <1>1, <1>2 DEF StackTypes, ScopesFit
<1>4. OneFliesPerLevel
    BY <1>1, <1>2, LevelGrows DEF OneFliesPerLevel, Inmost
<1>5. HandlesAreHeld
  <2>1. ToSet(flying) = {} /\ HandledIn(scopes) = {} /\ Handles = {}
      BY <1>1, <1>2 DEF ToSet, HandledIn, Handles
  <2> QED
      BY <1>1, <2>1, HeldIs DEF HandlesAreHeld
<1>6. IndexIsLevel /\ HandlesAreNested
    BY <1>1, <1>2 DEF IndexIsLevel, HandlesAreNested, Handles
<1> QED
    BY <1>3, <1>4, <1>5, <1>6 DEF Nested

LEMMA NextNested == NestedInv /\ [ExceptionNext]_exceptionVars => NestedInv'
<1> SUFFICES ASSUME NestedInv, [ExceptionNext]_exceptionVars
             PROVE  NestedInv'
    OBVIOUS
<1>1. CASE UNCHANGED exceptionVars
    BY <1>1 DEF exceptionVars, NestedInv, Nested, StackTypes, OneFliesPerLevel, Inmost,
                HandlesAreHeld, IndexIsLevel, HandlesAreNested, Handles, Ptr, Idx, IsHandler
<1>2. CASE ExceptionNext
  <2>1. /\ everEscaped' \in BOOLEAN /\ everKept' \in BOOLEAN
        /\ ~everEscaped' => ~everEscaped
        /\ ~everKept' => ~everKept
      BY <1>2 DEF NestedInv, ExceptionNext, Enter, Throw, Rethrow, Keep, Drop, Catch, PassTry,
                  PassContext, PassHandler, Leave, history
  <2> SUFFICES ASSUME ~everEscaped', ~everKept'
               PROVE  Nested'
      BY <2>1 DEF NestedInv
  <2>2. Nested /\ kept = {}
      BY <2>1 DEF NestedInv, Nested, StackTypes
  <2>3. ASSUME NEW kind \in {"context", "try", "destructor"}, Enter(kind)
        PROVE  Nested'
      BY <2>2, <2>3, EnterNested
  <2>4. ASSUME NEW e \in Exception, Throw(e)
        PROVE  Nested'
      BY <2>2, <2>4, ThrowNested, ThrowForeignNested
  <2>5. ASSUME NEW e \in Exception, Rethrow(e)
        PROVE  Nested'
      BY <2>2, <2>5, RethrowNested
  <2>6. ASSUME NEW e \in Exception, Keep(e) \/ Drop(e)
        PROVE  Nested'
      BY <2>2, <2>6 DEF Keep, Drop
  <2>7. CASE PassHandler
    <3>1. Last(scopes).e = Last(flying) \/ Foreign \cap {Last(scopes).e, Last(flying)} # {}
        BY <2>7 DEF PassHandler
    <3> QED
        BY <2>2, <2>7, <3>1, PassHandlerNested
  <2>8. CASE Catch \/ PassTry \/ PassContext \/ Leave
      BY <2>2, <2>8, CatchNested, PassTryNested, PassContextNested, LeaveNested
  <2> QED
      BY <1>2, <2>3, <2>4, <2>5, <2>6, <2>7, <2>8 DEF ExceptionNext
<1> QED
    BY <1>1, <1>2

\* A set of positions has a last one.
LEMMA LastOf ==
    ASSUME NEW n \in Nat, NEW S, S \subseteq 1..n, S # {}
    PROVE  \E k \in S : \A l \in S : l <= k
<1> DEFINE T == {n - k : k \in S}
<1>1. \A k \in S : k \in Nat /\ k <= n /\ n - k \in Nat
    OBVIOUS
<1>6. T \subseteq Nat
    BY <1>1
<1>7. T # {}
  <2>1. PICK k : k \in S
      OBVIOUS
  <2>2. n - k \in T
      BY <2>1
  <2> QED
      BY <2>2
<1>8. IsWellFoundedOn(OpToRel(<, Nat), Nat)
    BY NatLessThanWellFounded
<1>2. PICK x \in T : \A y \in T : ~(<<y, x>> \in OpToRel(<, Nat))
  <2> HIDE DEF T
  <2> QED
      BY <1>6, <1>7, <1>8, WFMin
<1>3. \A y \in T : ~(y < x)
    BY <1>1, <1>2 DEF OpToRel
<1>4. PICK k \in S : x = n - k
    BY <1>2
<1>5. \A l \in S : l <= k
  <2> SUFFICES ASSUME NEW l \in S PROVE l <= k
      OBVIOUS
  <2>1. n - l \in T /\ l \in 1..n /\ k \in 1..n
      OBVIOUS
  <2>2. ~(n - l < n - k)
      BY <1>3, <1>4, <2>1
  <2> QED
      BY <2>1, <2>2
<1> QED
    BY <1>5

\* When an exception of another type passes and the count fits, the last handle is
\* that of the last handler on its level.
LEMMA TopIsHere ==
    ASSUME Nested, Unwinding, Last(flying) \in Foreign, is_in_flight
    PROVE  \E i \in Handling : /\ scopes[i].e = Last(inflight_exceptions).ptr
                               /\ \A l \in Handling : l <= i
<1> DEFINE n == Len(inflight_exceptions)
<1>1. /\ n \in Handles /\ Handles = 1..n /\ n \in Nat
      /\ Idx(n) = Inmost /\ Inmost \in Nat /\ Ptr(n) = Last(inflight_exceptions).ptr
      /\ Len(flying) = Inmost + 1 /\ DOMAIN flying = 1..Len(flying)
      /\ DOMAIN scopes = 1..Len(scopes) /\ Len(scopes) \in Nat
  <2>1. inflight_exceptions # <<>> /\ inflight_exceptions \in Seq([ptr : Exception, idx : Nat])
      BY DEF is_in_flight, Nested, StackTypes
  <2>2. n \in Nat \ {0}
      BY <2>1, FrontOf
  <2>3. Idx(n) + 1 = Len(flying)
      BY DEF is_in_flight, uncaught_exceptions, Last, Idx
  <2>4. n \in Handles
      BY <2>2, NestedFacts
  <2> QED
      BY <2>2, <2>3, <2>4, NestedFacts DEF Last, Ptr
<1>2. \A j \in DOMAIN flying : ~(flying[j] = Ptr(n) /\ Idx(n) = j - 1)
  <2> SUFFICES ASSUME NEW j \in DOMAIN flying, flying[j] = Ptr(n), Idx(n) = j - 1
               PROVE  FALSE
      OBVIOUS
  <2>1. j = Len(flying)
      BY <1>1
  <2> QED
      BY <1>1, <2>1, Holders DEF Last
<1>3. PICK i \in DOMAIN scopes : IsHandler(i) /\ scopes[i].e = Ptr(n) /\ Level(scopes, i) = Inmost
    BY <1>1, <1>2, Holders
<1>4. i \in Handling
  <2> SUFFICES ASSUME NEW j \in DOMAIN scopes, j > i, scopes[j].kind = "destructor"
               PROVE  FALSE
      BY <1>1, <1>3, Holders DEF Handling, IsHandler
  <2>1. j - 1 \in Nat /\ i \in Nat /\ i <= j - 1 /\ (j - 1) + 1 = j
      BY <1>1
  <2>2. Level(scopes, j) = Level(scopes, j - 1) + 1 /\ Level(scopes, j - 1) \in Nat
      BY <2>1, LevelGrows
  <2>3. Inmost <= Level(scopes, j - 1)
      BY <1>3, <2>1, LevelIsMonotone
  <2> QED
      BY <1>1, <2>2, <2>3, NestedFacts
<1>5. PICK k \in Handling : \A l \in Handling : l <= k
  <2>1. Handling \subseteq 1..Len(scopes)
      BY <1>1 DEF Handling
  <2> QED
      BY <1>1, <1>4, <2>1, LastOf
<1>6. k \in DOMAIN scopes /\ IsHandler(k) /\ scopes[k].e \notin Foreign /\ i <= k
    BY <1>4, <1>5 DEF Handling, IsHandler
<1>7. PICK q \in Handles : Ptr(q) = scopes[k].e
    BY <1>6, Holders
<1>8. n <= q
    BY <1>1, <1>3, <1>6, <1>7 DEF Nested, HandlesAreNested
<1>9. q = n
    BY <1>1, <1>8
<1> QED
    BY <1>1, <1>5, <1>7, <1>9

\* In the handler of a base_exception the count fits when one of another type passes.
LEMMA HereFits ==
    ASSUME Nested, Unwinding, NEW i \in Handling
    PROVE  is_in_flight
<1> DEFINE n == Len(inflight_exceptions)
<1>1. /\ i \in DOMAIN scopes /\ IsHandler(i) /\ scopes[i].e \notin Foreign
      /\ \A j \in DOMAIN scopes : j > i => scopes[j].kind # "destructor"
    BY DEF Handling, IsHandler
<1>2. /\ Len(flying) = Inmost + 1 /\ Inmost \in Nat /\ DOMAIN flying = 1..Len(flying)
      /\ DOMAIN scopes = 1..Len(scopes) /\ Len(scopes) \in Nat
      /\ n \in Nat /\ Handles = 1..n
      /\ \A p \in Handles : Idx(p) \in Nat
      /\ \A k \in DOMAIN scopes : Level(scopes, k) \in Nat /\ Level(scopes, k) <= Inmost
    BY NestedFacts
<1>3. Level(scopes, i) = Inmost
  <2>1. i \in Nat /\ i <= Len(scopes) /\ \A j \in 1..Len(scopes) : j > i => scopes[j].kind # "destructor"
      BY <1>1, <1>2
  <2> QED
      BY <1>2, <2>1, LevelStays DEF Inmost
<1>4. PICK p \in Handles : Ptr(p) = scopes[i].e /\ Idx(p) = Inmost
    BY <1>1, <1>3, Holders
<1>5. n \in Handles /\ p <= n /\ inflight_exceptions # <<>>
    BY <1>2
<1>6. Idx(p) <= Idx(n)
    BY <1>5 DEF Nested, HandlesAreNested
<1>7. Idx(n) <= Inmost
  <2>1. \A j \in DOMAIN flying : j - 1 <= Inmost
      BY <1>2
  <2> QED
      BY <1>2, <1>5, <2>1, Holders
<1>8. Idx(n) + 1 = Len(flying)
    BY <1>2, <1>4, <1>5, <1>6, <1>7
<1> QED
    BY <1>5, <1>8 DEF is_in_flight, uncaught_exceptions, Last, Idx

\* Where a line goes follows from the last handle.
LEMMA ReceiverIs ==
    ASSUME Nested, Unwinding, Inside("context")
    PROVE  Receiver = IF Last(flying) \in Foreign THEN HandledHere ELSE {Last(flying)}
<1>1. uncaught_exceptions = Last(scopes).count + 1
    BY ContextCounts DEF uncaught_exceptions
<1>2. CASE Last(flying) \notin Foreign
    BY <1>1, <1>2, TopFlies DEF Receiver, is_in_flight, uncaught_exceptions
<1>3. CASE Last(flying) \in Foreign /\ is_in_flight
  <2>1. PICK i \in Handling : /\ scopes[i].e = Last(inflight_exceptions).ptr
                              /\ \A l \in Handling : l <= i
      BY <1>3, TopIsHere
  <2>2. \A k \in Handling : (\A l \in Handling : l <= k) => k = i
    <3> SUFFICES ASSUME NEW k \in Handling, \A l \in Handling : l <= k
                 PROVE  k = i
        OBVIOUS
    <3>1. i <= k /\ k <= i /\ i \in DOMAIN scopes /\ k \in DOMAIN scopes
        BY <2>1 DEF Handling
    <3> QED
        BY <3>1, NestedFacts
  <2>3. HandledHere = {scopes[i].e}
      BY <2>1, <2>2 DEF HandledHere
  <2> QED
      BY <1>1, <1>3, <2>1, <2>3 DEF Receiver
<1>4. CASE Last(flying) \in Foreign /\ ~is_in_flight
  <2>1. Handling = {}
      BY <1>4, HereFits
  <2> QED
      BY <1>4, <2>1 DEF Receiver, HandledHere
<1> QED
    BY <1>2, <1>3, <1>4

\* However deep scopes nest and whatever destructors throw and catch, a context's
\* line is added to the base_exception that passes, and when one of another type
\* passes to nothing but what its innermost handler of a base_exception handles,
\* until a base_exception leaves the handler of another or an exception_ptr is made.
THEOREM ContextsReach == ExceptionSpec => []ContextsReachTheirException
<1>1. NestedInv => ContextsReachTheirException
    BY ReceiverIs DEF NestedInv, ContextsReachTheirException
<1> QED
    BY <1>1, InitNested, NextNested, PTL DEF ExceptionSpec
===========================================================================
