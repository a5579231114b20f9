------------------------- MODULE VersionOrderProofs -------------------------
(***************************************************************************)
(* compareVersions returns the place of its arguments in an order, and that *)
(* order is irreflexive and transitive and blind to versions that are the   *)
(* same: what sort.Slice asks of the comparison previousSlot hands it, and  *)
(* why an update that was installed is not offered again.  Of two versions  *)
(* that are not the same one is always newer.                               *)
(***************************************************************************)
EXTENDS VersionOrder, WellFoundedInduction, TLAPS

-----------------------------------------------------------------------------
(* Segments *)

LEMMA SegmentCompared ==
  ASSUME NEW x \in Segments, NEW y \in Segments
  PROVE  /\ CompareSegments(x, y) \in {-1, 0, 1}
         /\ CompareSegments(x, y) = -1 <=> SegmentBefore(x, y)
         /\ CompareSegments(x, y) = 1 <=> SegmentBefore(y, x)
         /\ CompareSegments(x, y) = 0 <=> SegmentSame(x, y)
  BY VersionAssumption, SMT
     DEF VersionAssumption, CompareSegments, compareText, Cmp, numeric, SegmentBefore, SegmentSame

LEMMA SegmentOrder ==
  ASSUME NEW x \in Segments, NEW y \in Segments, NEW z \in Segments
  PROVE  /\ ~SegmentBefore(x, x)
         /\ SegmentBefore(x, y) /\ SegmentBefore(y, z) => SegmentBefore(x, z)
         /\ SegmentSame(x, y) /\ SegmentBefore(y, z) => SegmentBefore(x, z)
         /\ SegmentBefore(x, y) /\ SegmentSame(y, z) => SegmentBefore(x, z)
         /\ SegmentSame(x, y) /\ SegmentSame(y, z) => SegmentSame(x, z)
  BY VersionAssumption, SMT DEF VersionAssumption, numeric, SegmentBefore, SegmentSame

-----------------------------------------------------------------------------
(* The loop *)

\* Up to the index the versions agree.
LoopInv ==
    /\ TypeOK
    /\ i <= Len(a) + 1 /\ i <= Len(b) + 1
    /\ AgreeTo(a, b, i - 1)
    /\ OrderCorrect

LEMMA LoopInit == Init => LoopInv
  <1> SUFFICES ASSUME Init PROVE LoopInv
    OBVIOUS
  <1>1. a \in Seq(Segments) /\ b \in Seq(Segments)
    BY VersionAssumption DEF Init, VersionAssumption
  <1> QED
    BY <1>1, SMT DEF Init, LoopInv, TypeOK, AgreeTo, OrderCorrect, Pending

LEMMA LoopStep == LoopInv /\ [Next]_vars => LoopInv'
  <1> SUFFICES ASSUME LoopInv, [Next]_vars PROVE LoopInv'
    OBVIOUS
  <1>1. a \in Seq(Segments) /\ b \in Seq(Segments)
    BY VersionAssumption DEF LoopInv, TypeOK, VersionAssumption
  <1>2. Len(a) \in Nat /\ Len(b) \in Nat
    BY <1>1
  <1>3. InBoth => a[i] \in Segments /\ b[i] \in Segments
    BY <1>1, SMT DEF InBoth, LoopInv, TypeOK
  <1>4. CASE Differ
    <2>1. a' = a /\ b' = b /\ i' = i /\ InBoth
      BY <1>4 DEF Differ
    <2>2. result' \in {-1, 1}
      BY <1>3, <1>4, <2>1, SegmentCompared DEF Differ
    <2>3. i - 1 \in 0..(Len(a) - 1) /\ i - 1 \in 0..(Len(b) - 1) /\ (i - 1) + 1 = i
      BY <1>2, <2>1, SMT DEF InBoth, LoopInv, TypeOK
    <2>4. result' = -1 => BeforeAt(a, b, i - 1)
      <3>1. result' = -1 => SegmentBefore(a[i], b[i])
        BY <1>3, <1>4, <2>1, SegmentCompared DEF Differ
      <3> QED
        BY <1>2, <2>3, <3>1, SMT DEF BeforeAt, LoopInv
    <2>5. result' = 1 => BeforeAt(b, a, i - 1)
      <3>1. AgreeTo(b, a, i - 1)
        BY DEF LoopInv, AgreeTo, SegmentSame
      <3>2. result' = 1 => SegmentBefore(b[i], a[i])
        BY <1>3, <1>4, <2>1, SegmentCompared DEF Differ
      <3> QED
        BY <1>2, <2>3, <3>1, <3>2, SMT DEF BeforeAt
    <2>6. OrderCorrect'
      BY <2>1, <2>2, <2>3, <2>4, <2>5 DEF OrderCorrect, Before
    <2> QED
      BY <2>1, <2>2, <2>6 DEF LoopInv, TypeOK, Pending
  <1>5. CASE Advance
    <2>1. SegmentSame(a[i], b[i]) /\ InBoth
      BY <1>3, <1>5, SegmentCompared DEF Advance
    <2>2. AgreeTo(a, b, (i + 1) - 1)
      BY <2>1, SMT DEF LoopInv, TypeOK, AgreeTo
    <2> QED
      BY <1>2, <1>5, <2>1, <2>2, SMT DEF Advance, InBoth, LoopInv, TypeOK, OrderCorrect, Pending
  <1>6. CASE Exhausted
    <2>1. a' = a /\ b' = b /\ i' = i /\ ~InBoth /\ result' = Cmp(Len(a), Len(b))
      BY <1>6 DEF Exhausted
    <2>2. i - 1 = Len(a) \/ i - 1 = Len(b)
      BY <1>2, <2>1, SMT DEF InBoth, LoopInv, TypeOK
    <2>3. AgreeTo(a, b, i - 1) /\ AgreeTo(b, a, i - 1)
      BY DEF LoopInv, AgreeTo, SegmentSame
    <2>4. result' = -1 => BeforeAt(a, b, Len(a)) /\ Len(a) \in 0..(Len(b) - 1)
      BY <1>2, <2>1, <2>2, <2>3, SMT DEF Cmp, BeforeAt, LoopInv, TypeOK
    <2>5. result' = 1 => BeforeAt(b, a, Len(b)) /\ Len(b) \in 0..(Len(a) - 1)
      BY <1>2, <2>1, <2>2, <2>3, SMT DEF Cmp, BeforeAt, LoopInv, TypeOK
    <2>6. result' = 0 => Same(a, b)
      BY <1>2, <2>1, <2>2, <2>3, SMT DEF Cmp, Same, LoopInv, TypeOK
    <2>7. OrderCorrect'
      BY <2>1, <2>4, <2>5, <2>6 DEF OrderCorrect, Before
    <2> QED
      BY <1>2, <2>1, <2>7, SMT DEF LoopInv, TypeOK, Cmp, Pending
  <1>7. CASE UNCHANGED vars
    BY <1>7 DEF vars, LoopInv, TypeOK, AgreeTo, OrderCorrect, Before, BeforeAt, Same
  <1> QED
    BY <1>4, <1>5, <1>6, <1>7 DEF Next

\* sysupdate.go:183-216: the index stays at a segment or just past the end, and
\* the value returned is a sign.
THEOREM TypeCorrect == Spec => []TypeOK
  BY LoopInit, LoopStep, PTL DEF Spec, LoopInv

\* sysupdate.go:183-216: the loop returns the lexicographic order of any two
\* versions.
THEOREM CompareCorrect == Spec => []OrderCorrect
  BY LoopInit, LoopStep, PTL DEF Spec, LoopInv

-----------------------------------------------------------------------------
(* The order *)

LEMMA AgreeSymmetric ==
  ASSUME NEW u, NEW v, NEW k, AgreeTo(u, v, k) PROVE AgreeTo(v, u, k)
  BY DEF AgreeTo, SegmentSame

\* upgrade.go:91: a version is never newer than itself.
THEOREM NotNewerThanItself == ASSUME NEW u \in Versions PROVE ~Before(u, u)
  <1>1. u \in Seq(Segments)
    BY VersionAssumption DEF VersionAssumption
  <1> SUFFICES ASSUME NEW k \in 0..(Len(u) - 1), BeforeAt(u, u, k) PROVE FALSE
    BY DEF Before
  <1>2. k < Len(u) /\ u[k + 1] \in Segments
    BY <1>1, SMT
  <1> QED
    BY <1>2, SegmentOrder DEF BeforeAt

\* Two disagreements in a row: the earlier one decides.
LEMMA BeforeAtTransitive ==
  ASSUME NEW u \in Versions, NEW v \in Versions, NEW w \in Versions,
         NEW k \in 0..(Len(v) - 1), NEW l \in 0..(Len(w) - 1),
         BeforeAt(u, v, k), BeforeAt(v, w, l)
  PROVE  Before(u, w)
  <1>1. u \in Seq(Segments) /\ v \in Seq(Segments) /\ w \in Seq(Segments)
    BY VersionAssumption DEF VersionAssumption
  <1>2. Len(u) \in Nat /\ Len(v) \in Nat /\ Len(w) \in Nat
    BY <1>1
  <1>3. k <= Len(u) /\ k < Len(v) /\ l <= Len(v) /\ l < Len(w)
    BY <1>2, SMT DEF BeforeAt
  <1>4. CASE k <= l
    <2>1. AgreeTo(u, w, k)
      <3> SUFFICES ASSUME NEW j \in 1..k PROVE SegmentSame(u[j], w[j])
        BY DEF AgreeTo
      <3>1. u[j] \in Segments /\ v[j] \in Segments /\ w[j] \in Segments /\ j \in 1..l
        BY <1>1, <1>2, <1>3, <1>4, SMT
      <3> QED
        BY <3>1, SegmentOrder DEF BeforeAt, AgreeTo
    <2>2. CASE k < Len(u)
      <3>1. u[k + 1] \in Segments /\ v[k + 1] \in Segments /\ w[k + 1] \in Segments
        BY <1>1, <1>2, <1>3, <1>4, <2>2, SMT
      <3>2. SegmentBefore(u[k + 1], v[k + 1])
        BY <2>2 DEF BeforeAt
      <3>3. SegmentSame(v[k + 1], w[k + 1]) \/ SegmentBefore(v[k + 1], w[k + 1])
        BY <1>2, <1>3, <1>4, SMT DEF BeforeAt, AgreeTo
      <3>4. BeforeAt(u, w, k)
        BY <1>3, <2>1, <3>1, <3>2, <3>3, SegmentOrder DEF BeforeAt
      <3> QED
        BY <1>2, <1>3, <1>4, <3>4, SMT DEF Before
    <2>3. CASE ~(k < Len(u))
      <3>1. BeforeAt(u, w, k)
        BY <1>3, <2>1, <2>3 DEF BeforeAt
      <3> QED
        BY <1>2, <1>3, <1>4, <3>1, SMT DEF Before
    <2> QED
      BY <2>2, <2>3
  <1>5. CASE l < k
    <2>1. AgreeTo(u, w, l)
      <3> SUFFICES ASSUME NEW j \in 1..l PROVE SegmentSame(u[j], w[j])
        BY DEF AgreeTo
      <3>1. u[j] \in Segments /\ v[j] \in Segments /\ w[j] \in Segments /\ j \in 1..k
        BY <1>1, <1>2, <1>3, <1>5, SMT
      <3> QED
        BY <3>1, SegmentOrder DEF BeforeAt, AgreeTo
    <2>2. u[l + 1] \in Segments /\ v[l + 1] \in Segments /\ w[l + 1] \in Segments
      BY <1>1, <1>2, <1>3, <1>5, SMT
    <2>3. SegmentSame(u[l + 1], v[l + 1])
      BY <1>2, <1>5, SMT DEF BeforeAt, AgreeTo
    <2>4. SegmentBefore(v[l + 1], w[l + 1])
      BY <1>2, <1>3, <1>5, SMT DEF BeforeAt
    <2>5. BeforeAt(u, w, l)
      <3>1. SegmentBefore(u[l + 1], w[l + 1])
        BY <2>2, <2>3, <2>4, SegmentOrder
      <3> QED
        BY <1>2, <1>3, <1>5, <2>1, <3>1, SMT DEF BeforeAt
    <2> QED
      BY <2>5 DEF Before
  <1> QED
    BY <1>2, <1>4, <1>5, SMT

\* upgrade.go:274-276: the comparison sort.Slice is given is transitive.
THEOREM OrderTransitive ==
  ASSUME NEW u \in Versions, NEW v \in Versions, NEW w \in Versions,
         Before(u, v), Before(v, w)
  PROVE  Before(u, w)
  <1>1. PICK k \in 0..(Len(v) - 1) : BeforeAt(u, v, k)
    BY DEF Before
  <1>2. PICK l \in 0..(Len(w) - 1) : BeforeAt(v, w, l)
    BY DEF Before
  <1> QED
    BY <1>1, <1>2, BeforeAtTransitive

\* Two versions are never each newer than the other.
THEOREM OrderAsymmetric ==
  ASSUME NEW u \in Versions, NEW v \in Versions, Before(u, v)
  PROVE  ~Before(v, u)
  BY OrderTransitive, NotNewerThanItself

\* Versions that compare as equal ("v1.2", "1.2") stand in the same place.
THEOREM OrderRespectsSame ==
  ASSUME NEW u \in Versions, NEW v \in Versions, NEW w \in Versions,
         Same(u, v), Before(v, w)
  PROVE  Before(u, w)
  <1>1. u \in Seq(Segments) /\ v \in Seq(Segments) /\ w \in Seq(Segments)
    BY VersionAssumption DEF VersionAssumption
  <1>2. PICK k \in 0..(Len(w) - 1) : BeforeAt(v, w, k)
    BY DEF Before
  <1>3. Len(u) = Len(v) /\ Len(u) \in Nat /\ Len(w) \in Nat /\ k <= Len(v) /\ k < Len(w)
    BY <1>1, <1>2, SMT DEF Same, BeforeAt
  <1>4. AgreeTo(u, w, k)
    <2> SUFFICES ASSUME NEW j \in 1..k PROVE SegmentSame(u[j], w[j])
      BY DEF AgreeTo
    <2>1. u[j] \in Segments /\ v[j] \in Segments /\ w[j] \in Segments /\ j \in 1..Len(u)
      BY <1>1, <1>3, SMT
    <2> QED
      BY <1>2, <2>1, SegmentOrder DEF Same, BeforeAt, AgreeTo
  <1>5. ASSUME k < Len(u) PROVE SegmentBefore(u[k + 1], w[k + 1])
    <2>1. /\ u[k + 1] \in Segments /\ v[k + 1] \in Segments /\ w[k + 1] \in Segments
          /\ k + 1 \in 1..Len(u)
      BY <1>1, <1>3, <1>5, SMT
    <2>2. SegmentBefore(v[k + 1], w[k + 1])
      BY <1>2, <1>3, <1>5 DEF BeforeAt
    <2> QED
      BY <2>1, <2>2, SegmentOrder DEF Same, AgreeTo
  <1>6. BeforeAt(u, w, k)
    BY <1>3, <1>4, <1>5 DEF BeforeAt
  <1> QED
    BY <1>6 DEF Before

-----------------------------------------------------------------------------
(* Totality.  The first place where two versions differ is the least number *)
(* of a set, which NatLessThanWellFounded provides.                         *)

LEMMA LeastNumber ==
  ASSUME NEW S \in SUBSET Nat, S # {} PROVE \E m \in S : \A k \in S : m <= k
  <1> DEFINE R == {ss \in Nat \X Nat : ss[1] < ss[2]}
  <1>1. IsWellFoundedOn(R, Nat)
    BY NatLessThanWellFounded, Zenon DEF OpToRel
  <1> HIDE DEF R
  <1>2. PICK m \in S : \A k \in S : <<k, m>> \notin R
    BY <1>1, WFMin, Zenon
  <1>3. \A k \in S : ~(k < m)
    BY <1>2 DEF R
  <1> QED
    BY <1>2, <1>3

\* The shorter of two versions that agree as far as both go is the older.
LEMMA PrefixOrder ==
  ASSUME NEW u \in Versions, NEW v \in Versions, Len(u) <= Len(v), AgreeTo(u, v, Len(u))
  PROVE  Before(u, v) \/ Same(u, v)
  <1>1. u \in Seq(Segments) /\ v \in Seq(Segments)
    BY VersionAssumption DEF VersionAssumption
  <1>2. Len(u) \in Nat /\ Len(v) \in Nat
    BY <1>1
  <1>3. CASE Len(u) = Len(v)
    BY <1>3 DEF Same
  <1>4. CASE Len(u) < Len(v)
    <2>1. Len(u) \in 0..(Len(v) - 1) /\ BeforeAt(u, v, Len(u))
      BY <1>2, <1>4 DEF BeforeAt
    <2> QED
      BY <2>1 DEF Before
  <1> QED
    BY <1>2, <1>3, <1>4

\* upgrade.go:88-95, sysupdate.go:183-216: of any two versions one is newer or they are
\* the same, so a release that is not offered is the installed one or an older one.
THEOREM OrderTotal ==
  ASSUME NEW u \in Versions, NEW v \in Versions
  PROVE  Before(u, v) \/ Before(v, u) \/ Same(u, v)
  <1>1. u \in Seq(Segments) /\ v \in Seq(Segments)
    BY VersionAssumption DEF VersionAssumption
  <1>2. Len(u) \in Nat /\ Len(v) \in Nat
    BY <1>1
  <1> DEFINE D == {k \in Nat : k < Len(u) /\ k < Len(v) /\ ~SegmentSame(u[k + 1], v[k + 1])}
  <1>3. CASE D = {}
    <2>1. \A j \in 1..Len(u) : j <= Len(v) => SegmentSame(u[j], v[j])
      <3> SUFFICES ASSUME NEW j \in 1..Len(u), j <= Len(v), ~SegmentSame(u[j], v[j]) PROVE FALSE
        OBVIOUS
      <3>1. j - 1 \in Nat /\ j - 1 < Len(u) /\ j - 1 < Len(v) /\ (j - 1) + 1 = j
        BY <1>2
      <3> QED
        BY <1>3, <3>1
    <2>2. CASE Len(u) <= Len(v)
      BY <1>2, <2>1, <2>2, PrefixOrder DEF AgreeTo
    <2>3. CASE Len(v) <= Len(u)
      <3>1. AgreeTo(v, u, Len(v))
        BY <1>2, <2>1, <2>3 DEF AgreeTo, SegmentSame
      <3>2. Before(v, u) \/ Same(v, u)
        BY <2>3, <3>1, PrefixOrder
      <3> QED
        BY <3>2, AgreeSymmetric DEF Same
    <2> QED
      BY <1>2, <2>2, <2>3
  <1>4. CASE D # {}
    <2>1. PICK k \in D : \A l \in D : k <= l
      BY <1>4, LeastNumber
    <2>2. /\ k \in Nat /\ k < Len(u) /\ k < Len(v) /\ ~SegmentSame(u[k + 1], v[k + 1])
          /\ k \in 0..(Len(u) - 1) /\ k \in 0..(Len(v) - 1)
      BY <1>2, <2>1
    <2>3. AgreeTo(u, v, k) /\ AgreeTo(v, u, k)
      <3>1. AgreeTo(u, v, k)
        <4> SUFFICES ASSUME NEW j \in 1..k, ~SegmentSame(u[j], v[j]) PROVE FALSE
          BY DEF AgreeTo
        <4>1. /\ j - 1 \in Nat /\ j - 1 < Len(u) /\ j - 1 < Len(v) /\ (j - 1) + 1 = j
              /\ j - 1 < k
          BY <1>2, <2>2
        <4>2. j - 1 \in D
          BY <4>1
        <4> QED
          BY <2>1, <2>2, <4>1, <4>2
      <3> QED
        BY <3>1, AgreeSymmetric
    <2>4. BeforeAt(u, v, k) \/ BeforeAt(v, u, k)
      BY <2>2, <2>3 DEF BeforeAt, SegmentSame
    <2> QED
      BY <2>2, <2>4 DEF Before
  <1> QED
    BY <1>3, <1>4

=============================================================================
