---------------------------- MODULE VersionOrder ----------------------------
(***************************************************************************)
(* compareVersions (internal/machine/sysupdate.go), which decides whether   *)
(* an update is available and sorts the rollback slots.  A version is the   *)
(* sequence of segments splitVersion yields; a segment is known by the      *)
(* number its digits spell and by the place of its lower-case form in the   *)
(* order of strings.  The loop is a state machine over its index, so that   *)
(* its result can be proved equal to an order stated without it.            *)
(***************************************************************************)
EXTENDS Integers, Sequences

CONSTANTS
    Segments,   \* non-empty strings between separators
    Decimal,    \* the number a segment spells, -1 if it spells none
    Folded,     \* the place of a segment's lower-case form among strings
    MaxInt64,   \* the largest number ParseInt accepts
    Versions    \* the versions to compare

ASSUME VersionAssumption ==
    /\ Decimal \in [Segments -> Int]
    /\ Folded \in [Segments -> Int]
    /\ MaxInt64 \in Nat
    /\ Versions \subseteq Seq(Segments)

VARIABLES
    a, b,   \* the two versions
    i,        \* the loop index
    result    \* the value returned, or Pending

vars == <<a, b, i, result>>

Pending == 2

-----------------------------------------------------------------------------
\* ParseInt fails on anything but an integer (there is no "-" in a segment),
\* and on one beyond 64 bits.
numeric(x) == 0 <= Decimal[x] /\ Decimal[x] <= MaxInt64

\* Mutant: the difference instead of its sign.
MutantCmp(m, n) == m - n

Cmp(m, n) == IF m < n THEN -1 ELSE IF m > n THEN 1 ELSE 0

compareText(x, y) == Cmp(Folded[x], Folded[y])

\* Mutant: a number beats a text only on the left side.
MutantCompareSegments(x, y) ==
    IF numeric(x) THEN IF numeric(y) THEN Cmp(Decimal[x], Decimal[y]) ELSE 1
                  ELSE compareText(x, y)

\* The body of the loop.
CompareSegments(x, y) ==
    IF numeric(x) THEN IF numeric(y) THEN Cmp(Decimal[x], Decimal[y]) ELSE 1
                  ELSE IF numeric(y) THEN -1 ELSE compareText(x, y)

-----------------------------------------------------------------------------
Init ==
    /\ a \in Versions /\ b \in Versions
    /\ i = 1 /\ result = Pending

InBoth == i <= Len(a) /\ i <= Len(b)

\* The segments at i differ: the loop returns.
Differ ==
    /\ result = Pending /\ InBoth
    /\ CompareSegments(a[i], b[i]) # 0
    /\ result' = CompareSegments(a[i], b[i])
    /\ UNCHANGED <<a, b, i>>

Advance ==
    /\ result = Pending /\ InBoth
    /\ CompareSegments(a[i], b[i]) = 0
    /\ i' = i + 1
    /\ UNCHANGED <<a, b, result>>

\* One version is a prefix of the other.
Exhausted ==
    /\ result = Pending /\ ~InBoth
    /\ result' = Cmp(Len(a), Len(b))
    /\ UNCHANGED <<a, b, i>>

Next == Differ \/ Advance \/ Exhausted

Spec == Init /\ [][Next]_vars

-----------------------------------------------------------------------------
(* The order, stated without the loop *)

\* Texts before numbers, each by its own order.
SegmentBefore(x, y) ==
    \/ ~numeric(x) /\ numeric(y)
    \/ numeric(x) /\ numeric(y) /\ Decimal[x] < Decimal[y]
    \/ ~numeric(x) /\ ~numeric(y) /\ Folded[x] < Folded[y]

SegmentSame(x, y) == ~SegmentBefore(x, y) /\ ~SegmentBefore(y, x)

\* u and v agree on their first k segments.
AgreeTo(u, v, k) == \A j \in 1..k : SegmentSame(u[j], v[j])

\* The first disagreement, at k + 1, is for u.
BeforeAt(u, v, k) ==
    /\ k <= Len(u)
    /\ AgreeTo(u, v, k)
    /\ k < Len(u) => SegmentBefore(u[k + 1], v[k + 1])

Before(u, v) == \E k \in 0..(Len(v) - 1) : BeforeAt(u, v, k)

Same(u, v) == Len(u) = Len(v) /\ AgreeTo(u, v, Len(u))

-----------------------------------------------------------------------------
(* Properties *)

TypeOK ==
    /\ a \in Versions /\ b \in Versions
    /\ i \in Nat \ {0} /\ result \in {-1, 0, 1, Pending}

\* sysupdate.go:177-178: what compareVersions returns is the place of a and b
\* in the lexicographic order of their segments, for versions of any length
\* and numbers of any size.
OrderCorrect ==
    /\ result = -1 => Before(a, b)
    /\ result = 1 => Before(b, a)
    /\ result = 0 => Same(a, b)
=============================================================================
