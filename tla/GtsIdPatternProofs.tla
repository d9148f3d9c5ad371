------------------------- MODULE GtsIdPatternProofs -------------------------
(***************************************************************************)
(* Coverage is exact: a pattern covers another one just when it selects    *)
(* whatever the other selects (CoverageSound, CoverageComplete), for names *)
(* of any number and length, chains of any length, and every length limit. *)
(*                                                                         *)
(* `covers` compares two selections, and says yes without looking when     *)
(* nothing that the other selects fits under the limit.  So what has to be *)
(* shown is that a pattern selects what its selection says (Selects), that *)
(* nothing selected is shorter than shortest_selected claims (NotShorter), *)
(* and that at the limit there is only one shape left (AtLimit).  For the  *)
(* converse one identifier is enough: as short as shortest_selected says,  *)
(* and as unlike the covering pattern as what the other leaves open admits *)
(* (OpenWitness); if that one is selected, the comparison holds.           *)
(***************************************************************************)
EXTENDS GtsIdPattern, SequenceTheorems, WellFoundedInduction, TLAPS

-----------------------------------------------------------------------------
(* Sums of sequences. *)

(* A set of naturals that is not empty has a least element. *)
LEMMA LeastNumber ==
    ASSUME NEW T \in SUBSET Nat, T # {}
    PROVE  \E least \in T : \A k \in T : least <= k
<1>1. \E x \in T : \A y \in T : ~ (<<y, x>> \in OpToRel(<, Nat))
  BY WFMin, NatLessThanWellFounded
<1>2. PICK x \in T : \A y \in T : ~ (<<y, x>> \in OpToRel(<, Nat))
  BY <1>1
<1>3. \A y \in T : y < x => <<y, x>> \in OpToRel(<, Nat)
  BY DEF OpToRel
<1>4. \A y \in T : ~ (y < x)
  BY <1>2, <1>3, Zenon
<1> QED
  BY <1>4

(* upto[k] is the sum of the first k numbers of s. *)
Sums(upto, s, n) == upto = [k \in 0 .. n |-> IF k = 0 THEN 0 ELSE upto[k - 1] + s[k]]

LEMMA SumsExist ==
    ASSUME NEW s, NEW n \in Nat
    PROVE  \E upto : Sums(upto, s, n)
<1> DEFINE Fails == {m \in Nat : ~ \E upto : Sums(upto, s, m)}
<1> SUFFICES ASSUME Fails # {} PROVE FALSE
  OBVIOUS
<1>1. PICK m \in Fails : \A k \in Fails : m <= k
  BY LeastNumber
<1>2. CASE m = 0
  <2>1. Sums([k \in 0 .. 0 |-> 0], s, 0)
    BY DEF Sums
  <2> QED
    BY <1>1, <1>2, <2>1
<1>3. CASE m # 0
  <2>1. m \in Nat /\ m - 1 \in Nat /\ m - 1 \notin Fails
    BY <1>1, <1>3
  <2>2. PICK upto : Sums(upto, s, m - 1)
    BY <2>1
  <2> DEFINE next == [k \in 0 .. m |-> IF k = m THEN upto[m - 1] + s[m] ELSE upto[k]]
  <2>3. ASSUME NEW k \in 0 .. m
        PROVE  next[k] = IF k = 0 THEN 0 ELSE next[k - 1] + s[k]
    <3>1. CASE k = m
      BY <1>3, <2>1, <3>1
    <3>2. CASE k # m
      <4>1. k \in 0 .. m - 1 /\ (k # 0 => k - 1 \in 0 .. m - 1)
        BY <2>1, <3>2
      <4>2. upto[k] = IF k = 0 THEN 0 ELSE upto[k - 1] + s[k]
        BY <2>2, <4>1 DEF Sums
      <4>3. next[k] = upto[k] /\ (k # 0 => next[k - 1] = upto[k - 1])
        BY <2>1, <3>2, <4>1
      <4> QED
        BY <4>2, <4>3
    <3> QED
      BY <3>1, <3>2
  <2>4. Sums(next, s, m)
    BY <2>3 DEF Sums
  <2> QED
    BY <1>1, <2>4
<1> QED
  BY <1>2, <1>3

LEMMA SumsNatural ==
    ASSUME NEW n \in Nat, NEW u, NEW s, u[0] = 0,
           \A k \in 1 .. n : s[k] \in Nat /\ u[k] = u[k - 1] + s[k]
    PROVE  \A k \in 0 .. n : u[k] \in Nat
<1>1. PICK fails : fails = {k \in 0 .. n : u[k] \notin Nat}
  OBVIOUS
<1> SUFFICES ASSUME fails # {} PROVE FALSE
  BY <1>1
<1>2. PICK k \in fails : \A i \in fails : k <= i
  <2>1. fails \in SUBSET Nat
    BY <1>1
  <2> QED
    BY <2>1, LeastNumber
<1>3. k \in 1 .. n /\ k - 1 \in 0 .. n
  BY <1>1, <1>2
<1>4. k - 1 \notin fails
  BY <1>2, <1>3
<1>5. u[k - 1] \in Nat
  BY <1>1, <1>3, <1>4
<1>6. u[k] \in Nat
  BY <1>3, <1>5
<1> QED
  BY <1>1, <1>2, <1>6

LEMMA TotalIs ==
    ASSUME NEW s \in Seq(Nat)
    PROVE  \E upto : /\ upto[0] = 0
                     /\ \A k \in 1 .. Len(s) : upto[k] = upto[k - 1] + s[k]
                     /\ \A k \in 0 .. Len(s) : upto[k] \in Nat
                     /\ Total(s) = upto[Len(s)]
<1>0. Len(s) \in Nat /\ \A k \in 1 .. Len(s) : s[k] \in Nat
  BY LenProperties
<1>1. PICK upto : upto = CHOOSE f : Sums(f, s, Len(s))
  OBVIOUS
<1>2. Sums(upto, s, Len(s))
  BY <1>0, <1>1, SumsExist
<1>3. Total(s) = upto[Len(s)]
  BY <1>1 DEF Total, Sums
<1>4. upto[0] = 0 /\ \A k \in 1 .. Len(s) : upto[k] = upto[k - 1] + s[k]
  BY <1>0, <1>2 DEF Sums
<1>5. \A k \in 0 .. Len(s) : upto[k] \in Nat
  BY <1>0, <1>4, SumsNatural
<1> QED
  BY <1>3, <1>4, <1>5

(* What starts below and never grows faster stays below. *)
LEMMA StaysBelow ==
    ASSUME NEW n \in Nat, NEW a, NEW b, \A k \in 0 .. n : a[k] \in Nat /\ b[k] \in Nat,
           a[0] <= b[0], \A k \in 1 .. n : a[k] + b[k - 1] <= a[k - 1] + b[k]
    PROVE  a[n] <= b[n]
<1>1. PICK fails : fails = {k \in 0 .. n : ~ (a[k] <= b[k])}
  OBVIOUS
<1> SUFFICES ASSUME fails # {} PROVE FALSE
  BY <1>1
<1>2. PICK k \in fails : \A i \in fails : k <= i
  <2>1. fails \in SUBSET Nat
    BY <1>1
  <2> QED
    BY <2>1, LeastNumber
<1>3. k \in 1 .. n /\ k \in 0 .. n /\ k - 1 \in 0 .. n
  BY <1>1, <1>2
<1>4. k - 1 \notin fails
  BY <1>2, <1>3
<1>5. a[k - 1] <= b[k - 1]
  BY <1>1, <1>3, <1>4
<1>6. a[k] <= b[k]
  BY <1>3, <1>5
<1> QED
  BY <1>1, <1>2, <1>6

(* u and b are the sums of s and of t. *)
AreSums(u, s, n, b, t, m) ==
    /\ n \in Nat /\ m \in Nat /\ n <= m
    /\ \A k \in 1 .. n : s[k] \in Nat /\ t[k] \in Nat /\ s[k] <= t[k]
    /\ \A k \in 1 .. m : t[k] \in Nat
    /\ u[0] = 0 /\ \A k \in 1 .. n : u[k] = u[k - 1] + s[k]
    /\ b[0] = 0 /\ \A k \in 1 .. m : b[k] = b[k - 1] + t[k]
    /\ \A k \in 0 .. n : u[k] \in Nat
    /\ \A k \in 0 .. m : b[k] \in Nat

LEMMA TotalsAreSums ==
    ASSUME NEW s \in Seq(Nat), NEW t \in Seq(Nat), Len(s) <= Len(t),
           \A k \in 1 .. Len(s) : s[k] <= t[k]
    PROVE  \E u, b : /\ AreSums(u, s, Len(s), b, t, Len(t))
                     /\ Total(s) = u[Len(s)] /\ Total(t) = b[Len(t)]
<1>1. PICK u : /\ u[0] = 0 /\ \A k \in 1 .. Len(s) : u[k] = u[k - 1] + s[k]
               /\ \A k \in 0 .. Len(s) : u[k] \in Nat
               /\ Total(s) = u[Len(s)]
  BY TotalIs
<1>2. PICK b : /\ b[0] = 0 /\ \A k \in 1 .. Len(t) : b[k] = b[k - 1] + t[k]
               /\ \A k \in 0 .. Len(t) : b[k] \in Nat
               /\ Total(t) = b[Len(t)]
  BY TotalIs
<1>3. /\ Len(s) \in Nat /\ Len(t) \in Nat
      /\ \A k \in 1 .. Len(s) : s[k] \in Nat
      /\ \A k \in 1 .. Len(t) : t[k] \in Nat
  BY LenProperties
<1>4. \A k \in 1 .. Len(s) : s[k] \in Nat /\ t[k] \in Nat /\ s[k] <= t[k]
  BY <1>3
<1>5. AreSums(u, s, Len(s), b, t, Len(t))
  BY <1>1, <1>2, <1>3, <1>4 DEF AreSums
<1> QED
  BY <1>1, <1>2, <1>5

(* Up to n the sum of t is ahead by as much as t grew, and after that by    *)
(* whatever is added.                                                      *)
LEMMA SumsGrow ==
    ASSUME NEW u, NEW s, NEW n, NEW b, NEW t, NEW m, AreSums(u, s, n, b, t, m),
           NEW j \in 1 .. m, NEW d \in Nat,
           j <= n => s[j] + d <= t[j], j > n => d <= t[j]
    PROVE  u[n] + d <= b[m]
<1>0. n \in Nat /\ m \in Nat /\ n <= m /\ j \in Nat /\ j # 0 /\ n \in 0 .. n
  BY DEF AreSums
<1>1. PICK a : a = [k \in 0 .. m |-> (IF k <= n THEN u[k] ELSE u[n]) + (IF k < j THEN 0 ELSE d)]
  OBVIOUS
<1>2. \A k \in 0 .. m : a[k] \in Nat /\ b[k] \in Nat
  <2>1. \A k \in 0 .. m : k <= n => k \in 0 .. n
    BY <1>0
  <2>2. /\ \A k \in 0 .. n : u[k] \in Nat
        /\ \A k \in 0 .. m : b[k] \in Nat
    BY DEF AreSums
  <2> QED
    BY <1>0, <1>1, <2>1, <2>2
<1>3. a[0] <= b[0]
  <2>1. u[0] = 0 /\ b[0] = 0
    BY DEF AreSums
  <2> QED
    BY <1>0, <1>1, <2>1
<1>4. ASSUME NEW k \in 1 .. m
      PROVE  a[k] + b[k - 1] <= a[k - 1] + b[k]
  <2>1. /\ k \in Nat /\ k \in 0 .. m /\ k - 1 \in 0 .. m
        /\ b[k] = b[k - 1] + t[k] /\ b[k - 1] \in Nat /\ t[k] \in Nat
    BY <1>0 DEF AreSums
  <2>2. CASE k <= n
    <3>1. /\ a[k] = u[k] + (IF k < j THEN 0 ELSE d)
          /\ a[k - 1] = u[k - 1] + (IF k - 1 < j THEN 0 ELSE d)
      BY <1>0, <1>1, <2>1, <2>2
    <3>2. u[k] = u[k - 1] + s[k] /\ u[k - 1] \in Nat /\ s[k] \in Nat /\ s[k] <= t[k]
      BY <1>0, <2>1, <2>2 DEF AreSums
    <3>3. CASE k = j
      <4>1. a[k] = u[k] + d /\ a[k - 1] = u[k - 1] + 0 /\ s[k] + d <= t[k]
        BY <1>0, <2>2, <3>1, <3>3
      <4> QED
        BY <2>1, <3>2, <4>1
    <3>4. CASE k # j
      <4>1. k < j <=> k - 1 < j
        BY <1>0, <2>1, <3>4
      <4>2. CASE k < j
        BY <2>1, <3>1, <3>2, <4>1, <4>2
      <4>3. CASE ~ (k < j)
        BY <2>1, <3>1, <3>2, <4>1, <4>3
      <4> QED
        BY <4>2, <4>3
    <3> QED
      BY <3>3, <3>4
  <2>3. CASE ~ (k <= n)
    <3>1. /\ a[k] = u[n] + (IF k < j THEN 0 ELSE d)
          /\ a[k - 1] = u[n] + (IF k - 1 < j THEN 0 ELSE d)
      <4>1. k - 1 <= n => k - 1 = n
        BY <1>0, <2>1, <2>3
      <4> QED
        BY <1>1, <2>1, <2>3, <4>1
    <3>2. u[n] \in Nat
      BY <1>0 DEF AreSums
    <3>3. CASE k = j
      <4>1. a[k] = u[n] + d /\ a[k - 1] = u[n] + 0 /\ d <= t[k]
        BY <1>0, <2>3, <3>1, <3>3
      <4> QED
        BY <2>1, <3>2, <4>1
    <3>4. CASE k # j
      <4>1. k < j <=> k - 1 < j
        BY <1>0, <2>1, <3>4
      <4>2. CASE k < j
        BY <2>1, <3>1, <3>2, <4>1, <4>2
      <4>3. CASE ~ (k < j)
        BY <2>1, <3>1, <3>2, <4>1, <4>3
      <4> QED
        BY <4>2, <4>3
    <3> QED
      BY <3>3, <3>4
  <2> QED
    BY <2>2, <2>3
<1>5. a[m] <= b[m]
  BY <1>0, <1>2, <1>3, <1>4, StaysBelow
<1>6. a[m] = u[n] + d
  <2>1. m <= n => m = n
    BY <1>0
  <2> QED
    BY <1>0, <1>1, <2>1
<1> QED
  BY <1>5, <1>6

LEMMA SumsGrowByEach ==
    ASSUME NEW u, NEW s, NEW n, NEW b, NEW t, NEW m, AreSums(u, s, n, b, t, m),
           \A k \in n + 1 .. m : 1 <= t[k]
    PROVE  u[n] + (m - n) <= b[m]
<1>0. n \in Nat /\ m \in Nat /\ n <= m /\ n \in 0 .. n
  BY DEF AreSums
<1>1. PICK a : a = [k \in 0 .. m |-> IF k <= n THEN u[k] ELSE u[n] + (k - n)]
  OBVIOUS
<1>2. \A k \in 0 .. m : a[k] \in Nat /\ b[k] \in Nat
  <2>1. \A k \in 0 .. m : IF k <= n THEN k \in 0 .. n ELSE k - n \in Nat
    BY <1>0
  <2>2. /\ \A k \in 0 .. n : u[k] \in Nat
        /\ \A k \in 0 .. m : b[k] \in Nat
    BY DEF AreSums
  <2> QED
    BY <1>0, <1>1, <2>1, <2>2
<1>3. a[0] <= b[0]
  <2>1. u[0] = 0 /\ b[0] = 0
    BY DEF AreSums
  <2> QED
    BY <1>0, <1>1, <2>1
<1>4. ASSUME NEW k \in 1 .. m
      PROVE  a[k] + b[k - 1] <= a[k - 1] + b[k]
  <2>1. /\ k \in Nat /\ k \in 0 .. m /\ k - 1 \in 0 .. m
        /\ b[k] = b[k - 1] + t[k] /\ b[k - 1] \in Nat /\ t[k] \in Nat
    BY <1>0 DEF AreSums
  <2>2. CASE k <= n
    <3>1. a[k] = u[k] /\ a[k - 1] = u[k - 1]
      BY <1>0, <1>1, <2>1, <2>2
    <3>2. u[k] = u[k - 1] + s[k] /\ u[k - 1] \in Nat /\ s[k] \in Nat /\ s[k] <= t[k]
      BY <1>0, <2>1, <2>2 DEF AreSums
    <3> QED
      BY <2>1, <3>1, <3>2
  <2>3. CASE ~ (k <= n)
    <3>1. u[n] \in Nat /\ k \in n + 1 .. m /\ k - n \in Nat /\ k - 1 - n \in Nat
      BY <1>0, <2>1, <2>3 DEF AreSums
    <3>2. a[k] = u[n] + (k - n)
      BY <1>1, <2>1, <2>3
    <3>3. a[k - 1] = u[n] + (k - 1 - n)
      <4>1. CASE k - 1 <= n
        <5>1. k - 1 = n
          BY <1>0, <2>1, <2>3, <4>1
        <5> QED
          BY <1>0, <1>1, <2>1, <3>1, <5>1
      <4>2. CASE ~ (k - 1 <= n)
        BY <1>1, <2>1, <4>2
      <4> QED
        BY <4>1, <4>2
    <3>4. 1 <= t[k]
      BY <3>1
    <3> QED
      BY <1>0, <2>1, <3>1, <3>2, <3>3, <3>4
  <2> QED
    BY <2>2, <2>3
<1>5. a[m] <= b[m]
  BY <1>0, <1>2, <1>3, <1>4, StaysBelow
<1>6. a[m] = u[n] + (m - n)
  <2>1. u[n] \in Nat /\ (m <= n => m = n)
    BY <1>0 DEF AreSums
  <2> QED
    BY <1>0, <1>1, <2>1
<1> QED
  BY <1>5, <1>6

(* Where numbers only grow, and one of them by d, the sum grows by d.  A    *)
(* number that is missing counts as 0.                                     *)
LEMMA TotalGrows ==
    ASSUME NEW s \in Seq(Nat), NEW t \in Seq(Nat), Len(s) <= Len(t),
           \A k \in 1 .. Len(s) : s[k] <= t[k],
           NEW j \in 1 .. Len(t), NEW d \in Nat,
           j <= Len(s) => s[j] + d <= t[j], j > Len(s) => d <= t[j]
    PROVE  Total(s) + d <= Total(t)
<1>1. PICK u, b : /\ AreSums(u, s, Len(s), b, t, Len(t))
                  /\ Total(s) = u[Len(s)] /\ Total(t) = b[Len(t)]
  BY TotalsAreSums
<1> QED
  BY <1>1, SumsGrow

(* Where every further number is at least 1, each of them counts.           *)
LEMMA TotalGrowsByEach ==
    ASSUME NEW s \in Seq(Nat), NEW t \in Seq(Nat), Len(s) <= Len(t),
           \A k \in 1 .. Len(s) : s[k] <= t[k],
           \A k \in Len(s) + 1 .. Len(t) : 1 <= t[k]
    PROVE  Total(s) + (Len(t) - Len(s)) <= Total(t)
<1>1. PICK u, b : /\ AreSums(u, s, Len(s), b, t, Len(t))
                  /\ Total(s) = u[Len(s)] /\ Total(t) = b[Len(t)]
  BY TotalsAreSums
<1> QED
  BY <1>1, SumsGrowByEach

LEMMA TotalNatural ==
    ASSUME NEW s \in Seq(Nat)
    PROVE  Total(s) \in Nat
<1>1. Len(s) \in 0 .. Len(s)
  BY LenProperties
<1> QED
  BY <1>1, TotalIs

-----------------------------------------------------------------------------
(* Lengths of segments. *)

Exact == Named \cup UuidTail

Widths(names) == [k \in DOMAIN names |-> TokenLength[names[k]]]

LEMMA NamesTyped ==
    ASSUME WellFormed, NEW n \in Nat, NEW names \in [1 .. n -> Tokens]
    PROVE  /\ Len(names) = n /\ DOMAIN names = 1 .. n
           /\ Widths(names) \in Seq(Nat) /\ Len(Widths(names)) = n
           /\ \A k \in 1 .. n : Widths(names)[k] = TokenLength[names[k]] /\ 1 <= Widths(names)[k]
           /\ NamesLength(names) = Total(Widths(names)) /\ NamesLength(names) \in Nat
<1>1. /\ names \in Seq(Tokens) /\ Len(names) = n /\ DOMAIN names = 1 .. n
  BY LenProperties
<1>2. \A k \in 1 .. n : TokenLength[names[k]] \in Nat \ {0}
  BY DEF WellFormed
<1>3. Widths(names) \in [1 .. n -> Nat]
  BY <1>1, <1>2 DEF Widths
<1>4. Widths(names) \in Seq(Nat) /\ Len(Widths(names)) = n
  BY <1>3, LenProperties
<1>5. \A k \in 1 .. n : Widths(names)[k] = TokenLength[names[k]] /\ 1 <= Widths(names)[k]
  BY <1>1, <1>2 DEF Widths
<1>6. NamesLength(names) = Total(Widths(names))
  BY DEF NamesLength, Widths
<1> QED
  BY <1>1, <1>4, <1>5, <1>6, TotalNatural

(* Every name that follows takes at least one letter. *)
LEMMA NamesLonger ==
    ASSUME WellFormed, NEW n \in Nat, NEW names \in [1 .. n -> Tokens],
           NEW m \in Nat, NEW more \in [1 .. m -> Tokens],
           n <= m, \A k \in 1 .. n : names[k] = more[k]
    PROVE  NamesLength(names) + (m - n) <= NamesLength(more)
<1> DEFINE s == Widths(names)
           t == Widths(more)
<1>1. /\ s \in Seq(Nat) /\ Len(s) = n /\ NamesLength(names) = Total(s)
      /\ \A k \in 1 .. n : s[k] = TokenLength[names[k]] /\ 1 <= s[k]
  BY NamesTyped
<1>2. /\ t \in Seq(Nat) /\ Len(t) = m /\ NamesLength(more) = Total(t)
      /\ \A k \in 1 .. m : t[k] = TokenLength[more[k]] /\ 1 <= t[k]
  BY NamesTyped
<1> HIDE DEF s, t
<1>3. \A k \in 1 .. Len(s) : s[k] <= t[k]
  <2>0. Len(s) = n
    BY <1>1
  <2> SUFFICES ASSUME NEW k \in 1 .. n PROVE s[k] <= t[k]
    BY <2>0
  <2>1. k \in 1 .. m /\ names[k] = more[k]
    OBVIOUS
  <2>2. s[k] = t[k]
    <3>1. s[k] = TokenLength[names[k]]
      BY <1>1
    <3>2. t[k] = TokenLength[more[k]]
      BY <1>2, <2>1
    <3> QED
      BY <2>1, <3>1, <3>2
  <2>3. s[k] \in Nat
    BY <1>1, ElementOfSeq
  <2> QED
    BY <2>2, <2>3
<1>4. \A k \in Len(s) + 1 .. Len(t) : 1 <= t[k]
  BY <1>1, <1>2
<1> QED
  BY <1>1, <1>2, <1>3, <1>4, TotalGrowsByEach

LEMMA NamedLength ==
    ASSUME WellFormed, NEW seg \in Named
    PROVE  /\ SegmentLength(seg) =
                 NamesLength(seg.names) + Fields + 1 + DigitCount[seg.major]
                     + (IF seg.minor = None THEN 0 ELSE 1 + DigitCount[seg.minor])
                     + (IF seg.is_type THEN 1 ELSE 0)
           /\ NamesLength(seg.names) \in Nat /\ DigitCount[seg.major] \in Nat \ {0}
           /\ seg.minor # None => DigitCount[seg.minor] \in Nat \ {0}
           /\ seg.is_type \in BOOLEAN
           /\ seg.kind = "named" /\ seg.uuid = None
           /\ seg.names \in [1 .. Fields -> Tokens] /\ seg.major # None /\ seg.major \in Versions
<1>1. /\ seg.kind = "named" /\ seg.uuid = None
      /\ seg.names \in [1 .. Fields -> Tokens] /\ seg.major \in Versions /\ seg.major # None
      /\ seg.minor \in Versions \cup {None} /\ seg.is_type \in BOOLEAN
  BY DEF Named, WellFormed
<1>2. Fields \in Nat /\ DigitCount[seg.major] \in Nat \ {0}
      /\ (seg.minor # None => DigitCount[seg.minor] \in Nat \ {0})
  BY <1>1 DEF WellFormed
<1>3. NamesLength(seg.names) \in Nat /\ Len(seg.names) = Fields
  BY <1>1, <1>2, NamesTyped
<1>4. SegmentLength(seg) =
          NamesLength(seg.names) + Fields + (1 + DigitCount[seg.major])
              + (IF seg.minor = None THEN 0 ELSE 1 + DigitCount[seg.minor])
              + (IF seg.is_type THEN 1 ELSE 0) + 0
  BY <1>1, <1>3 DEF SegmentLength, IsWildcard
<1>5. PICK minor \in Nat : minor = IF seg.minor = None THEN 0 ELSE 1 + DigitCount[seg.minor]
  BY <1>2
<1>6. PICK mark \in Nat : mark = IF seg.is_type THEN 1 ELSE 0
  OBVIOUS
<1>7. SegmentLength(seg) =
          NamesLength(seg.names) + Fields + 1 + DigitCount[seg.major] + minor + mark
  <2> DEFINE width == NamesLength(seg.names)
             digits == DigitCount[seg.major]
  <2>1. SegmentLength(seg) = width + Fields + (1 + digits) + minor + mark + 0
    BY <1>4, <1>5, <1>6
  <2>2. width \in Nat /\ digits \in Nat /\ Fields \in Nat
    BY <1>2, <1>3
  <2> HIDE DEF width, digits
  <2>3. SegmentLength(seg) = width + Fields + 1 + digits + minor + mark
    BY <2>1, <2>2
  <2> QED
    BY <2>3 DEF width, digits
<1>8. SegmentLength(seg) =
          NamesLength(seg.names) + Fields + 1 + DigitCount[seg.major]
              + (IF seg.minor = None THEN 0 ELSE 1 + DigitCount[seg.minor])
              + (IF seg.is_type THEN 1 ELSE 0)
  BY <1>5, <1>6, <1>7
<1> QED
  BY <1>1, <1>2, <1>3, <1>8

(* A wildcard that stands for a part of a segment. *)
LEMMA PartialTyped ==
    ASSUME WellFormed, NEW part \in Wildcard
    PROVE  \E n \in 0 .. Fields :
              /\ part.names \in [1 .. n -> Tokens] /\ Len(part.names) = n
              /\ DOMAIN part.names = 1 .. n /\ NamesLength(part.names) \in Nat
              /\ n = 0 <=> IsBare(part)
              /\ part.kind = "wildcard" /\ part.uuid = None /\ part.minor = None
              /\ part.is_type = FALSE
              /\ part.major # None =>
                    /\ n = Fields /\ part.major \in Versions /\ DigitCount[part.major] \in Nat \ {0}
                    /\ ShortestPartial(part) =
                          NamesLength(part.names) + Fields + 1 + DigitCount[part.major] + 2
              /\ part.major = None =>
                    ShortestPartial(part) = NamesLength(part.names) + (Fields - n) + Fields + 2
<1>0. Fields \in Nat \ {0}
  BY DEF WellFormed
<1>1. /\ part.kind = "wildcard" /\ part.uuid = None /\ part.minor = None /\ part.is_type = FALSE
      /\ part.major = None \/ part.major \in Versions
  BY DEF Wildcard
<1>2. \E n \in 0 .. Fields :
         part.names \in [1 .. n -> Tokens] /\ (part.major # None => n = Fields)
  <2>1. CASE part \in [kind : {"wildcard"}, names : [1 .. Fields -> Tokens],
                       major : Versions, minor : {None}, is_type : {FALSE}, uuid : {None}]
    BY <1>0, <2>1
  <2>2. CASE part \in [kind : {"wildcard"}, names : UNION {[1 .. n -> Tokens] : n \in 0 .. Fields},
                       major : {None}, minor : {None}, is_type : {FALSE}, uuid : {None}]
    BY <2>2
  <2> QED
    BY <2>1, <2>2 DEF Wildcard
<1>3. PICK n \in 0 .. Fields :
         part.names \in [1 .. n -> Tokens] /\ (part.major # None => n = Fields)
  BY <1>2
<1>4. n \in Nat /\ Len(part.names) = n /\ DOMAIN part.names = 1 .. n /\ NamesLength(part.names) \in Nat
  BY <1>0, <1>3, NamesTyped
<1>5. n = 0 <=> IsBare(part)
  <2>1. part.names = <<>> <=> n = 0
    <3>1. part.names \in Seq(Tokens)
      BY <1>3, <1>4, LenProperties
    <3> QED
      BY <1>4, <3>1, EmptySeq
  <2> QED
    BY <1>1, <2>1 DEF IsBare, IsWildcard, NoNames
<1>6. ASSUME part.major # None
      PROVE  /\ DigitCount[part.major] \in Nat \ {0} /\ part.major \in Versions
             /\ ShortestPartial(part) =
                   NamesLength(part.names) + Fields + 1 + DigitCount[part.major] + 2
  <2>1. DigitCount[part.major] \in Nat \ {0} /\ part.major \in Versions
    BY <1>1, <1>6 DEF WellFormed
  <2>2. SegmentLength(part) =
            NamesLength(part.names) + n + (1 + DigitCount[part.major]) + 0 + 0 + 2
    BY <1>1, <1>4, <1>6 DEF SegmentLength, IsWildcard
  <2> QED
    BY <1>0, <1>3, <1>4, <1>6, <2>1, <2>2 DEF ShortestPartial
<1>7. part.major = None => ShortestPartial(part) = NamesLength(part.names) + (Fields - n) + Fields + 2
  BY <1>4 DEF ShortestPartial
<1> QED
  BY <1>1, <1>3, <1>4, <1>5, <1>6, <1>7

(* The shortest text that a partial segment stands for is the shortest. *)
LEMMA AdmittedLength ==
    ASSUME WellFormed, NEW part \in Wildcard, NEW seg \in Named, Admits(part, seg)
    PROVE  /\ ShortestPartial(part) \in Nat
           /\ ShortestPartial(part) + (IF seg.is_type THEN 1 ELSE 0) <= SegmentLength(seg)
<1>0. Fields \in Nat \ {0}
  BY DEF WellFormed
<1>1. PICK n \in 0 .. Fields :
          /\ part.names \in [1 .. n -> Tokens] /\ Len(part.names) = n
          /\ DOMAIN part.names = 1 .. n /\ NamesLength(part.names) \in Nat
          /\ part.major # None =>
                /\ n = Fields /\ part.major \in Versions /\ DigitCount[part.major] \in Nat \ {0}
                /\ ShortestPartial(part) =
                      NamesLength(part.names) + Fields + 1 + DigitCount[part.major] + 2
          /\ part.major = None =>
                ShortestPartial(part) = NamesLength(part.names) + (Fields - n) + Fields + 2
  BY PartialTyped
<1>2. PICK minor \in Nat : minor = IF seg.minor = None THEN 0 ELSE 1 + DigitCount[seg.minor]
  BY NamedLength
<1>3. PICK mark \in Nat : mark = IF seg.is_type THEN 1 ELSE 0
  OBVIOUS
<1>4. /\ SegmentLength(seg) =
            NamesLength(seg.names) + Fields + 1 + DigitCount[seg.major] + minor + mark
      /\ NamesLength(seg.names) \in Nat /\ DigitCount[seg.major] \in Nat \ {0}
      /\ seg.names \in [1 .. Fields -> Tokens]
  BY <1>2, <1>3, NamedLength
<1>5. NamesLength(part.names) + (Fields - n) <= NamesLength(seg.names)
  <2>1. \A k \in 1 .. n : part.names[k] = seg.names[k]
    BY <1>1 DEF Admits, NamesCover
  <2>2. n \in Nat /\ n <= Fields /\ part.names \in [1 .. n -> Tokens]
    BY <1>0, <1>1
  <2> QED
    BY <1>0, <1>4, <2>1, <2>2, NamesLonger
<1>6. PICK x \in Nat, y \in Nat, digits \in Nat \ {0}, rest \in Nat :
          /\ x = NamesLength(part.names) /\ y = NamesLength(seg.names)
          /\ digits = DigitCount[seg.major] /\ rest = Fields - n
  BY <1>0, <1>1, <1>4
<1>7. /\ SegmentLength(seg) = y + Fields + 1 + digits + minor + mark
      /\ x + rest <= y
  BY <1>4, <1>5, <1>6
<1>8. CASE part.major # None
  <2>1. seg.major = part.major /\ minor # 0 /\ minor # 1
    <3>1. seg.major = part.major /\ seg.minor # None
      BY <1>8 DEF Admits
    <3>2. DigitCount[seg.minor] \in Nat \ {0}
      BY <3>1, NamedLength
    <3> QED
      BY <1>2, <3>1, <3>2
  <2>2. ShortestPartial(part) = x + Fields + 1 + digits + 2 /\ x <= y
    BY <1>0, <1>1, <1>6, <1>7, <1>8, <2>1
  <2> QED
    BY <1>0, <1>3, <1>7, <2>1, <2>2
<1>9. CASE part.major = None
  <2>1. ShortestPartial(part) = x + rest + Fields + 2
    BY <1>1, <1>6, <1>9
  <2> QED
    BY <1>0, <1>3, <1>7, <2>1
<1> QED
  BY <1>8, <1>9

LEMMA NamedNotShorter ==
    ASSUME WellFormed, NEW seg \in Named
    PROVE  /\ ShortestSegment \in Nat
           /\ ShortestSegment + (IF seg.is_type THEN 1 ELSE 0) <= SegmentLength(seg)
<1>0. Fields \in Nat \ {0}
  BY DEF WellFormed
<1>1. PICK minor \in Nat : minor = IF seg.minor = None THEN 0 ELSE 1 + DigitCount[seg.minor]
  BY NamedLength
<1>2. PICK mark \in Nat : mark = IF seg.is_type THEN 1 ELSE 0
  OBVIOUS
<1>3. /\ SegmentLength(seg) =
            NamesLength(seg.names) + Fields + 1 + DigitCount[seg.major] + minor + mark
      /\ NamesLength(seg.names) \in Nat /\ DigitCount[seg.major] \in Nat \ {0}
      /\ seg.names \in [1 .. Fields -> Tokens]
  BY <1>1, <1>2, NamedLength
<1>4. Fields <= NamesLength(seg.names)
  <2>1. PICK names : names \in [1 .. 0 -> Tokens]
    <3>1. [k \in 1 .. 0 |-> None] \in [1 .. 0 -> Tokens]
      OBVIOUS
    <3> QED
      BY <3>1
  <2>2. 0 <= Fields /\ 0 \in Nat /\ Fields \in Nat /\ \A k \in 1 .. 0 : names[k] = seg.names[k]
    BY <1>0
  <2>3. NamesLength(names) + (Fields - 0) <= NamesLength(seg.names)
    BY <1>3, <2>1, <2>2, NamesLonger
  <2>4. NamesLength(names) \in Nat
    BY <2>1, NamesTyped
  <2> QED
    BY <1>0, <1>3, <2>3, <2>4
<1>5. PICK y \in Nat, digits \in Nat \ {0} :
          y = NamesLength(seg.names) /\ digits = DigitCount[seg.major]
  BY <1>3
<1>6. SegmentLength(seg) = y + Fields + 1 + digits + minor + mark /\ Fields <= y
  BY <1>3, <1>4, <1>5
<1>7. ShortestSegment = Fields + Fields + 2
  BY <1>0 DEF ShortestSegment
<1> QED
  BY <1>0, <1>2, <1>6, <1>7

LEMMA ExactLength ==
    ASSUME WellFormed, NEW seg \in Exact
    PROVE  SegmentLength(seg) \in Nat \ {0}
<1>1. CASE seg \in Named
  <2>1. ShortestSegment + (IF seg.is_type THEN 1 ELSE 0) <= SegmentLength(seg)
    BY <1>1, NamedNotShorter
  <2>2. PICK minor \in Nat : minor = IF seg.minor = None THEN 0 ELSE 1 + DigitCount[seg.minor]
    BY <1>1, NamedLength
  <2>3. PICK mark \in Nat : mark = IF seg.is_type THEN 1 ELSE 0
    OBVIOUS
  <2>4. /\ SegmentLength(seg) =
              NamesLength(seg.names) + Fields + 1 + DigitCount[seg.major] + minor + mark
        /\ NamesLength(seg.names) \in Nat /\ DigitCount[seg.major] \in Nat \ {0} /\ Fields \in Nat
    BY <1>1, <2>2, <2>3, NamedLength DEF WellFormed
  <2> QED
    BY <2>4
<1>2. CASE seg \in UuidTail
  BY <1>2 DEF UuidTail, SegmentLength, WellFormed
<1> QED
  BY <1>1, <1>2 DEF Exact

(* What matches a segment is at least as long: a minor may be added. *)
LEMMA MatchedLength ==
    ASSUME WellFormed, NEW a \in Exact, NEW b \in Exact, SegmentMatches(a, b)
    PROVE  /\ SegmentLength(a) <= SegmentLength(b)
           /\ a \in Named <=> b \in Named
<1>1. CASE a \in UuidTail
  <2>1. a.uuid # None /\ b.uuid = a.uuid
    BY <1>1 DEF UuidTail, WellFormed, SegmentMatches
  <2>2. b \in UuidTail /\ b \notin Named /\ a \notin Named
    BY <1>1, <2>1 DEF Exact, Named, UuidTail
  <2>3. SegmentLength(a) = UuidLength /\ SegmentLength(b) = UuidLength
    BY <1>1, <2>2 DEF UuidTail, SegmentLength
  <2> QED
    BY <2>2, <2>3 DEF WellFormed
<1>2. CASE a \in Named
  <2>1. a.names = b.names /\ a.major = b.major /\ a.is_type = b.is_type
        /\ (a.minor # None => a.minor = b.minor)
    BY DEF SegmentMatches
  <2>2. b \in Named
    <3>1. b.major # None
      BY <1>2, <2>1, NamedLength
    <3> QED
      BY <3>1 DEF Exact, UuidTail
  <2>3. PICK x \in Nat : x = IF a.minor = None THEN 0 ELSE 1 + DigitCount[a.minor]
    BY <1>2, NamedLength
  <2>4. PICK y \in Nat : y = IF b.minor = None THEN 0 ELSE 1 + DigitCount[b.minor]
    BY <2>2, NamedLength
  <2>5. PICK mark \in Nat : mark = IF a.is_type THEN 1 ELSE 0
    OBVIOUS
  <2>6. x <= y
    BY <2>1, <2>3, <2>4
  <2>7. /\ SegmentLength(a) =
              NamesLength(a.names) + Fields + 1 + DigitCount[a.major] + x + mark
        /\ NamesLength(a.names) \in Nat /\ DigitCount[a.major] \in Nat \ {0} /\ Fields \in Nat
    BY <1>2, <2>3, <2>5, NamedLength DEF WellFormed
  <2>8. SegmentLength(b) =
              NamesLength(b.names) + Fields + 1 + DigitCount[b.major] + y + mark
    BY <2>1, <2>2, <2>4, <2>5, NamedLength
  <2> QED
    BY <1>2, <2>1, <2>2, <2>6, <2>7, <2>8
<1> QED
  BY <1>1, <1>2 DEF Exact

-----------------------------------------------------------------------------
(* Shapes of identifiers and patterns, and what a pattern selects. *)

LEMMA FrontIs ==
    ASSUME NEW S, NEW s \in Seq(S), s # <<>>
    PROVE  /\ Len(s) \in Nat \ {0} /\ Last(s) = s[Len(s)] /\ Last(s) \in S
           /\ Front(s) \in Seq(S) /\ Len(Front(s)) = Len(s) - 1
           /\ DOMAIN Front(s) = 1 .. Len(s) - 1
           /\ \A k \in 1 .. Len(s) - 1 : Front(s)[k] = s[k]
<1>1. Len(s) \in Nat \ {0} /\ \A k \in 1 .. Len(s) : s[k] \in S
  BY LenProperties, EmptySeq
<1>2. \A k \in 1 .. Len(s) - 1 : s[k] \in S
  BY <1>1
<1>3. /\ Front(s) \in Seq(S)
      /\ Len(Front(s)) = IF 1 <= Len(s) - 1 THEN (Len(s) - 1) - 1 + 1 ELSE 0
      /\ \A k \in 1 .. (Len(s) - 1) - 1 + 1 : Front(s)[k] = s[1 + k - 1]
  <2>1. 1 \in Int /\ Len(s) - 1 \in Int
    BY <1>1
  <2> QED
    BY <1>2, <2>1, SubSeqProperties DEF Front
<1>4. Len(Front(s)) = Len(s) - 1
  <2>1. PICK n \in Nat \ {0} : n = Len(s)
    BY <1>1
  <2>2. (IF 1 <= n - 1 THEN (n - 1) - 1 + 1 ELSE 0) = n - 1
    BY <2>1
  <2> QED
    BY <1>3, <2>1, <2>2
<1>5. \A k \in 1 .. Len(s) - 1 : Front(s)[k] = s[k]
  <2> TAKE k \in 1 .. Len(s) - 1
  <2>1. k \in 1 .. (Len(s) - 1) - 1 + 1 /\ 1 + k - 1 = k
    BY <1>1
  <2> QED
    BY <1>3, <2>1
<1>6. DOMAIN Front(s) = 1 .. Len(s) - 1
  BY <1>3, <1>4, LenProperties
<1> QED
  BY <1>1, <1>3, <1>4, <1>5, <1>6 DEF Last

LEMMA SeqOfNamed ==
    ASSUME NEW S, NEW s \in Seq(S), \A k \in 1 .. Len(s) : s[k] \in Named
    PROVE  s \in Seq(Named)
<1>1. Len(s) \in Nat /\ s \in [1 .. Len(s) -> S]
  BY LenProperties
<1>2. s \in [1 .. Len(s) -> Named]
  BY <1>1
<1> QED
  BY <1>1, <1>2, SeqDef

LEMMA NamedOrUuid ==
    ASSUME NEW seg \in Exact
    PROVE  /\ seg \in Named <=> seg.kind = "named"
           /\ ~ IsWildcard(seg)
           /\ seg.is_type => seg \in Named
BY DEF Exact, Named, UuidTail, IsWildcard

LEMMA IdentifierShape ==
    ASSUME NEW id, IsIdentifier(id)
    PROVE  /\ id \in Seq(Exact) /\ Len(id) \in Nat \ {0}
           /\ \A k \in 1 .. Len(id) : id[k] \in Exact
           /\ \A k \in 1 .. Len(id) - 1 : id[k] \in Named /\ id[k].is_type
           /\ id[1] \in Named /\ id[1].is_type
           /\ TextLength(id) <= MaxLength
<1>1. id \in Seq(Exact) /\ id # <<>>
  BY DEF IsIdentifier, Exact
<1>2. Len(id) \in Nat \ {0} /\ \A k \in 1 .. Len(id) : id[k] \in Exact
  BY <1>1, LenProperties, EmptySeq
<1>3. \A k \in 1 .. Len(id) - 1 : id[k] \in Named /\ id[k].is_type
  <2> TAKE k \in 1 .. Len(id) - 1
  <2>1. Front(id)[k].kind = "named" /\ Front(id)[k].is_type
    BY <1>1, FrontIs DEF IsIdentifier, AllTypes
  <2>2. Front(id)[k] = id[k] /\ id[k] \in Exact
    BY <1>1, <1>2, FrontIs
  <2> QED
    BY <2>1, <2>2, NamedOrUuid
<1>4. id[1] \in Named /\ id[1].is_type
  <2>1. CASE Len(id) = 1
    <3>1. id[1].is_type
      BY <2>1 DEF IsIdentifier, Last
    <3>2. id[1] \in Exact
      BY <1>2
    <3> QED
      BY <3>1, <3>2, NamedOrUuid
  <2>2. CASE Len(id) # 1
    <3>1. 1 \in 1 .. Len(id) - 1
      BY <1>2, <2>2
    <3> QED
      BY <1>3, <3>1
  <2> QED
    BY <2>1, <2>2
<1> QED
  BY <1>1, <1>2, <1>3, <1>4 DEF IsIdentifier

LEMMA PatternShape ==
    ASSUME NEW p, IsPattern(p)
    PROVE  /\ Len(p) \in Nat \ {0} /\ p # <<>>
           /\ Last(p) = p[Len(p)] /\ Len(Front(p)) = Len(p) - 1 /\ Front(p) \in Seq(Named)
           /\ \A k \in 1 .. Len(p) - 1 :
                 /\ Front(p)[k] = p[k] /\ p[k] \in Named /\ p[k].is_type /\ ~ IsWildcard(p[k])
           /\ IF IsWildcard(Last(p)) THEN Last(p) \in Wildcard ELSE Last(p) \in Exact /\ IsIdentifier(p)
<1>1. CASE IsIdentifier(p)
  <2>1. p \in Seq(Exact) /\ p # <<>>
    BY <1>1 DEF IsIdentifier, Exact
  <2>2. /\ Len(p) \in Nat \ {0} /\ Last(p) = p[Len(p)] /\ Last(p) \in Exact
        /\ Front(p) \in Seq(Exact) /\ Len(Front(p)) = Len(p) - 1
        /\ \A k \in 1 .. Len(p) - 1 : Front(p)[k] = p[k]
    BY <2>1, FrontIs
  <2>3. \A k \in 1 .. Len(p) - 1 : p[k] \in Named /\ p[k].is_type /\ p[k] \in Exact
    BY <1>1, IdentifierShape DEF Exact
  <2>4. Front(p) \in Seq(Named)
    <3>1. \A k \in 1 .. Len(Front(p)) : Front(p)[k] \in Named
      BY <2>2, <2>3
    <3> QED
      BY <2>2, <3>1, SeqOfNamed
  <2> QED
    BY <1>1, <2>1, <2>2, <2>3, <2>4, NamedOrUuid
<1>2. CASE /\ p \in Seq(Named \cup Wildcard) /\ p # <<>>
           /\ Last(p) \in Wildcard /\ AllTypes(Front(p))
  <2>1. /\ Len(p) \in Nat \ {0} /\ Last(p) = p[Len(p)]
        /\ Front(p) \in Seq(Named \cup Wildcard) /\ Len(Front(p)) = Len(p) - 1
        /\ DOMAIN Front(p) = 1 .. Len(p) - 1
        /\ \A k \in 1 .. Len(p) - 1 : Front(p)[k] = p[k]
    BY <1>2, FrontIs
  <2>2. ASSUME NEW k \in 1 .. Len(p) - 1
        PROVE  p[k] \in Named /\ p[k].is_type /\ ~ IsWildcard(p[k])
    <3>1. p[k].kind = "named" /\ p[k].is_type
      BY <1>2, <2>1, <2>2 DEF AllTypes
    <3>2. k \in 1 .. Len(p)
      BY <2>1
    <3>3. p[k] \in Named \cup Wildcard
      BY <1>2, <3>2, ElementOfSeq
    <3> QED
      BY <3>1, <3>3 DEF Wildcard, IsWildcard
  <2>3. Front(p) \in Seq(Named)
    <3>1. \A k \in 1 .. Len(Front(p)) : Front(p)[k] \in Named
      BY <2>1, <2>2
    <3> QED
      BY <2>1, <3>1, SeqOfNamed
  <2>4. IsWildcard(Last(p))
    BY <1>2 DEF Wildcard, IsWildcard
  <2> QED
    BY <1>2, <2>1, <2>2, <2>3, <2>4
<1> QED
  BY <1>1, <1>2 DEF IsPattern

IsSelection(sel) ==
    /\ sel.instance \in BOOLEAN
    /\ sel.types \in Seq(Named) /\ \A k \in 1 .. Len(sel.types) : sel.types[k].is_type
    /\ sel.instance => sel.types # <<>> /\ sel.next \in Exact /\ ~ sel.next.is_type
    /\ ~ sel.instance => sel.next = None \/ (sel.next \in Wildcard /\ ~ IsBare(sel.next))

Selects(sel, id) ==
    /\ Len(sel.types) <= Len(id)
    /\ \A k \in 1 .. Len(sel.types) : SegmentMatches(sel.types[k], id[k])
    /\ sel.instance =>
          Len(id) = Len(sel.types) + 1 /\ SegmentMatches(sel.next, id[Len(sel.types) + 1])
    /\ ~ sel.instance /\ sel.next # None =>
          Len(sel.types) < Len(id) /\ Admits(sel.next, id[Len(sel.types) + 1])

LEMMA SelectionTyped ==
    ASSUME WellFormed, NEW p, IsPattern(p)
    PROVE  IsSelection(SelectionOf(p))
<1>1. /\ Len(p) \in Nat \ {0} /\ p # <<>>
      /\ Last(p) = p[Len(p)] /\ Len(Front(p)) = Len(p) - 1 /\ Front(p) \in Seq(Named)
      /\ \A k \in 1 .. Len(Front(p)) : Front(p)[k].is_type
      /\ IF IsWildcard(Last(p)) THEN Last(p) \in Wildcard ELSE Last(p) \in Exact /\ IsIdentifier(p)
  BY PatternShape
<1>2. CASE IsWildcard(Last(p))
  BY <1>1, <1>2 DEF SelectionOf, IsSelection
<1>3. CASE ~ IsWildcard(Last(p)) /\ Last(p).is_type
  <2>1. p \in Seq(Exact) /\ \A k \in 1 .. Len(p) : p[k] \in Named /\ p[k].is_type
    <3>1. p \in Seq(Exact) /\ \A k \in 1 .. Len(p) - 1 : p[k] \in Named /\ p[k].is_type
      BY <1>1, <1>3, IdentifierShape
    <3>2. p[Len(p)] \in Named /\ p[Len(p)].is_type
      BY <1>1, <1>3, NamedOrUuid
    <3>3. \A k \in 1 .. Len(p) : k = Len(p) \/ k \in 1 .. Len(p) - 1
      BY <1>1
    <3> QED
      BY <3>1, <3>2, <3>3
  <2>2. p \in Seq(Named)
    BY <2>1, SeqOfNamed
  <2> QED
    BY <1>3, <2>1, <2>2 DEF SelectionOf, IsSelection
<1>4. CASE ~ IsWildcard(Last(p)) /\ ~ Last(p).is_type
  <2>1. Len(p) # 1
    BY <1>1, <1>4, IdentifierShape
  <2>2. Front(p) # <<>>
    BY <1>1, <2>1, EmptySeq
  <2> QED
    BY <1>1, <1>4, <2>2 DEF SelectionOf, IsSelection
<1> QED
  BY <1>2, <1>3, <1>4

(* matches_views agrees with the selection that covers reads (SelectionOf). *)
LEMMA MatchesSelects ==
    ASSUME WellFormed, NEW p, IsPattern(p), NEW id, IsIdentifier(id)
    PROVE  Matches(p, id) <=> Selects(SelectionOf(p), id)
<1>1. /\ Len(p) \in Nat \ {0} /\ p # <<>>
      /\ Last(p) = p[Len(p)] /\ Len(Front(p)) = Len(p) - 1
      /\ \A k \in 1 .. Len(p) - 1 : Front(p)[k] = p[k] /\ ~ IsWildcard(p[k])
      /\ IF IsWildcard(Last(p)) THEN Last(p) \in Wildcard ELSE Last(p) \in Exact /\ IsIdentifier(p)
  BY PatternShape
<1>2. /\ Len(id) \in Nat \ {0} /\ \A k \in 1 .. Len(id) : id[k] \in Exact
      /\ \A k \in 1 .. Len(id) - 1 : id[k].is_type
  BY IdentifierShape
<1> DEFINE last == Len(p)
           sel == SelectionOf(p)
<1>3. last \in 1 .. last /\ \A k \in 1 .. last : k = last \/ k \in 1 .. last - 1
  BY <1>1
<1>4. Len(p) - 1 + 1 = Len(p) /\ (Len(p) - 1 < Len(id) <=> Len(p) <= Len(id))
  BY <1>1, <1>2
<1>5. CASE IsBare(p[last])
  <2>1. sel = [instance |-> FALSE, types |-> Front(p), next |-> None]
    BY <1>1, <1>5 DEF SelectionOf, IsBare
  <2>2. \A seg : Admits(p[last], seg)
    <3>1. p[last].names = <<>> /\ p[last] \in Wildcard
      BY <1>1, <1>5 DEF IsBare, NoNames
    <3>2. p[last].major = None
      <4>1. PICK n \in 0 .. Fields : (n = 0 <=> IsBare(p[last])) /\ (p[last].major # None => n = Fields)
        BY <3>1, PartialTyped
      <4> QED
        BY <1>5, <4>1 DEF WellFormed
    <3>3. DOMAIN p[last].names = {}
      BY <3>1
    <3> QED
      BY <3>2, <3>3 DEF Admits, NamesCover
  <2>3. Matches(p, id) <=>
            /\ Len(p) - 1 <= Len(id)
            /\ \A k \in 1 .. Len(p) - 1 : SegmentMatches(p[k], id[k])
    <3>1. ASSUME Matches(p, id), NEW k \in 1 .. Len(p) - 1
          PROVE  SegmentMatches(p[k], id[k])
      <4>1. k \in 1 .. Len(p) /\ k <= Len(id)
        BY <1>1, <1>2, <1>5, <3>1 DEF Matches
      <4> QED
        BY <1>1, <3>1, <4>1 DEF Matches
    <3>2. Matches(p, id) => Len(p) - 1 <= Len(id)
      BY <1>5 DEF Matches
    <3>3. ASSUME Len(p) - 1 <= Len(id), \A k \in 1 .. Len(p) - 1 : SegmentMatches(p[k], id[k])
          PROVE  Matches(p, id)
      <4>1. \A k \in 1 .. last : IF IsWildcard(p[k]) THEN Admits(p[k], id[k]) ELSE SegmentMatches(p[k], id[k])
        BY <1>1, <1>3, <1>5, <2>2, <3>3 DEF IsBare
      <4> QED
        BY <1>5, <3>3, <4>1 DEF Matches
    <3> QED
      BY <3>1, <3>2, <3>3
  <2>4. Selects(sel, id) <=>
            /\ Len(p) - 1 <= Len(id)
            /\ \A k \in 1 .. Len(p) - 1 : SegmentMatches(p[k], id[k])
    BY <1>1, <2>1 DEF Selects
  <2> QED
    BY <2>3, <2>4
<1>6. ASSUME ~ IsBare(p[last])
      PROVE  Matches(p, id) <=>
                /\ Len(p) <= Len(id)
                /\ \A k \in 1 .. Len(p) - 1 : SegmentMatches(p[k], id[k])
                /\ IF IsWildcard(p[last]) THEN Admits(p[last], id[last])
                   ELSE SegmentMatches(p[last], id[last])
  <2>1. Matches(p, id) <=>
            /\ Len(p) <= Len(id)
            /\ \A k \in 1 .. Len(p) : k <= Len(id) =>
                  IF IsWildcard(p[k]) THEN Admits(p[k], id[k]) ELSE SegmentMatches(p[k], id[k])
    BY <1>6 DEF Matches
  <2>2. Len(p) <= Len(id) => \A k \in 1 .. Len(p) : k <= Len(id)
    BY <1>1, <1>2
  <2>3. \A k \in 1 .. Len(p) - 1 : k \in 1 .. Len(p)
    BY <1>1
  <2> QED
    BY <1>1, <1>3, <2>1, <2>2, <2>3
<1>7. CASE IsWildcard(p[last]) /\ ~ IsBare(p[last])
  <2>1. sel = [instance |-> FALSE, types |-> Front(p), next |-> p[last]]
    BY <1>1, <1>7 DEF SelectionOf
  <2>2. p[last] # None
    BY <1>1, <1>7 DEF WellFormed
  <2>3. Selects(sel, id) <=>
            /\ Len(p) - 1 <= Len(id)
            /\ \A k \in 1 .. Len(p) - 1 : SegmentMatches(p[k], id[k])
            /\ Len(p) - 1 < Len(id) /\ Admits(p[last], id[last])
    BY <1>1, <1>4, <2>1, <2>2 DEF Selects
  <2> QED
    BY <1>1, <1>2, <1>4, <1>6, <1>7, <2>3
<1>8. CASE ~ IsWildcard(p[last]) /\ p[last].is_type
  <2>1. sel = [instance |-> FALSE, types |-> p, next |-> None] /\ ~ IsBare(p[last])
    BY <1>1, <1>8 DEF SelectionOf, IsBare
  <2>2. Selects(sel, id) <=>
            /\ Len(p) <= Len(id)
            /\ \A k \in 1 .. Len(p) : SegmentMatches(p[k], id[k])
    BY <2>1 DEF Selects
  <2>3. \A k \in 1 .. Len(p) - 1 : k \in 1 .. Len(p)
    BY <1>1
  <2> QED
    BY <1>3, <1>6, <1>8, <2>1, <2>2, <2>3
<1>9. CASE ~ IsWildcard(p[last]) /\ ~ p[last].is_type
  <2>1. sel = [instance |-> TRUE, types |-> Front(p), next |-> p[last]] /\ ~ IsBare(p[last])
    BY <1>1, <1>9 DEF SelectionOf, IsBare
  <2>2. Selects(sel, id) <=>
            /\ Len(p) - 1 <= Len(id)
            /\ \A k \in 1 .. Len(p) - 1 : SegmentMatches(p[k], id[k])
            /\ Len(id) = Len(p) /\ SegmentMatches(p[last], id[last])
    BY <1>1, <1>4, <2>1 DEF Selects
  <2>3. Len(p) <= Len(id) /\ SegmentMatches(p[last], id[last]) => Len(id) = Len(p)
    <3>1. SegmentMatches(p[last], id[last]) => ~ id[last].is_type
      BY <1>9 DEF SegmentMatches
    <3>2. Len(p) <= Len(id) /\ Len(id) # Len(p) => last \in 1 .. Len(id) - 1
      BY <1>1, <1>2
    <3> QED
      BY <1>2, <3>1, <3>2
  <2>4. Len(id) = Len(p) => Len(p) - 1 <= Len(id) /\ Len(p) <= Len(id)
    BY <1>1, <1>2
  <2> QED
    BY <1>6, <1>9, <2>1, <2>2, <2>3, <2>4
<1> QED
  BY <1>5, <1>7, <1>8, <1>9

-----------------------------------------------------------------------------
(* Nothing that is selected is shorter than shortest_selected says. *)

Lengths(segs) == [k \in DOMAIN segs |-> SegmentLength(segs[k])]

LEMMA LengthsTyped ==
    ASSUME WellFormed, NEW segs \in Seq(Exact)
    PROVE  /\ Lengths(segs) \in Seq(Nat) /\ Len(Lengths(segs)) = Len(segs) /\ Len(segs) \in Nat
           /\ \A k \in 1 .. Len(segs) : Lengths(segs)[k] = SegmentLength(segs[k])
           /\ ChainLength(segs) = Total(Lengths(segs)) /\ ChainLength(segs) \in Nat
<1>1. Len(segs) \in Nat /\ DOMAIN segs = 1 .. Len(segs) /\ \A k \in 1 .. Len(segs) : segs[k] \in Exact
  BY LenProperties
<1>2. Lengths(segs) \in [1 .. Len(segs) -> Nat]
  BY <1>1, ExactLength DEF Lengths
<1>3. Lengths(segs) \in Seq(Nat) /\ Len(Lengths(segs)) = Len(segs)
  BY <1>1, <1>2, LenProperties
<1>4. \A k \in 1 .. Len(segs) : Lengths(segs)[k] = SegmentLength(segs[k])
  BY <1>1 DEF Lengths
<1>5. ChainLength(segs) = Total(Lengths(segs))
  BY DEF ChainLength, Lengths
<1> QED
  BY <1>1, <1>3, <1>4, <1>5, TotalNatural

LEMMA MatchedChain ==
    ASSUME WellFormed, NEW segs \in Seq(Exact), NEW id \in Seq(Exact), Len(segs) <= Len(id),
           \A k \in 1 .. Len(segs) : SegmentMatches(segs[k], id[k])
    PROVE  /\ ChainLength(segs) <= ChainLength(id)
           /\ \A j \in Len(segs) + 1 .. Len(id) :
                 ChainLength(segs) + SegmentLength(id[j]) <= ChainLength(id)
<1> DEFINE s == Lengths(segs)
           t == Lengths(id)
<1>1. /\ s \in Seq(Nat) /\ Len(s) = Len(segs) /\ Len(segs) \in Nat
      /\ \A k \in 1 .. Len(segs) : s[k] = SegmentLength(segs[k])
      /\ ChainLength(segs) = Total(s) /\ Total(s) \in Nat
  BY LengthsTyped
<1>2. /\ t \in Seq(Nat) /\ Len(t) = Len(id) /\ Len(id) \in Nat
      /\ \A k \in 1 .. Len(id) : t[k] = SegmentLength(id[k])
      /\ ChainLength(id) = Total(t) /\ Total(t) \in Nat
  BY LengthsTyped
<1> HIDE DEF s, t
<1>3. \A k \in 1 .. Len(s) : s[k] <= t[k]
  <2> SUFFICES ASSUME NEW k \in 1 .. Len(segs) PROVE s[k] <= t[k]
    BY <1>1
  <2>1. k \in 1 .. Len(id) /\ segs[k] \in Exact /\ id[k] \in Exact
    BY <1>1, <1>2, ElementOfSeq
  <2>2. SegmentLength(segs[k]) <= SegmentLength(id[k])
    BY <2>1, MatchedLength
  <2> QED
    BY <1>1, <1>2, <2>1, <2>2
<1>4. ASSUME NEW j \in Len(segs) + 1 .. Len(id)
      PROVE  Total(s) + SegmentLength(id[j]) <= Total(t)
  <2>1. j \in 1 .. Len(t) /\ j > Len(s) /\ ~ (j <= Len(s))
    BY <1>1, <1>2
  <2>2. SegmentLength(id[j]) = t[j] /\ t[j] \in Nat
    <3>1. t[j] \in Nat
      BY <1>2, <2>1, ElementOfSeq
    <3> QED
      BY <1>2, <2>1, <3>1
  <2>3. t[j] <= t[j]
    BY <2>2
  <2>4. Total(s) + t[j] <= Total(t)
    BY <1>1, <1>2, <1>3, <2>1, <2>2, <2>3, TotalGrows
  <2> QED
    BY <2>2, <2>4
<1>5. Total(s) <= Total(t)
  <2>1. CASE Len(id) = 0
    <3>1. Len(segs) = 0
      BY <1>1, <2>1
    <3>2. s = <<>> /\ t = <<>>
      BY <1>1, <1>2, <2>1, <3>1, EmptySeq
    <3> QED
      BY <1>1, <3>2
  <2>2. CASE Len(id) # 0
    <3>1. 1 \in 1 .. Len(t) /\ 0 \in Nat /\ t[1] \in Nat
      <4>1. 1 \in 1 .. Len(t)
        BY <1>2, <2>2
      <4> QED
        BY <1>2, <4>1, ElementOfSeq
    <3>2. 1 <= Len(s) => s[1] + 0 <= t[1]
      <4> SUFFICES ASSUME 1 <= Len(s) PROVE s[1] + 0 <= t[1]
        OBVIOUS
      <4>1. 1 \in 1 .. Len(s)
        BY <1>1
      <4>2. s[1] \in Nat /\ s[1] <= t[1]
        BY <1>1, <1>3, <4>1, ElementOfSeq
      <4> QED
        BY <4>2
    <3>3. 1 > Len(s) => 0 <= t[1]
      BY <3>1
    <3>4. Total(s) + 0 <= Total(t)
      BY <1>1, <1>2, <1>3, <3>1, <3>2, <3>3, TotalGrows
    <3> QED
      BY <1>1, <1>2, <3>4
  <2> QED
    BY <2>1, <2>2
<1> QED
  BY <1>1, <1>2, <1>4, <1>5

LEMMA AdmittedNamed ==
    ASSUME WellFormed, NEW part \in Wildcard, ~ IsBare(part), NEW seg \in Exact, Admits(part, seg)
    PROVE  seg \in Named
<1>1. PICK n \in 0 .. Fields : DOMAIN part.names = 1 .. n /\ (n = 0 <=> IsBare(part))
  BY PartialTyped
<1>2. 1 \in DOMAIN part.names
  BY <1>1 DEF WellFormed
<1>3. 1 \in DOMAIN seg.names
  BY <1>2 DEF Admits, NamesCover
<1>4. seg \in UuidTail => DOMAIN seg.names = {}
  BY DEF UuidTail, NoNames
<1> QED
  BY <1>3, <1>4 DEF Exact

LEMMA FitsTogether ==
    ASSUME NEW p \in Nat, NEW c \in Nat, NEW l \in Nat, NEW total \in Nat,
           NEW x \in Nat, NEW y \in Nat, x + y <= l, c + l <= total
    PROVE  p + c + x + y \in Nat /\ p + c + x + y <= p + total
OBVIOUS

LEMMA NotShorter ==
    ASSUME WellFormed, NEW sel, IsSelection(sel), NEW id, IsIdentifier(id), Selects(sel, id)
    PROVE  /\ ShortestSelected(sel) \in Nat /\ TextLength(id) \in Nat
           /\ ShortestSelected(sel) <= TextLength(id)
<1> DEFINE n == Len(sel.types)
           scope == ChainLength(sel.types)
<1>1. /\ id \in Seq(Exact) /\ Len(id) \in Nat \ {0}
      /\ \A k \in 1 .. Len(id) : id[k] \in Exact
      /\ id[1] \in Named /\ id[1].is_type
  BY IdentifierShape
<1>2. sel.types \in Seq(Exact) /\ n \in Nat /\ (sel.types = <<>> <=> n = 0)
  <2>1. sel.types \in Seq(Exact)
    BY SeqMonotonic DEF IsSelection, Exact
  <2> QED
    BY <2>1, LenProperties, EmptySeq
<1>3. /\ scope <= ChainLength(id) /\ scope \in Nat /\ ChainLength(id) \in Nat
      /\ \A j \in n + 1 .. Len(id) : scope + SegmentLength(id[j]) <= ChainLength(id)
  BY <1>1, <1>2, MatchedChain, LengthsTyped DEF Selects
<1>4. PrefixLength \in Nat /\ TextLength(id) = PrefixLength + ChainLength(id)
  BY DEF WellFormed, TextLength
<1>5. ASSUME n < Len(id)
      PROVE  /\ n + 1 \in n + 1 .. Len(id) /\ id[n + 1] \in Exact
             /\ SegmentLength(id[n + 1]) \in Nat
             /\ scope + SegmentLength(id[n + 1]) <= ChainLength(id)
             /\ n = 0 => id[n + 1] \in Named /\ id[n + 1].is_type
  <2>1. n + 1 \in n + 1 .. Len(id) /\ n + 1 \in 1 .. Len(id) /\ (n = 0 => n + 1 = 1)
    BY <1>1, <1>2, <1>5
  <2> QED
    BY <1>1, <1>3, <2>1, ExactLength
<1> HIDE DEF n, scope
<1>6. CASE sel.instance
  <2>1. n < Len(id) /\ SegmentMatches(sel.next, id[n + 1]) /\ sel.next \in Exact
    BY <1>1, <1>2, <1>6 DEF Selects, IsSelection, n
  <2>2. SegmentLength(sel.next) <= SegmentLength(id[n + 1]) /\ SegmentLength(sel.next) \in Nat
    BY <1>5, <2>1, MatchedLength, ExactLength
  <2>3. ShortestSelected(sel) = PrefixLength + scope + SegmentLength(sel.next)
    BY <1>6 DEF ShortestSelected, scope
  <2> QED
    BY <1>3, <1>4, <1>5, <2>1, <2>2, <2>3
<1>7. CASE ~ sel.instance /\ sel.next = None /\ sel.types # <<>>
  <2>1. ShortestSelected(sel) = PrefixLength + scope
    BY <1>7 DEF ShortestSelected, scope
  <2> QED
    BY <1>3, <1>4, <2>1
<1>8. CASE ~ sel.instance /\ sel.next = None /\ sel.types = <<>>
  <2>1. ShortestSelected(sel) = PrefixLength + scope + ShortestSegment + 1
    BY <1>8 DEF ShortestSelected, scope
  <2>2. n < Len(id) /\ n = 0
    BY <1>1, <1>2, <1>8
  <2>3. ShortestSegment + 1 <= SegmentLength(id[n + 1]) /\ ShortestSegment \in Nat
    BY <1>5, <2>2, NamedNotShorter
  <2> QED
    BY <1>3, <1>4, <1>5, <2>1, <2>2, <2>3
<1>9. CASE ~ sel.instance /\ sel.next # None
  <2>1. n < Len(id) /\ Admits(sel.next, id[n + 1]) /\ sel.next \in Wildcard /\ ~ IsBare(sel.next)
    BY <1>9 DEF Selects, IsSelection, n
  <2>2. id[n + 1] \in Named
    BY <1>5, <2>1, AdmittedNamed
  <2>3. PICK mark \in Nat : mark = IF id[n + 1].is_type THEN 1 ELSE 0
    OBVIOUS
  <2>4. ShortestPartial(sel.next) \in Nat
        /\ ShortestPartial(sel.next) + mark <= SegmentLength(id[n + 1])
    BY <2>1, <2>2, <2>3, AdmittedLength
  <2>5. PICK start \in Nat : start = IF sel.types = <<>> THEN 1 ELSE 0
    OBVIOUS
  <2>6. start <= mark
    BY <1>2, <1>5, <2>1, <2>3, <2>5
  <2>7. ShortestSelected(sel) = PrefixLength + scope + ShortestPartial(sel.next) + start
    BY <1>9, <2>5 DEF ShortestSelected, scope
  <2>8. /\ SegmentLength(id[n + 1]) \in Nat
        /\ scope + SegmentLength(id[n + 1]) <= ChainLength(id)
    BY <1>5, <2>1
  <2>9. ShortestPartial(sel.next) + start <= SegmentLength(id[n + 1])
    BY <2>3, <2>4, <2>5, <2>6, <2>8
  <2>10. /\ PrefixLength + scope + ShortestPartial(sel.next) + start \in Nat
         /\ PrefixLength + scope + ShortestPartial(sel.next) + start
                <= PrefixLength + ChainLength(id)
    <3>1. /\ PrefixLength \in Nat /\ scope \in Nat /\ ChainLength(id) \in Nat
          /\ ShortestPartial(sel.next) \in Nat /\ start \in Nat
      BY <1>3, <1>4, <2>4
    <3> QED
      BY <2>8, <2>9, <3>1, FitsTogether, Zenon
  <2> QED
    BY <1>3, <1>4, <2>7, <2>10
<1> QED
  BY <1>6, <1>7, <1>8, <1>9 DEF IsSelection

(* If what is left open leaves no room, one instance segment follows.       *)
LEMMA AtLimit ==
    ASSUME WellFormed, NEW sel, IsSelection(sel), NEW id, IsIdentifier(id), Selects(sel, id),
           ~ sel.instance, sel.next # None, sel.types # <<>>,
           TextLength(id) = ShortestSelected(sel)
    PROVE  Len(id) = Len(sel.types) + 1 /\ ~ id[Len(id)].is_type
<1> DEFINE n == Len(sel.types)
           scope == ChainLength(sel.types)
           upto == SubSeq(id, 1, n + 1)
<1>1. /\ id \in Seq(Exact) /\ Len(id) \in Nat \ {0}
      /\ \A k \in 1 .. Len(id) : id[k] \in Exact
  BY IdentifierShape
<1>2. sel.types \in Seq(Exact) /\ n \in Nat
  <2>1. sel.types \in Seq(Exact)
    BY SeqMonotonic DEF IsSelection, Exact
  <2> QED
    BY <2>1, LenProperties
<1>3. n < Len(id) /\ Admits(sel.next, id[n + 1]) /\ sel.next \in Wildcard /\ ~ IsBare(sel.next)
  BY DEF Selects, IsSelection
<1>4. n + 1 \in 1 .. Len(id) /\ id[n + 1] \in Named
  <2>1. n + 1 \in 1 .. Len(id)
    BY <1>1, <1>2, <1>3
  <2> QED
    BY <1>1, <1>3, <2>1, AdmittedNamed
<1>5. PICK mark \in Nat : mark = IF id[n + 1].is_type THEN 1 ELSE 0
  OBVIOUS
<1>6. ShortestPartial(sel.next) \in Nat
      /\ ShortestPartial(sel.next) + mark <= SegmentLength(id[n + 1])
      /\ SegmentLength(id[n + 1]) \in Nat
  BY <1>3, <1>4, <1>5, AdmittedLength, ExactLength DEF Exact
<1>7. /\ PrefixLength \in Nat /\ scope \in Nat /\ ChainLength(id) \in Nat
      /\ ChainLength(id) = scope + ShortestPartial(sel.next)
  <2>1. ShortestSelected(sel) = PrefixLength + scope + ShortestPartial(sel.next) + 0
    BY DEF ShortestSelected
  <2>2. scope \in Nat /\ ChainLength(id) \in Nat
    BY <1>1, <1>2, LengthsTyped
  <2>3. PrefixLength \in Nat /\ TextLength(id) = PrefixLength + ChainLength(id)
    BY DEF WellFormed, TextLength
  <2> HIDE DEF scope
  <2>4. PICK part \in Nat : part = ShortestPartial(sel.next)
    BY <1>6
  <2>5. PrefixLength + ChainLength(id) = PrefixLength + scope + part + 0
    BY <2>1, <2>3, <2>4
  <2>6. ChainLength(id) = scope + part
    BY <2>2, <2>3, <2>5
  <2> QED
    BY <2>2, <2>3, <2>4, <2>6
<1>8. scope + SegmentLength(id[n + 1]) <= ChainLength(id)
  <2>1. n + 1 \in n + 1 .. Len(id)
    BY <1>1, <1>2, <1>3
  <2> QED
    BY <1>1, <1>2, <2>1, MatchedChain DEF Selects
<1>9. mark = 0
  <2> HIDE DEF scope
  <2> QED
    BY <1>6, <1>7, <1>8
<1>10. Len(id) = n + 1
  <2> SUFFICES ASSUME Len(id) # n + 1 PROVE FALSE
    OBVIOUS
  <2>1. n + 2 \in 1 .. Len(id) /\ n + 1 \in Nat /\ n + 1 <= Len(id)
    BY <1>1, <1>2, <1>3
  <2>2. /\ upto \in Seq(Exact) /\ Len(upto) = n + 1
        /\ \A k \in 1 .. n + 1 : upto[k] = id[k]
    <3>1. \A k \in 1 .. n + 1 : id[k] \in Exact
      BY <1>1, <2>1
    <3>2. 1 \in Int /\ n + 1 \in Int /\ 1 <= n + 1 /\ n + 1 - 1 + 1 = n + 1
      BY <1>2
    <3>3. /\ upto \in Seq(Exact)
          /\ Len(upto) = IF 1 <= n + 1 THEN n + 1 - 1 + 1 ELSE 0
          /\ \A k \in 1 .. n + 1 - 1 + 1 : upto[k] = id[1 + k - 1]
      BY <3>1, <3>2, SubSeqProperties
    <3>4. \A k \in 1 .. n + 1 : 1 + k - 1 = k
      BY <1>2
    <3> QED
      BY <3>2, <3>3, <3>4
  <2> HIDE DEF upto
  <2>3. \A k \in 1 .. n + 1 : SegmentMatches(upto[k], id[k])
    BY <2>2 DEF SegmentMatches
  <2>4. n + 2 \in Len(upto) + 1 .. Len(id) /\ Len(upto) <= Len(id)
    BY <1>1, <1>2, <2>1, <2>2
  <2>5. ChainLength(upto) + SegmentLength(id[n + 2]) <= ChainLength(id)
    BY <1>1, <2>2, <2>3, <2>4, MatchedChain
  <2>6. scope + SegmentLength(id[n + 1]) <= ChainLength(upto)
    <3>1. \A k \in 1 .. n : k \in 1 .. n + 1
      BY <1>2
    <3>2. \A k \in 1 .. Len(sel.types) : SegmentMatches(sel.types[k], upto[k])
      BY <2>2, <3>1 DEF Selects
    <3>3. n <= Len(upto) /\ n + 1 \in n + 1 .. Len(upto) /\ upto[n + 1] = id[n + 1]
      BY <1>2, <2>2
    <3> QED
      BY <1>2, <2>2, <3>2, <3>3, MatchedChain
  <2>7. SegmentLength(id[n + 2]) \in Nat \ {0} /\ ChainLength(upto) \in Nat
    BY <1>1, <2>1, <2>2, ExactLength, LengthsTyped
  <2> HIDE DEF scope
  <2> QED
    BY <1>6, <1>7, <2>5, <2>6, <2>7
<1> QED
  BY <1>5, <1>9, <1>10

-----------------------------------------------------------------------------
(* What covers the selection selects. *)

LEMMA CoversThenMatches ==
    ASSUME NEW a \in Named, NEW b, NEW c, SegmentCovers(a, b), a.is_type = b.is_type,
           SegmentMatches(b, c), WellFormed
    PROVE  SegmentMatches(a, c)
<1>1. a.uuid = None
  BY NamedLength
<1> QED
  BY <1>1 DEF SegmentCovers, SegmentMatches

LEMMA SameNames ==
    ASSUME NEW n, NEW names \in [1 .. n -> Tokens], NEW others \in [1 .. n -> Tokens],
           \A k \in 1 .. n : names[k] = others[k]
    PROVE  names = others
<1>1. names = [k \in 1 .. n |-> names[k]] /\ others = [k \in 1 .. n |-> others[k]]
  OBVIOUS
<1>2. [k \in 1 .. n |-> names[k]] = [k \in 1 .. n |-> others[k]]
  OBVIOUS
<1> QED
  BY <1>1, <1>2

LEMMA AdmitsThenMatches ==
    ASSUME NEW part, NEW b, NEW c, Admits(part, b), SegmentMatches(b, c)
    PROVE  Admits(part, c)
BY DEF Admits, NamesCover, SegmentMatches

LEMMA ChainThenMatches ==
    ASSUME WellFormed, NEW op, IsSelection(op), NEW val, IsSelection(val), NEW id, Selects(val, id),
           Len(op.types) <= Len(val.types), ChainCovers(op.types, val.types)
    PROVE  \A k \in 1 .. Len(op.types) : SegmentMatches(op.types[k], id[k])
<1> TAKE k \in 1 .. Len(op.types)
<1>1. /\ Len(op.types) \in Nat /\ Len(val.types) \in Nat /\ k \in DOMAIN op.types
      /\ op.types[k] \in Named /\ op.types[k].is_type
  BY LenProperties, ElementOfSeq DEF IsSelection
<1>2. k \in 1 .. Len(val.types)
  BY <1>1
<1>3. val.types[k] \in Named /\ val.types[k].is_type
  BY <1>2, ElementOfSeq DEF IsSelection
<1>4. SegmentCovers(op.types[k], val.types[k]) /\ SegmentMatches(val.types[k], id[k])
  BY <1>1, <1>2 DEF ChainCovers, Selects
<1>5. op.types[k].is_type = val.types[k].is_type
  BY <1>1, <1>3, NamedLength
<1> QED
  BY <1>1, <1>4, <1>5, CoversThenMatches

LEMMA InstanceInInstance ==
    ASSUME WellFormed, NEW op, IsSelection(op), NEW val, IsSelection(val),
           NEW id, IsIdentifier(id), Selects(val, id),
           op.instance, val.instance, InstanceCoversInstance(op, val)
    PROVE  Selects(op, id)
<1>1. Len(op.types) = Len(val.types) /\ ChainCovers(op.types, val.types) /\ Len(op.types) \in Nat
  BY LenProperties DEF InstanceCoversInstance, SameChainCovers, IsSelection
<1>2. \A k \in 1 .. Len(op.types) : SegmentMatches(op.types[k], id[k])
  BY <1>1, ChainThenMatches
<1>3. Len(id) = Len(op.types) + 1 /\ SegmentMatches(val.next, id[Len(op.types) + 1])
  BY <1>1 DEF Selects
<1>4. SegmentMatches(op.next, id[Len(op.types) + 1])
  <2>1. /\ op.next \in Exact /\ ~ op.next.is_type /\ op.next.is_type \in BOOLEAN
        /\ val.next \in Exact /\ ~ val.next.is_type /\ val.next.is_type \in BOOLEAN
    BY DEF IsSelection, Exact, Named, UuidTail
  <2>2. CASE op.next.uuid # None \/ val.next.uuid # None
    <3>1. op.next.uuid = val.next.uuid /\ op.next \in UuidTail /\ val.next \in UuidTail
      BY <2>1, <2>2, NamedLength DEF InstanceCoversInstance, TailCovers, Exact
    <3>2. /\ op.next.names = val.next.names /\ op.next.major = val.next.major
          /\ op.next.minor = val.next.minor /\ op.next.is_type = val.next.is_type
      BY <3>1 DEF UuidTail
    <3> QED
      BY <1>3, <3>1, <3>2 DEF SegmentMatches
  <2>3. CASE op.next.uuid = None /\ val.next.uuid = None
    <3>1. SegmentCovers(op.next, val.next)
      BY <2>3 DEF InstanceCoversInstance, TailCovers
    <3>2. op.next \in Named
      BY <2>1, <2>3 DEF Exact, UuidTail, WellFormed
    <3> QED
      BY <1>3, <2>1, <3>1, <3>2, CoversThenMatches
  <2> QED
    BY <2>2, <2>3
<1> QED
  BY <1>1, <1>2, <1>3, <1>4 DEF Selects

(* An instance covers `gts.a.v1~b.v1.*` when only `b.v1.0` fits: what       *)
(* makes the two meet is the length limit.                                 *)
LEMMA ScopeInInstance ==
    ASSUME WellFormed, NEW op, IsSelection(op), NEW val, IsSelection(val),
           NEW id, IsIdentifier(id), Selects(val, id),
           op.instance, ~ val.instance, InstanceCoversScope(op, val),
           ShortestSelected(val) = MaxLength
    PROVE  Selects(op, id)
<1>1. Len(op.types) = Len(val.types) /\ ChainCovers(op.types, val.types) /\ Len(op.types) \in Nat
  BY LenProperties DEF InstanceCoversScope, SameChainCovers, IsSelection
<1>2. \A k \in 1 .. Len(op.types) : SegmentMatches(op.types[k], id[k])
  BY <1>1, ChainThenMatches
<1>3. val.types # <<>>
  <2>1. op.types \in Seq(Named) /\ op.types # <<>>
    BY DEF IsSelection
  <2>2. Len(op.types) # 0
    BY <2>1, EmptySeq
  <2> QED
    BY <1>1, <2>2, EmptySeq
<1>4. val.next # None /\ val.next \in Wildcard /\ ~ IsBare(val.next)
  BY DEF InstanceCoversScope, IsSelection
<1>5. TextLength(id) = ShortestSelected(val)
  <2>1. TextLength(id) <= MaxLength /\ MaxLength \in Nat
    BY IdentifierShape DEF WellFormed
  <2>2. ShortestSelected(val) <= TextLength(id) /\ TextLength(id) \in Nat
    BY NotShorter
  <2> QED
    BY <2>1, <2>2
<1>6. Len(id) = Len(val.types) + 1 /\ ~ id[Len(id)].is_type
  BY <1>3, <1>4, <1>5, AtLimit
<1> DEFINE c == id[Len(id)]
<1>7. Admits(val.next, c)
  BY <1>4, <1>6 DEF Selects
<1>8. c \in Named
  <2>1. c \in Exact
    BY <1>6, IdentifierShape
  <2> QED
    BY <1>4, <1>7, <2>1, AdmittedNamed
<1>9. /\ op.next \in Named /\ op.next.minor = None /\ ~ op.next.is_type
      /\ op.next.names = val.next.names /\ op.next.major = val.next.major
  BY DEF IsSelection, InstanceCoversScope, Exact, UuidTail, WellFormed
<1> HIDE DEF c
<1>10. op.next.names = c.names
  <2>1. op.next.names \in [1 .. Fields -> Tokens] /\ c.names \in [1 .. Fields -> Tokens]
    BY <1>8, <1>9, NamedLength
  <2>2. \A k \in 1 .. Fields : op.next.names[k] = c.names[k]
    BY <1>7, <1>9, <2>1 DEF Admits, NamesCover
  <2> QED
    BY <2>1, <2>2, SameNames
<1>11. op.next.major = c.major
  <2>1. op.next.major # None
    BY <1>9, NamedLength
  <2> QED
    BY <1>7, <1>9, <2>1 DEF Admits
<1>12. op.next.is_type = c.is_type
  <2>1. ~ c.is_type /\ c.is_type \in BOOLEAN /\ op.next.is_type \in BOOLEAN
    BY <1>6, <1>8, <1>9, NamedLength DEF c
  <2> QED
    BY <1>9, <2>1
<1>13. SegmentMatches(op.next, c)
  <2>1. op.next.uuid = None
    BY <1>9, NamedLength
  <2> QED
    BY <1>9, <1>10, <1>11, <1>12, <2>1 DEF SegmentMatches
<1>14. Len(id) = Len(op.types) + 1 /\ c = id[Len(op.types) + 1]
  BY <1>1, <1>6 DEF c
<1> QED
  BY <1>1, <1>2, <1>13, <1>14 DEF Selects

LEMMA InstanceInScope ==
    ASSUME WellFormed, NEW op, IsSelection(op), NEW val, IsSelection(val),
           NEW id, IsIdentifier(id), Selects(val, id),
           ~ op.instance, val.instance, ScopeCoversInstance(op, val)
    PROVE  Selects(op, id)
<1> DEFINE n == Len(op.types)
           m == Len(val.types)
<1>1. n \in Nat /\ m \in Nat /\ n <= m /\ ChainCovers(op.types, val.types)
  BY LenProperties DEF ScopeCoversInstance, IsSelection
<1>2. \A k \in 1 .. n : SegmentMatches(op.types[k], id[k])
  BY <1>1, ChainThenMatches
<1>3. Len(id) = m + 1 /\ SegmentMatches(val.next, id[m + 1])
      /\ \A k \in 1 .. m : SegmentMatches(val.types[k], id[k])
  BY DEF Selects
<1>4. ASSUME op.next # None
      PROVE  Admits(op.next, id[n + 1])
  <2>1. CASE n < m
    <3>1. n + 1 \in 1 .. m
      BY <1>1, <2>1
    <3>2. Admits(op.next, val.types[n + 1])
      BY <1>4, <2>1 DEF ScopeCoversInstance
    <3> QED
      BY <1>3, <3>1, <3>2, AdmitsThenMatches
  <2>2. CASE ~ (n < m)
    <3>1. n = m /\ Admits(op.next, val.next)
      BY <1>1, <1>4, <2>2 DEF ScopeCoversInstance
    <3> QED
      BY <1>3, <3>1, AdmitsThenMatches
  <2> QED
    BY <2>1, <2>2
<1>5. n <= Len(id) /\ n < Len(id)
  BY <1>1, <1>3
<1> QED
  BY <1>2, <1>4, <1>5 DEF Selects

LEMMA ScopeInScope ==
    ASSUME WellFormed, NEW op, IsSelection(op), NEW val, IsSelection(val),
           NEW id, IsIdentifier(id), Selects(val, id),
           ~ op.instance, ~ val.instance, ScopeCoversScope(op, val)
    PROVE  Selects(op, id)
<1> DEFINE n == Len(op.types)
           m == Len(val.types)
<1>1. n \in Nat /\ m \in Nat /\ Len(id) \in Nat \ {0} /\ m <= Len(id)
  BY LenProperties, IdentifierShape DEF IsSelection, Selects
<1>2. CASE n > m
  <2>1. /\ n = 1 /\ op.next = None /\ val.types = <<>> /\ val.next # None
        /\ op.types[1].minor = None
        /\ op.types[1].names = val.next.names /\ op.types[1].major = val.next.major
    BY <1>2 DEF ScopeCoversScope, FirstTypeCovers
  <2>2. op.types[1] \in Named /\ op.types[1].is_type
    <3>1. 1 \in 1 .. Len(op.types)
      BY <2>1
    <3> QED
      BY <3>1, ElementOfSeq DEF IsSelection
  <2>3. id[1] \in Named /\ id[1].is_type
    BY IdentifierShape
  <2>4. Admits(val.next, id[1])
    <3>1. m = 0
      BY <2>1, EmptySeq
    <3>2. Admits(val.next, id[m + 1])
      BY <2>1 DEF Selects
    <3> QED
      BY <3>1, <3>2
  <2>5. op.types[1].names = id[1].names
    <3>1. op.types[1].names \in [1 .. Fields -> Tokens] /\ id[1].names \in [1 .. Fields -> Tokens]
      BY <2>2, <2>3, NamedLength
    <3>2. \A k \in 1 .. Fields : op.types[1].names[k] = id[1].names[k]
      BY <2>1, <2>4, <3>1 DEF Admits, NamesCover
    <3> QED
      BY <3>1, <3>2, SameNames
  <2>6. op.types[1].major = id[1].major
    <3>1. op.types[1].major # None
      BY <2>2, NamedLength
    <3> QED
      BY <2>1, <2>4, <3>1 DEF Admits
  <2>7. op.types[1].uuid = None /\ op.types[1].is_type = id[1].is_type
    BY <2>2, <2>3, NamedLength
  <2>8. SegmentMatches(op.types[1], id[1])
    BY <2>1, <2>5, <2>6, <2>7 DEF SegmentMatches
  <2>9. Len(op.types) <= Len(id) /\ \A k \in 1 .. Len(op.types) : k = 1
    BY <1>1, <2>1
  <2> QED
    BY <2>1, <2>8, <2>9 DEF Selects
<1>3. CASE ~ (n > m)
  <2>1. n <= m /\ ChainCovers(op.types, val.types)
    BY <1>1, <1>3 DEF ScopeCoversScope
  <2>2. \A k \in 1 .. n : SegmentMatches(op.types[k], id[k])
    BY <2>1, ChainThenMatches
  <2>3. ASSUME op.next # None
        PROVE  n < Len(id) /\ Admits(op.next, id[n + 1])
    <3>1. CASE n < m
      <4>1. n + 1 \in 1 .. m /\ n < Len(id)
        BY <1>1, <3>1
      <4>2. Admits(op.next, val.types[n + 1]) /\ SegmentMatches(val.types[n + 1], id[n + 1])
        BY <1>3, <2>3, <3>1, <4>1 DEF ScopeCoversScope, Selects
      <4> QED
        BY <4>1, <4>2, AdmitsThenMatches
    <3>2. CASE ~ (n < m)
      <4>1. n = m /\ val.next # None /\ PartialCovers(op.next, val.next)
        BY <1>1, <1>3, <2>1, <2>3, <3>2 DEF ScopeCoversScope
      <4>2. n < Len(id) /\ Admits(val.next, id[n + 1])
        BY <4>1 DEF Selects
      <4>3. Admits(op.next, id[n + 1])
        BY <4>1, <4>2 DEF Admits, PartialCovers, NamesCover
      <4> QED
        BY <4>2, <4>3
    <3> QED
      BY <3>1, <3>2
  <2>4. n <= Len(id)
    BY <1>1, <2>1
  <2> QED
    BY <2>2, <2>3, <2>4 DEF Selects
<1> QED
  BY <1>2, <1>3

-----------------------------------------------------------------------------
(* A pattern that covers another matches every identifier that the other    *)
(* matches (GtsIdPattern::covers: "every GTS ID matched by the other        *)
(* pattern is also matched by self").                                       *)
THEOREM CoverageSound ==
    ASSUME WellFormed, NEW p, IsPattern(p), NEW q, IsPattern(q), Covers(p, q),
           NEW id, IsIdentifier(id), Matches(q, id)
    PROVE  Matches(p, id)
<1> DEFINE op == SelectionOf(p)
           val == SelectionOf(q)
<1>1. IsSelection(op) /\ IsSelection(val) /\ Selects(val, id)
  BY SelectionTyped, MatchesSelects
<1>2. Matches(p, id) <=> Selects(op, id)
  BY MatchesSelects
<1>3. \/ ShortestSelected(val) > MaxLength
      \/ CoversNonempty(op, val, ShortestSelected(val) = MaxLength)
  BY DEF Covers
<1> HIDE DEF op, val
<1>4. ~ (ShortestSelected(val) > MaxLength)
  <2>1. TextLength(id) <= MaxLength /\ MaxLength \in Nat
    BY IdentifierShape DEF WellFormed
  <2>2. /\ ShortestSelected(val) \in Nat /\ TextLength(id) \in Nat
        /\ ShortestSelected(val) <= TextLength(id)
    BY <1>1, NotShorter
  <2> QED
    BY <2>1, <2>2
<1>5. \/ op.instance /\ val.instance /\ InstanceCoversInstance(op, val)
      \/ /\ op.instance /\ ~ val.instance /\ ShortestSelected(val) = MaxLength
         /\ InstanceCoversScope(op, val)
      \/ ~ op.instance /\ val.instance /\ ScopeCoversInstance(op, val)
      \/ ~ op.instance /\ ~ val.instance /\ ScopeCoversScope(op, val)
  BY <1>3, <1>4 DEF CoversNonempty
<1>6. Selects(op, id)
  BY <1>1, <1>5, InstanceInInstance, ScopeInInstance, InstanceInScope, ScopeInScope
<1> QED
  BY <1>2, <1>6
-----------------------------------------------------------------------------
(* The other way round: what a pattern selects, told from one witness.      *)


(* Sums of the same numbers are the same. *)
SumsUp(a, t, n) == a[0] = 0 /\ \A k \in 1 .. n : t[k] \in Nat /\ a[k] = a[k - 1] + t[k]

LEMMA SumsAgree ==
    ASSUME NEW n \in Nat, NEW t, NEW a, SumsUp(a, t, n), NEW b, SumsUp(b, t, n)
    PROVE  a[n] = b[n]
<1>0. /\ a[0] = 0 /\ \A k \in 1 .. n : t[k] \in Nat /\ a[k] = a[k - 1] + t[k]
      /\ b[0] = 0 /\ \A k \in 1 .. n : b[k] = b[k - 1] + t[k]
  BY DEF SumsUp
<1>1. \A k \in 0 .. n : a[k] \in Nat
  BY <1>0, SumsNatural
<1>2. \A k \in 0 .. n : b[k] \in Nat
  BY <1>0, SumsNatural
<1>3. ASSUME NEW k \in 1 .. n
      PROVE  a[k] + b[k - 1] = a[k - 1] + b[k]
  <2>1. k - 1 \in 0 .. n
    OBVIOUS
  <2>2. a[k - 1] \in Nat /\ b[k - 1] \in Nat /\ t[k] \in Nat
    BY <1>0, <1>1, <1>2, <2>1
  <2>3. a[k] = a[k - 1] + t[k] /\ b[k] = b[k - 1] + t[k]
    BY <1>0
  <2> QED
    BY <2>2, <2>3
<1>4. ASSUME NEW k \in 1 .. n
      PROVE  /\ a[k] + b[k - 1] <= a[k - 1] + b[k]
             /\ b[k] + a[k - 1] <= b[k - 1] + a[k]
  <2>1. k \in 0 .. n /\ k - 1 \in 0 .. n
    OBVIOUS
  <2>2. a[k] \in Nat /\ b[k] \in Nat /\ a[k - 1] \in Nat /\ b[k - 1] \in Nat
    BY <1>1, <1>2, <2>1
  <2> QED
    BY <1>3, <2>2
<1>5. a[n] <= b[n]
  BY <1>0, <1>1, <1>2, <1>4, StaysBelow
<1>6. b[n] <= a[n]
  BY <1>0, <1>1, <1>2, <1>4, StaysBelow
<1>7. n \in 0 .. n
  OBVIOUS
<1> QED
  BY <1>1, <1>2, <1>5, <1>6, <1>7

(* Numbers that follow count one by one if each is 1, and one counts for    *)
(* itself.                                                                 *)
LEMMA TotalOfMore ==
    ASSUME NEW s \in Seq(Nat), NEW t \in Seq(Nat), Len(s) <= Len(t),
           \A k \in 1 .. Len(s) : t[k] = s[k]
    PROVE  /\ (\A k \in Len(s) + 1 .. Len(t) : t[k] = 1) => Total(t) = Total(s) + (Len(t) - Len(s))
           /\ Len(t) = Len(s) + 1 => Total(t) = Total(s) + t[Len(t)]
<1>1. PICK u : /\ u[0] = 0 /\ \A k \in 1 .. Len(s) : u[k] = u[k - 1] + s[k]
               /\ \A k \in 0 .. Len(s) : u[k] \in Nat
               /\ Total(s) = u[Len(s)]
  BY TotalIs
<1>2. PICK b : /\ b[0] = 0 /\ \A k \in 1 .. Len(t) : b[k] = b[k - 1] + t[k]
               /\ \A k \in 0 .. Len(t) : b[k] \in Nat
               /\ Total(t) = b[Len(t)]
  BY TotalIs
<1>3. PICK n \in Nat, m \in Nat : n = Len(s) /\ m = Len(t) /\ n <= m
  BY LenProperties
<1>4. \A k \in 1 .. m : t[k] \in Nat
  BY <1>3, LenProperties
<1>5. \A k \in 1 .. n : k \in 1 .. m /\ u[k] = u[k - 1] + t[k]
  BY <1>1, <1>3
<1>6. u[n] \in Nat
  BY <1>1, <1>3
<1>7. ASSUME \A k \in n + 1 .. m : t[k] = 1
      PROVE  b[m] = u[n] + (m - n)
  <2>1. PICK a : a = [k \in 0 .. m |-> IF k <= n THEN u[k] ELSE u[n] + (k - n)]
    OBVIOUS
  <2>2. \A k \in 0 .. n : a[k] = u[k]
    BY <1>3, <2>1
  <2>3. \A k \in n .. m : a[k] = u[n] + (k - n)
    <3> SUFFICES ASSUME NEW k \in n .. m PROVE a[k] = u[n] + (k - n)
      OBVIOUS
    <3>1. k \in 0 .. m
      BY <1>3
    <3>2. CASE k = n
      BY <1>3, <1>6, <2>1, <3>1, <3>2
    <3>3. CASE k # n
      <4>1. ~ (k <= n)
        BY <1>3, <3>3
      <4> QED
        BY <2>1, <3>1, <4>1
    <3> QED
      BY <3>2, <3>3
  <2>4. a[0] = 0
    BY <1>1, <1>3, <2>2
  <2>5. ASSUME NEW k \in 1 .. m
        PROVE  a[k] = a[k - 1] + t[k]
    <3>1. CASE k <= n
      <4>1. k \in 1 .. n /\ k \in 0 .. n /\ k - 1 \in 0 .. n
        BY <1>3, <3>1
      <4> QED
        BY <1>5, <2>2, <4>1
    <3>2. CASE ~ (k <= n)
      <4>1. k \in n + 1 .. m /\ k \in n .. m /\ k - 1 \in n .. m
        BY <1>3, <3>2
      <4>2. t[k] = 1 /\ a[k] = u[n] + (k - n) /\ a[k - 1] = u[n] + (k - 1 - n)
        BY <1>7, <2>3, <4>1
      <4> QED
        BY <1>3, <1>6, <4>2
    <3> QED
      BY <3>1, <3>2
  <2>6. a[m] = b[m]
    <3>1. \A k \in 1 .. m : b[k] = b[k - 1] + t[k]
      BY <1>2, <1>3
    <3>2. SumsUp(a, t, m)
      BY <1>4, <2>4, <2>5 DEF SumsUp
    <3>3. SumsUp(b, t, m)
      BY <1>2, <1>4, <3>1 DEF SumsUp
    <3> QED
      BY <1>3, <3>2, <3>3, SumsAgree
  <2>7. m \in n .. m
    BY <1>3
  <2> QED
    BY <2>3, <2>6, <2>7
<1>8. ASSUME m = n + 1
      PROVE  b[m] = u[n] + t[m]
  <2>1. \A k \in 1 .. n : k \in 1 .. m
    BY <1>3
  <2>2. \A k \in 1 .. m : b[k] = b[k - 1] + t[k]
    BY <1>2, <1>3
  <2>3. \A k \in 1 .. n : t[k] \in Nat
    BY <1>4, <2>1
  <2>4. \A k \in 1 .. n : b[k] = b[k - 1] + t[k]
    BY <2>1, <2>2
  <2>5. \A k \in 1 .. n : u[k] = u[k - 1] + t[k]
    BY <1>5
  <2>6. u[n] = b[n]
    <3>1. SumsUp(u, t, n)
      BY <1>1, <2>3, <2>5 DEF SumsUp
    <3>2. SumsUp(b, t, n)
      BY <1>2, <2>3, <2>4 DEF SumsUp
    <3> QED
      BY <1>3, <3>1, <3>2, SumsAgree
  <2>7. m \in 1 .. m /\ m - 1 = n
    BY <1>3, <1>8
  <2> QED
    BY <2>2, <2>6, <2>7
<1> QED
  BY <1>1, <1>2, <1>3, <1>7, <1>8

LEMMA AppendedLength ==
    ASSUME WellFormed, NEW types \in Seq(Exact), NEW seg \in Exact
    PROVE  ChainLength(Append(types, seg)) = ChainLength(types) + SegmentLength(seg)
<1>1. PICK w \in Seq(Exact) : /\ w = Append(types, seg) /\ Len(w) = Len(types) + 1
                              /\ \A k \in 1 .. Len(types) : w[k] = types[k]
                              /\ w[Len(types) + 1] = seg
  BY AppendProperties
<1>2. PICK s \in Seq(Nat) : /\ Len(s) = Len(types) /\ Len(types) \in Nat
                            /\ \A k \in 1 .. Len(types) : s[k] = SegmentLength(types[k])
                            /\ ChainLength(types) = Total(s)
  BY LengthsTyped
<1>3. PICK t \in Seq(Nat) : /\ Len(t) = Len(w) /\ \A k \in 1 .. Len(w) : t[k] = SegmentLength(w[k])
                            /\ ChainLength(w) = Total(t)
  BY LengthsTyped
<1>4. \A k \in 1 .. Len(s) : t[k] = s[k]
  <2> SUFFICES ASSUME NEW k \in 1 .. Len(types) PROVE t[k] = s[k]
    BY <1>2
  <2>1. k \in 1 .. Len(w)
    BY <1>1, <1>2
  <2> QED
    BY <1>1, <1>2, <1>3, <2>1
<1>5. Len(t) = Len(s) + 1 /\ Len(s) <= Len(t) /\ t[Len(t)] = SegmentLength(seg)
  <2>1. Len(w) \in 1 .. Len(w) /\ Len(types) <= Len(w)
    BY <1>1, <1>2
  <2> QED
    BY <1>1, <1>2, <1>3, <2>1
<1>6. Total(t) = Total(s) + t[Len(t)]
  BY <1>4, <1>5, TotalOfMore
<1> QED
  BY <1>1, <1>2, <1>3, <1>5, <1>6

LEMMA AppendedIdentifier ==
    ASSUME WellFormed, NEW types \in Seq(Named), \A k \in 1 .. Len(types) : types[k].is_type,
           NEW seg \in Exact, types = <<>> => seg.is_type,
           PrefixLength + (ChainLength(types) + SegmentLength(seg)) <= MaxLength
    PROVE  /\ IsIdentifier(Append(types, seg)) /\ Len(Append(types, seg)) = Len(types) + 1
           /\ \A k \in 1 .. Len(types) : Append(types, seg)[k] = types[k]
           /\ Append(types, seg)[Len(types) + 1] = seg
<1>1. types \in Seq(Exact) /\ Len(types) \in Nat /\ DOMAIN types = 1 .. Len(types)
  BY LenProperties, SeqMonotonic DEF Exact
<1>2. PICK w \in Seq(Exact) : /\ w = Append(types, seg) /\ Len(w) = Len(types) + 1
                              /\ \A k \in 1 .. Len(types) : w[k] = types[k]
                              /\ w[Len(types) + 1] = seg
  <2> DEFINE w == Append(types, seg)
  <2>1. /\ w \in Seq(Exact) /\ Len(w) = Len(types) + 1
        /\ \A k \in 1 .. Len(types) : w[k] = types[k]
        /\ w[Len(types) + 1] = seg
    BY <1>1, AppendProperties
  <2> QED
    BY <2>1
<1>3. w # <<>> /\ Len(w) - 1 = Len(types)
  BY <1>1, <1>2, EmptySeq
<1>4. TextLength(w) <= MaxLength
  BY <1>1, <1>2, AppendedLength DEF TextLength
<1>5. AllTypes(Front(w))
  <2> SUFFICES ASSUME NEW k \in DOMAIN Front(w) PROVE Front(w)[k].kind = "named" /\ Front(w)[k].is_type
    BY DEF AllTypes
  <2>1. k \in 1 .. Len(types) /\ Front(w)[k] = w[k]
    <3>1. /\ DOMAIN Front(w) = 1 .. Len(w) - 1
          /\ \A j \in 1 .. Len(w) - 1 : Front(w)[j] = w[j]
      BY <1>3, FrontIs
    <3> QED
      BY <1>3, <3>1
  <2>2. w[k] = types[k] /\ types[k] \in Named
    BY <1>2, <2>1, ElementOfSeq
  <2> QED
    BY <2>1, <2>2, NamedLength
<1>6. ASSUME Len(w) = 1
      PROVE  Last(w).is_type
  <2>1. types = <<>> /\ Last(w) = seg
    BY <1>1, <1>2, <1>3, <1>6, EmptySeq DEF Last
  <2> QED
    BY <2>1
<1> QED
  BY <1>2, <1>3, <1>4, <1>5, <1>6 DEF IsIdentifier, Exact

LEMMA TypesIdentifier ==
    ASSUME WellFormed, NEW types \in Seq(Named), \A k \in 1 .. Len(types) : types[k].is_type,
           types # <<>>, PrefixLength + ChainLength(types) <= MaxLength
    PROVE  IsIdentifier(types)
<1>1. types \in Seq(Exact) /\ types \in Seq(Named \cup UuidTail)
  BY SeqMonotonic DEF Exact
<1>2. /\ Len(types) \in Nat \ {0} /\ Last(types) = types[Len(types)]
      /\ DOMAIN Front(types) = 1 .. Len(types) - 1
      /\ \A k \in 1 .. Len(types) - 1 : Front(types)[k] = types[k]
  BY FrontIs
<1>3. \A k \in 1 .. Len(types) : types[k].kind = "named"
  BY ElementOfSeq, NamedLength
<1>4. Len(types) \in 1 .. Len(types) /\ \A k \in 1 .. Len(types) - 1 : k \in 1 .. Len(types)
  BY <1>2
<1>5. AllTypes(Front(types)) /\ Last(types).is_type
  BY <1>2, <1>3, <1>4 DEF AllTypes
<1> QED
  BY <1>1, <1>5 DEF IsIdentifier, TextLength

-----------------------------------------------------------------------------
(* What is left open can be filled in so that it fits and is like nothing   *)
(* else.                                                                   *)

Another(token) == CHOOSE t \in Tokens : TokenLength[t] = 1 /\ t # token
AnotherVersion(version) == CHOOSE v \in Versions : DigitCount[v] = 1 /\ v # version

LEMMA AnotherIs ==
    ASSUME Ample, NEW x
    PROVE  /\ Another(x) \in Tokens /\ TokenLength[Another(x)] = 1 /\ Another(x) # x
           /\ AnotherVersion(x) \in Versions /\ DigitCount[AnotherVersion(x)] = 1
           /\ AnotherVersion(x) # x
<1>1. \E t \in Tokens : TokenLength[t] = 1 /\ t # x
  BY DEF Ample
<1>2. \E v \in Versions : DigitCount[v] = 1 /\ v # x
  BY DEF Ample
<1> QED
  BY <1>1, <1>2 DEF Another, AnotherVersion

(* The segment that fills a partial one with names and versions which other *)
(* has not.                                                                *)
FilledNames(part, other) ==
    [k \in 1 .. Fields |-> IF k <= Len(part.names) THEN part.names[k] ELSE Another(other.names[k])]

Filled(part, other, is_type) ==
    [kind |-> "named", names |-> FilledNames(part, other),
     major |-> IF part.major = None THEN AnotherVersion(other.major) ELSE part.major,
     minor |-> IF part.major = None THEN None ELSE AnotherVersion(other.minor),
     is_type |-> is_type, uuid |-> None]

LEMMA FilledNamesAre ==
    ASSUME WellFormed, Ample, NEW part \in Wildcard, NEW other
    PROVE  /\ FilledNames(part, other) \in [1 .. Fields -> Tokens]
           /\ NamesLength(FilledNames(part, other)) =
                 NamesLength(part.names) + (Fields - Len(part.names))
           /\ \A k \in DOMAIN part.names :
                 k \in 1 .. Fields /\ FilledNames(part, other)[k] = part.names[k]
           /\ \A k \in 1 .. Fields :
                 k \notin DOMAIN part.names => FilledNames(part, other)[k] # other.names[k]
<1>0. Fields \in Nat \ {0}
  BY DEF WellFormed
<1>1. PICK n \in 0 .. Fields :
          /\ part.names \in [1 .. n -> Tokens] /\ Len(part.names) = n /\ DOMAIN part.names = 1 .. n
  BY PartialTyped
<1>2. PICK more : more = FilledNames(part, other)
  OBVIOUS
<1>3. n \in Nat /\ n <= Fields
  BY <1>0
<1>4. ASSUME NEW k \in 1 .. Fields
      PROVE  /\ k <= n => k \in 1 .. n /\ more[k] = part.names[k]
             /\ ~ (k <= n) => /\ k \notin 1 .. n /\ more[k] # other.names[k]
                              /\ TokenLength[more[k]] = 1
             /\ more[k] \in Tokens
  <2>1. more[k] = IF k <= n THEN part.names[k] ELSE Another(other.names[k])
    BY <1>1, <1>2 DEF FilledNames
  <2>2. CASE k <= n
    <3>1. k \in 1 .. n
      BY <1>3, <2>2
    <3> QED
      BY <1>1, <2>1, <2>2, <3>1
  <2>3. CASE ~ (k <= n)
    <3>1. k \notin 1 .. n
      BY <1>3, <2>3
    <3> QED
      BY <2>1, <2>3, <3>1, AnotherIs
  <2> QED
    BY <2>2, <2>3
<1>5. more \in [1 .. Fields -> Tokens]
  BY <1>2, <1>4 DEF FilledNames
<1>6. NamesLength(more) = NamesLength(part.names) + (Fields - n)
  <2>1. PICK s \in Seq(Nat) : /\ Len(s) = n /\ NamesLength(part.names) = Total(s)
                              /\ \A k \in 1 .. n : s[k] = TokenLength[part.names[k]]
    BY <1>1, <1>3, NamesTyped
  <2>2. PICK t \in Seq(Nat) : /\ Len(t) = Fields /\ NamesLength(more) = Total(t)
                              /\ \A k \in 1 .. Fields : t[k] = TokenLength[more[k]]
    BY <1>0, <1>5, NamesTyped
  <2>3. \A k \in 1 .. Len(s) : t[k] = s[k]
    <3> SUFFICES ASSUME NEW k \in 1 .. n PROVE t[k] = s[k]
      BY <2>1
    <3>1. k \in 1 .. Fields /\ k <= n
      BY <1>0, <1>3
    <3>2. more[k] = part.names[k]
      BY <1>4, <3>1
    <3> QED
      BY <2>1, <2>2, <3>1, <3>2
  <2>4. \A k \in Len(s) + 1 .. Len(t) : t[k] = 1
    <3> SUFFICES ASSUME NEW k \in n + 1 .. Fields PROVE t[k] = 1
      BY <2>1, <2>2
    <3>1. k \in 1 .. Fields /\ ~ (k <= n)
      BY <1>3
    <3> QED
      BY <1>4, <2>2, <3>1
  <2>5. Total(t) = Total(s) + (Len(t) - Len(s))
    BY <1>3, <2>1, <2>2, <2>3, <2>4, TotalOfMore
  <2> QED
    BY <2>1, <2>2, <2>5
<1>7. \A k \in 1 .. n : k \in 1 .. Fields /\ k <= n
  BY <1>0, <1>3
<1>8. \A k \in 1 .. Fields : k \notin 1 .. n => ~ (k <= n)
  BY <1>3
<1> QED
  BY <1>1, <1>2, <1>4, <1>5, <1>6, <1>7, <1>8

LEMMA FilledIs ==
    ASSUME WellFormed, Ample, NEW part \in Wildcard, NEW other, NEW is_type \in BOOLEAN
    PROVE  /\ Filled(part, other, is_type) \in Named
           /\ Filled(part, other, is_type).names = FilledNames(part, other)
           /\ Filled(part, other, is_type).is_type = is_type
           /\ Admits(part, Filled(part, other, is_type))
           /\ part.major = None =>
                 /\ Filled(part, other, is_type).major # other.major
                 /\ Filled(part, other, is_type).minor = None
           /\ part.major # None =>
                 /\ Filled(part, other, is_type).major = part.major
                 /\ Filled(part, other, is_type).minor # other.minor
                 /\ Filled(part, other, is_type).minor # None
<1>1. PICK seg : seg = Filled(part, other, is_type)
  OBVIOUS
<1>2. /\ FilledNames(part, other) \in [1 .. Fields -> Tokens]
      /\ \A k \in DOMAIN part.names :
            k \in 1 .. Fields /\ FilledNames(part, other)[k] = part.names[k]
  BY FilledNamesAre
<1>3. part.major = None \/ part.major \in Versions
  BY PartialTyped
<1>4. None \notin Versions
  BY DEF WellFormed
<1>5. /\ seg.kind = "named" /\ seg.names = FilledNames(part, other)
      /\ seg.is_type = is_type /\ seg.uuid = None
      /\ part.major = None => seg.major = AnotherVersion(other.major) /\ seg.minor = None
      /\ part.major # None => seg.major = part.major /\ seg.minor = AnotherVersion(other.minor)
  BY <1>1 DEF Filled
<1>6. /\ part.major = None => seg.major \in Versions /\ seg.major # other.major /\ seg.minor = None
      /\ part.major # None =>
            seg.major = part.major /\ seg.minor \in Versions /\ seg.minor # other.minor /\ seg.minor # None
  BY <1>4, <1>5, AnotherIs
<1>7. seg \in Named
  <2>1. seg.major \in Versions /\ seg.minor \in Versions \cup {None}
    BY <1>3, <1>6
  <2>2. seg = [kind |-> seg.kind, names |-> seg.names, major |-> seg.major, minor |-> seg.minor,
               is_type |-> seg.is_type, uuid |-> seg.uuid]
    BY <1>1 DEF Filled
  <2> QED
    BY <1>2, <1>5, <2>1, <2>2 DEF Named
<1>8. Admits(part, seg)
  <2>1. DOMAIN seg.names = 1 .. Fields
    BY <1>2, <1>5
  <2>2. NamesCover(part, seg)
    BY <1>2, <1>5, <2>1 DEF NamesCover
  <2> QED
    BY <1>6, <2>2 DEF Admits
<1> QED
  BY <1>1, <1>5, <1>6, <1>7, <1>8

LEMMA FilledLength ==
    ASSUME WellFormed, Ample, NEW part \in Wildcard, NEW other, NEW is_type \in BOOLEAN
    PROVE  /\ SegmentLength(Filled(part, other, is_type)) =
                 ShortestPartial(part) + (IF is_type THEN 1 ELSE 0)
           /\ ShortestPartial(part) \in Nat
<1>0. Fields \in Nat \ {0}
  BY DEF WellFormed
<1>1. PICK n \in 0 .. Fields :
          /\ Len(part.names) = n /\ NamesLength(part.names) \in Nat
          /\ part.major # None =>
                /\ n = Fields /\ part.major \in Versions /\ DigitCount[part.major] \in Nat \ {0}
                /\ ShortestPartial(part) =
                      NamesLength(part.names) + Fields + 1 + DigitCount[part.major] + 2
          /\ part.major = None =>
                ShortestPartial(part) = NamesLength(part.names) + (Fields - n) + Fields + 2
  BY PartialTyped
<1>2. PICK seg \in Named :
          /\ seg = Filled(part, other, is_type) /\ seg.names = FilledNames(part, other)
          /\ seg.is_type = is_type
          /\ part.major = None => seg.major = AnotherVersion(other.major) /\ seg.minor = None
          /\ part.major # None => seg.major = part.major /\ seg.minor = AnotherVersion(other.minor)
  <2> DEFINE seg == Filled(part, other, is_type)
  <2>1. seg \in Named /\ seg.names = FilledNames(part, other) /\ seg.is_type = is_type
    BY FilledIs
  <2>2. /\ part.major = None => seg.major = AnotherVersion(other.major) /\ seg.minor = None
        /\ part.major # None => seg.major = part.major /\ seg.minor = AnotherVersion(other.minor)
    BY DEF Filled
  <2> QED
    BY <2>1, <2>2
<1>3. NamesLength(seg.names) = NamesLength(part.names) + (Fields - n)
  BY <1>1, <1>2, FilledNamesAre
<1>4. PICK mark \in Nat : mark = IF is_type THEN 1 ELSE 0
  OBVIOUS
<1>5. PICK minor \in Nat : minor = IF seg.minor = None THEN 0 ELSE 1 + DigitCount[seg.minor]
  BY NamedLength
<1>6. SegmentLength(seg) = NamesLength(seg.names) + Fields + 1 + DigitCount[seg.major] + minor + mark
  BY <1>2, <1>4, <1>5, NamedLength
<1>7. PICK x \in Nat : x = NamesLength(part.names)
  BY <1>1
<1>8. CASE part.major = None
  <2>1. minor = 0 /\ DigitCount[seg.major] = 1
    BY <1>2, <1>5, <1>8, AnotherIs
  <2>2. SegmentLength(seg) = (x + (Fields - n)) + Fields + 1 + 1 + 0 + mark
    BY <1>3, <1>6, <1>7, <2>1
  <2>3. ShortestPartial(part) = x + (Fields - n) + Fields + 2
    BY <1>1, <1>7, <1>8
  <2> QED
    BY <1>0, <1>2, <1>4, <2>2, <2>3
<1>9. CASE part.major # None
  <2>1. minor = 2 /\ n = Fields
    <3>1. seg.minor = AnotherVersion(other.minor) /\ AnotherVersion(other.minor) \in Versions
          /\ DigitCount[AnotherVersion(other.minor)] = 1
      BY <1>2, <1>9, AnotherIs
    <3>2. seg.minor # None
      BY <3>1 DEF WellFormed
    <3> QED
      BY <1>1, <1>5, <1>9, <3>1, <3>2
  <2>2. PICK digits \in Nat : digits = DigitCount[part.major]
    BY <1>1, <1>9
  <2>3. SegmentLength(seg) = (x + (Fields - Fields)) + Fields + 1 + digits + 2 + mark
    BY <1>2, <1>3, <1>6, <1>7, <1>9, <2>1, <2>2
  <2>4. ShortestPartial(part) = x + Fields + 1 + digits + 2
    BY <1>1, <1>7, <1>9, <2>2
  <2> QED
    BY <1>0, <1>2, <1>4, <2>3, <2>4
<1> QED
  BY <1>8, <1>9

(* What is filled in equals nothing of other: names that agree were fixed.  *)
LEMMA FilledLike ==
    ASSUME WellFormed, Ample, NEW part \in Wildcard, NEW other \in Named,
           FilledNames(part, other) = other.names
    PROVE  other.names = part.names
<1>1. PICK n \in 0 .. Fields : part.names \in [1 .. n -> Tokens] /\ DOMAIN part.names = 1 .. n
  BY PartialTyped
<1>2. \A k \in 1 .. Fields : k \in 1 .. n
  BY <1>1, FilledNamesAre
<1>3. n = Fields
  <2>1. Fields \in Nat \ {0}
    BY DEF WellFormed
  <2>2. Fields \in 1 .. n
    BY <1>2, <2>1
  <2> QED
    BY <2>1, <2>2
<1>4. other.names \in [1 .. Fields -> Tokens]
  BY NamedLength
<1>5. \A k \in 1 .. Fields : other.names[k] = part.names[k]
  BY <1>1, <1>3, FilledNamesAre
<1> QED
  BY <1>1, <1>3, <1>4, <1>5, SameNames

LEMMA FilledMatched ==
    ASSUME WellFormed, Ample, NEW part \in Wildcard, NEW other \in Named, NEW is_type \in BOOLEAN,
           SegmentMatches(other, Filled(part, other, is_type))
    PROVE  /\ other.names = part.names /\ other.major = part.major /\ other.minor = None
           /\ other.is_type = is_type
<1>1. other.names = part.names
  BY FilledIs, FilledLike DEF SegmentMatches
<1>2. part.major # None
  BY FilledIs DEF SegmentMatches
<1> QED
  BY <1>1, <1>2, FilledIs DEF SegmentMatches

LEMMA FilledAdmitted ==
    ASSUME WellFormed, Ample, NEW part \in Wildcard, NEW other \in Wildcard, NEW is_type \in BOOLEAN,
           Admits(other, Filled(part, other, is_type))
    PROVE  PartialCovers(other, part)
<1>0. /\ \A k \in DOMAIN part.names :
            k \in 1 .. Fields /\ FilledNames(part, other)[k] = part.names[k]
      /\ \A k \in 1 .. Fields :
            k \notin DOMAIN part.names => FilledNames(part, other)[k] # other.names[k]
  BY FilledNamesAre, Zenon
<1>1. \A k \in DOMAIN other.names :
          k \in 1 .. Fields /\ FilledNames(part, other)[k] = other.names[k]
  <2>1. Filled(part, other, is_type).names = FilledNames(part, other)
    BY FilledIs
  <2>2. DOMAIN FilledNames(part, other) = 1 .. Fields
    BY DEF FilledNames
  <2> QED
    BY <2>1, <2>2 DEF Admits, NamesCover
<1>2. ASSUME NEW k \in DOMAIN other.names
      PROVE  k \in DOMAIN part.names /\ part.names[k] = other.names[k]
  <2>1. k \in 1 .. Fields /\ FilledNames(part, other)[k] = other.names[k]
    BY <1>1
  <2>2. k \in DOMAIN part.names
    BY <1>0, <2>1
  <2>3. FilledNames(part, other)[k] = part.names[k]
    BY <1>0, <2>2
  <2> QED
    BY <2>1, <2>2, <2>3
<1>3. other.major # None => part.major = other.major
  BY FilledIs DEF Admits
<1> QED
  BY <1>2, <1>3 DEF PartialCovers, NamesCover

(* A scope that leaves its next segment open, and what is known of it.      *)
Open(sel) == ~ sel.instance /\ (sel.next # None \/ sel.types = <<>>)

Bare == [kind |-> "wildcard", names |-> NoNames, major |-> None, minor |-> None,
         is_type |-> FALSE, uuid |-> None]

PartOf(sel) == IF sel.next = None THEN Bare ELSE sel.next

LEMMA BareIs ==
    ASSUME WellFormed
    PROVE  Bare \in Wildcard /\ IsBare(Bare) /\ ShortestPartial(Bare) = ShortestSegment
<1>0. Fields \in Nat \ {0}
  BY DEF WellFormed
<1>1. NoNames \in [1 .. 0 -> Tokens]
  <2>1. NoNames \in Seq(Tokens) /\ Len(NoNames) = 0
    BY EmptySeq DEF NoNames
  <2> QED
    BY <2>1, LenProperties
<1>2. Bare \in Wildcard
  <2>1. 0 \in 0 .. Fields
    BY <1>0
  <2>2. NoNames \in UNION {[1 .. n -> Tokens] : n \in 0 .. Fields}
    BY <1>1, <2>1
  <2> QED
    BY <2>2 DEF Bare, Wildcard
<1>3. IsBare(Bare)
  BY DEF IsBare, Bare, IsWildcard
<1>4. NamesLength(NoNames) = 0
  <2>1. /\ Widths(NoNames) \in Seq(Nat) /\ Len(Widths(NoNames)) = 0
        /\ NamesLength(NoNames) = Total(Widths(NoNames))
    BY <1>1, NamesTyped
  <2> QED
    BY <2>1, TotalIs
<1>5. ShortestPartial(Bare) = 0 + (Fields - 0) + Fields + 2
  <2>1. Len(NoNames) = 0
    BY <1>1, NamesTyped
  <2> QED
    BY <1>4, <2>1 DEF ShortestPartial, Bare
<1> QED
  BY <1>0, <1>2, <1>3, <1>5 DEF ShortestSegment

LEMMA OpenIs ==
    ASSUME WellFormed, NEW sel, IsSelection(sel), Open(sel)
    PROVE  /\ PartOf(sel) \in Wildcard /\ ShortestPartial(PartOf(sel)) \in Nat
           /\ ShortestSelected(sel) =
                 PrefixLength + ChainLength(sel.types) + ShortestPartial(PartOf(sel))
                     + (IF sel.types = <<>> THEN 1 ELSE 0)
           /\ PrefixLength \in Nat /\ ChainLength(sel.types) \in Nat
           /\ Len(sel.types) \in Nat /\ (sel.types = <<>> <=> Len(sel.types) = 0)
<1>1. PartOf(sel) \in Wildcard
  BY BareIs DEF PartOf, IsSelection, Open
<1>2. ShortestPartial(PartOf(sel)) \in Nat
  <2>1. Fields \in Nat \ {0}
    BY DEF WellFormed
  <2>2. PICK n \in 0 .. Fields :
          /\ NamesLength(PartOf(sel).names) \in Nat
          /\ PartOf(sel).major # None =>
                /\ DigitCount[PartOf(sel).major] \in Nat \ {0}
                /\ ShortestPartial(PartOf(sel)) =
                      NamesLength(PartOf(sel).names) + Fields + 1 + DigitCount[PartOf(sel).major] + 2
          /\ PartOf(sel).major = None =>
                ShortestPartial(PartOf(sel)) = NamesLength(PartOf(sel).names) + (Fields - n) + Fields + 2
    BY <1>1, PartialTyped
  <2> QED
    BY <2>1, <2>2
<1>3. ShortestSelected(sel) =
          PrefixLength + ChainLength(sel.types) + ShortestPartial(PartOf(sel))
              + (IF sel.types = <<>> THEN 1 ELSE 0)
  <2>1. CASE sel.next = None
    <3>1. sel.types = <<>> /\ PartOf(sel) = Bare /\ ShortestPartial(PartOf(sel)) = ShortestSegment
      BY <2>1, BareIs DEF Open, PartOf
    <3> QED
      BY <2>1, <3>1 DEF ShortestSelected, Open
  <2>2. CASE sel.next # None
    BY <2>2 DEF ShortestSelected, Open, PartOf
  <2> QED
    BY <2>1, <2>2
<1>4. sel.types \in Seq(Exact)
  BY SeqMonotonic DEF IsSelection, Exact
<1>5. Len(sel.types) \in Nat /\ (sel.types = <<>> <=> Len(sel.types) = 0)
  BY <1>4, EmptySeq, LenProperties
<1> QED
  BY <1>1, <1>2, <1>3, <1>4, <1>5, LengthsTyped DEF WellFormed

LEMMA SelectedNatural ==
    ASSUME WellFormed, NEW sel, IsSelection(sel)
    PROVE  ShortestSelected(sel) \in Nat
<1>1. sel.types \in Seq(Exact)
  BY SeqMonotonic DEF IsSelection, Exact
<1>2. ChainLength(sel.types) \in Nat /\ PrefixLength \in Nat
  BY <1>1, LengthsTyped DEF WellFormed
<1>3. CASE sel.instance
  <2>1. SegmentLength(sel.next) \in Nat
    BY <1>3, ExactLength DEF IsSelection
  <2> QED
    BY <1>2, <1>3, <2>1 DEF ShortestSelected
<1>4. CASE ~ sel.instance /\ ~ Open(sel)
  BY <1>2, <1>4 DEF ShortestSelected, Open
<1>5. CASE Open(sel)
  <2>1. PICK mark \in Nat : mark = IF sel.types = <<>> THEN 1 ELSE 0
    OBVIOUS
  <2> QED
    BY <1>5, <2>1, OpenIs
<1> QED
  BY <1>3, <1>4, <1>5 DEF Open

(* id goes on from the chain of sel by one segment. *)
GoesOn(sel, id, seg) ==
    /\ IsIdentifier(id) /\ Selects(sel, id)
    /\ Len(id) = Len(sel.types) + 1 /\ id[Len(sel.types) + 1] = seg
    /\ \A k \in 1 .. Len(sel.types) : id[k] = sel.types[k]

LEMMA Reflexive ==
    ASSUME NEW seg
    PROVE  SegmentMatches(seg, seg)
BY DEF SegmentMatches

(* There is such an identifier of the least length, and of one more where   *)
(* an instance may become a type.                                          *)
LEMMA OpenWitness ==
    ASSUME WellFormed, Ample, NEW sel, IsSelection(sel), Open(sel), NEW other, NEW is_type \in BOOLEAN,
           sel.types = <<>> => is_type,
           ShortestSelected(sel) <= MaxLength,
           is_type => sel.types = <<>> \/ ShortestSelected(sel) < MaxLength
    PROVE  \E id : GoesOn(sel, id, Filled(PartOf(sel), other, is_type))
<1>1. PICK seg \in Named : /\ seg = Filled(PartOf(sel), other, is_type) /\ seg.is_type = is_type
                           /\ Admits(PartOf(sel), seg)
                           /\ SegmentLength(seg) =
                                 ShortestPartial(PartOf(sel)) + (IF is_type THEN 1 ELSE 0)
  <2> DEFINE seg == Filled(PartOf(sel), other, is_type)
  <2>1. PartOf(sel) \in Wildcard
    BY OpenIs
  <2>2. seg \in Named /\ seg.is_type = is_type /\ Admits(PartOf(sel), seg)
    BY <2>1, FilledIs
  <2>3. SegmentLength(seg) = ShortestPartial(PartOf(sel)) + (IF is_type THEN 1 ELSE 0)
    BY <2>1, FilledLength
  <2> HIDE DEF seg
  <2> QED
    BY <2>2, <2>3 DEF seg
<1>2. PICK chain \in Nat, least \in Nat :
          chain = ChainLength(sel.types) /\ least = ShortestPartial(PartOf(sel))
  BY OpenIs
<1>3. PrefixLength \in Nat /\ MaxLength \in Nat
  BY DEF WellFormed
<1>4. PrefixLength + (chain + SegmentLength(seg)) <= MaxLength
  <2>1. ShortestSelected(sel) = PrefixLength + chain + least + (IF sel.types = <<>> THEN 1 ELSE 0)
    BY <1>2, OpenIs
  <2>2. SegmentLength(seg) = least + (IF is_type THEN 1 ELSE 0)
    BY <1>1, <1>2
  <2>3. CASE sel.types = <<>>
    <3>1. PrefixLength + chain + least + 1 <= MaxLength /\ SegmentLength(seg) = least + 1
      BY <2>1, <2>2, <2>3
    <3> QED
      BY <1>2, <1>3, <3>1
  <2>4. CASE sel.types # <<>> /\ is_type
    <3>1. PrefixLength + chain + least + 0 < MaxLength /\ SegmentLength(seg) = least + 1
      BY <2>1, <2>2, <2>4
    <3> QED
      BY <1>2, <1>3, <3>1
  <2>5. CASE sel.types # <<>> /\ ~ is_type
    <3>1. PrefixLength + chain + least + 0 <= MaxLength /\ SegmentLength(seg) = least + 0
      BY <2>1, <2>2, <2>5
    <3> QED
      BY <1>2, <1>3, <3>1
  <2> QED
    BY <2>3, <2>4, <2>5
<1>5. PICK id : /\ IsIdentifier(id) /\ Len(id) = Len(sel.types) + 1
                /\ \A k \in 1 .. Len(sel.types) : id[k] = sel.types[k]
                /\ id[Len(sel.types) + 1] = seg
  <2>1. sel.types \in Seq(Named) /\ \A k \in 1 .. Len(sel.types) : sel.types[k].is_type
    BY DEF IsSelection
  <2>2. seg \in Exact /\ (sel.types = <<>> => seg.is_type)
    BY <1>1 DEF Exact
  <2>3. PrefixLength + (ChainLength(sel.types) + SegmentLength(seg)) <= MaxLength
    BY <1>2, <1>4
  <2> DEFINE id == Append(sel.types, seg)
  <2>4. /\ IsIdentifier(id) /\ Len(id) = Len(sel.types) + 1
        /\ \A k \in 1 .. Len(sel.types) : id[k] = sel.types[k]
        /\ id[Len(sel.types) + 1] = seg
    BY <2>1, <2>2, <2>3, AppendedIdentifier
  <2> QED
    BY <2>4
<1>6. Selects(sel, id)
  <2>1. Len(sel.types) \in Nat
    BY OpenIs
  <2>2. Len(sel.types) <= Len(id) /\ Len(sel.types) < Len(id)
    BY <1>5, <2>1
  <2>3. \A k \in 1 .. Len(sel.types) : SegmentMatches(sel.types[k], id[k])
    BY <1>5, Reflexive
  <2>4. sel.next # None => Admits(sel.next, id[Len(sel.types) + 1])
    BY <1>1, <1>5 DEF PartOf
  <2> QED
    BY <2>2, <2>3, <2>4 DEF Selects, Open
<1> QED
  BY <1>1, <1>5, <1>6 DEF GoesOn

-----------------------------------------------------------------------------
(* Whoever selects the witness is seen to cover. *)

MatchAll(op, val) == \A id : IsIdentifier(id) /\ Selects(val, id) => Selects(op, id)

LEMMA ChainNeeded ==
    ASSUME NEW op, IsSelection(op), NEW val, IsSelection(val), NEW id, Selects(op, id),
           Len(op.types) <= Len(val.types), \A k \in 1 .. Len(val.types) : id[k] = val.types[k]
    PROVE  ChainCovers(op.types, val.types)
<1>1. Len(op.types) \in Nat /\ Len(val.types) \in Nat /\ DOMAIN op.types = 1 .. Len(op.types)
  BY LenProperties DEF IsSelection
<1>2. ASSUME NEW k \in 1 .. Len(op.types)
      PROVE  SegmentCovers(op.types[k], val.types[k])
  <2>1. k \in 1 .. Len(val.types)
    BY <1>1
  <2>2. SegmentMatches(op.types[k], val.types[k])
    BY <2>1 DEF Selects
  <2> QED
    BY <2>2 DEF SegmentMatches, SegmentCovers
<1> QED
  BY <1>1, <1>2 DEF ChainCovers

LEMMA InstanceSeen ==
    ASSUME WellFormed, NEW op, IsSelection(op), NEW val, IsSelection(val), val.instance,
           NEW id, Selects(op, id), Len(id) = Len(val.types) + 1, id[Len(val.types) + 1] = val.next,
           \A k \in 1 .. Len(val.types) : id[k] = val.types[k]
    PROVE  /\ op.instance => InstanceCoversInstance(op, val)
           /\ ~ op.instance => ScopeCoversInstance(op, val)
<1> DEFINE m == Len(val.types)
           n == Len(op.types)
<1>1. /\ val.types \in Seq(Named) /\ val.types # <<>> /\ val.next \in Exact /\ ~ val.next.is_type
      /\ \A k \in 1 .. m : val.types[k].is_type
      /\ m \in Nat /\ n \in Nat /\ op.types \in Seq(Named) /\ \A k \in 1 .. n : op.types[k].is_type
  BY LenProperties DEF IsSelection
<1>2. /\ Len(id) = m + 1 /\ id[m + 1] = val.next
      /\ \A k \in 1 .. m : id[k] = val.types[k]
  OBVIOUS
<1>3. Selects(op, id)
  OBVIOUS
<1>4. ASSUME op.instance
      PROVE  InstanceCoversInstance(op, val)
  <2>1. n = m /\ SegmentMatches(op.next, val.next) /\ op.next \in Exact
    BY <1>1, <1>2, <1>3, <1>4 DEF Selects, IsSelection
  <2>2. SameChainCovers(op.types, val.types)
    BY <1>1, <1>2, <1>3, <2>1, ChainNeeded DEF SameChainCovers
  <2>3. TailCovers(op.next, val.next)
    <3>1. CASE op.next.uuid # None
      BY <2>1, <3>1 DEF SegmentMatches, TailCovers
    <3>2. CASE op.next.uuid = None
      <4>1. op.next \in Named
        BY <2>1, <3>2 DEF Exact, UuidTail, WellFormed
      <4>2. op.next.major # None /\ op.next.major = val.next.major
        BY <2>1, <4>1, NamedLength DEF SegmentMatches
      <4>3. val.next \in Named /\ val.next.uuid = None
        BY <1>1, <4>2, NamedLength DEF Exact, UuidTail
      <4> QED
        BY <2>1, <3>2, <4>3 DEF SegmentMatches, TailCovers, SegmentCovers
    <3> QED
      BY <3>1, <3>2
  <2> QED
    BY <2>2, <2>3 DEF InstanceCoversInstance
<1>5. ASSUME ~ op.instance
      PROVE  ScopeCoversInstance(op, val)
  <2>1. n <= m + 1
    BY <1>2, <1>3 DEF Selects
  <2>2. n <= m
    <3>1. ASSUME n = m + 1
          PROVE  FALSE
      <4>1. n \in 1 .. n
        BY <1>1, <3>1
      <4>2. SegmentMatches(op.types[n], val.next) /\ op.types[n].is_type
        BY <1>1, <1>2, <1>3, <3>1, <4>1 DEF Selects
      <4> QED
        BY <1>1, <4>2 DEF SegmentMatches
    <3> QED
      BY <1>1, <2>1, <3>1
  <2>3. ChainCovers(op.types, val.types)
    BY <1>2, <1>3, <2>2, ChainNeeded
  <2>4. ASSUME op.next # None
        PROVE  Admits(op.next, IF n < m THEN val.types[n + 1] ELSE val.next)
    <3>1. Admits(op.next, id[n + 1])
      BY <1>3, <1>5, <2>4 DEF Selects
    <3>2. CASE n < m
      <4>1. n + 1 \in 1 .. m
        BY <1>1, <3>2
      <4> QED
        BY <1>2, <3>1, <3>2, <4>1
    <3>3. CASE ~ (n < m)
      <4>1. n = m
        BY <1>1, <2>2, <3>3
      <4> QED
        BY <1>2, <3>1, <3>3, <4>1
    <3> QED
      BY <3>2, <3>3
  <2> QED
    BY <2>2, <2>3, <2>4 DEF ScopeCoversInstance
<1> QED
  BY <1>4, <1>5

LEMMA InstanceNeeded ==
    ASSUME WellFormed, NEW op, IsSelection(op), NEW val, IsSelection(val), val.instance,
           MatchAll(op, val), ShortestSelected(val) <= MaxLength
    PROVE  /\ op.instance => InstanceCoversInstance(op, val)
           /\ ~ op.instance => ScopeCoversInstance(op, val)
<1> DEFINE m == Len(val.types)
<1>1. /\ val.types \in Seq(Named) /\ val.types # <<>> /\ val.next \in Exact /\ ~ val.next.is_type
      /\ \A k \in 1 .. m : val.types[k].is_type
      /\ m \in Nat
  BY LenProperties DEF IsSelection
<1>2. PICK id : /\ IsIdentifier(id) /\ Len(id) = m + 1 /\ id[m + 1] = val.next
                /\ \A k \in 1 .. m : id[k] = val.types[k]
  <2>1. PrefixLength + (ChainLength(val.types) + SegmentLength(val.next)) <= MaxLength
    <3>1. val.types \in Seq(Exact)
      BY <1>1, SeqMonotonic DEF Exact
    <3>2. ChainLength(val.types) \in Nat /\ SegmentLength(val.next) \in Nat /\ PrefixLength \in Nat
          /\ MaxLength \in Nat
      BY <1>1, <3>1, LengthsTyped, ExactLength DEF WellFormed
    <3>3. PrefixLength + ChainLength(val.types) + SegmentLength(val.next) <= MaxLength
      BY DEF ShortestSelected
    <3> QED
      BY <3>2, <3>3
  <2> DEFINE id == Append(val.types, val.next)
  <2>2. /\ IsIdentifier(id) /\ Len(id) = m + 1 /\ id[m + 1] = val.next
        /\ \A k \in 1 .. m : id[k] = val.types[k]
    BY <1>1, <2>1, AppendedIdentifier
  <2> QED
    BY <2>2
<1>3. Selects(op, id)
  <2>1. Selects(val, id)
    BY <1>1, <1>2, Reflexive DEF Selects
  <2> QED
    BY <1>2, <2>1 DEF MatchAll
<1> QED
  BY <1>2, <1>3, InstanceSeen

LEMMA ClosedSeen ==
    ASSUME WellFormed, NEW op, IsSelection(op), NEW val, IsSelection(val),
           ~ val.instance, ~ Open(val), Selects(op, val.types)
    PROVE  ~ op.instance /\ ScopeCoversScope(op, val)
<1> DEFINE m == Len(val.types)
           n == Len(op.types)
<1>1. /\ val.types \in Seq(Named) /\ val.types # <<>> /\ val.next = None
      /\ \A k \in 1 .. m : val.types[k].is_type
      /\ m \in Nat \ {0} /\ n \in Nat /\ op.types \in Seq(Named)
  BY LenProperties, EmptySeq DEF IsSelection, Open
<1>2. Selects(op, val.types)
  OBVIOUS
<1>3. ~ op.instance
  <2> SUFFICES ASSUME op.instance PROVE FALSE
    OBVIOUS
  <2>1. n + 1 \in 1 .. m /\ SegmentMatches(op.next, val.types[n + 1])
    BY <1>1, <1>2 DEF Selects
  <2>2. val.types[n + 1].is_type
    BY <1>1, <2>1
  <2> QED
    BY <2>1, <2>2 DEF SegmentMatches, IsSelection
<1>4. n <= m
  BY <1>2 DEF Selects
<1>5. ChainCovers(op.types, val.types)
  BY <1>2, <1>4, ChainNeeded
<1>6. op.next # None => n < m /\ Admits(op.next, val.types[n + 1])
  BY <1>2, <1>3 DEF Selects
<1>7. ~ (n > m)
  BY <1>1, <1>4
<1> QED
  BY <1>3, <1>5, <1>6, <1>7 DEF ScopeCoversScope

LEMMA ClosedNeeded ==
    ASSUME WellFormed, NEW op, IsSelection(op), NEW val, IsSelection(val),
           ~ val.instance, ~ Open(val), MatchAll(op, val), ShortestSelected(val) <= MaxLength
    PROVE  ~ op.instance /\ ScopeCoversScope(op, val)
<1> DEFINE m == Len(val.types)
<1>1. /\ val.types \in Seq(Named) /\ val.types # <<>> /\ val.next = None
      /\ \A k \in 1 .. m : val.types[k].is_type
      /\ m \in Nat \ {0}
  BY LenProperties, EmptySeq DEF IsSelection, Open
<1>2. IsIdentifier(val.types)
  BY <1>1, TypesIdentifier DEF ShortestSelected
<1>3. Selects(op, val.types)
  <2>1. Selects(val, val.types)
    BY <1>1, Reflexive DEF Selects
  <2> QED
    BY <1>2, <2>1 DEF MatchAll
<1> QED
  BY <1>3, ClosedSeen

LEMMA OpenScopeNeeded ==
    ASSUME WellFormed, Ample, NEW op, IsSelection(op), NEW val, IsSelection(val),
           ~ op.instance, Open(val), MatchAll(op, val), ShortestSelected(val) <= MaxLength
    PROVE  ScopeCoversScope(op, val)
<1> DEFINE m == Len(val.types)
           n == Len(op.types)
           part == PartOf(val)
<1>1. /\ m \in Nat /\ n \in Nat /\ op.types \in Seq(Named) /\ \A k \in 1 .. n : op.types[k].is_type
      /\ part \in Wildcard /\ (val.types = <<>> <=> m = 0)
      /\ op.next = None \/ (op.next \in Wildcard /\ ~ IsBare(op.next))
  BY OpenIs, LenProperties DEF IsSelection
<1>2. PICK is_type \in BOOLEAN : is_type <=> val.types = <<>>
  OBVIOUS
<1>3. CASE n > m
  <2>1. PICK id : GoesOn(val, id, Filled(part, op.types[m + 1], is_type))
    BY <1>2, OpenWitness
  <2>2. Selects(op, id) /\ Len(id) = m + 1
    BY <2>1 DEF GoesOn, MatchAll
  <2>3. n = m + 1 /\ m + 1 \in 1 .. n
    BY <1>1, <1>3, <2>2 DEF Selects
  <2>4. op.types[m + 1] \in Named /\ op.types[m + 1].is_type
    BY <1>1, <2>3, ElementOfSeq
  <2>5. SegmentMatches(op.types[m + 1], Filled(part, op.types[m + 1], is_type))
    BY <2>1, <2>2, <2>3 DEF GoesOn, Selects
  <2>6. /\ op.types[m + 1].names = part.names /\ op.types[m + 1].major = part.major
        /\ op.types[m + 1].minor = None /\ op.types[m + 1].is_type = is_type
    BY <1>1, <2>4, <2>5, FilledMatched
  <2>7. val.types = <<>> /\ m = 0 /\ n = 1
    BY <1>1, <1>2, <2>3, <2>4, <2>6
  <2>8. op.next = None
    <3>1. ~ (n < Len(id))
      BY <1>1, <2>2, <2>3
    <3> QED
      BY <2>2, <3>1 DEF Selects
  <2>9. val.next # None /\ part = val.next
    <3>1. part.major # None
      BY <2>4, <2>6, NamedLength
    <3> QED
      BY <3>1 DEF PartOf, Bare
  <2>10. FirstTypeCovers(op, val)
    BY <2>6, <2>7, <2>8, <2>9 DEF FirstTypeCovers
  <2> QED
    BY <1>3, <2>10 DEF ScopeCoversScope
<1>4. CASE ~ (n > m)
  <2>1. PICK id : GoesOn(val, id, Filled(part, op.next, is_type))
    BY <1>2, OpenWitness
  <2>2. Selects(op, id) /\ \A k \in 1 .. m : id[k] = val.types[k]
    BY <2>1 DEF GoesOn, MatchAll
  <2>3. n <= m
    BY <1>1, <1>4
  <2>4. ChainCovers(op.types, val.types)
    BY <2>2, <2>3, ChainNeeded
  <2>5. ASSUME op.next # None
        PROVE  IF n < m THEN Admits(op.next, val.types[n + 1])
               ELSE val.next # None /\ PartialCovers(op.next, val.next)
    <3>1. Admits(op.next, id[n + 1]) /\ op.next \in Wildcard /\ ~ IsBare(op.next)
      BY <1>1, <2>2, <2>5 DEF Selects
    <3>2. CASE n < m
      <4>1. n + 1 \in 1 .. m
        BY <1>1, <3>2
      <4> QED
        BY <2>2, <3>1, <3>2, <4>1
    <3>3. CASE ~ (n < m)
      <4>1. n = m
        BY <1>1, <2>3, <3>3
      <4>2. Admits(op.next, Filled(part, op.next, is_type))
        BY <2>1, <3>1, <4>1 DEF GoesOn
      <4>3. PartialCovers(op.next, part)
        BY <1>1, <3>1, <4>2, FilledAdmitted
      <4>4. val.next # None
        <5> SUFFICES ASSUME val.next = None PROVE FALSE
          OBVIOUS
        <5>1. part.names = NoNames
          BY DEF PartOf, Bare
        <5>2. PICK i \in 0 .. Fields : DOMAIN op.next.names = 1 .. i /\ (i = 0 <=> IsBare(op.next))
          BY <3>1, PartialTyped
        <5>3. 1 \in DOMAIN op.next.names
          <6>1. Fields \in Nat
            BY DEF WellFormed
          <6> QED
            BY <3>1, <5>2, <6>1
        <5>4. 1 \in DOMAIN NoNames
          BY <4>3, <5>1, <5>3 DEF PartialCovers, NamesCover
        <5> QED
          BY <5>4 DEF NoNames
      <4> QED
        BY <3>3, <4>3, <4>4 DEF PartOf
    <3> QED
      BY <3>2, <3>3
  <2> QED
    BY <1>4, <2>4, <2>5 DEF ScopeCoversScope
<1> QED
  BY <1>3, <1>4

LEMMA OpenInstanceNeeded ==
    ASSUME WellFormed, Ample, NEW op, IsSelection(op), NEW val, IsSelection(val),
           op.instance, Open(val), MatchAll(op, val), ShortestSelected(val) <= MaxLength
    PROVE  ShortestSelected(val) = MaxLength /\ InstanceCoversScope(op, val)
<1> DEFINE m == Len(val.types)
           n == Len(op.types)
           part == PartOf(val)
<1>1. /\ m \in Nat /\ n \in Nat /\ part \in Wildcard
      /\ op.next \in Exact /\ ~ op.next.is_type
  BY OpenIs, LenProperties DEF IsSelection
<1>2. ASSUME NEW is_type \in BOOLEAN, NEW id, GoesOn(val, id, Filled(part, op.next, is_type))
      PROVE  /\ n = m /\ ChainCovers(op.types, val.types) /\ ~ is_type
             /\ op.next \in Named /\ SegmentMatches(op.next, Filled(part, op.next, is_type))
  <2>1. Selects(op, id) /\ Len(id) = m + 1 /\ \A k \in 1 .. m : id[k] = val.types[k]
    BY <1>2 DEF GoesOn, MatchAll
  <2>2. n = m
    BY <1>1, <2>1 DEF Selects
  <2>3. SegmentMatches(op.next, Filled(part, op.next, is_type))
    BY <1>2, <2>1, <2>2 DEF GoesOn, Selects
  <2>4. ChainCovers(op.types, val.types)
    <3>1. n <= m
      BY <1>1, <2>2
    <3> QED
      BY <2>1, <3>1, ChainNeeded
  <2>5. ~ is_type
    BY <1>1, <2>3, FilledIs DEF SegmentMatches
  <2>6. op.next \in Named
    <3>1. Filled(part, op.next, is_type) \in Named
      BY <1>1, FilledIs
    <3>2. op.next.major # None
      BY <2>3, <3>1, NamedLength DEF SegmentMatches
    <3> QED
      BY <1>1, <3>2 DEF Exact, UuidTail
  <2> QED
    BY <2>2, <2>3, <2>4, <2>5, <2>6
<1>3. ShortestSelected(val) \in Nat /\ MaxLength \in Nat
  BY SelectedNatural DEF WellFormed
<1>4. val.types # <<>> /\ ShortestSelected(val) = MaxLength
  <2> SUFFICES ASSUME val.types = <<>> \/ ShortestSelected(val) < MaxLength PROVE FALSE
    BY <1>3
  <2>1. PICK id : GoesOn(val, id, Filled(part, op.next, TRUE))
    BY OpenWitness
  <2> QED
    BY <1>2, <2>1
<1>5. PICK id : GoesOn(val, id, Filled(part, op.next, FALSE))
  BY <1>4, OpenWitness
<1>6. /\ n = m /\ ChainCovers(op.types, val.types)
      /\ op.next \in Named /\ SegmentMatches(op.next, Filled(part, op.next, FALSE))
  BY <1>2, <1>5
<1>7. op.next.names = part.names /\ op.next.major = part.major /\ op.next.minor = None
  BY <1>1, <1>6, FilledMatched
<1>8. op.next.uuid = None
  BY <1>6, NamedLength
<1>9. val.next # None /\ part = val.next
  BY <1>4 DEF Open, PartOf
<1> QED
  BY <1>4, <1>6, <1>7, <1>8, <1>9 DEF InstanceCoversScope, SameChainCovers

-----------------------------------------------------------------------------
(* Coverage is exact: a pattern covers another just when it matches every   *)
(* identifier that the other matches (GtsIdPattern::covers).  That it never *)
(* says no to a pattern it does cover rests on there being a second short   *)
(* name and a second short version to be left out.                         *)
THEOREM CoverageComplete ==
    ASSUME WellFormed, Ample, NEW p, IsPattern(p), NEW q, IsPattern(q)
    PROVE  Covers(p, q) <=> \A id : IsIdentifier(id) /\ Matches(q, id) => Matches(p, id)
<1> DEFINE op == SelectionOf(p)
           val == SelectionOf(q)
<1>1. Covers(p, q) => \A id : IsIdentifier(id) /\ Matches(q, id) => Matches(p, id)
  BY CoverageSound
<1>2. ASSUME \A id : IsIdentifier(id) /\ Matches(q, id) => Matches(p, id)
      PROVE  Covers(p, q)
  <2>1. IsSelection(op) /\ IsSelection(val)
    BY SelectionTyped
  <2>2. MatchAll(op, val)
    BY <1>2, MatchesSelects DEF MatchAll
  <2>3. Covers(p, q) <=> \/ ShortestSelected(val) > MaxLength
                         \/ CoversNonempty(op, val, ShortestSelected(val) = MaxLength)
    BY DEF Covers
  <2> HIDE DEF op, val
  <2> SUFFICES ASSUME ~ (ShortestSelected(val) > MaxLength)
               PROVE  CoversNonempty(op, val, ShortestSelected(val) = MaxLength)
    BY <2>3
  <2>4. ShortestSelected(val) <= MaxLength
    BY SelectedNatural, <2>1 DEF WellFormed
  <2>5. CASE val.instance
    BY <2>1, <2>2, <2>4, <2>5, InstanceNeeded DEF CoversNonempty
  <2>6. CASE ~ val.instance /\ ~ Open(val)
    BY <2>1, <2>2, <2>4, <2>6, ClosedNeeded DEF CoversNonempty
  <2>7. CASE ~ val.instance /\ Open(val) /\ op.instance
    BY <2>1, <2>2, <2>4, <2>7, OpenInstanceNeeded DEF CoversNonempty
  <2>8. CASE ~ val.instance /\ Open(val) /\ ~ op.instance
    BY <2>1, <2>2, <2>4, <2>8, OpenScopeNeeded DEF CoversNonempty
  <2> QED
    BY <2>5, <2>6, <2>7, <2>8
<1> QED
  BY <1>1, <1>2

-----------------------------------------------------------------------------
(* An identifier is judged alike by both ways that match_id_pattern has:    *)
(* tested segment by segment, as a candidate without a star is, or taken    *)
(* for a pattern and compared by coverage, as one with a star is            *)
(* (GtsId::matches_pattern, GtsIdPattern::matches_pattern: the "same        *)
(* field-level logic").  It holds at any limit, without Ample.             *)
THEOREM JudgedAlike ==
    ASSUME WellFormed, NEW p, IsPattern(p), NEW id, IsIdentifier(id)
    PROVE  Matches(p, id) <=> Covers(p, id)
<1> DEFINE op == SelectionOf(p)
           val == SelectionOf(id)
           n == Len(id)
<1>1. IsPattern(id)
  BY DEF IsPattern
<1>2. /\ n \in Nat \ {0} /\ id # <<>>
      /\ Last(id) = id[n] /\ Len(Front(id)) = n - 1
      /\ \A k \in 1 .. n - 1 : Front(id)[k] = id[k] /\ id[k].is_type
  BY <1>1, PatternShape
<1>3. ~ IsWildcard(Last(id))
  <2>1. n \in 1 .. n
    BY <1>2
  <2>2. Last(id) \in Exact
    BY <1>2, <2>1, IdentifierShape
  <2> QED
    BY <2>2, NamedOrUuid
<1>4. IsSelection(op) /\ IsSelection(val)
  BY <1>1, SelectionTyped
<1>5. val = IF Last(id).is_type
            THEN [instance |-> FALSE, types |-> id, next |-> None]
            ELSE [instance |-> TRUE, types |-> Front(id), next |-> Last(id)]
  BY <1>3 DEF SelectionOf
<1>6. Selects(val, id)
  <2>1. CASE Last(id).is_type
    BY <1>2, <1>5, <2>1, Reflexive DEF Selects
  <2>2. CASE ~ Last(id).is_type
    <3>1. n - 1 + 1 = n /\ n - 1 <= n
      BY <1>2
    <3> QED
      BY <1>2, <1>5, <2>2, <3>1, Reflexive DEF Selects
  <2> QED
    BY <2>1, <2>2
<1>7. Matches(id, id)
  BY <1>1, <1>6, MatchesSelects
<1>8. Covers(p, id) => Matches(p, id)
  BY <1>1, <1>7, CoverageSound
<1>9. ASSUME Matches(p, id)
      PROVE  Covers(p, id)
  <2>1. Selects(op, id)
    BY <1>9, MatchesSelects
  <2> SUFFICES CoversNonempty(op, val, ShortestSelected(val) = MaxLength)
    BY DEF Covers
  <2>2. CASE Last(id).is_type
    <3>1. ~ val.instance /\ val.types = id /\ val.next = None
      BY <1>5, <2>2
    <3>2. ~ Open(val)
      BY <1>2, <3>1 DEF Open
    <3> HIDE DEF op, val
    <3>3. ~ op.instance /\ ScopeCoversScope(op, val)
      BY <1>4, <2>1, <3>1, <3>2, ClosedSeen
    <3> QED
      BY <3>1, <3>3 DEF CoversNonempty
  <2>3. CASE ~ Last(id).is_type
    <3>1. val.instance /\ val.types = Front(id) /\ val.next = Last(id)
      BY <1>5, <2>3
    <3>2. /\ Len(id) = Len(val.types) + 1 /\ id[Len(val.types) + 1] = val.next
          /\ \A k \in 1 .. Len(val.types) : id[k] = val.types[k]
      <4>1. n - 1 + 1 = n
        BY <1>2
      <4> QED
        BY <1>2, <3>1, <4>1
    <3> HIDE DEF op, val
    <3>3. /\ op.instance => InstanceCoversInstance(op, val)
          /\ ~ op.instance => ScopeCoversInstance(op, val)
      BY <1>4, <2>1, <3>1, <3>2, InstanceSeen
    <3> QED
      BY <1>4, <3>1, <3>3 DEF CoversNonempty, IsSelection
  <2> QED
    BY <2>2, <2>3
<1> QED
  BY <1>8, <1>9
=============================================================================
