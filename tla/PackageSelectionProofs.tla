------------------------- MODULE PackageSelectionProofs -------------------------
(***************************************************************************)
(* Theorems about PackageSelection: the list of packages that              *)
(* apply_package_changes makes of any list, for any request.               *)
(***************************************************************************)
EXTENDS PackageSelection, NaturalsInduction, WellFoundedInduction, SequenceTheorems,
        FiniteSetTheorems, TLAPS

-----------------------------------------------------------------------------
(* Induction and recursion over an interval *)

Below == {p \in Nat \X Nat : p[1] < p[2]}

LEMMA BelowWellFounded == IsWellFoundedOn(Below, Nat)
    BY NatLessThanWellFounded, Zenon DEF OpToRel, Below

LEMMA Least ==
    ASSUME NEW T, T \subseteq Nat, T # {}
    PROVE  \E x \in T : \A y \in T : x <= y
<1>1. PICK x \in T : \A y \in T : ~(<<y, x>> \in Below)
    BY BelowWellFounded, WFMin, Zenon
<1>2. ASSUME NEW y \in T PROVE x <= y
    <2>1. x \in Nat /\ y \in Nat
        OBVIOUS
    <2>2. ~(y < x)
        BY <1>1, <2>1 DEF Below
    <2> QED
        BY <2>1, <2>2
<1> QED
    BY <1>2

LEMMA Induction ==
    ASSUME NEW n \in Nat, NEW P, 0 \in P, \A i \in 1..n : i - 1 \in P => i \in P
    PROVE  0..n \subseteq P
<1> SUFFICES ASSUME NEW k \in 0..n, k \notin P PROVE FALSE
    OBVIOUS
<1> DEFINE T == {i \in 0..n : i \notin P}
<1>1. PICK x \in T : \A y \in T : x <= y
    <2>1. T \subseteq Nat /\ T # {}
        OBVIOUS
    <2> QED
        BY <2>1, Least
<1>2. x \in 1..n /\ x - 1 \in 0..n
    OBVIOUS
<1>3. x - 1 \in P
    BY <1>1, <1>2
<1> QED
    BY <1>2, <1>3

IsRun(f, X, n, base, step) ==
    f \in [0..n -> X] /\ f[0] = base /\ \A i \in 1..n : f[i] = step[i][f[i - 1]]

LEMMA Recursion ==
    ASSUME NEW X, NEW n \in Nat, NEW base \in X, NEW step \in [1..n -> [X -> X]]
    PROVE  \E f : IsRun(f, X, n, base, step)
<1> DEFINE Computes(f, k) == f[0] = base /\ \A i \in 1..k : f[i] = step[i][f[i - 1]]
           P == {k \in 0..n : \E f \in [0..k -> X] : Computes(f, k)}
<1>1. 0 \in P
    <2>1. [i \in 0..0 |-> base] \in [0..0 -> X] /\ Computes([i \in 0..0 |-> base], 0)
        OBVIOUS
    <2>2. 0 \in 0..n
        OBVIOUS
    <2> HIDE DEF Computes
    <2> QED
        BY <2>1, <2>2
<1>2. ASSUME NEW k \in 1..n, k - 1 \in P PROVE k \in P
    <2>1. PICK f \in [0..k - 1 -> X] : Computes(f, k - 1)
        BY <1>2
    <2> DEFINE g == [i \in 0..k |-> IF i = k THEN step[k][f[k - 1]] ELSE f[i]]
    <2>2. step[k] \in [X -> X] /\ f[k - 1] \in X
        OBVIOUS
    <2>3. g \in [0..k -> X]
        BY <2>2
    <2>4. ASSUME NEW i \in 1..k PROVE g[i] = step[i][g[i - 1]]
        <3>1. CASE i = k
            BY <3>1
        <3>2. CASE i # k
            <4>1. i \in 1..k - 1 /\ i \in 0..k /\ i - 1 \in 0..k /\ i - 1 # k
                BY <3>2
            <4> QED
                BY <2>1, <3>2, <4>1
        <3> QED
            BY <3>1, <3>2
    <2>5. g[0] = base
        BY <2>1
    <2> HIDE DEF g
    <2> QED
        BY <2>3, <2>4, <2>5
<1>3. n \in P
    <2> HIDE DEF P
    <2>1. 0..n \subseteq P
        BY <1>1, <1>2, Induction
    <2> QED
        BY <2>1
<1> QED
    BY <1>3 DEF IsRun

-----------------------------------------------------------------------------
(* What the operators do to a list *)

LEMMA RulesAdd ==
    /\ Len(Rules) \in Nat /\ DOMAIN Rules = 1..Len(Rules)
    /\ \A i \in 1..Len(Rules) : Rules[i].add \in Names \ DOMAIN NewNameOf
    /\ "auc" \in Names /\ "owut" \in Names \ DOMAIN NewNameOf
<1>1. Len(Rules) = 13 /\ DOMAIN Rules = 1..13
    BY DEF Rules
<1>2. \A i \in DOMAIN Rules : Rules[i].add \in Names \ DOMAIN NewNameOf
    BY RulesAssumption
<1> QED
    BY <1>1, <1>2, RulesAssumption

LEMMA PlusIsPackage == \A n \in Names : Plus(n) \in Package
    BY DEF Plus, Package

LEMMA AddIfMissingType ==
    ASSUME NEW s \in Seq(Package), NEW n \in Names
    PROVE  AddIfMissing(s, n) \in Seq(Package)
    BY PlusIsPackage, AppendProperties DEF AddIfMissing

\* The list after each rule.
RulesRun(f, r, s) ==
    /\ f \in [0..Len(Rules) -> Seq(Package)]
    /\ f[0] = s
    /\ \A i \in 1..Len(Rules) :
           f[i] = IF Applies(Rules[i], r) THEN AddIfMissing(f[i - 1], Rules[i].add) ELSE f[i - 1]
    /\ AddByRules(r, s) = f[Len(Rules)]

LEMMA AddByRulesSteps ==
    ASSUME NEW r, NEW s \in Seq(Package)
    PROVE  \E f : RulesRun(f, r, s)
<1> DEFINE n == Len(Rules)
           added[i \in 0..n] ==
               IF i = 0 THEN s
               ELSE IF Applies(Rules[i], r) THEN AddIfMissing(added[i - 1], Rules[i].add)
               ELSE added[i - 1]
           step == [i \in 1..n |-> [l \in Seq(Package) |->
                       IF Applies(Rules[i], r) THEN AddIfMissing(l, Rules[i].add) ELSE l]]
<1>1. AddByRules(r, s) = added[n]
    BY DEF AddByRules
<1>2. n \in Nat /\ step \in [1..n -> [Seq(Package) -> Seq(Package)]]
    BY RulesAdd, AddIfMissingType
<1>3. PICK f \in [0..n -> Seq(Package)] :
          f[0] = s /\ \A i \in 1..n : f[i] = step[i][f[i - 1]]
    <2> DEFINE X == Seq(Package)
    <2>1. step \in [1..n -> [X -> X]] /\ s \in X /\ n \in Nat
        BY <1>2
    <2> HIDE DEF step, n, added, X
    <2>2. \E f : IsRun(f, X, n, s, step)
        BY <2>1, Recursion
    <2> QED
        BY <2>2 DEF X, IsRun
<1>4. \A i \in 1..n : f[i] = IF Applies(Rules[i], r) THEN AddIfMissing(f[i - 1], Rules[i].add)
                                                     ELSE f[i - 1]
    <2> TAKE i \in 1..n
    <2>1. i - 1 \in 0..n
        BY <1>2
    <2>2. f[i - 1] \in Seq(Package)
        BY <2>1
    <2> QED
        BY <1>3, <2>2
<1>5. f = [i \in 0..n |->
               IF i = 0 THEN s
               ELSE IF Applies(Rules[i], r) THEN AddIfMissing(f[i - 1], Rules[i].add)
               ELSE f[i - 1]]
    BY <1>2, <1>3, <1>4
<1>6. added = [i \in 0..n |->
               IF i = 0 THEN s
               ELSE IF Applies(Rules[i], r) THEN AddIfMissing(added[i - 1], Rules[i].add)
               ELSE added[i - 1]]
    BY <1>5
<1>7. added[0] = s /\ \A i \in 1..n :
          added[i] = IF Applies(Rules[i], r) THEN AddIfMissing(added[i - 1], Rules[i].add)
                                             ELSE added[i - 1]
    <2> HIDE DEF added, n
    <2>1. 0 \in 0..n /\ \A i \in 1..n : i \in 0..n /\ i # 0
        BY <1>2
    <2> QED
        BY <1>6, <2>1
<1>8. 0..n \subseteq {i \in 0..n : added[i] \in Seq(Package)}
    <2> DEFINE P == {i \in 0..n : added[i] \in Seq(Package)}
    <2> HIDE DEF added
    <2>1. 0 \in P
        BY <1>2, <1>7
    <2>2. ASSUME NEW i \in 1..n, i - 1 \in P PROVE i \in P
        <3>1. i \in 0..n /\ added[i - 1] \in Seq(Package) /\ Rules[i].add \in Names
            BY <1>2, <2>2, RulesAdd
        <3>2. AddIfMissing(added[i - 1], Rules[i].add) \in Seq(Package)
            BY <3>1, AddIfMissingType
        <3> QED
            BY <1>7, <3>1, <3>2
    <2> HIDE DEF P
    <2>3. 0..n \subseteq P
        BY <1>2, <2>1, <2>2, Induction
    <2> QED
        BY <2>3 DEF P
<1>9. added \in [0..n -> Seq(Package)]
    <2> HIDE DEF added
    <2> QED
        BY <1>6, <1>8
<1> HIDE DEF added
<1> QED
    BY <1>1, <1>7, <1>9 DEF RulesRun

\* What is left of each beginning of s.
DropRun(f, s) ==
    /\ f \in [0..Len(s) -> Seq(Package)]
    /\ f[0] = <<>>
    /\ \A i \in 1..Len(s) :
           f[i] = IF s[i] \in {Plus(m) : m \in English} THEN f[i - 1] ELSE Append(f[i - 1], s[i])
    /\ DropEnglish(s) = f[Len(s)]

LEMMA DropEnglishSteps ==
    ASSUME NEW s \in Seq(Package)
    PROVE  \E f : DropRun(f, s)
<1> DEFINE n == Len(s)
           gone == {Plus(m) : m \in English}
           left[i \in 0..n] ==
               IF i = 0 THEN <<>>
               ELSE IF s[i] \in gone THEN left[i - 1]
               ELSE Append(left[i - 1], s[i])
           step == [i \in 1..n |-> [l \in Seq(Package) |->
                       IF s[i] \in gone THEN l ELSE Append(l, s[i])]]
<1>1. DropEnglish(s) = left[n]
    BY DEF DropEnglish
<1>2. n \in Nat /\ <<>> \in Seq(Package) /\ \A i \in 1..n : s[i] \in Package
    BY EmptySeq
<1>3. step \in [1..n -> [Seq(Package) -> Seq(Package)]]
    <2> HIDE DEF gone
    <2> QED
        BY <1>2, AppendProperties
<1>4. PICK f \in [0..n -> Seq(Package)] :
          f[0] = <<>> /\ \A i \in 1..n : f[i] = step[i][f[i - 1]]
    <2> DEFINE X == Seq(Package)
               base == <<>>
    <2>1. step \in [1..n -> [X -> X]] /\ base \in X /\ n \in Nat
        BY <1>2, <1>3
    <2> HIDE DEF step, n, left, X, base
    <2>2. \E f : IsRun(f, X, n, base, step)
        BY <2>1, Recursion
    <2> QED
        BY <2>2 DEF X, IsRun, base
<1>5. \A i \in 1..n : f[i] = IF s[i] \in gone THEN f[i - 1] ELSE Append(f[i - 1], s[i])
    <2> TAKE i \in 1..n
    <2>1. i - 1 \in 0..n
        BY <1>2
    <2>2. f[i - 1] \in Seq(Package)
        BY <2>1
    <2> HIDE DEF gone
    <2> QED
        BY <1>4, <2>2
<1>6. f = [i \in 0..n |->
               IF i = 0 THEN <<>>
               ELSE IF s[i] \in gone THEN f[i - 1]
               ELSE Append(f[i - 1], s[i])]
    <2> HIDE DEF gone, left, step, n
    <2>1. \A i \in 0..n : i = 0 \/ i \in 1..n
        BY <1>2
    <2>2. \A i \in 0..n : f[i] = IF i = 0 THEN <<>>
                               ELSE IF s[i] \in gone THEN f[i - 1]
                               ELSE Append(f[i - 1], s[i])
        BY <1>4, <1>5, <2>1, Zenon
    <2> QED
        BY <1>4, <2>2
<1>7. left = [i \in 0..n |->
               IF i = 0 THEN <<>>
               ELSE IF s[i] \in gone THEN left[i - 1]
               ELSE Append(left[i - 1], s[i])]
    BY <1>6
<1>8. left[0] = <<>> /\ \A i \in 1..n :
          left[i] = IF s[i] \in gone THEN left[i - 1] ELSE Append(left[i - 1], s[i])
    <2> HIDE DEF left, n, gone
    <2>1. 0 \in 0..n /\ \A i \in 1..n : i \in 0..n /\ i # 0
        BY <1>2
    <2> QED
        BY <1>7, <2>1
<1>9. 0..n \subseteq {i \in 0..n : left[i] \in Seq(Package)}
    <2> DEFINE P == {i \in 0..n : left[i] \in Seq(Package)}
    <2> HIDE DEF left, gone
    <2>1. 0 \in P
        <3>1. 0 \in 0..n
            BY <1>2
        <3>2. left[0] \in Seq(Package)
            BY <1>2, <1>8, Zenon
        <3> QED
            BY <3>1, <3>2
    <2>2. ASSUME NEW i \in 1..n, i - 1 \in P PROVE i \in P
        <3>1. i \in 0..n /\ left[i - 1] \in Seq(Package) /\ s[i] \in Package
            BY <1>2, <2>2
        <3>2. Append(left[i - 1], s[i]) \in Seq(Package)
            BY <3>1, AppendProperties
        <3> QED
            BY <1>8, <3>1, <3>2
    <2> HIDE DEF P
    <2>3. 0..n \subseteq P
        BY <1>2, <2>1, <2>2, Induction
    <2> QED
        BY <2>3 DEF P
<1>10. left \in [0..n -> Seq(Package)]
    <2> HIDE DEF left
    <2> QED
        BY <1>7, <1>9
<1> HIDE DEF left
<1> QED
    BY <1>1, <1>8, <1>10 DEF DropRun

\* What is left of s when some of its items are taken out.
PartOf(t, s) ==
    \E e \in [1..Len(t) -> 1..Len(s)] :
        /\ \A i \in 1..Len(t) : t[i] = s[e[i]]
        /\ \A i, j \in 1..Len(t) : i < j => e[i] < e[j]

LEMMA RemoveAtProperties ==
    ASSUME NEW s \in Seq(Package), NEW k \in 1..Len(s)
    PROVE  /\ RemoveAt(s, k) \in Seq(Package)
           /\ Len(RemoveAt(s, k)) = Len(s) - 1
           /\ \A i \in 1..Len(s) - 1 : RemoveAt(s, k)[i] = IF i < k THEN s[i] ELSE s[i + 1]
<1> DEFINE before == SubSeq(s, 1, k - 1)
           after  == SubSeq(s, k + 1, Len(s))
<1>1. Len(s) \in Nat /\ k \in Nat /\ k >= 1 /\ k <= Len(s)
    OBVIOUS
<1>2. /\ before \in Seq(Package) /\ Len(before) = k - 1
      /\ \A i \in 1..k - 1 : before[i] = s[i]
    BY <1>1, SubSeqProperties
<1>3. /\ after \in Seq(Package) /\ Len(after) = Len(s) - k
      /\ \A i \in 1..Len(s) - k : after[i] = s[k + i]
    <2>1. \A i \in 1..Len(s) - k : (k + 1) + i - 1 = k + i
        BY <1>1
    <2> QED
        BY <1>1, <2>1, SubSeqProperties
<1> HIDE DEF before, after
<1>4. /\ before \o after \in Seq(Package)
      /\ Len(before \o after) = Len(s) - 1
      /\ \A i \in 1..Len(s) - 1 :
             (before \o after)[i] = IF i <= k - 1 THEN before[i] ELSE after[i - (k - 1)]
    <2>1. /\ before \o after \in Seq(Package)
          /\ Len(before \o after) = Len(before) + Len(after)
          /\ \A i \in 1..Len(before) + Len(after) :
                 (before \o after)[i] = IF i <= Len(before) THEN before[i] ELSE after[i - Len(before)]
        BY <1>2, <1>3, ConcatProperties
    <2>2. (k - 1) + (Len(s) - k) = Len(s) - 1
        BY <1>1
    <2> QED
        BY <1>2, <1>3, <2>1, <2>2
<1>5. ASSUME NEW i \in 1..Len(s) - 1
      PROVE  (before \o after)[i] = IF i < k THEN s[i] ELSE s[i + 1]
    <2>1. CASE i < k
        BY <1>1, <1>2, <1>4, <2>1
    <2>2. CASE ~(i < k)
        <3>1. i - (k - 1) \in 1..Len(s) - k /\ k + (i - (k - 1)) = i + 1
            BY <1>1, <2>2
        <3> QED
            BY <1>1, <1>3, <1>4, <2>2, <3>1
    <2> QED
        BY <2>1, <2>2
<1> QED
    BY <1>4, <1>5 DEF RemoveAt, before, after

LEMMA RemovedIsPart ==
    ASSUME NEW s \in Seq(Package), NEW k \in 1..Len(s)
    PROVE  /\ PartOf(RemoveAt(s, k), s)
           /\ IsInjective(s) => ToSet(RemoveAt(s, k)) = ToSet(s) \ {s[k]}
           /\ ToSet(s) \ {s[k]} \subseteq ToSet(RemoveAt(s, k))
           /\ ToSet(RemoveAt(s, k)) \subseteq ToSet(s)
<1> DEFINE t == RemoveAt(s, k)
           e == [i \in 1..Len(s) - 1 |-> IF i < k THEN i ELSE i + 1]
<1>1. /\ t \in Seq(Package) /\ Len(t) = Len(s) - 1
      /\ \A i \in 1..Len(s) - 1 : t[i] = IF i < k THEN s[i] ELSE s[i + 1]
    BY RemoveAtProperties
<1> HIDE DEF t
<1>2. /\ Len(s) \in Nat /\ k \in Nat /\ k >= 1 /\ k <= Len(s)
      /\ DOMAIN s = 1..Len(s) /\ DOMAIN t = 1..Len(s) - 1
    BY <1>1
<1>3. /\ e \in [1..Len(t) -> 1..Len(s)]
      /\ \A i \in 1..Len(t) : t[i] = s[e[i]] /\ e[i] # k
      /\ \A i, j \in 1..Len(t) : i < j => e[i] < e[j]
    BY <1>1, <1>2
<1>4. PartOf(t, s)
    BY <1>3 DEF PartOf
<1>5. ASSUME NEW j \in 1..Len(s), j # k PROVE s[j] \in ToSet(t)
    <2>1. CASE j < k
        <3>1. j \in 1..Len(s) - 1 /\ t[j] = s[j]
            BY <1>1, <1>2, <2>1
        <3> QED
            BY <1>2, <3>1 DEF ToSet
    <2>2. CASE ~(j < k)
        <3>1. j - 1 \in 1..Len(s) - 1 /\ ~(j - 1 < k) /\ (j - 1) + 1 = j
            BY <1>2, <1>5, <2>2
        <3>2. t[j - 1] = s[j]
            BY <1>1, <3>1
        <3> QED
            BY <1>2, <3>1, <3>2 DEF ToSet
    <2> QED
        BY <2>1, <2>2
<1>6. ToSet(s) \ {s[k]} \subseteq ToSet(t)
    BY <1>2, <1>5 DEF ToSet
<1>7. ASSUME NEW x \in ToSet(t) PROVE x \in ToSet(s) /\ (IsInjective(s) => x # s[k])
    <2>1. PICK i \in 1..Len(t) : x = t[i]
        BY <1>1, <1>2, <1>7 DEF ToSet
    <2>2. x = s[e[i]] /\ e[i] \in 1..Len(s) /\ e[i] # k
        BY <1>3, <2>1
    <2> HIDE DEF e
    <2> QED
        BY <1>2, <2>2 DEF ToSet, IsInjective
<1> QED
    BY <1>4, <1>6, <1>7 DEF t

LEMMA PartOnce ==
    ASSUME NEW s \in Seq(Package), NEW t \in Seq(Package), PartOf(t, s), IsInjective(s)
    PROVE  IsInjective(t)
<1>1. PICK e \in [1..Len(t) -> 1..Len(s)] :
          /\ \A i \in 1..Len(t) : t[i] = s[e[i]]
          /\ \A i, j \in 1..Len(t) : i < j => e[i] < e[j]
    BY DEF PartOf
<1>2. DOMAIN s = 1..Len(s) /\ DOMAIN t = 1..Len(t) /\ Len(t) \in Nat /\ Len(s) \in Nat
    OBVIOUS
<1>3. ASSUME NEW i \in 1..Len(t), NEW j \in 1..Len(t), t[i] = t[j] PROVE i = j
    <2>0. e[i] \in DOMAIN s /\ e[j] \in DOMAIN s /\ s[e[i]] = s[e[j]]
        BY <1>1, <1>2, <1>3
    <2>1. e[i] = e[j]
        BY <2>0, Zenon DEF IsInjective
    <2>2. e[i] \in Nat /\ i \in Nat /\ j \in Nat /\ ~(i < j) /\ ~(j < i)
        BY <1>1, <1>2, <2>1
    <2> QED
        BY <2>2
<1> QED
    BY <1>2, <1>3 DEF IsInjective

LEMMA WholeIsPart ==
    ASSUME NEW s \in Seq(Package) PROVE PartOf(s, s)
<1>1. [i \in 1..Len(s) |-> i] \in [1..Len(s) -> 1..Len(s)]
    OBVIOUS
<1> QED
    BY <1>1 DEF PartOf

LEMMA RemoveFirstProperties ==
    ASSUME NEW s \in Seq(Package), NEW x
    PROVE  /\ RemoveFirst(s, x) \in Seq(Package)
           /\ PartOf(RemoveFirst(s, x), s)
           /\ ToSet(s) \ {x} \subseteq ToSet(RemoveFirst(s, x))
           /\ ToSet(RemoveFirst(s, x)) \subseteq ToSet(s)
           /\ IsInjective(s) => ToSet(RemoveFirst(s, x)) = ToSet(s) \ {x}
<1> DEFINE I == {i \in 1..Len(s) : s[i] = x}
<1>1. CASE I = {}
    <2>1. ~\E i \in 1..Len(s) : s[i] = x
        BY <1>1
    <2>2. RemoveFirst(s, x) = s
        BY <2>1 DEF RemoveFirst
    <2>3. x \notin ToSet(s)
        BY <2>1 DEF ToSet
    <2> QED
        BY <2>2, <2>3, WholeIsPart
<1>2. CASE I # {}
    <2>1. Min(I) \in I
        <3>1. \E m \in I : \A y \in I : m <= y
            <4>1. I \subseteq Nat
                OBVIOUS
            <4> QED
                BY <1>2, <4>1, Least
        <3> QED
            BY <3>1 DEF Min
    <2>2. RemoveFirst(s, x) = RemoveAt(s, Min(I))
        BY <1>2 DEF RemoveFirst, SelectInSeq
    <2>3. Min(I) \in 1..Len(s) /\ s[Min(I)] = x
        BY <2>1
    <2> HIDE DEF I
    <2> QED
        BY <2>2, <2>3, RemoveAtProperties, RemovedIsPart
<1> QED
    BY <1>1, <1>2

LEMMA AddIfMissingProperties ==
    ASSUME NEW s \in Seq(Package), NEW n \in Names
    PROVE  /\ AddIfMissing(s, n) \in Seq(Package)
           /\ ToSet(AddIfMissing(s, n)) = ToSet(s) \cup {Plus(n)}
           /\ IsInjective(s) => IsInjective(AddIfMissing(s, n))
<1> DEFINE p == Plus(n)
           t == Append(s, p)
<1>1. p \in Package
    BY PlusIsPackage
<1> HIDE DEF p
<1>2. /\ Len(s) \in Nat /\ DOMAIN s = 1..Len(s)
      /\ t \in Seq(Package) /\ Len(t) = Len(s) + 1 /\ DOMAIN t = 1..Len(s) + 1
      /\ \A i \in 1..Len(s) : t[i] = s[i]
      /\ t[Len(s) + 1] = p
    BY <1>1, AppendProperties
<1> HIDE DEF t
<1>3. CASE Contains(s, p)
    <2>1. p \in ToSet(s)
        BY <1>2, <1>3 DEF Contains, ToSet
    <2> QED
        BY <1>3, <2>1 DEF AddIfMissing, p
<1>4. CASE ~Contains(s, p)
    <2>1. \A i \in 1..Len(s) : s[i] # p
        BY <1>4 DEF Contains
    <2>2. IsInjective(s) => IsInjective(t)
        <3> SUFFICES ASSUME IsInjective(s), NEW i \in 1..Len(s) + 1, NEW j \in 1..Len(s) + 1,
                            t[i] = t[j]
                     PROVE  i = j
            BY <1>2 DEF IsInjective
        <3> QED
            BY <1>2, <2>1 DEF IsInjective
    <2>3. ASSUME NEW x \in ToSet(t) PROVE x \in ToSet(s) \cup {p}
        <3>1. PICK i \in 1..Len(s) + 1 : x = t[i]
            BY <1>2 DEF ToSet
        <3>2. i \in 1..Len(s) \/ i = Len(s) + 1
            BY <1>2
        <3> QED
            BY <1>2, <3>1, <3>2 DEF ToSet
    <2>4. ASSUME NEW x \in ToSet(s) \cup {p} PROVE x \in ToSet(t)
        <3>1. \A i \in 1..Len(s) : i \in 1..Len(s) + 1
            BY <1>2
        <3>2. Len(s) + 1 \in 1..Len(s) + 1
            BY <1>2
        <3> QED
            BY <1>2, <3>1, <3>2 DEF ToSet
    <2>5. AddIfMissing(s, n) = t
        BY <1>4 DEF AddIfMissing, p, t
    <2> QED
        BY <1>2, <2>2, <2>3, <2>4, <2>5 DEF p
<1> QED
    BY <1>3, <1>4

RulesOf(r) == {i \in DOMAIN Rules : Applies(Rules[i], r)}

LEMMA AddByRulesProperties ==
    ASSUME NEW r, NEW s \in Seq(Package)
    PROVE  /\ AddByRules(r, s) \in Seq(Package)
           /\ ToSet(AddByRules(r, s)) = ToSet(s) \cup {Plus(Rules[i].add) : i \in RulesOf(r)}
           /\ IsInjective(s) => IsInjective(AddByRules(r, s))
<1> DEFINE n == Len(Rules)
<1>0. PICK f : RulesRun(f, r, s)
    BY AddByRulesSteps
<1>1. /\ f \in [0..n -> Seq(Package)]
      /\ f[0] = s
      /\ \A i \in 1..n : f[i] = IF Applies(Rules[i], r) THEN AddIfMissing(f[i - 1], Rules[i].add)
                                                        ELSE f[i - 1]
      /\ AddByRules(r, s) = f[n]
    BY <1>0 DEF RulesRun
<1> DEFINE Added(i) == {Plus(Rules[k].add) : k \in {j \in 1..i : Applies(Rules[j], r)}}
           P == {i \in 0..n : /\ ToSet(f[i]) = ToSet(s) \cup Added(i)
                              /\ IsInjective(s) => IsInjective(f[i])}
<1>2. n \in Nat /\ DOMAIN Rules = 1..n /\ \A i \in 1..n : Rules[i].add \in Names
    BY RulesAdd
<1> HIDE DEF n
<1>3. 0 \in P
    <2>1. Added(0) = {}
        OBVIOUS
    <2> QED
        BY <1>1, <1>2, <2>1
<1>4. ASSUME NEW i \in 1..n, i - 1 \in P PROVE i \in P
    <2>1. /\ i - 1 \in 0..n /\ i \in 0..n /\ f[i - 1] \in Seq(Package)
          /\ ToSet(f[i - 1]) = ToSet(s) \cup Added(i - 1)
          /\ IsInjective(s) => IsInjective(f[i - 1])
        BY <1>1, <1>2, <1>4
    <2>2. \A k : k \in 1..i <=> k \in 1..i - 1 \/ k = i
        BY <1>2
    <2>3. CASE Applies(Rules[i], r)
        <3>1. Added(i) = Added(i - 1) \cup {Plus(Rules[i].add)}
            BY <2>2, <2>3
        <3>2. f[i] = AddIfMissing(f[i - 1], Rules[i].add)
            BY <1>1, <2>3
        <3> HIDE DEF Added
        <3>3. ToSet(f[i]) = ToSet(s) \cup Added(i) /\ (IsInjective(s) => IsInjective(f[i]))
            <4>1. Rules[i].add \in Names
                BY <1>2
            <4>2. /\ ToSet(f[i]) = ToSet(f[i - 1]) \cup {Plus(Rules[i].add)}
                  /\ IsInjective(f[i - 1]) => IsInjective(f[i])
                BY <2>1, <3>2, <4>1, AddIfMissingProperties
            <4> QED
                BY <2>1, <3>1, <4>2
        <3> QED
            BY <2>1, <3>3
    <2>4. CASE ~Applies(Rules[i], r)
        <3>1. Added(i) = Added(i - 1)
            BY <2>2, <2>4
        <3>2. f[i] = f[i - 1]
            BY <1>1, <2>4
        <3> HIDE DEF Added
        <3> QED
            BY <2>1, <3>1, <3>2
    <2> QED
        BY <2>3, <2>4
<1>5. n \in P
    <2> HIDE DEF P
    <2>1. 0..n \subseteq P
        BY <1>2, <1>3, <1>4, Induction
    <2> QED
        BY <1>2, <2>1
<1>6. Added(n) = {Plus(Rules[i].add) : i \in RulesOf(r)}
    BY <1>2 DEF RulesOf
<1>7. f[n] \in Seq(Package)
    BY <1>1, <1>2
<1> HIDE DEF Added
<1> QED
    BY <1>1, <1>5, <1>6, <1>7

\* A package in the list that RenameLanguagePacks makes of a list with x.
Renamed(r, x) ==
    IF /\ BranchOf[r.version] \in {"24.10", "25.12", "SNAPSHOT"}
       /\ ~x.minus /\ x.name \in DOMAIN NewNameOf
    THEN Plus(NewNameOf[x.name])
    ELSE x

LEMMA RenamedType == ASSUME NEW r, NEW x \in Package PROVE Renamed(r, x) \in Package
<1>1. CASE x.name \in DOMAIN NewNameOf
    <2>1. NewNameOf[x.name] \in Names
        BY <1>1, PackageSelectionAssumption
    <2>2. Plus(NewNameOf[x.name]) \in Package
        BY <2>1, PlusIsPackage
    <2> QED
        BY <2>2 DEF Renamed
<1>2. CASE x.name \notin DOMAIN NewNameOf
    BY <1>2 DEF Renamed
<1> QED
    BY <1>1, <1>2

LEMMA RenameProperties ==
    ASSUME NEW r, NEW s \in Seq(Package)
    PROVE  /\ RenameLanguagePacks(r, s) \in Seq(Package)
           /\ Len(RenameLanguagePacks(r, s)) = Len(s)
           /\ \A i \in 1..Len(s) : RenameLanguagePacks(r, s)[i] = Renamed(r, s[i])
           /\ ToSet(RenameLanguagePacks(r, s)) = {Renamed(r, x) : x \in ToSet(s)}
<1> DEFINE t == RenameLanguagePacks(r, s)
           u == [i \in 1..Len(s) |-> Renamed(r, s[i])]
<1>1. Len(s) \in Nat /\ DOMAIN s = 1..Len(s) /\ \A i \in 1..Len(s) : s[i] \in Package
    OBVIOUS
<1>2. t = u
    <2>1. CASE BranchOf[r.version] \in {"24.10", "25.12", "SNAPSHOT"}
        BY <1>1, <2>1 DEF RenameLanguagePacks, Renamed
    <2>2. CASE BranchOf[r.version] \notin {"24.10", "25.12", "SNAPSHOT"}
        <3>1. \A i \in 1..Len(s) : Renamed(r, s[i]) = s[i]
            BY <2>2 DEF Renamed
        <3>2. t = s
            BY <2>2 DEF RenameLanguagePacks
        <3>3. s = [i \in 1..Len(s) |-> s[i]]
            BY <1>1
        <3> QED
            BY <3>1, <3>2, <3>3
    <2> QED
        BY <2>1, <2>2
<1>3. \A i \in 1..Len(s) : Renamed(r, s[i]) \in Package
    BY <1>1, RenamedType
<1>4. u \in Seq(Package) /\ Len(u) = Len(s) /\ \A i \in 1..Len(s) : u[i] = Renamed(r, s[i])
    BY <1>1, <1>3, IsASeq
<1>5. ToSet(u) = {Renamed(r, x) : x \in ToSet(s)}
    <2>1. DOMAIN u = 1..Len(s)
        OBVIOUS
    <2> HIDE DEF u
    <2>2. ASSUME NEW y \in ToSet(u) PROVE \E x \in ToSet(s) : y = Renamed(r, x)
        <3>1. PICK i \in 1..Len(s) : y = u[i]
            BY <2>1, <2>2 DEF ToSet
        <3>2. s[i] \in ToSet(s)
            BY <1>1 DEF ToSet
        <3> QED
            BY <1>4, <3>1, <3>2
    <2>3. ASSUME NEW x \in ToSet(s) PROVE Renamed(r, x) \in ToSet(u)
        <3>1. PICK i \in 1..Len(s) : x = s[i]
            BY <1>1, <2>3 DEF ToSet
        <3> QED
            BY <1>4, <2>1, <3>1 DEF ToSet
    <2> QED
        BY <2>2, <2>3
<1> QED
    BY <1>2, <1>4, <1>5

LEMMA DropEnglishProperties ==
    ASSUME NEW s \in Seq(Package)
    PROVE  /\ DropEnglish(s) \in Seq(Package)
           /\ PartOf(DropEnglish(s), s)
           /\ ToSet(DropEnglish(s)) = ToSet(s) \ {Plus(n) : n \in English}
<1> DEFINE n == Len(s)
           gone == {Plus(m) : m \in English}
<1>0. PICK f : DropRun(f, s)
    BY DropEnglishSteps
<1>1. /\ f \in [0..n -> Seq(Package)]
      /\ f[0] = <<>>
      /\ \A i \in 1..n : f[i] = IF s[i] \in gone THEN f[i - 1] ELSE Append(f[i - 1], s[i])
      /\ DropEnglish(s) = f[n]
    BY <1>0 DEF DropRun
<1> DEFINE Within(t, e, i) ==
               /\ e \in [1..Len(t) -> 1..i]
               /\ \A k \in 1..Len(t) : t[k] = s[e[k]]
               /\ \A k, l \in 1..Len(t) : k < l => e[k] < e[l]
           Left(i) == {s[k] : k \in {l \in 1..i : s[l] \notin gone}}
           P == {i \in 0..n : ToSet(f[i]) = Left(i) /\ \E e : Within(f[i], e, i)}
<1>2. n \in Nat /\ DOMAIN s = 1..n /\ \A i \in 1..n : s[i] \in Package
    OBVIOUS
<1> HIDE DEF n, gone
<1>3. 0 \in P
    <2>1. ToSet(<<>>) = {} /\ Left(0) = {}
        BY DEF ToSet
    <2>2. Len(<<>>) = 0 /\ <<>> \in [1..0 -> 1..0]
        OBVIOUS
    <2>3. Within(<<>>, <<>>, 0)
        BY <2>2
    <2>4. 0 \in 0..n
        BY <1>2
    <2> HIDE DEF Left, Within
    <2> QED
        BY <1>1, <2>1, <2>3, <2>4
<1>4. ASSUME NEW i \in 1..n, i - 1 \in P PROVE i \in P
    <2>1. /\ i - 1 \in 0..n /\ i \in 0..n /\ f[i - 1] \in Seq(Package)
          /\ ToSet(f[i - 1]) = Left(i - 1)
        <3>1. i - 1 \in 0..n /\ i \in 0..n
            BY <1>2
        <3>2. f[i - 1] \in Seq(Package)
            BY <1>1, <3>1
        <3>3. ToSet(f[i - 1]) = Left(i - 1)
            BY <1>4
        <3> QED
            BY <3>1, <3>2, <3>3
    <2>2. PICK e : Within(f[i - 1], e, i - 1)
        BY <1>4
    <2>3. \A k : k \in 1..i <=> k \in 1..i - 1 \/ k = i
        BY <1>2
    <2>4. CASE s[i] \in gone
        <3>1. Left(i) = Left(i - 1)
            BY <2>3, <2>4
        <3>2. f[i] = f[i - 1]
            BY <1>1, <2>4
        <3>3. Within(f[i], e, i)
            BY <2>2, <2>3, <3>2
        <3> HIDE DEF Left, Within
        <3> QED
            BY <2>1, <3>1, <3>2, <3>3
    <2>5. CASE s[i] \notin gone
        <3> DEFINE t == f[i - 1]
                   m == Len(t)
                   d == [k \in 1..m + 1 |-> IF k = m + 1 THEN i ELSE e[k]]
        <3>1. Left(i) = Left(i - 1) \cup {s[i]}
            BY <2>3, <2>5
        <3>2. f[i] = Append(t, s[i])
            BY <1>1, <2>5
        <3>3. /\ m \in Nat /\ DOMAIN t = 1..m
              /\ f[i] \in Seq(Package) /\ Len(f[i]) = m + 1 /\ DOMAIN f[i] = 1..m + 1
              /\ \A k \in 1..m : f[i][k] = t[k]
              /\ f[i][m + 1] = s[i]
            BY <1>2, <2>1, <3>2, AppendProperties
        <3>4. Within(f[i], d, i)
            <4>1. e \in [1..m -> 1..i - 1] /\ \A k \in 1..m : t[k] = s[e[k]]
                BY <2>2
            <4>2. \A k, l \in 1..m : k < l => e[k] < e[l]
                BY <2>2
            <4> HIDE DEF m, t
            <4>3. \A k \in 1..m + 1 : k = m + 1 \/ (k \in 1..m /\ k # m + 1)
                BY <3>3
            <4>4. d \in [1..m + 1 -> 1..i]
                BY <2>3, <4>1, <4>3
            <4>5. \A k \in 1..m + 1 : f[i][k] = s[d[k]]
                BY <3>3, <4>1, <4>3
            <4>6. ASSUME NEW k \in 1..m + 1, NEW l \in 1..m + 1, k < l PROVE d[k] < d[l]
                <5>1. k \in 1..m /\ k # m + 1 /\ d[k] = e[k] /\ e[k] \in 1..i - 1
                    BY <3>3, <4>1, <4>6
                <5>2. CASE l = m + 1
                    <6>1. d[l] = i
                        BY <5>2
                    <6> QED
                        BY <1>2, <5>1, <6>1
                <5>3. CASE l # m + 1
                    <6>1. l \in 1..m /\ d[l] = e[l]
                        BY <3>3, <4>3, <5>3
                    <6> QED
                        BY <4>2, <4>6, <5>1, <6>1
                <5> QED
                    BY <5>2, <5>3
            <4> HIDE DEF d
            <4> QED
                BY <3>3, <4>4, <4>5, <4>6
        <3>5. ToSet(f[i]) = ToSet(t) \cup {s[i]}
            <4> HIDE DEF m, t
            <4>1. \A k \in 1..m + 1 : k = m + 1 \/ k \in 1..m
                BY <3>3
            <4>2. m + 1 \in 1..m + 1 /\ \A k \in 1..m : k \in 1..m + 1
                BY <3>3
            <4>3. ASSUME NEW x \in ToSet(f[i]) PROVE x \in ToSet(t) \cup {s[i]}
                BY <3>3, <4>1 DEF ToSet
            <4>4. ASSUME NEW x \in ToSet(t) \cup {s[i]} PROVE x \in ToSet(f[i])
                BY <3>3, <4>2 DEF ToSet
            <4> QED
                BY <4>3, <4>4
        <3> HIDE DEF Left, Within, d
        <3> QED
            BY <2>1, <3>1, <3>4, <3>5
    <2> QED
        BY <2>4, <2>5
<1>5. n \in P
    <2> HIDE DEF P
    <2>1. 0..n \subseteq P
        BY <1>2, <1>3, <1>4, Induction
    <2> QED
        BY <1>2, <2>1
<1>6. Left(n) = ToSet(s) \ gone
    BY <1>2 DEF ToSet
<1>7. PartOf(f[n], s)
    BY <1>5 DEF PartOf, n
<1>8. f[n] \in Seq(Package)
    BY <1>1, <1>2
<1> HIDE DEF Left
<1> QED
    BY <1>1, <1>5, <1>6, <1>7, <1>8 DEF gone

LEMMA ReplaceAucProperties ==
    ASSUME NEW r, NEW s \in Seq(Package)
    PROVE  /\ ReplaceAuc(r, s) \in Seq(Package)
           /\ IsInjective(s) =>
                  /\ IsInjective(ReplaceAuc(r, s))
                  /\ ToSet(ReplaceAuc(r, s)) =
                         IF BranchOf[r.version] = "24.10" /\ Plus("auc") \in ToSet(s)
                         THEN (ToSet(s) \ {Plus("auc")}) \cup {Plus("owut")}
                         ELSE ToSet(s)
<1> DEFINE t == RemoveIfPresent(s, "auc")
<1>1. Contains(s, Plus("auc")) <=> Plus("auc") \in ToSet(s)
    BY DEF Contains, ToSet
<1>2. /\ t \in Seq(Package)
      /\ IsInjective(s) => IsInjective(t) /\ ToSet(t) = ToSet(s) \ {Plus("auc")}
    BY RemoveFirstProperties, PartOnce DEF RemoveIfPresent
<1> HIDE DEF t
<1>3. /\ AddIfMissing(t, "owut") \in Seq(Package)
      /\ ToSet(AddIfMissing(t, "owut")) = ToSet(t) \cup {Plus("owut")}
      /\ IsInjective(t) => IsInjective(AddIfMissing(t, "owut"))
    BY <1>2, RulesAdd, AddIfMissingProperties
<1>4. ReplaceAuc(r, s) = IF BranchOf[r.version] = "24.10" /\ Plus("auc") \in ToSet(s)
                         THEN AddIfMissing(t, "owut") ELSE s
    BY <1>1 DEF ReplaceAuc, t
<1> QED
    BY <1>2, <1>3, <1>4

LEMMA DropFromSnapshotProperties ==
    ASSUME NEW r, NEW s \in Seq(Package)
    PROVE  /\ DropFromSnapshot(r, s) \in Seq(Package)
           /\ IsInjective(s) =>
                  /\ IsInjective(DropFromSnapshot(r, s))
                  /\ ToSet(DropFromSnapshot(r, s)) =
                         IF BranchOf[r.version] = "SNAPSHOT"
                         THEN ToSet(s) \ {Plus("kmod-nf-conntrack6"), Plus("kmod-lib-crc32c")}
                         ELSE ToSet(s)
<1> DEFINE t == RemoveIfPresent(s, "kmod-nf-conntrack6")
           u == RemoveIfPresent(t, "kmod-lib-crc32c")
<1>1. /\ t \in Seq(Package)
      /\ IsInjective(s) => IsInjective(t) /\ ToSet(t) = ToSet(s) \ {Plus("kmod-nf-conntrack6")}
    BY RemoveFirstProperties, PartOnce DEF RemoveIfPresent
<1> HIDE DEF t
<1>2. /\ u \in Seq(Package)
      /\ IsInjective(t) => IsInjective(u) /\ ToSet(u) = ToSet(t) \ {Plus("kmod-lib-crc32c")}
    BY <1>1, RemoveFirstProperties, PartOnce DEF RemoveIfPresent
<1> HIDE DEF u
<1>3. DropFromSnapshot(r, s) = IF BranchOf[r.version] = "SNAPSHOT" THEN u ELSE s
    BY DEF DropFromSnapshot, t, u
<1> QED
    BY <1>1, <1>2, <1>3

(* The list stays one of packages. *)
THEOREM ChangesType ==
    ASSUME NEW r, NEW s \in Seq(Package)
    PROVE  apply_package_changes(r, s) \in Seq(Package)
    BY ReplaceAucProperties, AddByRulesProperties, DropFromSnapshotProperties, RenameProperties,
       DropEnglishProperties DEF apply_package_changes

LEMMA RulesByBranch ==
    ASSUME NEW i \in 1..Len(Rules) PROVE Rules[i].branch \in {"23.05", "24.10", "25.12"}
<1>1. Len(Rules) = 13
    BY DEF Rules
<1> QED
    BY <1>1 DEF Rules, Rule

(* apply_package_changes, a list of changes in the order of the code, does   *)
(* to a list without duplicates what Expected says of its set of packages:   *)
(* no step undoes or misses what another one did.                            *)
THEOREM ChangesAsExpected ==
    ASSUME NEW r, r.version \in Versions, NEW s \in Seq(Package), IsInjective(s)
    PROVE  ToSet(apply_package_changes(r, s)) = Expected(r, ToSet(s))
<1> DEFINE S == ToSet(s)
           branch == BranchOf[r.version]
           s1 == ReplaceAuc(r, s)
           s2 == AddByRules(r, s1)
           s3 == DropFromSnapshot(r, s2)
           s4 == RenameLanguagePacks(r, s3)
           s5 == DropEnglish(s4)
           added == {Plus(Rules[i].add) : i \in RulesOf(r)}
           english == {Plus(n) : n \in English}
           snapshot == {Plus("kmod-nf-conntrack6"), Plus("kmod-lib-crc32c")}
<1>1. /\ s1 \in Seq(Package) /\ IsInjective(s1)
      /\ ToSet(s1) = IF branch = "24.10" /\ Plus("auc") \in S
                     THEN (S \ {Plus("auc")}) \cup {Plus("owut")} ELSE S
    BY ReplaceAucProperties
<1> HIDE DEF s1
<1>2. s2 \in Seq(Package) /\ IsInjective(s2) /\ ToSet(s2) = ToSet(s1) \cup added
    BY <1>1, AddByRulesProperties
<1> HIDE DEF s2
<1>3. /\ s3 \in Seq(Package)
      /\ ToSet(s3) = IF branch = "SNAPSHOT" THEN ToSet(s2) \ snapshot ELSE ToSet(s2)
    BY <1>2, DropFromSnapshotProperties
<1> HIDE DEF s3
<1>4. s4 \in Seq(Package) /\ ToSet(s4) = {Renamed(r, x) : x \in ToSet(s3)}
    BY <1>3, RenameProperties
<1> HIDE DEF s4
<1>5. ToSet(s5) = ToSet(s4) \ english
    BY <1>4, DropEnglishProperties
<1>6. apply_package_changes(r, s) = s5
    BY DEF apply_package_changes, s1, s2, s3, s4
<1> HIDE DEF s5
<1>7. S \subseteq Package
    BY DEF ToSet
<1>8. branch \in {"22.03", "23.05", "24.10", "25.12", "SNAPSHOT"}
    BY PackageSelectionAssumption
<1> DEFINE gone == CASE branch = "24.10"    -> {"auc"}
                     [] branch = "SNAPSHOT" -> {"kmod-nf-conntrack6", "kmod-lib-crc32c"}
                     [] OTHER               -> {}
           kept == S \ {Plus(n) : n \in gone}
           old  == IF branch \in {"22.03", "23.05"} THEN {} ELSE {Plus(n) : n \in DOMAIN NewNameOf}
           owut == IF branch = "24.10" /\ Plus("auc") \in S THEN {Plus("owut")} ELSE {}
           new  == {Plus(NewNameOf[x.name]) : x \in kept \cap old}
<1>9. Expected(r, S) = ((kept \ old) \cup new \cup owut \cup added) \ english
    BY DEF Expected, RulesOf
<1>10. ToSet(s3) = kept \cup owut \cup added
    <2>1. branch = "SNAPSHOT" => added = {}
        BY RulesByBranch, RulesAdd DEF RulesOf, Applies
    <2> HIDE DEF added
    <2>2. CASE branch = "24.10"
        BY <1>1, <1>2, <1>3, <2>2
    <2>3. CASE branch = "SNAPSHOT"
        BY <1>1, <1>2, <1>3, <2>1, <2>3
    <2>4. CASE branch \notin {"24.10", "SNAPSHOT"}
        BY <1>1, <1>2, <1>3, <2>4
    <2> QED
        BY <2>2, <2>3, <2>4
\* What the code adds is not renamed.
<1>11. \A x \in owut \cup added : Renamed(r, x) = x
    <2>1. \A n \in Names : Plus(n).name = n
        BY DEF Plus
    <2>2. \A n \in Names \ DOMAIN NewNameOf : Renamed(r, Plus(n)) = Plus(n)
        BY <2>1 DEF Renamed
    <2>3. "owut" \in Names \ DOMAIN NewNameOf /\ \A i \in RulesOf(r) : Rules[i].add \in Names \ DOMAIN NewNameOf
        BY RulesAdd DEF RulesOf
    <2> QED
        BY <2>2, <2>3
\* What is renamed is what is asked for under an old name.
<1>12. \A x \in kept : Renamed(r, x) = IF x \in old THEN Plus(NewNameOf[x.name]) ELSE x
    <2> TAKE x \in kept
    <2>1. x \in Package
        BY <1>7
    <2>2. ~x.minus /\ x.name \in DOMAIN NewNameOf <=> x \in {Plus(n) : n \in DOMAIN NewNameOf}
        BY <2>1 DEF Package, Plus
    <2>3. branch \in {"24.10", "25.12", "SNAPSHOT"} <=> branch \notin {"22.03", "23.05"}
        BY <1>8
    <2> HIDE DEF branch, kept
    <2> QED
        BY <2>2, <2>3 DEF Renamed, branch
<1>13. ToSet(s4) = (kept \ old) \cup new \cup owut \cup added
    <2> HIDE DEF kept, old, owut, added
    <2>1. ASSUME NEW y \in ToSet(s4) PROVE y \in (kept \ old) \cup new \cup owut \cup added
        <3>1. PICK x \in ToSet(s3) : y = Renamed(r, x)
            BY <1>4, <2>1
        <3> QED
            BY <1>10, <1>11, <1>12, <3>1
    <2>2. ASSUME NEW y \in (kept \ old) \cup new \cup owut \cup added PROVE y \in ToSet(s4)
        <3>1. \E x \in ToSet(s3) : y = Renamed(r, x)
            BY <1>10, <1>11, <1>12, <2>2
        <3> QED
            BY <1>4, <3>1
    <2> QED
        BY <2>1, <2>2
<1> HIDE DEF kept, old, owut, added, new, english
<1> QED
    BY <1>5, <1>6, <1>9, <1>13

-----------------------------------------------------------------------------
(* The order of the packages *)

At(q, x) == CHOOSE i \in DOMAIN q : q[i] = x

NewNames == {Plus(NewNameOf[n]) : n \in DOMAIN NewNameOf}

\* Before a package of q there are, but for new names, only earlier ones of q.
InOrder(q, s) ==
    \A i, j \in 1..Len(s) :
        i < j /\ s[j] \in ToSet(q) \ NewNames =>
            \/ s[i] \in NewNames
            \/ s[i] \in ToSet(q) /\ At(q, s[i]) < At(q, s[j])

LEMMA AtPlace ==
    ASSUME NEW q \in Seq(Package), NEW x \in ToSet(q)
    PROVE  At(q, x) \in 1..Len(q) /\ q[At(q, x)] = x
<1>1. \E i \in DOMAIN q : q[i] = x
    BY DEF ToSet
<1> QED
    BY <1>1 DEF At

LEMMA StartsInOrder ==
    ASSUME NEW q \in Seq(Package), IsInjective(q) PROVE InOrder(q, q)
<1>1. ASSUME NEW i \in 1..Len(q) PROVE At(q, q[i]) = i /\ q[i] \in ToSet(q)
    <2>1. q[i] \in ToSet(q)
        BY DEF ToSet
    <2>2. At(q, q[i]) \in DOMAIN q /\ q[At(q, q[i])] = q[i] /\ i \in DOMAIN q
        BY <2>1, AtPlace
    <2> QED
        BY <2>1, <2>2 DEF IsInjective
<1> QED
    BY <1>1 DEF InOrder

LEMMA PartInOrder ==
    ASSUME NEW q, NEW s \in Seq(Package), NEW t \in Seq(Package), PartOf(t, s), InOrder(q, s)
    PROVE  InOrder(q, t)
<1>1. PICK e \in [1..Len(t) -> 1..Len(s)] :
          /\ \A i \in 1..Len(t) : t[i] = s[e[i]]
          /\ \A i, j \in 1..Len(t) : i < j => e[i] < e[j]
    BY DEF PartOf
<1> SUFFICES ASSUME NEW i \in 1..Len(t), NEW j \in 1..Len(t), i < j, t[j] \in ToSet(q) \ NewNames
             PROVE  t[i] \in NewNames \/ (t[i] \in ToSet(q) /\ At(q, t[i]) < At(q, t[j]))
    BY DEF InOrder
<1>2. /\ e[i] \in 1..Len(s) /\ e[j] \in 1..Len(s) /\ e[i] < e[j]
      /\ t[i] = s[e[i]] /\ t[j] = s[e[j]]
    BY <1>1
<1> QED
    BY <1>2 DEF InOrder

LEMMA AddedInOrder ==
    ASSUME NEW q, NEW s \in Seq(Package), NEW n \in Names, InOrder(q, s),
           Plus(n) \in ToSet(q) => Plus(n) \in ToSet(s)
    PROVE  InOrder(q, AddIfMissing(s, n))
<1> DEFINE p == Plus(n)
           t == Append(s, p)
<1>1. p \in Package
    BY PlusIsPackage
<1>2. Contains(s, p) <=> p \in ToSet(s)
    BY DEF Contains, ToSet
<1> HIDE DEF p
<1>3. CASE Contains(s, p)
    BY <1>3 DEF AddIfMissing, p
<1>4. CASE ~Contains(s, p)
    <2>1. p \notin ToSet(q)
        BY <1>2, <1>4 DEF p
    <2>2. /\ Len(s) \in Nat /\ Len(t) = Len(s) + 1
          /\ \A i \in 1..Len(s) : t[i] = s[i]
          /\ t[Len(s) + 1] = p
        BY <1>1, AppendProperties
    <2> HIDE DEF t
    <2>3. InOrder(q, t)
        <3> SUFFICES ASSUME NEW i \in 1..Len(t), NEW j \in 1..Len(t), i < j,
                            t[j] \in ToSet(q) \ NewNames
                     PROVE  t[i] \in NewNames \/ (t[i] \in ToSet(q) /\ At(q, t[i]) < At(q, t[j]))
            BY DEF InOrder
        <3>1. j # Len(s) + 1
            BY <2>1, <2>2
        <3>2. i \in 1..Len(s) /\ j \in 1..Len(s)
            BY <2>2, <3>1
        <3>3. t[i] = s[i] /\ t[j] = s[j]
            BY <2>2, <3>2
        <3> QED
            BY <3>2, <3>3 DEF InOrder
    <2> QED
        BY <1>4, <2>3 DEF AddIfMissing, p, t
<1> QED
    BY <1>3, <1>4

LEMMA AucNotAdded == \A i \in 1..Len(Rules) : Rules[i].add # "auc"
<1>1. Len(Rules) = 13
    BY DEF Rules
<1> QED
    BY <1>1 DEF Rules, Rule

LEMMA RulesInOrder ==
    ASSUME NEW r, NEW q, NEW s \in Seq(Package), InOrder(q, s),
           ToSet(q) \ {Plus("auc")} \subseteq ToSet(s)
    PROVE  InOrder(q, AddByRules(r, s))
<1> DEFINE n == Len(Rules)
<1>0. PICK f : RulesRun(f, r, s)
    BY AddByRulesSteps
<1>1. /\ f \in [0..n -> Seq(Package)]
      /\ f[0] = s
      /\ \A i \in 1..n : f[i] = IF Applies(Rules[i], r) THEN AddIfMissing(f[i - 1], Rules[i].add)
                                                        ELSE f[i - 1]
      /\ AddByRules(r, s) = f[n]
    BY <1>0 DEF RulesRun
<1> DEFINE P == {i \in 0..n : InOrder(q, f[i]) /\ ToSet(q) \ {Plus("auc")} \subseteq ToSet(f[i])}
<1>2. /\ n \in Nat /\ "auc" \in Names
      /\ \A i \in 1..n : Rules[i].add \in Names /\ Rules[i].add # "auc"
    BY RulesAdd, AucNotAdded
<1> HIDE DEF n
<1>3. 0 \in P
    BY <1>1, <1>2
<1>4. ASSUME NEW i \in 1..n, i - 1 \in P PROVE i \in P
    <2>1. /\ i - 1 \in 0..n /\ i \in 0..n /\ f[i - 1] \in Seq(Package)
          /\ InOrder(q, f[i - 1]) /\ ToSet(q) \ {Plus("auc")} \subseteq ToSet(f[i - 1])
        BY <1>1, <1>2, <1>4
    <2>2. CASE Applies(Rules[i], r)
        <3>1. f[i] = AddIfMissing(f[i - 1], Rules[i].add) /\ Rules[i].add \in Names
            BY <1>1, <1>2, <2>2
        <3>2. Plus(Rules[i].add) # Plus("auc")
            BY <1>2 DEF Plus
        <3>3. InOrder(q, f[i])
            BY <2>1, <3>1, <3>2, AddedInOrder
        <3>4. ToSet(f[i]) = ToSet(f[i - 1]) \cup {Plus(Rules[i].add)}
            BY <2>1, <3>1, AddIfMissingProperties
        <3> QED
            BY <2>1, <3>3, <3>4
    <2>3. CASE ~Applies(Rules[i], r)
        <3>1. f[i] = f[i - 1]
            BY <1>1, <2>3
        <3> QED
            BY <2>1, <3>1
    <2> QED
        BY <2>2, <2>3
<1>5. n \in P
    <2> HIDE DEF P
    <2>1. 0..n \subseteq P
        BY <1>2, <1>3, <1>4, Induction
    <2> QED
        BY <1>2, <2>1
<1> QED
    BY <1>1, <1>5

LEMMA ChangedInOrder ==
    ASSUME NEW r, NEW q \in Seq(Package), IsInjective(q)
    PROVE  InOrder(q, apply_package_changes(r, q))
<1> DEFINE auc == Plus("auc")
           s0 == RemoveIfPresent(q, "auc")
           s1 == ReplaceAuc(r, q)
           s2 == AddByRules(r, s1)
           s3 == DropFromSnapshot(r, s2)
           s4 == RenameLanguagePacks(r, s3)
           s5 == DropEnglish(s4)
<1>1. InOrder(q, q)
    BY StartsInOrder
<1>2. s0 \in Seq(Package) /\ InOrder(q, s0) /\ ToSet(q) \ {auc} \subseteq ToSet(s0)
    BY <1>1, RemoveFirstProperties, PartInOrder DEF RemoveIfPresent
<1>3. s1 \in Seq(Package) /\ InOrder(q, s1) /\ ToSet(q) \ {auc} \subseteq ToSet(s1)
    <2>1. s1 = q \/ s1 = AddIfMissing(s0, "owut")
        BY DEF ReplaceAuc
    <2> HIDE DEF s0
    <2>2. /\ AddIfMissing(s0, "owut") \in Seq(Package)
          /\ ToSet(AddIfMissing(s0, "owut")) = ToSet(s0) \cup {Plus("owut")}
        BY <1>2, RulesAdd, AddIfMissingProperties
    <2>3. Plus("owut") # auc
        BY DEF Plus
    <2>4. InOrder(q, AddIfMissing(s0, "owut"))
        <3>1. Plus("owut") \in ToSet(q) => Plus("owut") \in ToSet(s0)
            BY <1>2, <2>3
        <3> QED
            BY <1>2, <3>1, RulesAdd, AddedInOrder
    <2> HIDE DEF s1, auc
    <2> QED
        BY <1>1, <1>2, <2>1, <2>2, <2>4
<1> HIDE DEF s0, s1
<1>4. s2 \in Seq(Package) /\ InOrder(q, s2)
    BY <1>3, AddByRulesProperties, RulesInOrder
<1> HIDE DEF s2
<1>5. s3 \in Seq(Package) /\ InOrder(q, s3)
    <2> DEFINE t == RemoveIfPresent(s2, "kmod-nf-conntrack6")
               u == RemoveIfPresent(t, "kmod-lib-crc32c")
    <2>1. t \in Seq(Package) /\ InOrder(q, t)
        BY <1>4, RemoveFirstProperties, PartInOrder DEF RemoveIfPresent
    <2> HIDE DEF t
    <2>2. u \in Seq(Package) /\ InOrder(q, u)
        BY <2>1, RemoveFirstProperties, PartInOrder DEF RemoveIfPresent
    <2> HIDE DEF u
    <2>3. s3 = u \/ s3 = s2
        BY DEF DropFromSnapshot, t, u
    <2> QED
        BY <1>4, <2>2, <2>3
<1> HIDE DEF s3
<1>6. s4 \in Seq(Package) /\ InOrder(q, s4)
    <2>1. /\ s4 \in Seq(Package) /\ Len(s4) = Len(s3)
          /\ \A i \in 1..Len(s3) : s4[i] = Renamed(r, s3[i])
        BY <1>5, RenameProperties
    <2>2. \A x : Renamed(r, x) = x \/ Renamed(r, x) \in NewNames
        BY DEF Renamed, NewNames
    <2> HIDE DEF s4
    <2>3. \A i \in 1..Len(s3) : s4[i] = s3[i] \/ s4[i] \in NewNames
        BY <2>1, <2>2
    <2>4. InOrder(q, s4)
        <3> SUFFICES ASSUME NEW i \in 1..Len(s3), NEW j \in 1..Len(s3), i < j,
                            s4[j] \in ToSet(q) \ NewNames
                     PROVE  s4[i] \in NewNames \/ (s4[i] \in ToSet(q) /\ At(q, s4[i]) < At(q, s4[j]))
            BY <2>1 DEF InOrder
        <3>1. s4[j] = s3[j]
            BY <2>3
        <3>2. s3[i] \in NewNames \/ (s3[i] \in ToSet(q) /\ At(q, s3[i]) < At(q, s3[j]))
            BY <1>5, <3>1 DEF InOrder
        <3> QED
            BY <2>3, <3>1, <3>2
    <2> QED
        BY <2>1, <2>4
<1> HIDE DEF s4
<1>7. InOrder(q, s5)
    BY <1>6, DropEnglishProperties, PartInOrder
<1> QED
    BY <1>7 DEF apply_package_changes, s1, s2, s3, s4

(* The packages of the client that keep their names keep their order, and    *)
(* all of them come before what the server adds.                             *)
THEOREM ChangesKeepOrder ==
    ASSUME NEW r, NEW requested \in Seq(Package), IsInjective(requested)
    PROVE  LET packages == apply_package_changes(r, requested)
               own   == (ToSet(requested) \cap ToSet(packages)) \ NewNames
               added == ToSet(packages) \ (ToSet(requested) \cup NewNames)
           IN  /\ \A x, y \in own :
                      At(requested, x) < At(requested, y) => At(packages, x) < At(packages, y)
               /\ \A x \in own, y \in added : At(packages, x) < At(packages, y)
<1> DEFINE packages == apply_package_changes(r, requested)
           own   == (ToSet(requested) \cap ToSet(packages)) \ NewNames
           added == ToSet(packages) \ (ToSet(requested) \cup NewNames)
<1>1. packages \in Seq(Package) /\ InOrder(requested, packages)
    BY ChangesType, ChangedInOrder
<1> HIDE DEF packages
<1>2. \A x \in ToSet(packages) :
          At(packages, x) \in 1..Len(packages) /\ packages[At(packages, x)] = x
    BY <1>1, AtPlace
<1>3. \A x \in ToSet(requested) : At(requested, x) \in Nat
    BY AtPlace
<1>4. Len(packages) \in Nat
    BY <1>1
\* What is not after a package of the client is before it.
<1>5. ASSUME NEW x \in own, NEW y \in ToSet(packages), ~(At(packages, x) < At(packages, y)), x # y
      PROVE  y \in NewNames \/ (y \in ToSet(requested) /\ At(requested, y) < At(requested, x))
    <2>1. /\ At(packages, x) \in 1..Len(packages) /\ At(packages, y) \in 1..Len(packages)
          /\ packages[At(packages, x)] = x /\ packages[At(packages, y)] = y
        BY <1>2
    <2>2. At(packages, x) # At(packages, y)
        BY <1>5, <2>1
    <2>3. At(packages, y) < At(packages, x)
        BY <1>4, <1>5, <2>1, <2>2
    <2> QED
        BY <1>1, <2>1, <2>3 DEF InOrder
<1>6. ASSUME NEW x \in own, NEW y \in own, At(requested, x) < At(requested, y)
      PROVE  At(packages, x) < At(packages, y)
    <2>1. x # y /\ At(requested, x) \in Nat /\ At(requested, y) \in Nat
        BY <1>3, <1>6
    <2> QED
        BY <1>5, <1>6, <2>1
<1>7. ASSUME NEW x \in own, NEW y \in added PROVE At(packages, x) < At(packages, y)
    BY <1>5
<1> HIDE DEF own, added
<1>8. /\ \A x, y \in own :
             At(requested, x) < At(requested, y) => At(packages, x) < At(packages, y)
      /\ \A x \in own, y \in added : At(packages, x) < At(packages, y)
    BY <1>6, <1>7
<1> QED
    BY <1>8 DEF own, added, packages
===============================================================================
