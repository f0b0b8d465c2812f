--------------------------- MODULE VersionCacheProofs ---------------------------
(***************************************************************************)
(* Theorems about VersionCache, for every number of threads and reloads    *)
(* and whatever versions are published.                                    *)
(***************************************************************************)
EXTENDS VersionCache, SequenceTheorems, FiniteSetTheorems, TLAPS

-----------------------------------------------------------------------------
(* list.sort *)

Each(s) == 1..Len(s)

LEMMA Items ==
    ASSUME NEW s \in Seq(Versions)
    PROVE  /\ Len(s) \in Nat /\ DOMAIN s = Each(s) /\ Each(s) = 1..Len(s)
           /\ \A k \in Each(s) : s[k] \in Versions /\ s[k] \in Nat
<1>1. Versions \subseteq Nat
    BY VersionCacheAssumption
<1>2. \A k \in 1..Len(s) : s[k] \in Versions
    OBVIOUS
<1>3. Len(s) \in Nat /\ DOMAIN s = 1..Len(s)
    OBVIOUS
<1>4. \A k \in Each(s) : s[k] \in Versions /\ s[k] \in Nat
    <2> TAKE k \in Each(s)
    <2>1. s[k] \in Versions
        BY <1>2 DEF Each
    <2> QED
        BY <1>1, <2>1
<1> QED
    BY <1>3, <1>4 DEF Each

LEMMA IntervalSize ==
    ASSUME NEW n \in Nat PROVE IsFiniteSet(1..n) /\ Cardinality(1..n) = n
<1>1. /\ IsFiniteSet(1..n)
      /\ Cardinality(1..n) = IF 1 > n THEN 0 ELSE n - 1 + 1
    BY FS_Interval, SMTT(20)
<1> QED
    BY <1>1

LEMMA UptoFinite ==
    ASSUME NEW s \in Seq(Versions), NEW j \in Each(s)
    PROVE  /\ IsFiniteSet(Upto(s, j))
           /\ Cardinality(Upto(s, j)) \in Each(s)
<1>1. Len(s) \in Nat /\ DOMAIN s = 1..Len(s)
    OBVIOUS
<1>2. IsFiniteSet(1..Len(s)) /\ Cardinality(1..Len(s)) = Len(s)
    BY <1>1, IntervalSize
<1>3. Upto(s, j) \in SUBSET (1..Len(s))
    BY <1>1 DEF Upto
<1>4. /\ IsFiniteSet(Upto(s, j)) /\ Cardinality(Upto(s, j)) \in Nat
      /\ Cardinality(Upto(s, j)) <= Len(s)
    BY <1>2, <1>3, FS_Subset, FS_CardinalityType
<1>5. j \in Upto(s, j)
    BY <1>1 DEF Upto, Each
<1>6. Cardinality(Upto(s, j)) # 0
    BY <1>4, <1>5, FS_EmptySet
<1> QED
    BY <1>1, <1>4, <1>6 DEF Each

\* What comes before comes with fewer.
LEMMA UptoOrder ==
    ASSUME NEW s \in Seq(Versions), NEW i \in Each(s), NEW j \in Each(s),
           s[i] > s[j] \/ (s[i] = s[j] /\ i < j)
    PROVE  Cardinality(Upto(s, i)) < Cardinality(Upto(s, j))
<1>1. /\ Len(s) \in Nat /\ DOMAIN s = 1..Len(s)
      /\ \A k \in 1..Len(s) : s[k] \in Nat
    BY Items
<1>2. Upto(s, i) \subseteq Upto(s, j)
    BY <1>1 DEF Upto, Each
<1>3. j \in Upto(s, j) /\ j \notin Upto(s, i)
    BY <1>1 DEF Upto, Each
<1>4. /\ Upto(s, i) \in SUBSET Upto(s, j) /\ Upto(s, i) # Upto(s, j)
    BY <1>2, <1>3
<1>5. /\ IsFiniteSet(Upto(s, j))
      /\ Cardinality(Upto(s, i)) \in Nat /\ Cardinality(Upto(s, j)) \in Nat
    BY UptoFinite DEF Each
<1>6. /\ Cardinality(Upto(s, i)) <= Cardinality(Upto(s, j))
      /\ Cardinality(Upto(s, j)) = Cardinality(Upto(s, i)) => Upto(s, j) = Upto(s, i)
    BY <1>4, <1>5, FS_Subset
<1> QED
    BY <1>4, <1>5, <1>6

LEMMA UptoInjective ==
    ASSUME NEW s \in Seq(Versions), NEW i \in Each(s), NEW j \in Each(s),
           Cardinality(Upto(s, i)) = Cardinality(Upto(s, j))
    PROVE  i = j
<1>1. s[i] \in Nat /\ s[j] \in Nat /\ i \in Nat /\ j \in Nat
    BY Items DEF Each
<1>2. Cardinality(Upto(s, i)) \in Nat
    BY UptoFinite DEF Each
<1>3. ~(s[i] > s[j] \/ (s[i] = s[j] /\ i < j)) /\ ~(s[j] > s[i] \/ (s[j] = s[i] /\ j < i))
    BY <1>2, UptoOrder
<1> QED
    BY <1>1, <1>3

\* Each place in the sorted list is that of one item.
LEMMA SortPlaces ==
    ASSUME NEW s \in Seq(Versions), NEW n \in Each(s)
    PROVE  \E j \in Each(s) : Cardinality(Upto(s, j)) = n
<1> DEFINE f == [j \in Each(s) |-> Cardinality(Upto(s, j))]
<1>1. f \in [Each(s) -> Each(s)]
    BY UptoFinite
<1>2. \A i, j \in Each(s) : f[i] = f[j] => i = j
    BY UptoInjective
<1>3. IsFiniteSet(Each(s))
    BY FS_Interval DEF Each
<1>4. f \in Injection(Each(s), Each(s))
    BY <1>1, <1>2 DEF Injection, IsInjective
<1>5. f \in Surjection(Each(s), Each(s))
    BY <1>3, <1>4, FS_Injection
<1>6. \E j \in Each(s) : f[j] = n
    BY <1>5 DEF Surjection
<1> QED
    BY <1>6

Source(s, n) == CHOOSE j \in DOMAIN s : Cardinality(Upto(s, j)) = n

LEMMA SourceProperties ==
    ASSUME NEW s \in Seq(Versions)
    PROVE  /\ DOMAIN Sorted(s) = Each(s)
           /\ \A n \in Each(s) :
                  /\ Source(s, n) \in Each(s)
                  /\ Cardinality(Upto(s, Source(s, n))) = n
                  /\ Sorted(s)[n] = s[Source(s, n)]
<1>1. DOMAIN s = Each(s)
    BY DEF Each
<1>2. ASSUME NEW n \in Each(s)
      PROVE  Source(s, n) \in Each(s) /\ Cardinality(Upto(s, Source(s, n))) = n
    BY <1>1, SortPlaces DEF Source
<1>3. ASSUME NEW n \in Each(s) PROVE Sorted(s)[n] = s[Source(s, n)]
    BY <1>1 DEF Sorted, Source
<1> QED
    BY <1>1, <1>2, <1>3 DEF Sorted

\* Sorting keeps the items and puts no greater one after a smaller one.
LEMMA SortedProperties ==
    ASSUME NEW s \in Seq(Versions)
    PROVE  /\ Sorted(s) \in Seq(Versions)
           /\ Len(Sorted(s)) = Len(s)
           /\ ToSet(Sorted(s)) = ToSet(s)
           /\ \A m, n \in Each(s) : m < n => Sorted(s)[m] >= Sorted(s)[n]
           /\ IsInjective(s) => IsInjective(Sorted(s))
<1>1. /\ Len(s) \in Nat /\ DOMAIN s = Each(s) /\ Each(s) = 1..Len(s)
      /\ \A k \in Each(s) : s[k] \in Versions /\ s[k] \in Nat
    BY Items
<1>2. /\ DOMAIN Sorted(s) = Each(s)
      /\ \A n \in Each(s) :
             /\ Source(s, n) \in Each(s)
             /\ Cardinality(Upto(s, Source(s, n))) = n
             /\ Sorted(s)[n] = s[Source(s, n)]
    BY SourceProperties
<1>3. Sorted(s) \in Seq(Versions) /\ Len(Sorted(s)) = Len(s)
    <2>1. \A n \in 1..Len(s) : Sorted(s)[n] \in Versions
        BY <1>1, <1>2
    <2>2. Sorted(s) = [n \in 1..Len(s) |-> Sorted(s)[n]]
        BY <1>1, <1>2 DEF Sorted
    <2> QED
        BY <1>1, <2>1, <2>2, IsASeq
<1>4. ToSet(Sorted(s)) = ToSet(s)
    <2>1. ASSUME NEW v \in ToSet(s) PROVE v \in ToSet(Sorted(s))
        <3>1. PICK j \in Each(s) : v = s[j]
            BY <1>1 DEF ToSet
        <3>2. Cardinality(Upto(s, j)) \in Each(s)
            BY UptoFinite
        <3>3. Source(s, Cardinality(Upto(s, j))) = j
            BY <1>2, <3>2, UptoInjective
        <3> QED
            BY <1>2, <3>1, <3>2, <3>3 DEF ToSet
    <2>2. ASSUME NEW v \in ToSet(Sorted(s)) PROVE v \in ToSet(s)
        BY <1>1, <1>2 DEF ToSet
    <2> QED
        BY <2>1, <2>2
<1>5. ASSUME NEW m \in Each(s), NEW n \in Each(s), m < n PROVE Sorted(s)[m] >= Sorted(s)[n]
    <2>1. ~(s[Source(s, n)] > s[Source(s, m)])
        <3> SUFFICES ASSUME s[Source(s, n)] > s[Source(s, m)] PROVE FALSE
            OBVIOUS
        <3>1. Cardinality(Upto(s, Source(s, n))) < Cardinality(Upto(s, Source(s, m)))
            BY <1>2, UptoOrder
        <3> QED
            BY <1>1, <1>2, <1>5, <3>1
    <2> QED
        BY <1>1, <1>2, <2>1
<1>6. ASSUME IsInjective(s) PROVE IsInjective(Sorted(s))
    <2>1. ASSUME NEW m \in Each(s), NEW n \in Each(s), Sorted(s)[m] = Sorted(s)[n] PROVE m = n
        <3>1. Source(s, m) = Source(s, n)
            BY <1>1, <1>2, <1>6, <2>1 DEF IsInjective
        <3> QED
            BY <1>2, <3>1
    <2> QED
        BY <1>2, <2>1 DEF IsInjective
<1> QED
    BY <1>3, <1>4, <1>5, <1>6

\* A list of versions that are all different is newest first once it is sorted.
LEMMA SortedNewestFirst ==
    ASSUME NEW s \in Seq(Versions), IsInjective(s), NEW S, ToSet(s) = S
    PROVE  NewestFirst(Sorted(s), S)
<1>1. /\ Sorted(s) \in Seq(Versions) /\ Len(Sorted(s)) = Len(s) /\ ToSet(Sorted(s)) = S
      /\ \A m, n \in Each(s) : m < n => Sorted(s)[m] >= Sorted(s)[n]
      /\ IsInjective(Sorted(s))
    BY SortedProperties
<1>2. DOMAIN Sorted(s) = Each(s) /\ Each(s) \subseteq Nat
    BY <1>1 DEF Each
<1>3. ASSUME NEW m \in Each(s), NEW n \in Each(s), m < n PROVE Sorted(s)[m] > Sorted(s)[n]
    <2>1. Sorted(s)[m] \in Nat /\ Sorted(s)[n] \in Nat
        BY <1>1, Items
    <2>2. Sorted(s)[m] # Sorted(s)[n]
        BY <1>1, <1>2, <1>3 DEF IsInjective
    <2> QED
        BY <1>1, <1>3, <2>1, <2>2
<1> QED
    BY <1>1, <1>2, <1>3 DEF NewestFirst

-----------------------------------------------------------------------------
(* Types *)

LEMMA SetToSeqProperties ==
    ASSUME NEW S \in SUBSET Versions, IsFiniteSet(S)
    PROVE  SetToSeq(S) \in Seq(Versions) /\ ToSet(SetToSeq(S)) = S
<1> DEFINE n == Cardinality(S)
           f == SetToSeq(S)
<1>1. n \in Nat /\ ExistsBijection(1..n, S)
    BY FS_CardinalityType
<1>2. \E g \in [1..n -> S] : IsInjective(g)
    BY <1>1 DEF ExistsBijection, Bijection, Injection
<1>3. f \in [1..n -> S] /\ IsInjective(f)
    BY <1>2 DEF SetToSeq
<1> HIDE DEF f
<1>4. f \in Injection(1..n, S)
    BY <1>3 DEF Injection
<1>5. Cardinality(1..n) = n
    BY <1>1, FS_Interval
<1>6. f \in Surjection(1..n, S)
    BY <1>4, <1>5, FS_Injection
<1>7. ToSet(f) = S
    BY <1>3, <1>6 DEF Surjection, ToSet
<1>8. f \in Seq(Versions)
    BY <1>1, <1>3, IsASeq
<1> QED
    BY <1>7, <1>8 DEF f

LEMMA FileProperties ==
    ASSUME NEW S \in SUBSET Versions, IsFiniteSet(S), NEW upcoming \in S
    PROVE  FileOf(upcoming, S) \in Seq(Versions) /\ ToSet(FileOf(upcoming, S)) = S
<1> DEFINE all == SetToSeq(S)
<1>1. all \in Seq(Versions) /\ ToSet(all) = S
    BY SetToSeqProperties
<1> HIDE DEF all
<1>2. <<upcoming>> \in Seq(Versions) /\ Len(<<upcoming>>) = 1 /\ <<upcoming>>[1] = upcoming
    OBVIOUS
<1>3. /\ <<upcoming>> \o all \in Seq(Versions)
      /\ Len(<<upcoming>> \o all) = 1 + Len(all)
      /\ \A i \in 1..1 + Len(all) :
             (<<upcoming>> \o all)[i] = IF i <= 1 THEN <<upcoming>>[i] ELSE all[i - 1]
    BY <1>1, <1>2, ConcatProperties
<1>4. Len(all) \in Nat /\ DOMAIN all = 1..Len(all) /\ DOMAIN (<<upcoming>> \o all) = 1..1 + Len(all)
    BY <1>1, <1>3
<1>5. ASSUME NEW v \in S PROVE v \in ToSet(<<upcoming>> \o all)
    <2>1. PICK i \in 1..Len(all) : v = all[i]
        BY <1>1, <1>4 DEF ToSet
    <2>2. i + 1 \in 1..1 + Len(all) /\ (<<upcoming>> \o all)[i + 1] = all[i]
        BY <1>3, <1>4
    <2> QED
        BY <1>4, <2>1, <2>2 DEF ToSet
<1>6. ASSUME NEW v \in ToSet(<<upcoming>> \o all) PROVE v \in S
    <2>1. PICK i \in 1..1 + Len(all) : v = (<<upcoming>> \o all)[i]
        BY <1>4, <1>6 DEF ToSet
    <2>2. i = 1 \/ i - 1 \in 1..Len(all)
        BY <1>4
    <2> QED
        BY <1>1, <1>2, <1>3, <1>4, <2>1, <2>2 DEF ToSet
<1> QED
    BY <1>3, <1>5, <1>6 DEF FileOf, all

\* A thread that appends still has the version to append.
Pending == \A t \in Threads : pc[t] = "append" => file[t] # <<>>

CacheTypeOK == TypeOK /\ IsFiniteSet(published) /\ Pending

States == Reload \cup {"idle", "refused", "error"}

LEMMA EmptyType == Empty \in ListType
    BY EmptySeq DEF Empty, ListType

LEMMA ListFields ==
    ASSUME NEW l \in ListType
    PROVE  l.items \in Seq(Versions) /\ l.sorting \in BOOLEAN
    BY DEF ListType

LEMMA ListMade ==
    ASSUME NEW items \in Seq(Versions), NEW sorting \in BOOLEAN
    PROVE  [items |-> items, sorting |-> sorting] \in ListType
    BY DEF ListType

LEMMA PendingInductive == TypeOK /\ Pending /\ [Next]_vars => Pending'
<1> SUFFICES ASSUME TypeOK, Pending, [Next]_vars, NEW u \in Threads, pc'[u] = "append"
             PROVE  file'[u] # <<>>
    BY DEF Pending
<1>0. pc \in [Threads -> States] /\ file \in [Threads -> Seq(Versions)]
    BY DEF TypeOK, States
<1>1. CASE UNCHANGED <<pc, file>>
    BY <1>1 DEF Pending
<1>2. ASSUME NEW t \in Threads, NEW state \in States \ {"append"}, Goto(t, state),
             \A w \in Threads \ {t} : file'[w] = file[w]
      PROVE  file'[u] # <<>>
    BY <1>0, <1>2 DEF Goto, Pending
<1>3. ASSUME NEW t \in Threads, Look(t) PROVE file'[u] # <<>>
    BY <1>0, <1>3 DEF Look, Goto, Pending
<1>4. ASSUME NEW t \in Threads, Reset(t) \/ Bind(t) \/ SortBegin(t)
                                \/ SortEnd(t) \/ Recheck(t) \/ Answered(t)
      PROVE  file'[u] # <<>>
    <2>1. file' = file
        BY <1>4 DEF Reset, Bind, SortBegin, SortEnd, Recheck, Answered
    <2>2. \E state \in States \ {"append"} : Goto(t, state)
        BY <1>4 DEF Reset, Bind, SortBegin, SortEnd, Recheck, Answered, Return, States, Reload
    <2> QED
        BY <1>2, <2>1, <2>2
<1>5. ASSUME NEW t \in Threads, Download(t) PROVE file'[u] # <<>>
    <2>1. \E state \in States \ {"append"} : Goto(t, state)
        BY <1>5 DEF Download, States, Reload
    <2>2. \A w \in Threads \ {t} : file'[w] = file[w]
        BY <1>0, <1>5 DEF Download
    <2> QED
        BY <1>2, <2>1, <2>2
<1>6. ASSUME NEW t \in Threads, AppendVersion(t) PROVE file'[u] # <<>>
    <2>1. Goto(t, "look") /\ \A w \in Threads \ {t} : file'[w] = file[w]
        BY <1>0, <1>6 DEF AppendVersion
    <2> QED
        BY <1>2, <2>1 DEF States, Reload
<1>7. ASSUME NEW t \in Threads, NEW v, Request(t, v) PROVE file'[u] # <<>>
    <2>1. Goto(t, "download") /\ file' = file
        BY <1>7 DEF Request
    <2> QED
        BY <1>2, <2>1 DEF States, Reload
<1>8. ASSUME NEW v, Publish(v) PROVE file'[u] # <<>>
    BY <1>1, <1>8 DEF Publish, threadVars
<1>9. CASE UNCHANGED vars
    BY <1>1, <1>9 DEF vars, threadVars
<1> QED
    BY <1>3, <1>4, <1>5, <1>6, <1>7, <1>8, <1>9 DEF Next

LEMMA TypeInductive == CacheTypeOK /\ [Next]_vars => CacheTypeOK'
<1> SUFFICES ASSUME CacheTypeOK, [Next]_vars PROVE CacheTypeOK'
    OBVIOUS
<1>0. /\ published \in SUBSET Versions /\ IsFiniteSet(published)
      /\ lists \in [Objects -> ListType]
      /\ bound \in Objects /\ reloads \in Objects
      /\ pc \in [Threads -> States]
      /\ want \in [Threads -> Versions \cup {NoVersion}]
      /\ file \in [Threads -> Seq(Versions)]
      /\ list \in [Threads -> Objects]
      /\ saved \in [Threads -> ListType]
      /\ seen \in [Threads -> SUBSET Versions]
      /\ mixed \in SUBSET Threads
    BY DEF CacheTypeOK, TypeOK, States
<1>13. Pending'
    BY PendingInductive DEF CacheTypeOK
<1> SUFFICES TypeOK' /\ IsFiniteSet(published')
    BY <1>13 DEF CacheTypeOK
<1> USE DEF TypeOK, States, Reload
<1>1. CASE UNCHANGED vars
    BY <1>0, <1>1 DEF vars, threadVars
<1>2. ASSUME NEW v \in Versions, Publish(v) PROVE TypeOK' /\ IsFiniteSet(published')
    <2>1. IsFiniteSet(published')
        BY <1>0, <1>2, FS_AddElement DEF Publish
    <2> QED
        BY <1>0, <1>2, <2>1 DEF Publish, threadVars
<1>3. ASSUME NEW t \in Threads, NEW v \in Versions \cup {NoVersion}, Request(t, v)
      PROVE  TypeOK' /\ IsFiniteSet(published')
    BY <1>0, <1>3 DEF Request, Goto
<1>4. ASSUME NEW t \in Threads, Download(t) PROVE TypeOK' /\ IsFiniteSet(published')
    <2>1. CASE UNCHANGED <<file, seen>> /\ (Goto(t, "recheck") \/ Goto(t, "error"))
        BY <1>0, <1>4, <2>1 DEF Download, Goto
    <2>3. CASE Goto(t, "reset") /\ file' = [file EXCEPT ![t] = <<>>] /\ UNCHANGED seen
        BY <1>0, <1>4, <2>3, EmptySeq DEF Download, Goto
    <2>2. CASE /\ Goto(t, "reset")
               /\ \E upcoming \in published : file' = [file EXCEPT ![t] = FileOf(upcoming, published)]
               /\ seen' = [seen EXCEPT ![t] = published]
        <3>1. file' \in [Threads -> Seq(Versions)]
            <4>1. PICK upcoming \in published :
                      file' = [file EXCEPT ![t] = FileOf(upcoming, published)]
                BY <2>2
            <4>2. FileOf(upcoming, published) \in Seq(Versions)
                BY <1>0, FileProperties
            <4> QED
                BY <1>0, <4>1, <4>2
        <3> QED
            BY <1>0, <1>4, <2>2, <3>1 DEF Download, Goto
    <2> QED
        BY <1>4, <2>1, <2>2, <2>3 DEF Download
<1>5. ASSUME NEW t \in Threads, Reset(t) PROVE TypeOK' /\ IsFiniteSet(published')
    <2>1. reloads' \in Objects /\ bound' \in Objects
        BY <1>0, <1>5, VersionCacheAssumption DEF Reset, Objects
    <2> QED
        BY <1>0, <1>5, <2>1 DEF Reset, Goto
<1>6. ASSUME NEW t \in Threads, Bind(t) PROVE TypeOK' /\ IsFiniteSet(published')
    BY <1>0, <1>6 DEF Bind, Goto
<1>7. ASSUME NEW t \in Threads, Look(t) PROVE TypeOK' /\ IsFiniteSet(published')
    <2>1. Tail(file[t]) \in Seq(Versions)
        BY <1>0, <1>7, HeadTailProperties DEF Look
    <2> QED
        BY <1>0, <1>7, <2>1 DEF Look, Goto
<1>8. ASSUME NEW t \in Threads, AppendVersion(t) PROVE TypeOK' /\ IsFiniteSet(published')
    <2>0. file[t] # <<>>
        BY <1>8 DEF AppendVersion, CacheTypeOK, Pending
    <2>1. Tail(file[t]) \in Seq(Versions) /\ Head(file[t]) \in Versions
        BY <1>0, <2>0, HeadTailProperties
    <2>2. Append(lists[list[t]].items, Head(file[t])) \in Seq(Versions)
        BY <1>0, <2>1, ListFields, AppendProperties
    <2>3. lists' \in [Objects -> ListType]
        BY <1>0, <1>8, <2>2, ListMade DEF AppendVersion
    <2> QED
        BY <1>0, <1>8, <2>1, <2>3 DEF AppendVersion, Goto
<1>9. ASSUME NEW t \in Threads, SortBegin(t) PROVE TypeOK' /\ IsFiniteSet(published')
    <2>1. [items |-> <<>>, sorting |-> TRUE] \in ListType
        BY ListMade, EmptySeq
    <2>2. CASE lists[bound].items = <<>>
        BY <1>0, <1>9, <2>2 DEF SortBegin, Goto
    <2>3. CASE lists[bound].items # <<>>
        <3>1. saved' \in [Threads -> ListType] /\ list' \in [Threads -> Objects]
            BY <1>0, <1>9, <2>3 DEF SortBegin
        <3>2. lists' \in [Objects -> ListType]
            BY <1>0, <1>9, <2>1, <2>3 DEF SortBegin
        <3> QED
            BY <1>0, <1>9, <2>3, <3>1, <3>2 DEF SortBegin, Goto
    <2> QED
        BY <2>2, <2>3
<1>10. ASSUME NEW t \in Threads, SortEnd(t) PROVE TypeOK' /\ IsFiniteSet(published')
    <2>1. saved[t].items \in Seq(Versions) /\ saved[t] \in ListType
        BY <1>0, ListFields
    <2>2. Sorted(saved[t].items) \in Seq(Versions)
        BY <2>1, SortedProperties
    <2>3. [saved[t] EXCEPT !.items = Sorted(@)] \in ListType
        BY <2>1, <2>2 DEF ListType
    <2>4. lists' \in [Objects -> ListType]
        BY <1>0, <1>10, <2>3 DEF SortEnd
    <2> QED
        BY <1>0, <1>10, <2>4 DEF SortEnd, Goto
<1>11. ASSUME NEW t \in Threads, Recheck(t) \/ Answered(t) PROVE TypeOK' /\ IsFiniteSet(published')
    <2>1. 0 \in Objects /\ Empty \in ListType
        BY VersionCacheAssumption, EmptyType DEF Objects
    <2>2. CASE Return(t)
        BY <1>0, <1>11, <2>1, <2>2 DEF Recheck, Answered, Return, Goto
    <2>3. CASE Goto(t, "refused") /\ UNCHANGED <<want, list, saved, seen, mixed>>
        BY <1>0, <1>11, <2>3 DEF Recheck, Answered, Goto
    <2> QED
        BY <1>11, <2>2, <2>3 DEF Recheck, Answered
<1> QED
    BY <1>1, <1>2, <1>3, <1>4, <1>5, <1>6, <1>7, <1>8, <1>9, <1>10, <1>11 DEF Next

LEMMA TypeInit == Init => CacheTypeOK
<1> SUFFICES ASSUME Init PROVE CacheTypeOK
    OBVIOUS
<1>1. First \in SUBSET Versions /\ IsFiniteSet(First) /\ Supported \subseteq Versions
      /\ MaxReloads \in Nat
    BY VersionCacheAssumption
<1>2. 0 \in Objects
    BY <1>1 DEF Objects
<1>3. First \cap Supported \in SUBSET Versions /\ IsFiniteSet(First \cap Supported)
    BY <1>1, FS_Subset
<1>4. Sorted(SetToSeq(First \cap Supported)) \in Seq(Versions)
    BY <1>3, SetToSeqProperties, SortedProperties
<1>7. <<>> \in Seq(Versions)
    BY EmptySeq
<1>5. \A items \in Seq(Versions) : [Empty EXCEPT !.items = items] \in ListType
    BY EmptyType DEF ListType
<1>6. lists \in [Objects -> ListType]
    <2>1. PICK items \in {<<>>, Sorted(SetToSeq(First \cap Supported))} :
              lists = [o \in Objects |-> IF o = 0 THEN [Empty EXCEPT !.items = items] ELSE Empty]
        BY DEF Init
    <2>2. [Empty EXCEPT !.items = items] \in ListType
        BY <1>4, <1>5, <1>7
    <2> QED
        BY <2>1, <2>2, EmptyType
<1>8. /\ published \in SUBSET Versions /\ IsFiniteSet(published)
      /\ bound \in Objects /\ reloads \in Objects
      /\ pc \in [Threads -> States]
      /\ want \in [Threads -> Versions \cup {NoVersion}]
      /\ file \in [Threads -> Seq(Versions)]
      /\ list \in [Threads -> Objects]
      /\ saved \in [Threads -> ListType]
      /\ seen \in [Threads -> SUBSET Versions]
      /\ mixed \in SUBSET Threads
    BY <1>1, <1>2, <1>7, EmptyType DEF Init, States
<1>9. Pending
    BY DEF Init, Pending
<1> QED
    BY <1>6, <1>8, <1>9 DEF CacheTypeOK, TypeOK, States

(* Whatever the threads do to the list they share, it stays a list of       *)
(* versions, and every thread is at a step of its handler (reload_versions  *)
(* and its callers).                                                         *)
THEOREM TypeCorrect == Spec => []TypeOK
<1>1. Spec => []CacheTypeOK
    BY TypeInit, TypeInductive, PTL DEF Spec
<1>2. CacheTypeOK => TypeOK
    BY DEF CacheTypeOK
<1> QED
    BY <1>1, <1>2, PTL

-----------------------------------------------------------------------------
(* A reload that overlaps no other one repairs the list *)

LEMMA TakeFirst ==
    ASSUME NEW s \in Seq(Versions), s # <<>>
    PROVE  /\ Head(s) \in ToSet(s)
           /\ ToSet(Tail(s)) \subseteq ToSet(s)
           /\ ToSet(s) \subseteq {Head(s)} \cup ToSet(Tail(s))
<1>1. /\ Len(s) \in Nat \ {0} /\ DOMAIN s = 1..Len(s) /\ Head(s) = s[1]
      /\ Tail(s) \in Seq(Versions) /\ Len(Tail(s)) = Len(s) - 1
      /\ \A i \in 1..Len(Tail(s)) : Tail(s)[i] = s[i + 1]
    BY HeadTailProperties, EmptySeq
<1>2. DOMAIN Tail(s) = 1..Len(s) - 1
    BY <1>1
<1>3. Head(s) \in ToSet(s)
    BY <1>1 DEF ToSet
<1>4. ASSUME NEW v \in ToSet(Tail(s)) PROVE v \in ToSet(s)
    <2>1. PICK i \in 1..Len(s) - 1 : v = Tail(s)[i]
        BY <1>2 DEF ToSet
    <2> QED
        BY <1>1, <2>1 DEF ToSet
<1>5. ASSUME NEW v \in ToSet(s), v # Head(s) PROVE v \in ToSet(Tail(s))
    <2>1. PICK i \in 1..Len(s) : v = s[i]
        BY <1>1 DEF ToSet
    <2>2. i # 1 /\ i - 1 \in 1..Len(s) - 1
        BY <1>1, <1>5, <2>1
    <2>3. Tail(s)[i - 1] = v
        BY <1>1, <2>1, <2>2
    <2> QED
        BY <1>2, <2>2, <2>3 DEF ToSet
<1> QED
    BY <1>3, <1>4, <1>5

LEMMA AppendLast ==
    ASSUME NEW s \in Seq(Versions), NEW v \in Versions
    PROVE  /\ ToSet(Append(s, v)) = ToSet(s) \cup {v}
           /\ IsInjective(s) /\ v \notin ToSet(s) => IsInjective(Append(s, v))
<1>1. /\ Len(s) \in Nat /\ DOMAIN s = 1..Len(s)
      /\ Append(s, v) \in Seq(Versions) /\ Len(Append(s, v)) = Len(s) + 1
      /\ \A i \in 1..Len(s) : Append(s, v)[i] = s[i]
      /\ Append(s, v)[Len(s) + 1] = v
    BY AppendProperties
<1>2. DOMAIN Append(s, v) = 1..Len(s) + 1
    BY <1>1
<1>3. ASSUME NEW x \in ToSet(Append(s, v)), x # v PROVE x \in ToSet(s)
    <2>1. PICK i \in 1..Len(s) + 1 : x = Append(s, v)[i]
        BY <1>2 DEF ToSet
    <2>2. i \in 1..Len(s)
        BY <1>1, <1>3, <2>1
    <2> QED
        BY <1>1, <2>1, <2>2 DEF ToSet
<1>4. ASSUME NEW x \in ToSet(s) PROVE x \in ToSet(Append(s, v))
    <2>1. PICK i \in 1..Len(s) : x = s[i]
        BY <1>1 DEF ToSet
    <2>2. i \in 1..Len(s) + 1 /\ Append(s, v)[i] = x
        BY <1>1, <2>1
    <2> QED
        BY <1>2, <2>2 DEF ToSet
<1>5. v \in ToSet(Append(s, v))
    BY <1>1, <1>2 DEF ToSet
<1>6. ASSUME IsInjective(s), v \notin ToSet(s) PROVE IsInjective(Append(s, v))
    <2>1. \A i \in 1..Len(s) : s[i] # v
        BY <1>1, <1>6 DEF ToSet
    <2>2. ASSUME NEW i \in 1..Len(s) + 1, NEW j \in 1..Len(s) + 1,
                 Append(s, v)[i] = Append(s, v)[j]
          PROVE  i = j
        BY <1>1, <1>6, <2>1, <2>2 DEF IsInjective
    <2> QED
        BY <1>2, <2>2 DEF IsInjective
<1> QED
    BY <1>3, <1>4, <1>5, <1>6

\* Lists that have not been made are empty, and no thread has them.
Unmade ==
    /\ bound <= reloads
    /\ \A t \in Threads : list[t] <= reloads
    /\ \A o \in Objects : o > reloads => lists[o] = Empty

\* The supported versions in the file are in the list or still to be added.
Filling(t) ==
    LET items == lists[bound].items
    IN  /\ list[t] = bound
        /\ IsInjective(items)
        /\ ToSet(items) \subseteq seen[t] \cap Supported
        /\ ToSet(file[t]) \subseteq seen[t]
        /\ seen[t] \cap Supported \subseteq ToSet(items) \cup ToSet(file[t])

\* What holds at each step of a reload that overlaps no other one.
Alone(t) ==
    /\ seen[t] # {} => pc[t] # "error"
    /\ pc[t] \in Reload => \A u \in Threads \ {t} : pc[u] \notin Reload
    /\ pc[t] \in {"idle", "download"} => seen[t] = {}
    /\ pc[t] \in {"reset", "bind"} => ToSet(file[t]) = seen[t]
    /\ pc[t] = "bind" => lists[bound] = Empty
    /\ pc[t] \in {"look", "append"} => Filling(t)
    /\ pc[t] = "append" => Head(file[t]) \in Supported \ ToSet(lists[bound].items)
    /\ pc[t] = "sort" =>
           /\ list[t] = bound /\ lists[bound].sorting
           /\ IsInjective(saved[t].items) /\ ToSet(saved[t].items) = seen[t] \cap Supported
    /\ pc[t] = "recheck" /\ seen[t] # {} => NewestFirst(lists[bound].items, seen[t] \cap Supported)

AllAlone == \A t \in Threads \ mixed : Alone(t)

LEMMA UnmadeInductive == CacheTypeOK /\ Unmade /\ [Next]_vars => Unmade'
<1> SUFFICES ASSUME CacheTypeOK, Unmade, [Next]_vars PROVE Unmade'
    OBVIOUS
<1>0. /\ bound \in Nat /\ reloads \in Nat /\ Objects \subseteq Nat
      /\ lists \in [Objects -> ListType] /\ bound \in Objects
      /\ list \in [Threads -> Objects]
    BY VersionCacheAssumption DEF CacheTypeOK, TypeOK, Objects
<1>1. CASE UNCHANGED <<lists, bound, reloads, list>>
    BY <1>1 DEF Unmade
<1>2. ASSUME NEW t \in Threads, Reset(t) PROVE Unmade'
    <2>1. reloads' = reloads + 1 /\ bound' = reloads + 1 /\ UNCHANGED <<lists, list>>
        BY <1>2 DEF Reset
    <2>2. \A u \in Threads : list[u] \in Nat /\ list[u] <= reloads
        BY <1>0 DEF Unmade
    <2> QED
        BY <1>0, <2>1, <2>2 DEF Unmade
<1>3. ASSUME NEW t \in Threads, Bind(t) PROVE Unmade'
    BY <1>0, <1>3 DEF Bind, Unmade
<1>4. ASSUME NEW t \in Threads, AppendVersion(t) \/ SortEnd(t) PROVE Unmade'
    <2>1. UNCHANGED <<bound, reloads, list>>
        BY <1>4 DEF AppendVersion, SortEnd
    <2>2. \A o \in Objects \ {list[t]} : lists'[o] = lists[o]
        BY <1>0, <1>4 DEF AppendVersion, SortEnd
    <2>3. list[t] \in Nat /\ list[t] <= reloads
        BY <1>0 DEF Unmade
    <2> QED
        BY <1>0, <2>1, <2>2, <2>3 DEF Unmade
<1>5. ASSUME NEW t \in Threads, SortBegin(t) PROVE Unmade'
    <2>1. UNCHANGED <<bound, reloads>>
        BY <1>5 DEF SortBegin
    <2>2. \A o \in Objects \ {bound} : lists'[o] = lists[o]
        BY <1>0, <1>5 DEF SortBegin
    <2>3. \A u \in Threads : list'[u] = list[u] \/ list'[u] = bound
        BY <1>0, <1>5 DEF SortBegin
    <2> QED
        BY <1>0, <2>1, <2>2, <2>3 DEF Unmade
<1>6. ASSUME NEW t \in Threads, Download(t) \/ Look(t) \/ Recheck(t) \/ Answered(t) PROVE Unmade'
    <2>1. UNCHANGED <<lists, bound, reloads>>
        BY <1>6 DEF Download, Look, Recheck, Answered
    <2>2. list' = list \/ list' = [list EXCEPT ![t] = 0]
        BY <1>6 DEF Download, Look, Recheck, Answered, Return
    <2>3. \A u \in Threads : list'[u] = list[u] \/ list'[u] = 0
        BY <1>0, <2>2
    <2> QED
        BY <1>0, <2>1, <2>3 DEF Unmade
<1>7. ASSUME NEW t \in Threads, NEW v, Request(t, v) PROVE Unmade'
    BY <1>1, <1>7 DEF Request
<1>8. ASSUME NEW v, Publish(v) PROVE Unmade'
    BY <1>1, <1>8 DEF Publish, threadVars
<1>9. CASE UNCHANGED vars
    BY <1>1, <1>9 DEF vars, threadVars
<1> QED
    BY <1>2, <1>3, <1>4, <1>5, <1>6, <1>7, <1>8, <1>9 DEF Next

\* Where it is, and that the other threads are not at a reload.
LEMMA Kept ==
    ASSUME NEW t \in Threads, Alone(t), UNCHANGED <<lists, bound, file>>,
           list'[t] = list[t], saved'[t] = saved[t], seen'[t] = seen[t], pc'[t] = pc[t], \A u \in Threads \ {t} : pc[u] \notin Reload => pc'[u] \notin Reload
    PROVE  Alone(t)'
<1>1. Filling(t) => Filling(t)'
    BY DEF Filling
<1> QED
    BY <1>1 DEF Alone

LEMMA OtherSteps ==
    ASSUME CacheTypeOK, AllAlone, NEW t \in Threads \ mixed', NEW s \in Threads \ {t},
           \/ \E v : Request(s, v)
           \/ Download(s) \/ Reset(s) \/ Bind(s) \/ Look(s) \/ AppendVersion(s)
           \/ SortBegin(s) \/ SortEnd(s) \/ Recheck(s) \/ Answered(s)
    PROVE  Alone(t)'
<1>0. /\ pc \in [Threads -> States] /\ list \in [Threads -> Objects]
      /\ saved \in [Threads -> ListType] /\ seen \in [Threads -> SUBSET Versions]
    BY DEF CacheTypeOK, TypeOK, States
<1>1. pc'[t] = pc[t]
    BY <1>0 DEF Request, Download, Reset, Bind, Look, AppendVersion, SortBegin, SortEnd,
                Recheck, Answered, Return, Goto
<1>2. CASE \E v : Request(s, v)
    <2>1. pc[t] \notin Reload /\ t \in Threads \ mixed
        <3>1. CASE {u \in Threads \ {s} : pc[u] \in Reload} = {}
            <4>1. mixed' = mixed
                BY <1>2, <3>1 DEF Request
            <4> QED
                BY <3>1, <4>1
        <3>2. CASE {u \in Threads \ {s} : pc[u] \in Reload} # {}
            <4>1. mixed' = mixed \cup {u \in Threads \ {s} : pc[u] \in Reload} \cup {s}
                BY <1>2, <3>2 DEF Request
            <4> QED
                BY <4>1
        <3> QED
            BY <3>1, <3>2
    <2>2. Alone(t) /\ seen' = seen
        BY <1>2, <2>1 DEF AllAlone, Request
    <2> QED
        BY <1>1, <2>1, <2>2 DEF Alone, Reload
<1>3. CASE Answered(s)
    <2>1. t \in Threads \ mixed /\ Alone(t)
        BY <1>3 DEF Answered, Return, AllAlone
    <2>2. \A u \in Threads \ {t} : pc[u] \notin Reload => pc'[u] \notin Reload
        BY <1>0, <1>3 DEF Answered, Return, Goto, Reload
    <2>3. UNCHANGED <<lists, bound, file>>
        BY <1>3 DEF Answered
    <2>4. list'[t] = list[t] /\ saved'[t] = saved[t] /\ seen'[t] = seen[t]
        BY <1>0, <1>3 DEF Answered, Return
    <2> QED
        BY <1>1, <2>1, <2>2, <2>3, <2>4, Kept
<1>4. CASE \/ Download(s) \/ Reset(s) \/ Bind(s) \/ Look(s) \/ AppendVersion(s)
           \/ SortBegin(s) \/ SortEnd(s) \/ Recheck(s)
    <2>1. (mixed' = mixed \/ mixed' = mixed \ {s}) /\ pc[s] \in Reload
        BY <1>4 DEF Download, Reset, Bind, Look, AppendVersion, SortBegin, SortEnd, Recheck,
                    Return, Reload
    <2>2. Alone(t)
        BY <2>1 DEF AllAlone
    <2>3. pc[t] \notin Reload
        BY <2>1, <2>2 DEF Alone
    <2>4. seen'[t] = seen[t]
        BY <1>0, <1>4 DEF Download, Reset, Bind, Look, AppendVersion, SortBegin, SortEnd, Recheck,
                          Return
    <2> QED
        BY <1>1, <2>2, <2>3, <2>4 DEF Alone, Reload
<1> QED
    BY <1>2, <1>3, <1>4

\* The steps of its own reload.
LEMMA OwnSteps ==
    ASSUME CacheTypeOK, Unmade, AllAlone, NEW t \in Threads \ mixed',
           \/ \E v : Request(t, v)
           \/ Download(t) \/ Reset(t) \/ Bind(t) \/ Look(t) \/ AppendVersion(t)
           \/ SortBegin(t) \/ SortEnd(t) \/ Recheck(t) \/ Answered(t)
    PROVE  Alone(t)'
<1>0. /\ published \in SUBSET Versions /\ IsFiniteSet(published)
      /\ lists \in [Objects -> ListType]
      /\ bound \in Objects /\ reloads \in Objects
      /\ pc \in [Threads -> States]
      /\ file \in [Threads -> Seq(Versions)]
      /\ list \in [Threads -> Objects]
      /\ saved \in [Threads -> ListType]
      /\ seen \in [Threads -> SUBSET Versions]
    BY DEF CacheTypeOK, TypeOK, States
<1>1. \A u \in Threads \ {t} : pc'[u] = pc[u]
    BY <1>0 DEF Request, Download, Reset, Bind, Look, AppendVersion, SortBegin, SortEnd,
                Recheck, Answered, Return, Goto
<1>2. CASE \E v : Request(t, v)
    <2>1. {u \in Threads \ {t} : pc[u] \in Reload} = {} /\ mixed' = mixed
        BY <1>2 DEF Request
    <2>3. Alone(t) /\ pc[t] = "idle"
        BY <1>2, <2>1 DEF AllAlone, Request
    <2>2. pc'[t] = "download" /\ seen'[t] = {}
        BY <1>0, <1>2, <2>3 DEF Request, Goto, Alone
    <2> QED
        BY <1>1, <2>1, <2>2 DEF Alone
<1>3. ASSUME pc[t] \in Reload, mixed' = mixed
      PROVE  Alone(t) /\ \A u \in Threads \ {t} : pc'[u] \notin Reload
    BY <1>1, <1>3 DEF AllAlone, Alone
<1>4. CASE Download(t)
    <2>1. pc[t] = "download" /\ mixed' = mixed /\ UNCHANGED lists
        BY <1>4 DEF Download
    <2>2. Alone(t) /\ seen[t] = {} /\ \A u \in Threads \ {t} : pc'[u] \notin Reload
        BY <1>3, <2>1 DEF Reload, Alone
    <2>3. CASE UNCHANGED <<file, seen>> /\ (Goto(t, "recheck") \/ Goto(t, "error"))
        <3>1. pc'[t] \in {"recheck", "error"} /\ seen'[t] = {}
            BY <1>0, <2>2, <2>3 DEF Goto
        <3> QED
            BY <2>2, <3>1 DEF Alone
    <2>5. CASE Goto(t, "reset") /\ file' = [file EXCEPT ![t] = <<>>] /\ UNCHANGED seen
        <3>1. pc'[t] = "reset" /\ file'[t] = <<>> /\ seen'[t] = {}
            BY <1>0, <2>2, <2>5 DEF Goto
        <3>2. ToSet(file'[t]) = seen'[t]
            BY <3>1 DEF ToSet
        <3> QED
            BY <2>2, <3>1, <3>2 DEF Alone
    <2>4. CASE /\ Goto(t, "reset")
               /\ \E upcoming \in published : file' = [file EXCEPT ![t] = FileOf(upcoming, published)]
               /\ seen' = [seen EXCEPT ![t] = published]
        <3>1. PICK upcoming \in published : file' = [file EXCEPT ![t] = FileOf(upcoming, published)]
            BY <2>4
        <3>2. ToSet(FileOf(upcoming, published)) = published
            BY <1>0, FileProperties
        <3>3. pc'[t] = "reset" /\ ToSet(file'[t]) = seen'[t]
            BY <1>0, <2>4, <3>1, <3>2 DEF Goto
        <3> QED
            BY <2>2, <3>3 DEF Alone
    <2> QED
        BY <1>4, <2>3, <2>4, <2>5 DEF Download
<1>5. CASE Reset(t)
    <2>1. Alone(t) /\ ToSet(file[t]) = seen[t] /\ \A u \in Threads \ {t} : pc'[u] \notin Reload
        BY <1>3, <1>5 DEF Reset, Reload, Alone
    <2>2. bound' \in Objects /\ bound' > reloads
        BY <1>0, <1>5, VersionCacheAssumption DEF Reset, Objects
    <2>3. lists'[bound'] = Empty
        BY <1>5, <2>2 DEF Reset, Unmade
    <2>4. pc'[t] = "bind" /\ UNCHANGED <<file, seen>>
        BY <1>0, <1>5 DEF Reset, Goto
    <2> QED
        BY <2>1, <2>3, <2>4 DEF Alone
<1>6. CASE Bind(t)
    <2>1. /\ Alone(t) /\ ToSet(file[t]) = seen[t] /\ lists[bound] = Empty
          /\ \A u \in Threads \ {t} : pc'[u] \notin Reload
        BY <1>3, <1>6 DEF Bind, Reload, Alone
    <2>2. list'[t] = bound /\ UNCHANGED <<lists, bound, file, seen>>
        BY <1>0, <1>6 DEF Bind
    <2>3. lists[bound].items = <<>>
        BY <2>1 DEF Empty
    <2>4. ToSet(<<>>) = {} /\ IsInjective(<<>>)
        BY DEF ToSet, IsInjective
    <2>5. Filling(t)'
        BY <2>1, <2>2, <2>3, <2>4 DEF Filling
    <2>6. CASE file[t] = <<>>
        <3>1. pc'[t] = "error" /\ seen'[t] = {}
            BY <1>0, <1>6, <2>1, <2>2, <2>4, <2>6 DEF Bind, Goto
        <3> QED
            BY <2>1, <3>1 DEF Alone
    <2>7. CASE file[t] # <<>>
        <3>1. pc'[t] = "look"
            BY <1>0, <1>6, <2>7 DEF Bind, Goto
        <3> QED
            BY <2>1, <2>2, <2>5, <3>1 DEF Alone
    <2> QED
        BY <2>6, <2>7
<1>7. CASE Look(t)
    <2> DEFINE items == lists[bound].items
    <2>1. pc[t] = "look" /\ file[t] # <<>> /\ mixed' = mixed /\ UNCHANGED <<lists, bound, list, seen>>
        BY <1>7 DEF Look
    <2>2. Filling(t) /\ \A u \in Threads \ {t} : pc'[u] \notin Reload
        BY <1>3, <2>1 DEF Reload, Alone
    <2>3. CASE Head(file[t]) \in ToSet(items) \/ Head(file[t]) \notin Supported
        <3>1. pc' = pc /\ file' = [file EXCEPT ![t] = Tail(@)]
            BY <1>7, <2>2, <2>3 DEF Look, Filling
        <3>2. file'[t] = Tail(file[t])
            BY <1>0, <3>1
        <3>3. /\ ToSet(Tail(file[t])) \subseteq ToSet(file[t])
              /\ ToSet(file[t]) \subseteq {Head(file[t])} \cup ToSet(Tail(file[t]))
            BY <1>0, <2>1, TakeFirst
        <3>4. Filling(t)'
            BY <2>1, <2>2, <2>3, <3>2, <3>3 DEF Filling
        <3> QED
            BY <2>1, <2>2, <3>1, <3>4 DEF Alone
    <2>4. CASE Head(file[t]) \notin ToSet(items) /\ Head(file[t]) \in Supported
        <3>1. pc'[t] = "append" /\ file' = file
            BY <1>0, <1>7, <2>2, <2>4 DEF Look, Filling, Goto
        <3>2. Filling(t)'
            BY <2>1, <2>2, <3>1 DEF Filling
        <3> QED
            BY <2>1, <2>2, <2>4, <3>1, <3>2 DEF Alone
    <2> QED
        BY <2>3, <2>4
<1>8. CASE AppendVersion(t)
    <2> DEFINE items == lists[bound].items
               v == Head(file[t])
    <2>1. pc[t] = "append" /\ file[t] # <<>> /\ mixed' = mixed /\ UNCHANGED <<bound, list, seen>>
        BY <1>8 DEF AppendVersion, CacheTypeOK, Pending
    <2>2. /\ Filling(t) /\ v \in Supported \ ToSet(items)
          /\ \A u \in Threads \ {t} : pc'[u] \notin Reload
        BY <1>3, <2>1 DEF Reload, Alone
    <2>3. items \in Seq(Versions) /\ v \in Versions
        BY <1>0, <2>2, ListFields, VersionCacheAssumption
    <2>4. pc'[t] = "look" /\ file'[t] = Tail(file[t])
        BY <1>0, <1>8 DEF AppendVersion, Goto
    <2>5. lists'[bound].items = Append(items, v)
        BY <1>0, <1>8, <2>2 DEF AppendVersion, Filling
    <2>6. ToSet(Append(items, v)) = ToSet(items) \cup {v} /\ IsInjective(Append(items, v))
        BY <2>2, <2>3, AppendLast DEF Filling
    <2>7. /\ v \in ToSet(file[t]) /\ ToSet(Tail(file[t])) \subseteq ToSet(file[t])
          /\ ToSet(file[t]) \subseteq {v} \cup ToSet(Tail(file[t]))
        BY <1>0, <2>1, TakeFirst
    <2> HIDE DEF items, v
    <2>8. /\ list[t] = bound
          /\ ToSet(items) \subseteq seen[t] \cap Supported /\ ToSet(file[t]) \subseteq seen[t]
          /\ seen[t] \cap Supported \subseteq ToSet(items) \cup ToSet(file[t])
        BY <2>2 DEF Filling, items
    <2>9. Filling(t)'
        BY <2>1, <2>2, <2>4, <2>5, <2>6, <2>7, <2>8 DEF Filling
    <2> QED
        BY <2>2, <2>4, <2>9 DEF Alone
<1>9. CASE SortBegin(t)
    <2> DEFINE items == lists[bound].items
    <2>1. pc[t] = "look" /\ file[t] = <<>> /\ mixed' = mixed /\ UNCHANGED <<bound, seen>>
        BY <1>9 DEF SortBegin
    <2>2. Filling(t) /\ \A u \in Threads \ {t} : pc'[u] \notin Reload
        BY <1>3, <2>1 DEF Reload, Alone
    <2>3. ToSet(items) = seen[t] \cap Supported /\ IsInjective(items)
        <3>1. ToSet(file[t]) = {}
            BY <2>1 DEF ToSet
        <3> QED
            BY <2>2, <3>1 DEF Filling
    <2>4. CASE items = <<>>
        <3>1. pc'[t] = "recheck" /\ lists' = lists
            BY <1>0, <1>9, <2>4 DEF SortBegin, Goto
        <3>2. NewestFirst(items, seen[t] \cap Supported)
            BY <2>3, <2>4 DEF NewestFirst
        <3> QED
            BY <2>1, <2>2, <3>1, <3>2 DEF Alone
    <2>5. CASE items # <<>>
        <3>1. pc'[t] = "sort" /\ list'[t] = bound /\ saved'[t] = lists[bound]
            BY <1>0, <1>9, <2>5 DEF SortBegin, Goto
        <3>2. lists'[bound].sorting = TRUE
            BY <1>0, <1>9, <2>5 DEF SortBegin
        <3> QED
            BY <2>1, <2>2, <2>3, <3>1, <3>2 DEF Alone
    <2> QED
        BY <2>4, <2>5
<1>10. CASE SortEnd(t)
    <2> DEFINE items == saved[t].items
    <2>1. pc[t] = "sort" /\ mixed' = mixed /\ UNCHANGED <<bound, seen>>
        BY <1>10 DEF SortEnd
    <2>2. /\ list[t] = bound /\ lists[bound].sorting
          /\ IsInjective(items) /\ ToSet(items) = seen[t] \cap Supported
          /\ \A u \in Threads \ {t} : pc'[u] \notin Reload
        BY <1>3, <2>1 DEF Reload, Alone
    <2>3. pc'[t] = "recheck"
        BY <1>0, <1>10, <2>2 DEF SortEnd, Goto
    <2>4. items \in Seq(Versions) /\ saved[t] \in ListType
        BY <1>0, ListFields
    <2>5. lists'[bound].items = Sorted(items)
        BY <1>0, <1>10, <2>2, <2>4 DEF SortEnd, ListType
    <2>6. NewestFirst(Sorted(items), seen[t] \cap Supported)
        BY <2>2, <2>4, SortedNewestFirst
    <2> QED
        BY <2>1, <2>2, <2>3, <2>5, <2>6 DEF Alone
<1>11. CASE Recheck(t)
    <2>1. pc'[t] = "refused" \/ (pc'[t] = "idle" /\ seen'[t] = {})
        BY <1>0, <1>11 DEF Recheck, Return, Goto
    <2> QED
        BY <2>1 DEF Alone, Reload
<1>12. CASE Answered(t)
    <2>1. pc'[t] = "idle" /\ seen'[t] = {}
        BY <1>0, <1>12 DEF Answered, Return, Goto
    <2> QED
        BY <2>1 DEF Alone, Reload
<1> QED
    BY <1>2, <1>4, <1>5, <1>6, <1>7, <1>8, <1>9, <1>10, <1>11, <1>12

LEMMA AloneInductive == CacheTypeOK /\ Unmade /\ AllAlone /\ [Next]_vars => AllAlone'
<1> SUFFICES ASSUME CacheTypeOK, Unmade, AllAlone, [Next]_vars, NEW t \in Threads \ mixed'
             PROVE  Alone(t)'
    BY DEF AllAlone
<1>1. CASE UNCHANGED <<lists, bound, file, list, saved, seen, pc, mixed>>
    BY <1>1, Kept DEF AllAlone
<1>2. ASSUME NEW v, Publish(v) PROVE Alone(t)'
    BY <1>1, <1>2 DEF Publish, threadVars
<1>3. CASE UNCHANGED vars
    BY <1>1, <1>3 DEF vars, threadVars
<1>4. ASSUME NEW s \in Threads,
             \/ \E v : Request(s, v)
             \/ Download(s) \/ Reset(s) \/ Bind(s) \/ Look(s) \/ AppendVersion(s)
             \/ SortBegin(s) \/ SortEnd(s) \/ Recheck(s) \/ Answered(s)
      PROVE  Alone(t)'
    <2>1. CASE s = t
        BY <1>4, <2>1, OwnSteps
    <2>2. CASE s # t
        BY <1>4, <2>2, OtherSteps
    <2> QED
        BY <2>1, <2>2
<1> QED
    BY <1>2, <1>3, <1>4 DEF Next

LEMMA AloneInit == Init => Unmade /\ AllAlone
<1> SUFFICES ASSUME Init PROVE Unmade /\ AllAlone
    OBVIOUS
<1>1. Objects \subseteq Nat /\ 0 \in Objects
    BY VersionCacheAssumption DEF Objects
<1>2. bound = 0 /\ reloads = 0 /\ \A t \in Threads : list[t] = 0 /\ pc[t] = "idle"
    BY DEF Init
<1>3. \A o \in Objects : o > 0 => lists[o] = Empty
    BY <1>1 DEF Init
<1>4. \A t \in Threads : seen[t] = {}
    BY DEF Init
<1> QED
    BY <1>2, <1>3, <1>4 DEF Unmade, AllAlone, Alone, Reload

(* A reload of app.versions that overlaps no other one (reload_versions) and *)
(* that has downloaded the versions does not raise, and leaves the list      *)
(* complete, sorted and without duplicates, however it was left by the       *)
(* reloads before it.                                                        *)
THEOREM AloneAlwaysRepairs == Spec => []AloneRepairs
<1>1. Spec => []CacheTypeOK
    BY TypeInit, TypeInductive, PTL DEF Spec
<1>2. Spec => [](Unmade /\ AllAlone)
    BY <1>1, AloneInit, UnmadeInductive, AloneInductive, PTL DEF Spec
<1>3. Unmade /\ AllAlone => AloneRepairs
    BY DEF AllAlone, Alone, AloneRepairs
<1> QED
    BY <1>2, <1>3, PTL
===============================================================================
