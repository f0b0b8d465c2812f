--------------------------- MODULE IndexedBuildProofs ---------------------------
(***************************************************************************)
(* Theorems about PackageIndex and IndexedBuild: an index is complete in   *)
(* calm and has only what upstream published since the request otherwise,  *)
(* also when its client goes on to ask for an image; an asker is given     *)
(* what its own request decides; and what an index lists can be built.     *)
(***************************************************************************)
EXTENDS IndexedBuild, PackageSelectionProofs, FiniteSetTheorems, SequenceTheorems, TLAPS

-----------------------------------------------------------------------------
(* Lists of packages *)

LEMMA UpdateIsList ==
    ASSUME NEW names, NEW f, NEW g, IsList(f, names), IsList(g, names)
    PROVE  IsList(Update(f, g), names)
BY DEF IsList, Update

LEMMA EmptyIsList ==
    ASSUME NEW names PROVE IsList(Empty, names) /\ DOMAIN Empty = {}
BY DEF IsList, Empty

LEMMA AbiNamedIsList ==
    ASSUME NEW f, IsList(f, IndexNames) PROVE IsList(AbiNamed(f), AllNames)
<1>1. \A n \in {AbiNameOf[m] : m \in DOMAIN f} :
          (CHOOSE m \in DOMAIN f : AbiNameOf[m] = n) \in DOMAIN f
    OBVIOUS
<1> QED
    BY <1>1 DEF IsList, AbiNamed, AllNames

LEMMA ListIsList ==
    ASSUME NEW f, IsList(f, IndexNames) PROVE IsList(f, AllNames)
BY DEF IsList, AllNames

-----------------------------------------------------------------------------
(* Types *)

LEMMA UpstreamType ==
    ASSUME release \in Releases, NEW u \in Upstreams[release]
    PROVE  /\ u.kernel \in Kernels \cup {NoKernel}
           /\ u.feeds \in Seq(Feeds)
           /\ \A d \in Dirs : IsList(u.packages[d], IndexNames)
BY PackageIndexAssumption DEF IsUpstream

LEMMA IndexInitType == IndexInit => IndexTypeOK
<1> SUFFICES ASSUME IndexInit PROVE IndexTypeOK
    OBVIOUS
<1>1. IsList(Empty, AllNames)
    BY EmptyIsList
<1>2. <<>> \in Seq(Feeds) /\ 0 \in 0..MaxRebuilds
    BY PackageIndexAssumption
<1> HIDE DEF Empty, IsList
<1> QED
    BY <1>1, <1>2 DEF IndexInit, ServerInit, IndexTypeOK, Dirs

LEMMA IndexTypeStep == IndexTypeOK /\ [IndexNext]_indexVars => IndexTypeOK'
<1> SUFFICES ASSUME IndexTypeOK, [IndexNext]_indexVars PROVE IndexTypeOK'
    OBVIOUS
<1> USE DEF requestVars, fileVars
<1>1. CASE Rebuild
    <2>1. rebuilds' \in 0..MaxRebuilds
        BY <1>1, PackageIndexAssumption DEF Rebuild, IndexTypeOK
    <2>2. upstream' \in Upstreams[release] /\ past' \subseteq Upstreams[release]
        BY <1>1 DEF Rebuild, IndexTypeOK
    <2> QED
        BY <1>1, <2>1, <2>2 DEF Rebuild, IndexTypeOK
<1>2. CASE TargetIndex
    BY <1>2, EmptyIsList DEF TargetIndex, ReadDir, IndexTypeOK, Dirs
<1>3. CASE ArchIndex
    <2>1. upstream.feeds \in Seq(Feeds)
        BY UpstreamType DEF IndexTypeOK
    <2>2. feeds' \in Seq(Feeds) /\ calm' \in BOOLEAN
        <3>1. \/ (feeds' = upstream.feeds /\ calm' = TRUE)
              \/ (feeds' = <<>> /\ calm' = FALSE)
            BY <1>3 DEF ArchIndex
        <3>2. <<>> \in Seq(Feeds)
            OBVIOUS
        <3> QED
            BY <2>1, <3>1, <3>2
    <2>3. past' \subseteq Upstreams[release]
        BY <1>3 DEF ArchIndex, IndexTypeOK
    <2> QED
        BY <1>3, <2>2, <2>3 DEF ArchIndex, IndexTypeOK
<1>4. CASE NextFeed
    <2>1. CASE feeds = <<>>
        BY <1>4, <2>1 DEF NextFeed, IndexTypeOK
    <2>2. CASE feeds # <<>>
        <3>1. Head(feeds) \in Feeds /\ Tail(feeds) \in Seq(Feeds)
            BY <2>2 DEF IndexTypeOK
        <3>2. IsList(Empty, AllNames)
            BY EmptyIsList
        <3> QED
            BY <1>4, <2>2, <3>1, <3>2 DEF NextFeed, ReadDir, IndexTypeOK, Dirs
    <2> QED
        BY <2>1, <2>2
<1>5. CASE GetIndex
    <2>1. IsList(upstream.packages[dir], IndexNames)
        BY UpstreamType DEF IndexTypeOK
    <2>2. IsList(found', AllNames)
        BY <1>5, <2>1, AbiNamedIsList, ListIsList DEF GetIndex, IndexTypeOK
    <2> QED
        BY <1>5, <2>2 DEF GetIndex, IndexTypeOK
<1>6. CASE GetPackages
    <2>1. IsList(upstream.packages[dir], IndexNames)
        BY UpstreamType DEF IndexTypeOK
    <2>2. IsList(found', AllNames)
        BY <1>6, <2>1, ListIsList DEF GetPackages, IndexTypeOK
    <2> QED
        BY <1>6, <2>2 DEF GetPackages, IndexTypeOK
<1>7. CASE Merge
    <2>1. IsList(packages', AllNames)
        <3>1. packages' = packages \/ packages' = Update(packages, found)
            BY <1>7 DEF Merge
        <3>2. IsList(packages, AllNames) /\ IsList(Update(packages, found), AllNames)
            BY UpdateIsList DEF IndexTypeOK
        <3> QED
            BY <3>1, <3>2
    <2>2. base' \in BOOLEAN
        BY <1>7 DEF Merge, IndexTypeOK
    <2>3. step' \in {"kernel", "feeds", "answered", "error"}
        BY <1>7 DEF Merge
    <2> QED
        BY <1>7, <2>1, <2>2, <2>3 DEF Merge, IndexTypeOK
<1>8. CASE GetKernel
    BY <1>8, UpstreamType, EmptyIsList DEF GetKernel, ReadDir, IndexTypeOK, Dirs
<1>9. CASE Raises
    BY <1>9 DEF Raises, IndexTypeOK
<1>10. CASE UNCHANGED indexVars
    BY <1>10 DEF indexVars, IndexTypeOK
<1> QED
    BY <1>1, <1>2, <1>3, <1>4, <1>5, <1>6, <1>7, <1>8, <1>9, <1>10 DEF IndexNext, Serve

(* Whatever upstream publishes, in any of its formats, and whenever it fails. *)
THEOREM IndexTypeCorrect == IndexSpec => []IndexTypeOK
BY IndexInitType, IndexTypeStep, PTL DEF IndexSpec
-----------------------------------------------------------------------------
(* What an index has *)

\* One of some upstreams lists the name in the directory, at the version.
Listed(us, n, v, d) ==
    \E u \in us :
        \/ (n \in DOMAIN u.packages[d] /\ v = u.packages[d][n])
        \/ (n \in DOMAIN AbiNamed(u.packages[d]) /\ v = AbiNamed(u.packages[d])[n])

(* What has been read and what has been merged was listed upstream since the *)
(* request, in directories of which one at most is a kernel's: it is read    *)
(* last, and is the one that profiles.json named then.                       *)
PublishedInv ==
    /\ IndexTypeOK
    /\ upstream \in past
    /\ step = "idle" => dir = Base /\ DOMAIN found = {} /\ DOMAIN packages = {}
    /\ step \in {"kernel", "feeds"} => dir \notin Kernels
    /\ dir \in Kernels => \E u \in past : u.kernel = dir
    /\ \A n \in DOMAIN found : Listed(past, n, found[n], dir)
    /\ \A n \in DOMAIN packages : \E d \in {Base, dir} \cup Feeds : Listed(past, n, packages[n], d)

LEMMA ListedGrows ==
    ASSUME NEW us, NEW vs, us \subseteq vs, NEW n, NEW v, NEW d, Listed(us, n, v, d)
    PROVE  Listed(vs, n, v, d)
BY DEF Listed

LEMMA PublishedInit == IndexInit => PublishedInv
<1> SUFFICES ASSUME IndexInit PROVE PublishedInv
    OBVIOUS
<1>1. DOMAIN Empty = {}
    BY DEF Empty
<1>2. IndexTypeOK
    BY IndexInitType
<1> QED
    BY <1>1, <1>2, PackageIndexAssumption DEF IndexInit, ServerInit, PublishedInv

LEMMA PublishedStep == PublishedInv /\ [IndexNext]_indexVars => PublishedInv'
<1> SUFFICES ASSUME PublishedInv, [IndexNext]_indexVars PROVE PublishedInv'
    OBVIOUS
<1>1. IndexTypeOK /\ IndexTypeOK'
    BY IndexTypeStep DEF PublishedInv
<1>2. DOMAIN Empty = {}
    BY DEF Empty
<1> USE PackageIndexAssumption DEF PublishedInv, requestVars, fileVars
<1>3. CASE Rebuild
    BY <1>1, <1>3, ListedGrows DEF Rebuild
<1>4. CASE TargetIndex
    BY <1>1, <1>2, <1>4 DEF TargetIndex, ReadDir
<1>5. CASE ArchIndex
    BY <1>1, <1>5 DEF ArchIndex
<1>6. CASE NextFeed
    <2>1. CASE feeds = <<>>
        BY <1>1, <1>6, <2>1 DEF NextFeed
    <2>2. CASE feeds # <<>>
        <3>1. dir' \in Feeds /\ DOMAIN found' = {} /\ step' = "index"
            BY <1>1, <1>2, <1>6, <2>2 DEF NextFeed, ReadDir, IndexTypeOK
        <3>2. dir \in {Base} \cup Feeds
            BY <1>1, <1>6 DEF NextFeed, IndexTypeOK, Dirs
        <3> QED
            BY <1>1, <1>6, <3>1, <3>2 DEF NextFeed
    <2> QED
        BY <2>1, <2>2
<1>7. CASE GetIndex
    <2>1. \A n \in DOMAIN found' : Listed(past, n, found'[n], dir)
        BY <1>7 DEF GetIndex, Listed
    <2> QED
        BY <1>1, <1>7, <2>1 DEF GetIndex
<1>8. CASE GetPackages
    <2>1. \A n \in DOMAIN found' : Listed(past, n, found'[n], dir)
        BY <1>8 DEF GetPackages, Listed
    <2> QED
        BY <1>1, <1>8, <2>1 DEF GetPackages
<1>9. CASE Merge
    <2>1. UNCHANGED <<upstream, past, dir, found>>
        BY <1>9 DEF Merge
    <2>2. packages' = packages \/ packages' = Update(packages, found)
        BY <1>9 DEF Merge
    <2>3. /\ DOMAIN Update(packages, found) = DOMAIN packages \cup DOMAIN found
          /\ \A n \in DOMAIN found : Update(packages, found)[n] = found[n]
          /\ \A n \in DOMAIN packages \ DOMAIN found : Update(packages, found)[n] = packages[n]
        BY DEF Update
    <2>4. \A n \in DOMAIN packages' : \E d \in {Base, dir} \cup Feeds :
              Listed(past, n, packages'[n], d)
        <3>1. CASE packages' = packages
            BY <3>1
        <3>2. CASE packages' = Update(packages, found)
            <4> SUFFICES ASSUME NEW n \in DOMAIN packages'
                         PROVE  \E d \in {Base, dir} \cup Feeds : Listed(past, n, packages'[n], d)
                OBVIOUS
            <4>1. CASE n \in DOMAIN found
                BY <2>3, <3>2, <4>1
            <4>2. CASE n \notin DOMAIN found
                BY <2>3, <3>2, <4>2
            <4> QED
                BY <4>1, <4>2
        <3> QED
            BY <2>2, <3>1, <3>2
    <2>5. /\ step' \notin {"idle"}
          /\ step' \in {"kernel", "feeds"} => dir \in {Base} \cup Feeds
        <3>1. CASE dir \in Kernels /\ ~base
            BY <1>9, <3>1 DEF Merge
        <3>2. CASE ~(dir \in Kernels /\ ~base)
            <4>1. step' = CASE dir = Base /\ is_post_kmod_split_build(release) -> "kernel"
                            [] dir \in Feeds -> "feeds"
                            [] OTHER -> "answered"
                BY <1>9, <3>2 DEF Merge
            <4> QED
                BY <4>1
        <3> QED
            BY <3>1, <3>2
    <2> QED
        BY <1>1, <2>1, <2>4, <2>5
<1>10. CASE GetKernel
    <2>1. CASE ReadDir(upstream.kernel)
        <3>1. dir = Base \/ dir \in Feeds
            BY <1>1, <1>10 DEF GetKernel, IndexTypeOK, Dirs
        <3> QED
            BY <1>1, <1>2, <1>10, <2>1, <3>1 DEF GetKernel, ReadDir
    <2>2. CASE step' = "answered" /\ UNCHANGED fileVars
        BY <1>1, <1>10, <2>2 DEF GetKernel
    <2> QED
        BY <1>10, <2>1, <2>2 DEF GetKernel
<1>11. CASE Raises
    BY <1>1, <1>11 DEF Raises
<1>12. CASE UNCHANGED indexVars
    BY <1>1, <1>12 DEF indexVars
<1> QED
    BY <1>3, <1>4, <1>5, <1>6, <1>7, <1>8, <1>9, <1>10, <1>11, <1>12 DEF IndexNext, Serve

(* Every package of an index was published since the request, and all        *)
(* modules are of one kernel, which was the target's at some moment since:   *)
(* for all that upstream may publish, rebuilt however often.                 *)
THEOREM IndexAlwaysPublished == IndexSpec => []IndexWasPublished
<1>1. PublishedInv => IndexWasPublished
    <2> SUFFICES ASSUME PublishedInv PROVE IndexWasPublished
        OBVIOUS
    <2>1. \A n, d : Listed(past, n, packages[n], d) => Published(n, d)
        BY DEF Listed, Published
    <2>2. dir \in Dirs /\ Base \in Dirs /\ Feeds \subseteq Dirs
        BY DEF PublishedInv, IndexTypeOK, Dirs
    <2>3. \A n \in DOMAIN packages : \E d \in Dirs : Published(n, d)
        BY <2>1, <2>2 DEF PublishedInv
    <2>4. PICK k \in {u.kernel : u \in past} : dir \in Kernels => k = dir
        BY DEF PublishedInv
    <2>5. {Base, dir} \cup Feeds \subseteq ({Base, k} \cap Dirs) \cup Feeds
        BY <2>2, <2>4 DEF Dirs
    <2>6. \A n \in DOMAIN packages : \E d \in ({Base, k} \cap Dirs) \cup Feeds : Published(n, d)
        BY <2>1, <2>5 DEF PublishedInv
    <2> QED
        BY <2>3, <2>4, <2>6 DEF IndexWasPublished
<1> QED
    BY <1>1, PublishedInit, PublishedStep, PTL DEF IndexSpec
-----------------------------------------------------------------------------
(* The packages that diff_packages selects *)

LEMMA SetToSeqIsSet ==
    ASSUME NEW S, IsFiniteSet(S)
    PROVE  SetToSeq(S) \in Seq(S) /\ ToSet(SetToSeq(S)) = S
<1> DEFINE n == Cardinality(S)
           s == SetToSeq(S)
<1>1. n \in Nat /\ ExistsBijection(1..n, S)
    BY FS_CardinalityType
<1>2. \E f \in [1..n -> S] : IsInjective(f)
    BY <1>1 DEF ExistsBijection, Bijection, Injection
<1>3. s \in [1..n -> S] /\ IsInjective(s)
    BY <1>2 DEF SetToSeq
<1>4. s \in Injection(1..n, S)
    BY <1>3 DEF Injection
<1>5. Cardinality(1..n) = n
    BY <1>1, FS_Interval
<1>6. s \in Surjection(1..n, S)
    BY <1>4, <1>5, FS_Injection
<1> QED
    BY <1>1, <1>3, <1>6 DEF ToSet, Surjection

LEMMA JoinedSet ==
    ASSUME NEW S, NEW T, NEW s \in Seq(S), NEW t \in Seq(T)
    PROVE  ToSet(s \o t) = ToSet(s) \cup ToSet(t)
<1>1. /\ s \o t \in Seq(S \cup T)
      /\ Len(s \o t) = Len(s) + Len(t)
      /\ \A i \in 1..Len(s) : (s \o t)[i] = s[i]
      /\ \A i \in 1..Len(t) : (s \o t)[Len(s) + i] = t[i]
    OBVIOUS
<1>2. \A i \in 1..(Len(s) + Len(t)) :
          i \in 1..Len(s) \/ (i - Len(s) \in 1..Len(t) /\ Len(s) + (i - Len(s)) = i)
    OBVIOUS
<1>3. ToSet(s \o t) \subseteq ToSet(s) \cup ToSet(t)
    <2> SUFFICES ASSUME NEW i \in 1..(Len(s) + Len(t))
                 PROVE  (s \o t)[i] \in ToSet(s) \cup ToSet(t)
        BY <1>1 DEF ToSet
    <2>1. CASE i \in 1..Len(s)
        BY <1>1, <2>1 DEF ToSet
    <2>2. CASE i \notin 1..Len(s)
        <3>1. i - Len(s) \in 1..Len(t) /\ Len(s) + (i - Len(s)) = i
            BY <1>2, <2>2
        <3>2. (s \o t)[i] = t[i - Len(s)]
            BY <1>1, <3>1
        <3> QED
            BY <3>1, <3>2 DEF ToSet
    <2> QED
        BY <2>1, <2>2
<1>4. ToSet(s) \subseteq ToSet(s \o t)
    BY <1>1 DEF ToSet
<1>5. ToSet(t) \subseteq ToSet(s \o t)
    <2> SUFFICES ASSUME NEW i \in 1..Len(t) PROVE t[i] \in ToSet(s \o t)
        BY DEF ToSet
    <2>1. Len(s) + i \in 1..(Len(s) + Len(t)) /\ (s \o t)[Len(s) + i] = t[i]
        BY <1>1
    <2> QED
        BY <1>1, <2>1 DEF ToSet
<1> QED
    BY <1>3, <1>4, <1>5

LEMMA RemovalsFinite ==
    ASSUME NEW S, IsFiniteSet(S) PROVE IsFiniteSet({Minus(x) : x \in S})
<1> DEFINE T == {Minus(x) : x \in S}
           f == [x \in S |-> Minus(x)]
<1>1. f \in Surjection(S, T)
    BY DEF Surjection
<1> QED
    BY <1>1, FS_Surjection

(* Whatever is asked for, and whatever the defaults are: each default is     *)
(* asked for or removed, everything asked for is there, and nothing asked    *)
(* for is removed unless the client or a default of its own says so.         *)
THEOREM DiffIsAbsolute ==
    ASSUME NEW requested \in Seq(Package),
           NEW defaults \in SUBSET Package, IsFiniteSet(defaults)
    PROVE  LET all == ToSet(diff_packages(requested, defaults))
           IN  /\ \A x \in defaults : x \in all \/ Minus(x) \in all
               /\ ToSet(requested) \subseteq all
               /\ \A x \in ToSet(requested) :
                      ~x.minus /\ Minus(x) \in all =>
                          Minus(x) \in ToSet(requested) \cup defaults
<1> DEFINE extra == defaults \ ToSet(requested)
           gone  == {Minus(x) : x \in extra}
           front == SetToSeq(gone)
           all   == ToSet(diff_packages(requested, defaults))
<1>1. IsFiniteSet(gone)
    <2>1. IsFiniteSet(extra)
        BY FS_Subset
    <2> QED
        BY <2>1, RemovalsFinite
<1>2. front \in Seq(gone) /\ ToSet(front) = gone
    BY <1>1, SetToSeqIsSet
<1>3. all = gone \cup ToSet(requested)
    <2>1. ToSet(front \o requested) = ToSet(front) \cup ToSet(requested)
        <3> HIDE DEF front, gone
        <3> QED
            BY <1>2, JoinedSet
    <2> QED
        BY <1>2, <2>1 DEF diff_packages
<1>4. ASSUME NEW x \in ToSet(requested), ~x.minus, Minus(x) \in all
      PROVE  Minus(x) \in ToSet(requested) \cup defaults
    <2>1. x \in Package
        BY DEF ToSet
    <2>2. CASE Minus(x) \in gone
        <3>1. PICK y \in extra : Minus(x) = Minus(y)
            BY <2>2
        <3>2. x.name = y.name /\ y \in Package
            BY <3>1 DEF Minus
        <3>3. CASE y.minus
            BY <2>1, <3>1, <3>2, <3>3 DEF Minus, Package
        <3>4. CASE ~y.minus
            <4>1. x = y
                BY <1>4, <2>1, <3>2, <3>4 DEF Package
            <4> QED
                BY <3>1, <4>1
        <3> QED
            BY <3>3, <3>4
    <2> QED
        BY <1>3, <1>4, <2>2
<1>5. \A x \in defaults : x \in all \/ Minus(x) \in all
    BY <1>3
<1> QED
    BY <1>3, <1>4, <1>5

-----------------------------------------------------------------------------
(* All of an index *)

Lists == UNION {[D -> PackageVersions] : D \in SUBSET AllNames}

\* What the first feeds list, by how many they are.
FeedsOf(u) == Merged(Empty, [i \in 1..Len(u.feeds) |-> ListOf(u, u.feeds[i])])

Reading == {"index", "Packages", "merge"}

(* A target's index is its base, and then the modules of its kernel as well. *)
TargetInv ==
    LET listed == upstream.format[Base] # "none"
    IN  /\ step \notin {"idle", "feeds"}
        /\ step \in Reading =>
               \/ dir = Base /\ packages = Empty /\ ~base
               \/ /\ dir \in Kernels /\ dir = upstream.kernel
                  /\ base <=> listed
                  /\ packages = ListOf(upstream, Base)
        /\ step = "kernel" => (base <=> listed) /\ packages = ListOf(upstream, Base)
        /\ step = "answered" /\ Single(release) => packages = Offered(upstream, "target")
        /\ step = "error" => ~listed

(* An architecture's index is what the feeds list that are not left.         *)
ArchInv ==
    LET all == upstream.feeds
        i   == Len(all) - Len(feeds)
    IN  /\ step \in Reading \cup {"feeds", "answered"}
        /\ i \in Nat
        /\ \A k \in 1..Len(feeds) : feeds[k] = all[i + k]
        /\ step = "feeds" => packages = FeedsOf(upstream)[i]
        /\ step \in Reading => i > 0 /\ dir = all[i] /\ packages = FeedsOf(upstream)[i - 1]
        /\ step = "answered" => packages = OfFeeds(upstream)

\* What is known of the directory that is read.
FileInv ==
    LET format == upstream.format[dir]
    IN  /\ step = "index" => ~known /\ found = Empty
        /\ step = "Packages" => /\ format # "v2"
                                /\ known <=> format \in {"v1", "both"}
                                /\ format = "v1" => found = AbiNamed(upstream.packages[dir])
                                /\ format = "none" => found = Empty
        /\ step = "merge" => (known <=> format # "none") /\ found = ListOf(upstream, dir)

CompleteInv ==
    /\ IndexTypeOK
    /\ step = "idle" => packages = Empty /\ ~base
    /\ step # "idle" => endpoint \in {"target", "arch"}
    /\ calm /\ step # "idle" =>
           /\ FileInv
           /\ endpoint = "target" => TargetInv
           /\ endpoint = "arch" => ArchInv

LEMMA ListsAreLists == ASSUME NEW f PROVE f \in Lists <=> IsList(f, AllNames)
<1>1. ASSUME f \in Lists PROVE IsList(f, AllNames)
    <2>1. PICK D \in SUBSET AllNames : f \in [D -> PackageVersions]
        BY <1>1 DEF Lists
    <2> QED
        BY <2>1 DEF IsList
<1>2. ASSUME IsList(f, AllNames) PROVE f \in Lists
    <2>1. DOMAIN f \in SUBSET AllNames /\ f \in [DOMAIN f -> PackageVersions]
        BY <1>2 DEF IsList
    <2> QED
        BY <2>1 DEF Lists
<1> QED
    BY <1>1, <1>2

LEMMA ListOfIsList ==
    ASSUME NEW u, IsUpstream(u), NEW d \in Dirs PROVE IsList(ListOf(u, d), AllNames)
<1>1. IsList(u.packages[d], IndexNames)
    BY DEF IsUpstream
<1>2. /\ IsList(Empty, AllNames)
      /\ IsList(AbiNamed(u.packages[d]), AllNames)
      /\ IsList(u.packages[d], AllNames)
    BY <1>1, EmptyIsList, AbiNamedIsList, ListIsList
<1>3. ListOf(u, d) \in {Empty, AbiNamed(u.packages[d]), u.packages[d]}
    BY DEF ListOf
<1> QED
    BY <1>2, <1>3

LEMMA MergedSteps ==
    ASSUME NEW n \in Nat, NEW lists \in [1..n -> Lists], NEW first \in Lists
    PROVE  /\ Merged(first, lists) \in [0..n -> Lists]
           /\ Merged(first, lists)[0] = first
           /\ \A i \in 1..n :
                  Merged(first, lists)[i] = Update(Merged(first, lists)[i - 1], lists[i])
<1> DEFINE next == [i \in 1..n |-> [f \in Lists |-> Update(f, lists[i])]]
           of[i \in 0..Len(lists)] == IF i = 0 THEN first ELSE Update(of[i - 1], lists[i])
<1>1. Len(lists) = n
    OBVIOUS
<1>3. next \in [1..n -> [Lists -> Lists]]
    <2> SUFFICES ASSUME NEW i \in 1..n, NEW f \in Lists PROVE Update(f, lists[i]) \in Lists
        OBVIOUS
    <2>1. IsList(f, AllNames)
        BY ListsAreLists
    <2>2. IsList(Update(f, lists[i]), AllNames)
        BY <2>1, ListsAreLists, UpdateIsList
    <2> QED
        BY <2>2, ListsAreLists
<1> HIDE DEF next
<1>5. \E f : IsRun(f, Lists, n, first, next)
    BY <1>3, Recursion
<1>6. PICK f : IsRun(f, Lists, n, first, next)
    BY <1>5
<1>7. /\ f \in [0..n -> Lists] /\ f[0] = first
      /\ \A i \in 1..n : f[i] = Update(f[i - 1], lists[i])
    <2>1. f \in [0..n -> Lists] /\ f[0] = first /\ \A i \in 1..n : f[i] = next[i][f[i - 1]]
        BY <1>6 DEF IsRun
    <2>2. ASSUME NEW i \in 1..n PROVE f[i] = Update(f[i - 1], lists[i])
        <3>1. i - 1 \in 0..n
            BY <1>1
        <3>2. f[i - 1] \in Lists
            BY <2>1, <3>1
        <3> QED
            BY <2>1, <3>2 DEF next
    <2> QED
        BY <2>1, <2>2
<1>8. f = [i \in 0..n |-> IF i = 0 THEN first ELSE Update(f[i - 1], lists[i])]
    <2>1. \A i \in 0..n : f[i] = IF i = 0 THEN first ELSE Update(f[i - 1], lists[i])
        <3> SUFFICES ASSUME NEW i \in 0..n
                     PROVE  f[i] = IF i = 0 THEN first ELSE Update(f[i - 1], lists[i])
            OBVIOUS
        <3>1. CASE i = 0
            BY <1>7, <3>1
        <3>2. CASE i # 0
            <4>1. i \in 1..n
                BY <1>1, <3>2
            <4> QED
                BY <1>7, <3>2, <4>1
        <3> QED
            BY <3>1, <3>2
    <2> QED
        BY <1>7, <2>1
<1>9. of = [i \in 0..n |-> IF i = 0 THEN first ELSE Update(of[i - 1], lists[i])]
    BY <1>1, <1>8
<1>10. Merged(first, lists) = of
    BY DEF Merged
<1> HIDE DEF of
<1>11. of[0] = first
    BY <1>1, <1>9
<1>12. ASSUME NEW i \in 1..n PROVE of[i] = Update(of[i - 1], lists[i])
    <2>1. i \in 0..n /\ i # 0
        BY <1>1
    <2> QED
        BY <1>9, <2>1
<1>13. of \in [0..n -> Lists]
    <2> DEFINE P == {i \in 0..n : of[i] \in Lists}
    <2>1. 0 \in P
        BY <1>11
    <2>2. ASSUME NEW i \in 1..n, i - 1 \in P PROVE i \in P
        <3>1. next[i][of[i - 1]] \in Lists /\ next[i][of[i - 1]] = of[i]
            BY <1>3, <1>12, <2>2 DEF next
        <3> QED
            BY <3>1
    <2>3. 0..n \subseteq P
        <3> HIDE DEF P
        <3> QED
            BY <2>1, <2>2, Induction
    <2> QED
        BY <1>9, <2>3
<1> QED
    BY <1>10, <1>11, <1>12, <1>13

LEMMA FeedsOfSteps ==
    ASSUME NEW u, IsUpstream(u)
    PROVE  /\ FeedsOf(u)[0] = Empty
           /\ \A i \in 1..Len(u.feeds) :
                  FeedsOf(u)[i] = Update(FeedsOf(u)[i - 1], ListOf(u, u.feeds[i]))
<1> DEFINE n == Len(u.feeds)
           lists == [i \in 1..n |-> ListOf(u, u.feeds[i])]
<1>1. n \in Nat /\ \A i \in 1..n : u.feeds[i] \in Dirs
    BY DEF IsUpstream, Dirs
<1>2. lists \in [1..n -> Lists] /\ Empty \in Lists
    BY <1>1, ListOfIsList, ListsAreLists, EmptyIsList
<1> HIDE DEF n
<1>3. \A i \in 1..n : lists[i] = ListOf(u, u.feeds[i])
    OBVIOUS
<1>4. FeedsOf(u) = Merged(Empty, lists)
    BY DEF FeedsOf, n
<1> HIDE DEF lists
<1>5. /\ Merged(Empty, lists)[0] = Empty
      /\ \A i \in 1..n : Merged(Empty, lists)[i] = Update(Merged(Empty, lists)[i - 1], lists[i])
    BY <1>1, <1>2, MergedSteps, ZenonT(60)
<1> QED
    BY <1>3, <1>4, <1>5 DEF n

LEMMA OfFeedsIsLast == ASSUME NEW u PROVE OfFeeds(u) = FeedsOf(u)[Len(u.feeds)]
BY DEF OfFeeds, FeedsOf

LEMMA UpdateEmpty ==
    ASSUME NEW f, IsList(f, AllNames) PROVE Update(Empty, f) = f
BY DEF IsList, Update, Empty

LEMMA CompleteInit == IndexInit => CompleteInv
BY IndexInitType DEF IndexInit, ServerInit, CompleteInv

\* What a feed leaves of the feeds, and what is left when there is none.
LEMMA NextFeedComplete ==
    ASSUME CompleteInv, NextFeed PROVE CompleteInv'
<1> USE DEF requestVars, fileVars
<1>1. IndexTypeOK' /\ step = "feeds" /\ UNCHANGED <<upstream, release, endpoint, calm, base, packages>>
    BY IndexTypeStep DEF CompleteInv, NextFeed, IndexNext, Serve
<1>2. CASE ~calm
    BY <1>1, <1>2 DEF CompleteInv, NextFeed, ReadDir
<1>3. CASE calm
    <2> DEFINE all == upstream.feeds
               n == Len(all)
               i == n - Len(feeds)
    <2>1. endpoint = "arch" /\ ArchInv
        BY <1>1, <1>3 DEF CompleteInv, TargetInv
    <2>2. all \in Seq(Feeds) /\ feeds \in Seq(Feeds)
        BY <1>1, UpstreamType DEF CompleteInv, IndexTypeOK
    <2>3. n \in Nat /\ Len(feeds) \in Nat /\ i \in Nat
        BY <2>1, <2>2 DEF ArchInv
    <2>4. packages = FeedsOf(upstream)[i] /\ \A k \in 1..Len(feeds) : feeds[k] = all[i + k]
        BY <1>1, <2>1 DEF ArchInv
    <2>5. CASE feeds = <<>>
        <3>1. step' = "answered" /\ feeds' = feeds
            BY <1>1, <2>5 DEF NextFeed
        <3>2. i = n
            BY <2>3, <2>5
        <3>3. packages = OfFeeds(upstream)
            BY <2>4, <3>2, OfFeedsIsLast
        <3>4. ArchInv'
            BY <1>1, <2>1, <3>1, <3>3 DEF ArchInv, Reading
        <3> QED
            BY <1>1, <2>1, <3>1, <3>4 DEF CompleteInv, FileInv
    <2>6. CASE feeds # <<>>
        <3>1. /\ step' = "index" /\ dir' = Head(feeds) /\ feeds' = Tail(feeds)
              /\ known' = FALSE /\ found' = Empty
            BY <1>1, <2>6 DEF NextFeed, ReadDir
        <3>2. /\ Len(feeds) > 0 /\ Len(Tail(feeds)) = Len(feeds) - 1
              /\ Head(feeds) = feeds[1]
              /\ \A k \in 1..Len(feeds) - 1 : Tail(feeds)[k] = feeds[k + 1]
            BY <2>2, <2>6
        <3> DEFINE j == n - Len(feeds')
        <3>a. Len(feeds') = Len(feeds) - 1
            BY <3>1, <3>2
        <3>3. j = i + 1 /\ j \in Nat /\ j > 0
            <4> HIDE DEF n
            <4> QED
                BY <2>3, <3>a
        <3>4. dir' = all[j]
            <4>1. 1 \in 1..Len(feeds) /\ i + 1 = j
                BY <2>3, <3>2, <3>3
            <4> QED
                BY <2>4, <3>1, <3>2, <4>1
        <3>5. packages' = FeedsOf(upstream)[j - 1]
            <4>1. j - 1 = i
                BY <2>3, <3>3
            <4> QED
                BY <1>1, <2>4, <4>1
        <3>6. \A k \in 1..Len(feeds') : feeds'[k] = all[j + k]
            <4> SUFFICES ASSUME NEW k \in 1..Len(feeds') PROVE feeds'[k] = all[j + k]
                OBVIOUS
            <4>1. k \in 1..Len(feeds) - 1 /\ k + 1 \in 1..Len(feeds)
                BY <2>3, <3>a
            <4>2. i + (k + 1) = j + k
                <5> HIDE DEF i, j
                <5> QED
                    BY <2>3, <3>3, <4>1
            <4> QED
                BY <2>4, <3>1, <3>2, <4>1, <4>2
        <3>7. ArchInv'
            BY <1>1, <3>1, <3>3, <3>4, <3>5, <3>6 DEF ArchInv, Reading
        <3> QED
            BY <1>1, <2>1, <3>1, <3>7 DEF CompleteInv, FileInv
    <2> QED
        BY <2>5, <2>6
<1> QED
    BY <1>1, <1>2, <1>3 DEF CompleteInv, IndexTypeOK

LEMMA MergeComplete ==
    ASSUME CompleteInv, Merge PROVE CompleteInv'
<1> USE DEF requestVars, fileVars
<1>1. /\ IndexTypeOK /\ IndexTypeOK' /\ step = "merge"
      /\ UNCHANGED <<upstream, release, endpoint, calm, dir, known, found, feeds>>
    BY IndexTypeStep DEF CompleteInv, Merge, IndexNext, Serve
<1>a. step' \in {"kernel", "feeds", "answered", "error"}
    BY <1>1 DEF Merge
<1>2. CASE ~calm
    BY <1>1, <1>a, <1>2 DEF CompleteInv
<1>3. CASE calm
    <2> DEFINE u == upstream
               listed == u.format[Base] # "none"
    <2>1. (known <=> u.format[dir] # "none") /\ found = ListOf(u, dir)
        BY <1>1, <1>3 DEF CompleteInv, FileInv
    <2>2. IsUpstream(u) /\ dir \in Dirs /\ Base \in Dirs /\ u.kernel \in Kernels \cup {NoKernel}
        BY <1>1, PackageIndexAssumption DEF IndexTypeOK, IsUpstream, Dirs
    <2>3. Base \notin Kernels \cup Feeds /\ Kernels \cap Feeds = {} /\ NoKernel \notin Kernels
        BY PackageIndexAssumption
    <2>4. Update(Empty, found) = found
        BY <2>1, <2>2, ListOfIsList, UpdateEmpty
    <2>5. CASE endpoint = "target"
        <3>1. TargetInv
            BY <1>1, <1>3, <2>5 DEF CompleteInv
        <3>2. CASE dir = Base /\ packages = Empty /\ ~base
            <4>1. packages' = ListOf(u, Base) /\ (base' <=> listed)
                BY <1>1, <2>1, <2>3, <2>4, <3>2 DEF Merge
            <4>2. step' = IF is_post_kmod_split_build(release) THEN "kernel" ELSE "answered"
                BY <1>1, <2>3, <3>2 DEF Merge
            <4>3. CASE is_post_kmod_split_build(release)
                <5>1. TargetInv'
                    BY <1>1, <4>1, <4>2, <4>3 DEF TargetInv, Reading
                <5> QED
                    BY <1>1, <2>5, <4>2, <4>3, <5>1 DEF CompleteInv, FileInv
            <4>4. CASE ~is_post_kmod_split_build(release)
                <5>1. Single(release) => ~ModulesApart(release)
                    <6>1. \A x : x = 1 => ~(x > 1)
                        OBVIOUS
                    <6> QED
                        BY <4>4, <6>1, Zenon DEF Single, ModulesApart, is_post_kmod_split_build
                <5>2. Single(release) => u.kernel = NoKernel
                    BY <1>1, <5>1, PackageIndexAssumption DEF IndexTypeOK
                <5>3. Single(release) => packages' = Offered(u, "target")
                    BY <4>1, <5>2 DEF Offered
                <5>4. TargetInv'
                    BY <1>1, <4>2, <4>4, <5>3 DEF TargetInv, Reading, Single
                <5> QED
                    BY <1>1, <2>5, <4>2, <4>4, <5>4 DEF CompleteInv, FileInv
            <4> QED
                BY <4>3, <4>4
        <3>3. CASE /\ dir \in Kernels /\ dir = u.kernel
                   /\ base <=> listed
                   /\ packages = ListOf(u, Base)
            <4>1. dir # Base /\ dir \notin Feeds /\ u.kernel # NoKernel
                BY <2>3, <3>3
            <4>2. CASE base
                <5>1. step' = "answered"
                    BY <1>1, <4>1, <4>2 DEF Merge
                <5>2. packages' = Update(ListOf(u, Base), ListOf(u, u.kernel))
                    BY <1>1, <2>1, <3>3, <4>2 DEF Merge
                <5>3. packages' = Offered(u, "target")
                    BY <4>1, <5>2 DEF Offered
                <5>4. TargetInv'
                    BY <1>1, <5>1, <5>3 DEF TargetInv, Reading
                <5> QED
                    BY <1>1, <2>5, <5>1, <5>4 DEF CompleteInv, FileInv
            <4>3. CASE ~base
                <5>1. step' = "error" /\ ~listed
                    BY <1>1, <3>3, <4>3 DEF Merge
                <5>2. TargetInv'
                    BY <1>1, <5>1 DEF TargetInv, Reading
                <5> QED
                    BY <1>1, <2>5, <5>1, <5>2 DEF CompleteInv, FileInv
            <4> QED
                BY <4>2, <4>3
        <3> QED
            BY <1>1, <3>1, <3>2, <3>3 DEF TargetInv, Reading
    <2>6. CASE endpoint = "arch"
        <3> DEFINE all == u.feeds
                   n == Len(all)
                   i == n - Len(feeds)
        <3>1. ArchInv
            BY <1>1, <1>3, <2>6 DEF CompleteInv
        <3>2. /\ i \in Nat /\ i > 0 /\ dir = all[i] /\ packages = FeedsOf(u)[i - 1]
              /\ \A k \in 1..Len(feeds) : feeds[k] = all[i + k]
            BY <1>1, <3>1 DEF ArchInv, Reading
        <3>3. all \in Seq(Feeds) /\ n \in Nat /\ i \in 1..n
            <4>1. all \in Seq(Feeds) /\ feeds \in Seq(Feeds)
                BY <1>1, UpstreamType DEF IndexTypeOK
            <4>2. n \in Nat /\ Len(feeds) \in Nat
                BY <4>1
            <4> HIDE DEF n
            <4> QED
                BY <3>2, <4>1, <4>2
        <3>4. dir \in Feeds
            BY <3>2, <3>3
        <3>5. packages' = Update(packages, found) /\ step' = "feeds" /\ base' = base
            BY <1>1, <2>3, <3>4 DEF Merge
        <3>6. packages' = FeedsOf(u)[i]
            BY <2>1, <2>2, <3>2, <3>3, <3>5, FeedsOfSteps
        <3>7. ArchInv'
            BY <1>1, <3>2, <3>5, <3>6 DEF ArchInv, Reading
        <3> QED
            BY <1>1, <2>6, <3>5, <3>7 DEF CompleteInv, FileInv
    <2> QED
        BY <1>1, <2>5, <2>6 DEF CompleteInv
<1> QED
    BY <1>1, <1>2, <1>3 DEF IndexTypeOK

LEMMA CompleteStep == CompleteInv /\ [IndexNext]_indexVars => CompleteInv'
<1> SUFFICES ASSUME CompleteInv, [IndexNext]_indexVars PROVE CompleteInv'
    OBVIOUS
<1> USE DEF requestVars, fileVars
<1>1. IndexTypeOK /\ IndexTypeOK'
    BY IndexTypeStep DEF CompleteInv
<1>2. CASE Rebuild
    BY <1>1, <1>2 DEF Rebuild, CompleteInv
<1>3. CASE TargetIndex
    <2>1. /\ step' = "index" /\ dir' = Base /\ ~known' /\ found' = Empty
          /\ packages' = Empty /\ ~base' /\ endpoint' = "target"
        BY <1>3 DEF TargetIndex, ReadDir, CompleteInv
    <2> QED
        BY <1>1, <2>1 DEF CompleteInv, FileInv, TargetInv, Reading
<1>4. CASE ArchIndex
    <2>1. step' = "feeds" /\ packages' = Empty /\ ~base' /\ endpoint' = "arch" /\ upstream' = upstream
        BY <1>4 DEF ArchIndex, CompleteInv
    <2>2. CASE ~calm'
        BY <1>1, <2>1, <2>2 DEF CompleteInv
    <2>3. CASE calm'
        <3>1. feeds' = upstream.feeds
            BY <1>4, <2>3 DEF ArchIndex
        <3>2. upstream.feeds \in Seq(Feeds) /\ IsUpstream(upstream)
            BY <1>1, UpstreamType, PackageIndexAssumption DEF IndexTypeOK
        <3>3. Len(upstream.feeds) - Len(upstream.feeds) = 0
            BY <3>2
        <3>4. \A k \in 1..Len(upstream.feeds) : upstream.feeds[k] = upstream.feeds[0 + k]
            BY <3>2
        <3>5. packages' = FeedsOf(upstream)[0]
            BY <2>1, <3>2, FeedsOfSteps
        <3>6. ArchInv'
            BY <2>1, <3>1, <3>3, <3>4, <3>5 DEF ArchInv, Reading
        <3> QED
            BY <1>1, <2>1, <3>6 DEF CompleteInv, FileInv
    <2> QED
        BY <2>2, <2>3
<1>5. CASE NextFeed
    BY <1>5, NextFeedComplete
<1>6. CASE GetIndex
    <2>1. /\ step = "index" /\ step' \in {"Packages", "merge"}
          /\ UNCHANGED <<upstream, release, endpoint, dir, feeds, base, packages>>
        BY <1>6 DEF GetIndex
    <2>2. CASE ~calm'
        BY <1>1, <2>1, <2>2 DEF CompleteInv
    <2>3. CASE calm'
        <3>1. calm /\ ~known /\ found = Empty
            BY <1>6, <2>1, <2>3 DEF GetIndex, CompleteInv, FileInv
        <3>2. upstream.format[dir] \in Formats
            BY <1>1, PackageIndexAssumption DEF IndexTypeOK, IsUpstream
        <3>3. FileInv'
            BY <1>6, <2>1, <2>3, <3>1, <3>2 DEF GetIndex, FileInv, ListOf, Formats
        <3>4. (endpoint = "target" => TargetInv') /\ (endpoint = "arch" => ArchInv')
            BY <2>1, <3>1 DEF CompleteInv, TargetInv, ArchInv, Reading, Single
        <3> QED
            BY <1>1, <2>1, <3>3, <3>4 DEF CompleteInv
    <2> QED
        BY <2>2, <2>3
<1>7. CASE GetPackages
    <2>1. /\ step = "Packages" /\ step' = "merge"
          /\ UNCHANGED <<upstream, release, endpoint, dir, feeds, base, packages>>
        BY <1>7 DEF GetPackages
    <2>2. CASE ~calm'
        BY <1>1, <2>1, <2>2 DEF CompleteInv
    <2>3. CASE calm'
        <3>1. calm /\ FileInv
            BY <1>7, <2>1, <2>3 DEF GetPackages, CompleteInv
        <3>2. upstream.format[dir] \in Formats
            BY <1>1, PackageIndexAssumption DEF IndexTypeOK, IsUpstream
        <3>3. FileInv'
            BY <1>7, <2>1, <2>3, <3>1, <3>2 DEF GetPackages, FileInv, ListOf, Formats
        <3>4. (endpoint = "target" => TargetInv') /\ (endpoint = "arch" => ArchInv')
            BY <2>1, <3>1 DEF CompleteInv, TargetInv, ArchInv, Reading, Single
        <3> QED
            BY <1>1, <2>1, <3>3, <3>4 DEF CompleteInv
    <2> QED
        BY <2>2, <2>3
<1>8. CASE Merge
    BY <1>8, MergeComplete
<1>9. CASE GetKernel
    <2>1. /\ step = "kernel" /\ step' \in {"index", "answered"}
          /\ UNCHANGED <<upstream, release, endpoint, feeds, base, packages>>
        BY <1>9 DEF GetKernel, ReadDir
    <2>2. CASE ~calm'
        BY <1>1, <2>1, <2>2 DEF CompleteInv
    <2>3. CASE calm'
        <3>1. calm /\ endpoint = "target" /\ TargetInv
            BY <1>9, <2>1, <2>3 DEF GetKernel, CompleteInv, ArchInv, Reading
        <3>2. upstream.kernel \in Kernels \cup {NoKernel}
            BY <1>1, UpstreamType DEF IndexTypeOK
        <3>3. CASE upstream.kernel # NoKernel /\ ReadDir(upstream.kernel)
            BY <1>1, <2>1, <3>1, <3>2, <3>3 DEF CompleteInv, FileInv, TargetInv, Reading, ReadDir, Single
        <3>4. CASE upstream.kernel = NoKernel /\ step' = "answered"
            BY <1>1, <2>1, <3>1, <3>4 DEF CompleteInv, FileInv, TargetInv, Reading, Offered, Single
        <3> QED
            BY <1>9, <2>3, <3>3, <3>4 DEF GetKernel
    <2> QED
        BY <2>2, <2>3
<1>10. CASE Raises
    BY <1>1, <1>10 DEF Raises, CompleteInv
<1>11. CASE UNCHANGED indexVars
    BY <1>1, <1>11 DEF indexVars, CompleteInv, FileInv, TargetInv, ArchInv, Single
<1> QED
    BY <1>2, <1>3, <1>4, <1>5, <1>6, <1>7, <1>8, <1>9, <1>10, <1>11 DEF IndexNext, Serve

(* Nothing is missing from an index while upstream stays as it is and        *)
(* answers, for all formats, kernels and lists of feeds.                     *)
THEOREM IndexAlwaysComplete == IndexSpec => []IndexComplete
<1>1. CompleteInv => IndexComplete
    <2> SUFFICES ASSUME CompleteInv, calm, Single(release), step \in {"answered", "error"}
                 PROVE  /\ step = "answered" => packages = Offered(upstream, endpoint)
                        /\ step = "error" => upstream.format[Base] = "none"
        BY DEF IndexComplete
    <2>1. endpoint \in {"target", "arch"}
        BY DEF CompleteInv
    <2>2. CASE endpoint = "target"
        BY <2>2 DEF CompleteInv, TargetInv
    <2>3. CASE endpoint = "arch"
        <3>1. step = "answered" /\ packages = OfFeeds(upstream)
            BY <2>3 DEF CompleteInv, ArchInv, Reading
        <3>2. Offered(upstream, endpoint) = OfFeeds(upstream)
            BY <2>3 DEF Offered
        <3> QED
            BY <3>1, <3>2
    <2> QED
        BY <2>1, <2>2, <2>3
<1> QED
    BY <1>1, CompleteInit, CompleteStep, PTL DEF IndexSpec

-----------------------------------------------------------------------------
(* The composition *)

LEMMA IndexedIndexInit == IndexedInit => IndexInit
<1>1. (CHOOSE v \in Releases : TRUE) \in Releases
    BY PackageIndexAssumption
<1>2. \A v \in Releases : (CHOOSE u \in Upstreams[v] : TRUE) \in Upstreams[v]
    BY PackageIndexAssumption
<1> QED
    BY <1>1, <1>2 DEF IndexedInit, IndexInit

LEMMA IndexedIndexStep == [IndexedNext]_allVars => [IndexNext]_indexVars
<1> SUFFICES ASSUME [IndexedNext]_allVars PROVE [IndexNext]_indexVars
    OBVIOUS
<1>1. CASE stage = "listing" /\ Serve /\ UNCHANGED vars
    BY <1>1 DEF IndexNext
<1>2. CASE Rebuilt
    BY <1>2 DEF Rebuilt, IndexNext
<1>3. CASE Choose
    BY <1>3 DEF Choose
<1>4. CASE UNCHANGED indexVars
    BY <1>4
<1>5. CASE UNCHANGED allVars
    BY <1>5 DEF allVars
<1> QED
    BY <1>1, <1>2, <1>3, <1>4, <1>5 DEF IndexedNext

(* A client that goes on to ask for an image, and the worker that builds it, *)
(* leave the index that it was given as the endpoints have it.               *)
THEOREM IndexedImplementsIndex == IndexedSpec => IndexSpec
BY IndexedIndexInit, IndexedIndexStep, PTL DEF IndexedSpec, IndexSpec

(* So a client that goes on to ask for an image has had a whole index.       *)
THEOREM IndexedAlwaysComplete == IndexedSpec => []IndexComplete
BY IndexedImplementsIndex, IndexAlwaysComplete, PTL

(* And the versions that it asks for were published since it asked.          *)
THEOREM IndexedAlwaysPublished == IndexedSpec => []IndexWasPublished
BY IndexedImplementsIndex, IndexAlwaysPublished, PTL
-----------------------------------------------------------------------------
(* What the build promises *)

(* check_manifest finds nothing only if there is nothing to be found. *)
LEMMA CheckManifestSound ==
    ASSUME NEW image, NEW versions, check_manifest(image, versions) = NoError
    PROVE  Has(image, versions)
<1> DEFINE Agrees(i) ==
               /\ InManifest(versions[i], image)
               /\ versions[i].version = image[versions[i].package.name]
           wrong == {i \in DOMAIN versions : ~Agrees(i)}
           item == versions[Min(wrong)]
           report == [reason |-> IF InManifest(item, image) THEN "version not as requested"
                                                              ELSE "not in manifest",
                      package |-> item.package]
<1>1. check_manifest(image, versions) = IF wrong = {} THEN NoError ELSE report
    BY DEF check_manifest
<1>2. report.reason # "none"
    OBVIOUS
<1>3. NoError.reason = "none"
    BY DEF NoError
<1> HIDE DEF report
<1>4. wrong = {}
    BY <1>1, <1>2, <1>3
<1> QED
    BY <1>4 DEF Has, ToSet

Unstarted == {"listing", "received", "refused", "queued"}

(* The asker shares with the request what its hash tells, which is kept      *)
(* until the worker reads it.                                                *)
Shared ==
    /\ DOMAIN request = Fields
    /\ asker.repositories = request.repositories
    /\ asker.repositories_mode = request.repositories_mode
    /\ \A item \in ToSet(request.repositories) : item.url \in Urls
    /\ ToSet(asker.packages_versions) = ToSet(request.packages_versions)
    /\ stage \notin {"listing", "received", "refused"} =>
           /\ DOMAIN build_request = Fields
           /\ build_request.packages_versions = request.packages_versions

\* What inject_files adds for opkg.
OpkgOwn == IF asker.repositories = <<>> \/ apk_mode THEN {} ELSE OpkgLines

PromiseInv ==
    /\ Shared
    /\ stage \in Unstarted => repositories = BaseFile[apk_mode]
    /\ stage = "injected" => repositories = (OwnUrls \cup AllowedUrls) \cup OpkgOwn
    /\ RepositoriesAsAllowed
    /\ VersionsHonoured

LEMMA UrlsOfRequest == ASSUME Shared PROVE OwnUrls \cup AllowedUrls \subseteq Urls
<1>1. apk_mode \in BOOLEAN
    BY DEF apk_mode
<1>2. OwnUrls \subseteq Urls
    BY <1>1, BuildInputsAssumption DEF OwnUrls
<1>3. AllowedUrls \subseteq Urls
    BY DEF AllowedUrls, Shared
<1> QED
    BY <1>2, <1>3

LEMMA Injected ==
    ASSUME Shared, repositories = BaseFile[apk_mode], InjectFiles
    PROVE  repositories' = (OwnUrls \cup AllowedUrls) \cup OpkgOwn
<1> DEFINE allowed == validate_repos(request.repositories, allow_list)
<1>1. AllowedUrls = {item.url : item \in allowed}
    BY DEF AllowedUrls, validate_repos, Shared
<1>2. CASE request.repositories = <<>>
    <2>1. AllowedUrls = {}
        BY <1>2 DEF AllowedUrls, Shared, ToSet
    <2> QED
        BY <1>2, <2>1 DEF InjectFiles, OwnUrls, OpkgOwn, Shared
<1>3. CASE request.repositories # <<>>
    <2> HIDE DEF allowed
    <2>1. repositories' = merge_repositories(OwnUrls, allowed, apk_mode)
        BY <1>3 DEF InjectFiles, OwnUrls, Shared, allowed
    <2> QED
        BY <1>1, <1>3, <2>1 DEF merge_repositories, OpkgOwn, Shared
<1> QED
    BY <1>2, <1>3

\* The proxy has a line for each URL, and leaves those of opkg.
LEMMA Routed ==
    ASSUME NEW urls \in SUBSET Urls, NEW own \in {{}, OpkgLines}
    PROVE  through_cache(urls \cup own) = {Proxied[u] : u \in urls} \cup own
<1>1. \A line \in own : line \notin Urls
    BY BuildInputsAssumption
<1>2. \A u \in urls : Proxied[u] \in through_cache(urls \cup own)
    BY DEF through_cache
<1>3. \A line \in own : line \in through_cache(urls \cup own)
    BY <1>1 DEF through_cache
<1>4. \A line \in through_cache(urls \cup own) : line \in {Proxied[u] : u \in urls} \cup own
    BY <1>1 DEF through_cache
<1> QED
    BY <1>2, <1>3, <1>4

LEMMA PromiseInit == IndexedInit => PromiseInv
<1>1. CASE Init
    <2>1. PICK p \in Requests : Receive(p)
        BY <1>1 DEF Init
    <2>2. /\ DOMAIN p.request = Fields
          /\ get_request_hash(p.request) = get_request_hash(p.asker)
        BY BuildInputsAssumption DEF IsRequest
    <2>3. /\ p.asker.repositories = p.request.repositories
          /\ \A item \in ToSet(p.request.repositories) : item.url \in Urls
          /\ p.asker.repositories_mode = p.request.repositories_mode
          /\ ToSet(p.asker.packages_versions) = ToSet(p.request.packages_versions)
        BY <2>2, BuildInputsAssumption DEF IsRequest, get_request_hash, get_manifest_hash
    <2> QED
        BY <1>1, <2>1, <2>2, <2>3
           DEF Init, Receive, PromiseInv, Shared, Unstarted, RepositoriesAsAllowed, VersionsHonoured
<1>2. ASSUME NEW asked, DOMAIN asked = Fields, stage = "listing",
             \A item \in ToSet(asked.repositories) : item.url \in Urls,
             Receive([request |-> asked, asker |-> asked])
      PROVE  PromiseInv
    BY <1>2 DEF Receive, PromiseInv, Shared, Unstarted, RepositoriesAsAllowed, VersionsHonoured
<1>3. ASSUME NEW v
      PROVE  /\ DOMAIN [Blank EXCEPT !.version = v] = Fields
             /\ \A item \in ToSet([Blank EXCEPT !.version = v].repositories) : item.url \in Urls
    BY IndexedBuildAssumption DEF IsRequest, Fields
<1> QED
    BY <1>1, <1>2, <1>3 DEF IndexedInit

LEMMA PromiseStep == PromiseInv /\ [IndexedNext]_allVars => PromiseInv'
<1> SUFFICES ASSUME PromiseInv, [IndexedNext]_allVars PROVE PromiseInv'
    OBVIOUS
<1> USE DEF PromiseInv, Shared, Unstarted, VersionsHonoured, settings
\* From make info on, nothing writes the file.
<1>0. ASSUME UNCHANGED <<settings, allow_list, repositories>>, stage' # "injected",
             stage \in Stages \ {"listing", "received", "refused", "queued", "injected"}
      PROVE  RepositoriesAsAllowed'
    <2>1. UNCHANGED <<OwnUrls, AllowedUrls, apk_mode>>
        BY <1>0 DEF OwnUrls, AllowedUrls, apk_mode
    <2>2. \A u : Reached(u)' = Reached(u)
        BY <1>0 DEF Reached
    <2> QED
        BY <1>0, <2>1, <2>2 DEF RepositoriesAsAllowed
<1>1. CASE Validate
    BY <1>1 DEF Validate, RepositoriesAsAllowed, apk_mode, Fields
<1>2. CASE Restart
    BY <1>2 DEF Restart, RepositoriesAsAllowed, apk_mode
<1>3. CASE InjectFiles
    <2>1. stage = "queued" /\ stage' = "injected" /\ UNCHANGED <<settings, allow_list, build_request>>
        BY <1>3 DEF InjectFiles
    <2>2. UNCHANGED <<OwnUrls, AllowedUrls, OpkgOwn, apk_mode>>
        BY <2>1 DEF OwnUrls, AllowedUrls, OpkgOwn, apk_mode
    <2>3. repositories' = (OwnUrls \cup AllowedUrls) \cup OpkgOwn
        BY <1>3, <2>1, Injected
    <2>4. \A u : Reached(u)' = u
        BY <2>1 DEF Reached
    <2>5. RepositoriesAsAllowed'
        BY <2>1, <2>2, <2>3, <2>4 DEF RepositoriesAsAllowed, OpkgOwn
    <2> QED
        BY <2>1, <2>2, <2>3, <2>5
<1>4. CASE ValidateRevision
    <2>1. RepositoriesAsAllowed'
        BY <1>0, <1>4 DEF ValidateRevision, Stages
    <2> QED
        BY <1>4, <2>1 DEF ValidateRevision
<1>5. CASE ChangePackages
    <2>1. RepositoriesAsAllowed'
        BY <1>0, <1>5 DEF ChangePackages, Stages
    <2> QED
        BY <1>5, <2>1 DEF ChangePackages, Fields
<1>6. CASE SelectPackages
    <2>1. RepositoriesAsAllowed'
        BY <1>0, <1>6 DEF SelectPackages, Stages
    <2> QED
        BY <1>6, <2>1 DEF SelectPackages
<1>7. CASE MakeManifest(Stock)
    <2>1. RepositoriesAsAllowed'
        BY <1>0, <1>7 DEF MakeManifest, Stages
    <2> QED
        BY <1>7, <2>1 DEF MakeManifest
<1>8. CASE CheckManifest
    <2>1. stage' = "building_image" => Has(manifest, build_request.packages_versions)
        BY <1>8, CheckManifestSound DEF CheckManifest
    <2>2. VersionsHonoured'
        BY <1>8, <2>1 DEF CheckManifest, Has
    <2>3. RepositoriesAsAllowed'
        BY <1>0, <1>8 DEF CheckManifest, Stages
    <2> QED
        BY <1>8, <2>2, <2>3 DEF CheckManifest
<1>9. CASE Choose
    BY <1>9 DEF Choose, RepositoriesAsAllowed, apk_mode, Fields
<1>10. CASE UNCHANGED vars
    BY <1>10 DEF vars, RepositoriesAsAllowed, Reached, OwnUrls, AllowedUrls, OpkgOwn, apk_mode
<1>11. CASE RouteThroughCache
    <2>1. stage = "injected" /\ stage' = "container_setup" /\ UNCHANGED <<settings, allow_list, build_request>>
        BY <1>11 DEF RouteThroughCache
    <2>2. UNCHANGED <<OwnUrls, AllowedUrls, OpkgOwn, apk_mode, cache_url>>
        BY <2>1 DEF OwnUrls, AllowedUrls, OpkgOwn, apk_mode
    <2> DEFINE urls == OwnUrls \cup AllowedUrls
    <2>3. repositories' = {Reached(u)' : u \in urls} \cup OpkgOwn
        <3>1. urls \subseteq Urls /\ OpkgOwn \in {{}, OpkgLines}
            BY UrlsOfRequest DEF OpkgOwn
        <3>2. CASE cache_url
            <4>1. repositories' = {Proxied[u] : u \in urls} \cup OpkgOwn
                BY <1>11, <2>1, <3>1, <3>2, Routed DEF RouteThroughCache
            <4>2. \A u : Reached(u)' = Proxied[u]
                BY <2>1, <2>2, <3>2 DEF Reached
            <4> QED
                BY <4>1, <4>2
        <3>3. CASE ~cache_url
            <4>1. repositories' = urls \cup OpkgOwn
                BY <1>11, <2>1, <3>3 DEF RouteThroughCache
            <4>2. \A u : Reached(u)' = u
                BY <2>1, <2>2, <3>3 DEF Reached
            <4> QED
                BY <4>1, <4>2
        <3> QED
            BY <3>2, <3>3
    <2>4. RepositoriesAsAllowed'
        BY <2>1, <2>2, <2>3 DEF RepositoriesAsAllowed, OpkgOwn
    <2> QED
        BY <2>1, <2>4
<1> QED
    BY <1>1, <1>2, <1>3, <1>4, <1>5, <1>6, <1>7, <1>8, <1>9, <1>10, <1>11
       DEF IndexedNext, Steps, Rebuilt, allVars

LEMMA Promised == IndexedSpec => []PromiseInv
BY PromiseInit, PromiseStep, PTL DEF IndexedSpec

(* Whatever the allow list is set to between the POST and the job, and       *)
(* whichever client of a hash asked first, the container has no repository   *)
(* that the asker did not ask for or the worker's settings do not allow.     *)
THEOREM RepositoriesAlwaysAllowed == IndexedSpec => []RepositoriesAsAllowed
BY Promised, PTL DEF PromiseInv

(* No image is built for a client without every package of its               *)
(* packages_versions at that version.                                        *)
THEOREM VersionsAlwaysHonoured == IndexedSpec => []VersionsHonoured
BY Promised, PTL DEF PromiseInv
-----------------------------------------------------------------------------
(* What a client is told of a failure *)

(* What is missing is in no conflict. *)
LEMMA MissingApart ==
    ASSUME NEW stock PROVE MissingFrom(stock) \cap InConflict(stock) = {}
BY DEF MissingFrom, InConflict

LEMMA NamedInSaid ==
    ASSUME NEW text, NEW c, NEW names, NEW others, NEW complaints,
           text \in complaints, c \notin complaints
    PROVE  /\ Named(Said(text, names) \cup Said(c, others), complaints) = names
           /\ Named(Said(c, others) \cup Said(text, names), complaints) = names
<1> DEFINE lines == Said(text, names) \cup Said(c, others)
<1>1. \A n \in names : [complaint |-> text, package |-> n] \in lines
    BY DEF Said
<1>2. \A l \in lines :
          \/ l.complaint = text /\ l.package \in names
          \/ l.complaint = c
    BY DEF Said
<1>3. lines = Said(c, others) \cup Said(text, names)
    OBVIOUS
<1> HIDE DEF lines
<1>4. ASSUME NEW n \in names PROVE n \in Named(lines, complaints)
    <2> DEFINE line == [complaint |-> text, package |-> n]
    <2>1. line \in lines /\ line.complaint = text /\ line.package = n
        BY <1>1
    <2> HIDE DEF line
    <2> QED
        BY <2>1 DEF Named
<1>5. ASSUME NEW n \in Named(lines, complaints) PROVE n \in names
    BY <1>2 DEF Named
<1>6. Named(lines, complaints) = names
    BY <1>4, <1>5
<1> QED
    BY <1>3, <1>6 DEF lines

(* Whichever way it is put, what is missing is told from what is in conflict. *)
LEMMA ErrorsTold ==
    ASSUME NEW text \in TextsOfConflict, NEW prevented \in Prevented(Stock)
    PROVE  /\ check_package_errors(StderrOf(Stock, text, prevented)).missing = MissingFrom(Stock)
           /\ check_package_errors(StderrOf(Stock, text, prevented)).conflicts = InConflict(Stock)
<1>1. TextOfMissing \in NamesMissing /\ text \in Complaints \ NamesMissing
    BY DEF TextOfMissing, TextsOfConflict, NamesMissing, Complaints
<1>2. TextOfMissing \notin Complaints \ NamesMissing /\ text \notin NamesMissing
    BY <1>1
<1>3. Named(StderrOf(Stock, text, prevented), NamesMissing) = MissingFrom(Stock) \cup prevented
    BY <1>1, <1>2, NamedInSaid DEF StderrOf
<1>4. Named(StderrOf(Stock, text, prevented), Complaints \ NamesMissing) = InConflict(Stock)
    BY <1>1, <1>2, NamedInSaid DEF StderrOf
<1>5. (MissingFrom(Stock) \cup prevented) \ InConflict(Stock) = MissingFrom(Stock)
    BY DEF MissingFrom, InConflict, Prevented
<1> QED
    BY <1>3, <1>4, <1>5 DEF check_package_errors

(* Only make manifest tells of packages, and the job ends with it. *)
NamedInv == (error.reason = "package errors" => stage = "failed") /\ MissingNamed

LEMMA OtherError == error.reason # "package errors" => NamedInv
BY DEF NamedInv, MissingNamed, ErrorsNamed

LEMMA NoErrorOther == NoError.reason # "package errors"
BY DEF NoError

(* check_manifest has errors of its own. *)
LEMMA CheckOther ==
    ASSUME NEW image, NEW versions
    PROVE  check_manifest(image, versions).reason # "package errors"
<1> DEFINE wrong == {i \in DOMAIN versions :
                        ~(/\ InManifest(versions[i], image)
                          /\ versions[i].version = image[versions[i].package.name])}
           item == versions[Min(wrong)]
           report == [reason |-> IF InManifest(item, image) THEN "version not as requested"
                                                              ELSE "not in manifest",
                      package |-> item.package]
<1>1. check_manifest(image, versions) = IF wrong = {} THEN NoError ELSE report
    BY DEF check_manifest
<1>2. report.reason # "package errors"
    OBVIOUS
<1> HIDE DEF report, wrong
<1> QED
    BY <1>1, <1>2, NoErrorOther

(* What is missing stays so, if nothing is rebuilt and nothing else asked for. *)
LEMMA StockStays ==
    ASSUME UNCHANGED <<indexVars, default_packages, command>>
    PROVE  /\ UNCHANGED Stock
           /\ MissingFrom(Stock)' = MissingFrom(Stock)
           /\ InConflict(Stock)' = InConflict(Stock)
<1>1. UNCHANGED Stock
    BY DEF indexVars, Stock
<1>2. UNCHANGED Wanted
    BY DEF Wanted
<1> QED
    BY <1>1, <1>2 DEF MissingFrom, InConflict

LEMMA NamedStep == NamedInv /\ [IndexedNext]_allVars => NamedInv'
<1> SUFFICES ASSUME NamedInv, [IndexedNext]_allVars PROVE NamedInv'
    OBVIOUS
<1>1. ASSUME (error.reason # "package errors")' PROVE NamedInv'
    BY <1>1 DEF NamedInv, MissingNamed, ErrorsNamed
<1>2. ASSUME stage # "failed", UNCHANGED error PROVE NamedInv'
    BY <1>1, <1>2 DEF NamedInv
<1>3. ASSUME MakeManifest(Stock), UNCHANGED indexVars PROVE NamedInv'
    <2>1. CASE error' = error
        BY <1>2, <1>3, <2>1 DEF MakeManifest
    <2>2. CASE stage' = "failed" /\
                  \E text \in TextsOfConflict, prevented \in Prevented(Stock) :
                      error' = check_package_errors(StderrOf(Stock, text, prevented))
        <3>1. /\ error'.missing = MissingFrom(Stock)
              /\ error'.conflicts = InConflict(Stock)
            BY <2>2, ErrorsTold
        <3>2. /\ MissingFrom(Stock)' = MissingFrom(Stock)
              /\ InConflict(Stock)' = InConflict(Stock)
            BY <1>3, StockStays DEF MakeManifest, settings
        <3> QED
            BY <2>2, <3>1, <3>2 DEF NamedInv, MissingNamed, ErrorsNamed
    <2> QED
        BY <1>3, <2>1, <2>2 DEF MakeManifest
<1>4. CASE CheckManifest
    BY <1>1, <1>4, CheckOther DEF CheckManifest
<1>5. CASE ValidateRevision
    <2>1. CASE UNCHANGED error
        BY <1>2, <1>5, <2>1 DEF ValidateRevision
    <2>2. CASE error' = [reason |-> "incorrect version"]
        BY <1>1, <2>2
    <2> QED
        BY <1>5, <2>1, <2>2 DEF ValidateRevision
<1>6. CASE \/ Validate \/ Restart \/ InjectFiles \/ RouteThroughCache \/ ChangePackages
           \/ SelectPackages
    BY <1>2, <1>6 DEF Validate, Restart, InjectFiles, RouteThroughCache, ChangePackages, SelectPackages
<1>7. CASE Choose
    BY <1>2, <1>7 DEF Choose
<1>8. CASE (stage = "listing" /\ Serve /\ UNCHANGED vars) \/ Rebuilt
    BY <1>2, <1>8 DEF Rebuilt, vars
<1>9. CASE UNCHANGED allVars
    <2>1. UNCHANGED <<indexVars, default_packages, command, error, stage>>
        BY <1>9 DEF allVars, vars
    <2>2. /\ MissingFrom(Stock)' = MissingFrom(Stock)
          /\ InConflict(Stock)' = InConflict(Stock)
        BY <2>1, StockStays
    <2> QED
        BY <2>1, <2>2 DEF NamedInv, MissingNamed, ErrorsNamed
<1> QED
    BY <1>3, <1>4, <1>5, <1>6, <1>7, <1>8, <1>9 DEF IndexedNext, Steps

LEMMA NamedInit == IndexedInit => NamedInv
<1>1. IndexedInit => error = NoError
    BY DEF IndexedInit, Init
<1> QED
    BY <1>1, NoErrorOther, OtherError

(* A client is told each package that is missing as missing and each that is *)
(* in a conflict as such, for all packages, conflicts and stocks and both    *)
(* package managers.                                                         *)
THEOREM MissingAlwaysNamed == IndexedSpec => []MissingNamed
<1>1. NamedInv => MissingNamed
    BY DEF NamedInv
<1> QED
    BY <1>1, NamedInit, NamedStep, PTL DEF IndexedSpec
-----------------------------------------------------------------------------
(* What the job is built with *)

Early == {"listing", "received", "refused"}

ChangedRequest(r) ==
    [Validated(r) EXCEPT !.packages = apply_package_changes(Validated(r), @)]

(* The worker has what the handler made of the request, and then its         *)
(* packages changed once and for all.                                        *)
InputsInv ==
    /\ IsRequest(request) /\ IsRequest(asker)
    /\ get_request_hash(request) = get_request_hash(asker)
    /\ default_packages \subseteq Package /\ IsFiniteSet(default_packages)
    /\ stage \in Stages
    /\ stage \in Early => build_request = request
    /\ stage \in {"queued", "injected", "container_setup", "validate_revision"} =>
           build_request = Validated(request)
    /\ Changed => build_request = ChangedRequest(request)
    /\ stage = "failed" => build_request \in {Validated(request), ChangedRequest(request)}
    /\ Selected => command = IF build_request.diff_packages
                             THEN diff_packages(build_request.packages, default_packages)
                             ELSE build_request.packages

LEMMA InputsInit == IndexedInit => InputsInv
<1> USE DEF InputsInv, Early, Stages, Changed, Selected, Receive
<1>1. CASE Init
    <2>1. PICK p \in Requests : Receive(p)
        BY <1>1 DEF Init
    <2>2. /\ IsRequest(p.request) /\ IsRequest(p.asker)
          /\ get_request_hash(p.request) = get_request_hash(p.asker)
        BY BuildInputsAssumption
    <2>3. default_packages \subseteq Package /\ IsFiniteSet(default_packages)
        BY <1>1, BuildInputsAssumption DEF Init
    <2>4. stage = "received" /\ request = p.request /\ asker = p.asker /\ build_request = p.request
        BY <1>1, <2>1 DEF Init
    <2> QED
        BY <2>2, <2>3, <2>4
<1>2. ASSUME NEW asked, IsRequest(asked), stage = "listing", default_packages = {},
             Receive([request |-> asked, asker |-> asked])
      PROVE  InputsInv
    <2>1. request = asked /\ asker = asked /\ build_request = asked
        BY <1>2
    <2>2. IsFiniteSet(default_packages) /\ default_packages \subseteq Package
        BY <1>2, FS_EmptySet
    <2> QED
        BY <1>2, <2>1, <2>2
<1>3. ASSUME IndexInit PROVE IsRequest([Blank EXCEPT !.version = release])
    <2> DEFINE r == [Blank EXCEPT !.version = release]
    <2>1. release \in Versions
        BY <1>3, IndexedBuildAssumption DEF IndexInit
    <2>2. IsRequest(Blank)
        BY IndexedBuildAssumption
    <2>3. /\ DOMAIN r = Fields /\ r.version = release
          /\ r.target = Blank.target /\ r.profile = Blank.profile /\ r.packages = Blank.packages
          /\ r.packages_versions = Blank.packages_versions /\ r.repositories = Blank.repositories
        BY <2>2 DEF IsRequest, Fields
    <2>4. PackagesOf(r) = PackagesOf(Blank)
        BY <2>3 DEF PackagesOf
    <2> HIDE DEF r
    <2> QED
        BY <2>1, <2>2, <2>3, <2>4 DEF IsRequest, r
<1> QED
    BY <1>1, <1>2, <1>3 DEF IndexedInit

LEMMA ChosenIsRequest ==
    ASSUME IsRequest(request), IndexTypeOK, NEW chosen \in BoundedSeq(Items, MaxChosen)
    PROVE  IsRequest([request EXCEPT !.packages_versions = chosen])
<1> DEFINE r == [request EXCEPT !.packages_versions = chosen]
<1>1. /\ DOMAIN r = Fields /\ r.version = request.version
      /\ r.target = request.target /\ r.profile = request.profile /\ r.packages = request.packages
      /\ r.packages_versions = chosen /\ r.repositories = request.repositories
    BY DEF IsRequest, Fields
<1>2. \A item \in Items : item.package \in Package
    <2>1. DOMAIN packages \subseteq Names
        BY IndexedBuildAssumption DEF IndexTypeOK, IsList
    <2> QED
        BY <2>1, PlusIsPackage DEF Items
<1>3. PICK m \in 0..MaxChosen : chosen \in [1..m -> Items]
    BY DEF BoundedSeq, SeqOf
<1>4. [i \in DOMAIN chosen |-> chosen[i].package] \in Seq(Package)
    <2>1. \A i \in 1..m : chosen[i].package \in Package
        BY <1>2, <1>3
    <2>2. m \in Nat /\ DOMAIN chosen = 1..m
        BY <1>3
    <2> QED
        BY <2>1, <2>2, IsASeq
<1>5. PackagesOf(r) \in Seq(Package)
    BY <1>1, <1>4 DEF PackagesOf, IsRequest
<1> HIDE DEF r
<1> QED
    BY <1>1, <1>5 DEF IsRequest, r

LEMMA InputsStep == InputsInv /\ IndexTypeOK /\ [IndexedNext]_allVars => InputsInv'
<1> SUFFICES ASSUME InputsInv, IndexTypeOK, [IndexedNext]_allVars PROVE InputsInv'
    OBVIOUS
<1> USE DEF InputsInv, Early, Stages, Changed, Selected, settings
<1>1. CASE Validate
    <2>1. [request EXCEPT !.packages = PackagesOf(request), !.profile = Canonical[@]] = Validated(request)
        BY DEF Validated
    <2> QED
        BY <1>1, <2>1 DEF Validate
<1>2. CASE Restart
    BY <1>2 DEF Restart
<1>3. CASE InjectFiles
    BY <1>3 DEF InjectFiles
<1>4. CASE ValidateRevision
    BY <1>4 DEF ValidateRevision
<1>5. CASE ChangePackages
    <2>1. build_request' = ChangedRequest(request)
        BY <1>5 DEF ChangePackages, ChangedRequest
    <2> QED
        BY <1>5, <2>1 DEF ChangePackages
<1>6. CASE SelectPackages
    BY <1>6 DEF SelectPackages
<1>7. CASE MakeManifest(Stock)
    BY <1>7 DEF MakeManifest
<1>8. CASE CheckManifest
    BY <1>8 DEF CheckManifest
<1>9. CASE Choose
    <2>1. IsRequest(request')
        BY <1>9, ChosenIsRequest DEF Choose
    <2> QED
        BY <1>9, <2>1 DEF Choose
<1>10. CASE UNCHANGED vars
    BY <1>10 DEF vars
<1>11. CASE RouteThroughCache
    BY <1>11 DEF RouteThroughCache
<1> QED
    BY <1>1, <1>2, <1>3, <1>4, <1>5, <1>6, <1>7, <1>8, <1>9, <1>10, <1>11
       DEF IndexedNext, Steps, Rebuilt, allVars

(* A client that asks for an image leaves the index requests in their types. *)
THEOREM IndexedIndexTypeCorrect == IndexedSpec => []IndexTypeOK
BY IndexedImplementsIndex, IndexTypeCorrect, PTL

LEMMA InputsKept == IndexedSpec => []InputsInv
BY IndexedIndexTypeCorrect, InputsInit, InputsStep, PTL DEF IndexedSpec

\* Fields of what the handler and the worker make of a request.
LEMMA ValidatedFields ==
    ASSUME NEW r, IsRequest(r)
    PROVE  /\ DOMAIN Validated(r) = Fields
           /\ Validated(r).packages = PackagesOf(r)
           /\ Validated(r).profile = Canonical[r.profile]
           /\ \A f \in Fields \ {"packages", "profile"} : Validated(r)[f] = r[f]
    BY DEF Validated, IsRequest, Fields

LEMMA ChangedFields ==
    ASSUME NEW r, IsRequest(r)
    PROVE  /\ DOMAIN ChangedRequest(r) = Fields
           /\ ChangedRequest(r).packages = apply_package_changes(Validated(r), PackagesOf(r))
           /\ \A f \in Fields \ {"packages"} : ChangedRequest(r)[f] = Validated(r)[f]
    BY ValidatedFields DEF ChangedRequest, Fields

LEMMA PackagesTyped ==
    ASSUME InputsInv
    PROVE  build_request.packages \in Seq(Package)
<1>1. IsRequest(request) /\ PackagesOf(request) \in Seq(Package) /\ request.packages \in Seq(Package)
    BY DEF InputsInv, IsRequest
<1>2. Validated(request).packages \in Seq(Package) /\ ChangedRequest(request).packages \in Seq(Package)
    BY <1>1, ValidatedFields, ChangedFields, ChangesType
<1>3. build_request \in {request, Validated(request), ChangedRequest(request)}
    BY DEF InputsInv, Early, Changed, Stages
<1> QED
    BY <1>1, <1>2, <1>3

LEMMA IntervalSize == ASSUME NEW n \in Nat PROVE IsFiniteSet(1..n) /\ Cardinality(1..n) = n
BY FS_Interval

LEMMA OnceInjective ==
    ASSUME NEW s \in Seq(Package), Cardinality(ToSet(s)) = Len(s) PROVE IsInjective(s)
<1> DEFINE n == Len(s)
<1>1. n \in Nat /\ DOMAIN s = 1..n /\ s = [i \in 1..n |-> s[i]]
    OBVIOUS
<1> HIDE DEF n
<1>2. s \in Surjection(1..n, ToSet(s))
    <2>1. ToSet(s) = {s[i] : i \in 1..n}
        BY <1>1 DEF ToSet
    <2>2. s \in [1..n -> ToSet(s)]
        BY <1>1, <2>1
    <2>3. \A x \in ToSet(s) : \E i \in 1..n : s[i] = x
        BY <2>1
    <2> QED
        BY <2>2, <2>3 DEF Surjection
<1>3. IsFiniteSet(1..n) /\ Cardinality(1..n) = n
    BY <1>1, IntervalSize
<1>4. s \in Injection(1..n, ToSet(s))
    BY <1>2, <1>3, FS_Surjection DEF n
<1> QED
    BY <1>1, <1>4 DEF Injection, IsInjective

LEMMA JoinedTells ==
    ASSUME NEW r, NEW s, IsRequest(r), IsRequest(s), WellFormed(r), WellFormed(s), Joined(r) = Joined(s)
    PROVE  r.version = s.version /\ r.target = s.target /\ r.profile = s.profile
<1> DEFINE Same(v, w, c, d, t, u, p, q) ==
               Text[v] \o Text[c] \o Text[t] \o Text[p] = Text[w] \o Text[d] \o Text[u] \o Text[q]
<1>1. \A v, w \in Versions, c, d \in RevisionsAsked, t, u \in Targets, p, q \in DOMAIN Canonical :
          Same(v, w, c, d, t, u, p, q) => v = w /\ t = u /\ p = q
    BY JoinedAssumption
<1>2. Same(r.version, s.version, r.version_code, s.version_code, r.target, s.target, r.profile, s.profile)
    BY DEF Joined
<1> HIDE DEF Same
<1>3. /\ r.version \in Versions /\ r.version_code \in RevisionsAsked
      /\ r.target \in Targets /\ r.profile \in DOMAIN Canonical
      /\ s.version \in Versions /\ s.version_code \in RevisionsAsked
      /\ s.target \in Targets /\ s.profile \in DOMAIN Canonical
    BY DEF IsRequest, WellFormed
<1>4. \A p, q \in DOMAIN Canonical :
          Same(r.version, s.version, r.version_code, s.version_code, r.target, s.target, p, q) =>
              r.version = s.version /\ r.target = s.target /\ p = q
    BY <1>1, <1>3
<1> QED
    BY <1>2, <1>3, <1>4

\* What the hash of two requests tells of them.
LEMMA HashTells ==
    ASSUME NEW r, NEW s, IsRequest(r), IsRequest(s), get_request_hash(r) = get_request_hash(s)
    PROVE  /\ ToSet(PackagesOf(r)) = ToSet(PackagesOf(s))
           /\ r.diff_packages = s.diff_packages /\ r.options = s.options
           /\ r.repositories = s.repositories /\ r.repositories_mode = s.repositories_mode
           /\ WellFormed(r) /\ WellFormed(s) =>
                  r.version = s.version /\ r.target = s.target /\ r.profile = s.profile
<1>1. /\ ToSet(PackagesOf(r)) = ToSet(PackagesOf(s))
      /\ r.diff_packages = s.diff_packages /\ r.options = s.options
      /\ r.repositories = s.repositories /\ r.repositories_mode = s.repositories_mode
    BY DEF get_request_hash, get_packages_hash
<1>2. Joined(r) = Joined(s)
    BY DEF get_request_hash
<1>3. ASSUME WellFormed(r), WellFormed(s)
      PROVE  r.version = s.version /\ r.target = s.target /\ r.profile = s.profile
    BY <1>2, <1>3, JoinedTells
<1> QED
    BY <1>1, <1>3

LEMMA ExpectedAlike ==
    ASSUME NEW r, NEW s, NEW S,
           r.version = s.version, r.target = s.target, r.profile = s.profile
    PROVE  Expected(r, S) = Expected(s, S)
<1>1. {i \in DOMAIN Rules : Applies(Rules[i], r)} = {i \in DOMAIN Rules : Applies(Rules[i], s)}
    BY DEF Applies
<1> QED
    BY <1>1 DEF Expected

(* The packages of an image are those that the asker's own set of packages   *)
(* decides, whichever of the requests of one hash queued the job.            *)
THEOREM SetAlwaysDecides == IndexedSpec => []SetDecides
<1>1. InputsInv => SetDecides
    <2> SUFFICES ASSUME InputsInv, Changed, AskedOnce(request), WellFormed(request), WellFormed(asker)
                 PROVE  ToSet(build_request.packages) =
                            Expected(Validated(asker), ToSet(PackagesOf(asker)))
        BY DEF SetDecides
    <2> DEFINE r == Validated(request)
               a == Validated(asker)
               s == PackagesOf(request)
    <2>1. /\ IsRequest(request) /\ IsRequest(asker)
          /\ get_request_hash(request) = get_request_hash(asker)
          /\ build_request = ChangedRequest(request)
        BY DEF InputsInv
    <2>2. s \in Seq(Package) /\ request.version \in Versions
        BY <2>1 DEF IsRequest
    <2>3. IsInjective(s)
        BY <2>2, OnceInjective DEF AskedOnce
    <2>4. /\ r.version = request.version /\ r.target = request.target
          /\ r.profile = Canonical[request.profile]
          /\ a.version = asker.version /\ a.target = asker.target
          /\ a.profile = Canonical[asker.profile]
        BY <2>1, ValidatedFields DEF Fields
    <2>5. build_request.packages = apply_package_changes(r, s)
        BY <2>1, ChangedFields
    <2>6. /\ r.version = a.version /\ r.target = a.target /\ r.profile = a.profile
          /\ ToSet(s) = ToSet(PackagesOf(asker))
        BY <2>1, <2>4, HashTells
    <2> HIDE DEF r, a, s
    <2>7. ToSet(build_request.packages) = Expected(r, ToSet(s))
        BY <2>2, <2>3, <2>4, <2>5, ChangesAsExpected
    <2> QED
        BY <2>6, <2>7, ExpectedAlike DEF a, s
<1> QED
    BY <1>1, InputsKept, PTL

(* An asker is given an image of its own request in everything that the      *)
(* worker reads, and with the versions of packages that it gave.             *)
THEOREM HashAlwaysDecides == IndexedSpec => []HashDecides
<1>1. InputsInv /\ VersionsHonoured => HashDecides
    <2> SUFFICES ASSUME InputsInv, stage = "building_image", WellFormed(request), WellFormed(asker)
                 PROVE  <<build_request.version, build_request.target, Canonical[build_request.profile],
                          build_request.diff_packages, build_request.options,
                          ToSet(build_request.repositories), build_request.repositories_mode>> =
                        <<asker.version, asker.target, Canonical[asker.profile], asker.diff_packages,
                          asker.options, ToSet(asker.repositories), asker.repositories_mode>>
        BY DEF HashDecides
    <2>1. /\ IsRequest(request) /\ IsRequest(asker)
          /\ get_request_hash(request) = get_request_hash(asker)
          /\ build_request = ChangedRequest(request)
        BY DEF InputsInv, Changed
    <2>2. /\ build_request.profile = Canonical[request.profile]
          /\ build_request.version = request.version /\ build_request.target = request.target
          /\ build_request.diff_packages = request.diff_packages
          /\ build_request.options = request.options
          /\ build_request.repositories = request.repositories
          /\ build_request.repositories_mode = request.repositories_mode
        BY <2>1, ValidatedFields, ChangedFields DEF Fields
    <2>3. Canonical[Canonical[request.profile]] = Canonical[request.profile]
        BY <2>1, BuildInputsAssumption DEF IsRequest
    <2> QED
        BY <2>1, <2>2, <2>3, HashTells
<1> QED
    BY <1>1, InputsKept, VersionsAlwaysHonoured, PTL

-----------------------------------------------------------------------------
(* The command of the build *)

LEMMA EndIsSuffix ==
    ASSUME NEW S, NEW s \in Seq(S), NEW t \in Seq(S) PROVE IsSuffix(t, s \o t)
<1> DEFINE a == s \o t
           n == Len(t)
           m == Len(a)
           p == Reverse(t)
           q == Reverse(a)
<1>1. /\ a \in Seq(S) /\ m = Len(s) + n /\ n \in Nat /\ Len(s) \in Nat
      /\ \A i \in 1..n : a[Len(s) + i] = t[i]
    OBVIOUS
<1>2. /\ DOMAIN p = 1..n /\ p \in Seq(S) /\ Len(p) = n
      /\ \A i \in 1..n : p[i] = t[(n - i) + 1]
    <2>1. \A i \in 1..n : t[(n - i) + 1] \in S
        OBVIOUS
    <2> QED
        BY <1>1, <2>1, IsASeq DEF Reverse
<1>3. /\ DOMAIN q = 1..m /\ q \in Seq(S) /\ Len(q) = m
      /\ \A i \in 1..m : q[i] = a[(m - i) + 1]
    <2> HIDE DEF a
    <2>1. \A i \in 1..m : a[(m - i) + 1] \in S
        BY <1>1
    <2> QED
        BY <1>1, <2>1, IsASeq DEF Reverse
<1> HIDE DEF a, m, n, p, q
<1>4. \A i \in 1..n : i \in 1..m /\ (n - i) + 1 \in 1..n /\ (m - i) + 1 = Len(s) + ((n - i) + 1)
    BY <1>1
<1>5. \A i \in 1..n : p[i] = q[i]
    <2> SUFFICES ASSUME NEW i \in 1..n PROVE p[i] = q[i]
        OBVIOUS
    <2>1. q[i] = a[Len(s) + ((n - i) + 1)]
        BY <1>3, <1>4
    <2>2. a[Len(s) + ((n - i) + 1)] = t[(n - i) + 1]
        BY <1>1, <1>4
    <2> QED
        BY <1>2, <2>1, <2>2
<1>6. SubSeq(p, 1, n) = SubSeq(q, 1, n)
    <2>1. SubSeq(p, 1, n) = [i \in 1..n |-> p[i]] /\ SubSeq(q, 1, n) = [i \in 1..n |-> q[i]]
        BY <1>1, <1>2, <1>3
    <2> QED
        BY <1>5, <2>1
<1>7. IsPrefix(p, q)
    BY <1>1, <1>2, <1>3, <1>6 DEF IsPrefix
<1> QED
    BY <1>7 DEF IsSuffix, a, p, q

LEMMA DiffExtends ==
    ASSUME NEW requested \in Seq(Package),
           NEW defaults \in SUBSET Package, IsFiniteSet(defaults)
    PROVE  /\ diff_packages(requested, defaults) \in Seq(Package)
           /\ IsSuffix(requested, diff_packages(requested, defaults))
<1> DEFINE gone  == {Minus(x) : x \in defaults \ ToSet(requested)}
           front == SetToSeq(gone)
<1>1. IsFiniteSet(gone) /\ gone \subseteq Package
    <2>1. IsFiniteSet(defaults \ ToSet(requested))
        BY FS_Subset
    <2>2. IsFiniteSet(gone)
        BY <2>1, RemovalsFinite
    <2>3. \A x \in Package : Minus(x) \in Package
        BY DEF Minus, Package
    <2> QED
        BY <2>2, <2>3
<1>2. front \in Seq(Package)
    <2>1. front \in Seq(gone)
        BY <1>1, SetToSeqIsSet
    <2> QED
        BY <1>1, <2>1
<1> HIDE DEF front
<1>3. front \o requested \in Seq(Package) /\ IsSuffix(requested, front \o requested)
    BY <1>2, EndIsSuffix
<1> QED
    BY <1>3 DEF diff_packages, front

LEMMA SameIsSuffix == ASSUME NEW s PROVE IsSuffix(s, s)
BY DEF IsSuffix, IsPrefix

LEMMA CommandExtends ==
    ASSUME InputsInv, Selected
    PROVE  command \in Seq(Package) /\ IsSuffix(build_request.packages, command)
<1>1. CASE build_request.diff_packages
    <2>1. command = diff_packages(build_request.packages, default_packages)
        BY <1>1 DEF InputsInv
    <2>2. default_packages \in SUBSET Package /\ IsFiniteSet(default_packages)
        BY DEF InputsInv
    <2> QED
        BY <2>1, <2>2, PackagesTyped, DiffExtends
<1>2. CASE ~build_request.diff_packages
    <2>1. command = build_request.packages
        BY <1>2 DEF InputsInv
    <2> QED
        BY <2>1, PackagesTyped, SameIsSuffix
<1> QED
    BY <1>1, <1>2

(* With diff_packages the build has what its client asked for and no other   *)
(* default, for all defaults and all lists of packages.                      *)
THEOREM AbsoluteAlwaysAsAsked == IndexedSpec => []AbsoluteAsAsked
<1>1. InputsInv => AbsoluteAsAsked
    <2> SUFFICES ASSUME InputsInv, Selected, build_request.diff_packages, DefaultsAgree
                 PROVE  /\ \A x \in default_packages : Contains(command, x) \/ Contains(command, Minus(x))
                        /\ \A x \in ToSet(build_request.packages) :
                               Both(x) => Contains(build_request.packages, Minus(x))
        BY DEF AbsoluteAsAsked
    <2> DEFINE s == build_request.packages
               d == default_packages
    <2>1. s \in Seq(Package) /\ command \in Seq(Package)
        BY PackagesTyped, CommandExtends
    <2>2. d \in SUBSET Package /\ IsFiniteSet(d) /\ command = diff_packages(s, d)
        BY DEF InputsInv
    <2>3. \A x \in ToSet(s) : ~x.minus => Minus(x) \notin d
        BY DEF DefaultsAgree
    <2> HIDE DEF s, d
    <2>4. /\ \A x \in d : x \in ToSet(command) \/ Minus(x) \in ToSet(command)
          /\ \A x \in ToSet(s) :
                 ~x.minus /\ Minus(x) \in ToSet(command) => Minus(x) \in ToSet(s) \cup d
        BY <2>1, <2>2, DiffIsAbsolute
    <2>5. \A q \in Seq(Package) : \A x : Contains(q, x) <=> x \in ToSet(q)
        BY DEF Contains, ToSet
    <2>6. ASSUME NEW x \in ToSet(s), Both(x) PROVE Contains(s, Minus(x))
        <3>1. x \in Package /\ Minus(x) \in ToSet(command)
            BY <2>1, <2>5, <2>6 DEF Both, ToSet
        <3>2. CASE x.minus
            <4>1. Minus(x) = x
                BY <3>1, <3>2 DEF Minus, Package
            <4> QED
                BY <2>1, <2>5, <4>1
        <3>3. CASE ~x.minus
            BY <2>1, <2>3, <2>4, <2>5, <3>1, <3>3
        <3> QED
            BY <3>2, <3>3
    <2>7. \A x \in d : Contains(command, x) \/ Contains(command, Minus(x))
        BY <2>1, <2>4, <2>5
    <2> QED
        BY <2>6, <2>7 DEF s, d
<1> QED
    BY <1>1, InputsKept, PTL

(* The packages of the client keep their order in the command of the build,  *)
(* after what is removed and before what the server adds.                    *)
THEOREM OrderAlwaysKept == IndexedSpec => []OrderKept
<1>1. InputsInv => OrderKept
    <2> SUFFICES ASSUME InputsInv, Selected, AskedOnce(request) PROVE OrderKept
        BY DEF OrderKept
    <2> DEFINE q == PackagesOf(request)
               r == Validated(request)
               p == build_request.packages
    <2>1. IsRequest(request) /\ build_request = ChangedRequest(request)
        BY DEF InputsInv, Changed, Selected
    <2>2. q \in Seq(Package)
        BY <2>1 DEF IsRequest
    <2>3. IsInjective(q)
        BY <2>2, OnceInjective DEF AskedOnce
    <2>4. p = apply_package_changes(r, q)
        BY <2>1, ChangedFields
    <2>5. IsSuffix(p, command)
        BY CommandExtends
    <2> HIDE DEF p, q, r
    <2> DEFINE own   == (ToSet(q) \cap ToSet(p)) \ NewNames
               added == ToSet(p) \ (ToSet(q) \cup NewNames)
    <2>6. /\ \A x, y \in own : At(q, x) < At(q, y) => At(p, x) < At(p, y)
          /\ \A x \in own, y \in added : At(p, x) < At(p, y)
        BY <2>2, <2>3, <2>4, ChangesKeepOrder
    <2> QED
        BY <2>5, <2>6 DEF OrderKept, At, NewNames, p, q
<1> QED
    BY <1>1, InputsKept, PTL

-----------------------------------------------------------------------------
(* Types of the composition *)

\* What TypeOK says that InputsInv does not.
JobTypeOK ==
    /\ allow_list \in AllowLists
    /\ cache_url \in CacheUrls
    /\ repositories \subseteq Lines
    /\ command \in Seq(Package)
    /\ DOMAIN manifest \subseteq Names
    /\ error.reason \in {"none", "package errors", "not in manifest", "version not as requested",
                         "incorrect version"}

LEMMA JobTypeInit == IndexedInit => JobTypeOK
<1>1. ASSUME NEW p, Receive(p) PROVE repositories \subseteq Urls
    <2>1. apk_mode \in BOOLEAN
        BY DEF apk_mode
    <2>2. BaseFile[apk_mode] \in SUBSET Urls
        BY <2>1, BuildInputsAssumption
    <2> QED
        BY <1>1, <2>2 DEF Receive
<1>2. <<>> \in Seq(Package)
    BY EmptySeq
<1>3. IndexedInit => /\ allow_list = AllowList /\ cache_url \in CacheUrls /\ \E p : Receive(p)
                     /\ command = <<>> /\ manifest = <<>> /\ error = NoError
    BY DEF IndexedInit, Init
<1>4. DOMAIN <<>> \subseteq Names /\ NoError.reason = "none"
    BY DEF NoError
<1>5. IndexedInit => /\ repositories \subseteq Urls /\ allow_list \in AllowLists /\ cache_url \in CacheUrls
                     /\ command = <<>> /\ manifest = <<>> /\ error = NoError
    BY <1>1, <1>3, BuildInputsAssumption
<1> QED
    BY <1>2, <1>4, <1>5 DEF JobTypeOK, Lines

LEMMA MergedTyped ==
    ASSUME InputsInv, repositories \subseteq Lines, InjectFiles
    PROVE  repositories' \subseteq Lines
<1>1. CASE request.repositories = <<>>
    BY <1>1 DEF InjectFiles
<1>2. CASE request.repositories # <<>>
    <2> DEFINE old == IF request.repositories_mode = "append" THEN repositories ELSE {}
               allowed == validate_repos(request.repositories, allow_list)
    <2>1. repositories' = merge_repositories(old, allowed, apk_mode)
        BY <1>2 DEF InjectFiles
    <2>2. \A item \in allowed : item.url \in Urls
        BY DEF InputsInv, IsRequest, validate_repos
    <2>3. old \subseteq Lines
        OBVIOUS
    <2> HIDE DEF old, allowed
    <2>4. {item.url : item \in allowed} \subseteq Urls
        BY <2>2
    <2> QED
        BY <2>1, <2>3, <2>4 DEF merge_repositories, Lines
<1> QED
    BY <1>1, <1>2

LEMMA WantedNames ==
    ASSUME default_packages \subseteq Package, command \in Seq(Package) PROVE Wanted \subseteq Names
<1>1. default_packages \cup ToSet(command) \subseteq Package
    BY DEF ToSet
<1> QED
    BY <1>1 DEF Wanted, Package

LEMMA CheckReasons ==
    ASSUME NEW m, NEW versions
    PROVE  check_manifest(m, versions).reason \in {"none", "not in manifest", "version not as requested"}
BY DEF check_manifest, NoError

LEMMA JobTypeStep ==
    JobTypeOK /\ InputsInv /\ [IndexedNext]_allVars => JobTypeOK'
<1> SUFFICES ASSUME JobTypeOK, InputsInv, [IndexedNext]_allVars PROVE JobTypeOK'
    OBVIOUS
<1> USE DEF JobTypeOK, settings
<1>1. CASE Validate
    BY <1>1 DEF Validate
<1>2. CASE Restart
    BY <1>2 DEF Restart
<1>3. CASE InjectFiles
    <2>1. repositories' \subseteq Lines
        BY <1>3, MergedTyped
    <2> QED
        BY <1>3, <2>1 DEF InjectFiles
<1>4. CASE ValidateRevision
    <2>1. error' = error \/ error' = [reason |-> "incorrect version"]
        BY <1>4 DEF ValidateRevision
    <2>2. CASE error' = [reason |-> "incorrect version"]
        <3>1. error'.reason = "incorrect version"
            BY <2>2
        <3> QED
            BY <1>4, <3>1 DEF ValidateRevision
    <2>3. CASE error' = error
        BY <1>4, <2>3 DEF ValidateRevision
    <2> QED
        BY <2>1, <2>2, <2>3
<1>5. CASE ChangePackages
    BY <1>5 DEF ChangePackages
<1>6. CASE SelectPackages
    <2>1. build_request.packages \in Seq(Package)
        BY PackagesTyped
    <2>2. default_packages \in SUBSET Package /\ IsFiniteSet(default_packages)
        BY DEF InputsInv
    <2>3. diff_packages(build_request.packages, default_packages) \in Seq(Package)
        BY <2>1, <2>2, DiffExtends
    <2>4. command' \in Seq(Package)
        BY <1>6, <2>1, <2>3 DEF SelectPackages
    <2> QED
        BY <1>6, <2>4 DEF SelectPackages
<1>7. CASE MakeManifest(Stock)
    <2>1. DOMAIN manifest' \subseteq Names
        BY <1>7, WantedNames DEF MakeManifest, InputsInv
    <2>2. error' = error \/ error'.reason = "package errors"
        <3>1. \A stderr : check_package_errors(stderr).reason = "package errors"
            BY DEF check_package_errors
        <3> QED
            BY <1>7, <3>1 DEF MakeManifest
    <2> QED
        BY <1>7, <2>1, <2>2 DEF MakeManifest
<1>8. CASE CheckManifest
    <2>1. error'.reason \in {"none", "not in manifest", "version not as requested"}
        BY <1>8, CheckReasons DEF CheckManifest
    <2> QED
        BY <1>8, <2>1 DEF CheckManifest
<1>9. CASE Choose
    BY <1>9 DEF Choose
<1>10. CASE UNCHANGED vars
    BY <1>10 DEF vars
<1>11. CASE RouteThroughCache
    <2>1. through_cache(repositories) \subseteq Lines
        BY DEF through_cache, Lines
    <2> QED
        BY <1>11, <2>1 DEF RouteThroughCache
<1> QED
    BY <1>1, <1>2, <1>3, <1>4, <1>5, <1>6, <1>7, <1>8, <1>9, <1>10, <1>11
       DEF IndexedNext, Steps, Rebuilt, allVars

(* Types, of the job and of the index that its client asked for. *)
THEOREM IndexedTypeCorrect == IndexedSpec => []IndexedTypeOK
<1>1. InputsInv /\ JobTypeOK => TypeOK
    <2> SUFFICES ASSUME InputsInv, JobTypeOK PROVE TypeOK
        OBVIOUS
    <2>1. build_request.profile \in Profiles \/ stage \in Early
        <3> SUFFICES ASSUME stage \notin Early PROVE build_request.profile \in Profiles
            OBVIOUS
        <3>1. IsRequest(request) /\ build_request \in {Validated(request), ChangedRequest(request)}
            BY DEF InputsInv, Early, Changed, Stages
        <3>2. build_request.profile = Canonical[request.profile]
            BY <3>1, ValidatedFields, ChangedFields DEF Fields
        <3> QED
            BY <3>1, <3>2, BuildInputsAssumption DEF IsRequest
    <2>2. build_request.packages \in Seq(Package)
        BY PackagesTyped
    <2> QED
        BY <2>1, <2>2 DEF TypeOK, JobTypeOK, InputsInv, Early
<1>2. IndexedSpec => []JobTypeOK
    BY InputsKept, JobTypeInit, JobTypeStep, PTL DEF IndexedSpec
<1> QED
    BY <1>1, <1>2, InputsKept, IndexedIndexTypeCorrect, PTL DEF IndexedTypeOK

-----------------------------------------------------------------------------
(* What a client that asked for an index is given *)

(* The client has chosen from the index, the job is not past an error, and   *)
(* the manifest is what was to be had of what was wanted.                    *)
BuiltInv ==
    /\ stage = "listing" \/ step # "idle" => default_packages = {} /\ request.packages = <<>>
    /\ stage # "listing" /\ step # "idle" =>
           /\ step = "answered"
           /\ request.packages_versions \in Seq(Items)
           /\ IsInjective(request.packages_versions)
    /\ stage \notin {"failed", "building_image"} => error = NoError
    /\ stage = "manifest" => manifest = [n \in Wanted |-> Stock[n]]
    /\ IndexedIsBuilt

\* What one list has, another has at the same version.
Agrees(f, g) == DOMAIN f \subseteq DOMAIN g /\ \A n \in DOMAIN f : g[n] = f[n]

LEMMA UpdateValues ==
    ASSUME NEW f, NEW g
    PROVE  /\ DOMAIN Update(f, g) = DOMAIN f \cup DOMAIN g
           /\ \A n \in DOMAIN g : Update(f, g)[n] = g[n]
           /\ \A n \in DOMAIN f \ DOMAIN g : Update(f, g)[n] = f[n]
BY DEF Update

LEMMA UpdateAgrees ==
    ASSUME NEW f, NEW g, NEW h, Agrees(f, g) PROVE Agrees(Update(f, h), Update(g, h))
<1> DEFINE p == Update(f, h)
           q == Update(g, h)
<1>1. /\ DOMAIN p = DOMAIN f \cup DOMAIN h
      /\ \A n \in DOMAIN h : p[n] = h[n]
      /\ \A n \in DOMAIN f \ DOMAIN h : p[n] = f[n]
    BY UpdateValues
<1>3. /\ DOMAIN q = DOMAIN g \cup DOMAIN h
      /\ \A n \in DOMAIN h : q[n] = h[n]
      /\ \A n \in DOMAIN g \ DOMAIN h : q[n] = g[n]
    BY UpdateValues
<1> HIDE DEF p, q
<1>2. Agrees(p, q)
    BY <1>1, <1>3 DEF Agrees
<1> QED
    BY <1>2 DEF p, q

LEMMA ApartAgrees ==
    ASSUME NEW f, NEW g, NEW h, Agrees(f, g), DOMAIN f \cap DOMAIN h = {}
    PROVE  Agrees(f, Update(g, h))
<1> DEFINE q == Update(g, h)
<1>1. DOMAIN q = DOMAIN g \cup DOMAIN h /\ \A n \in DOMAIN g \ DOMAIN h : q[n] = g[n]
    BY UpdateValues
<1> HIDE DEF q
<1>2. Agrees(f, q)
    BY <1>1 DEF Agrees
<1> QED
    BY <1>2 DEF q

(* The ImageBuilder finds what an index has, at its version. *)
LEMMA OfferedInStock ==
    ASSUME IndexTypeOK, NamesTold, step # "idle", NEW e
    PROVE  Agrees(Offered(upstream, e), Stock)
<1> DEFINE u == upstream
           n == Len(u.feeds)
           B == ListOf(u, Base)
           K == ListOf(u, u.kernel)
           lists == [i \in 1..n |-> ListOf(u, u.feeds[i])]
           a == Merged(Empty, lists)
           b == Merged(B, lists)
           T == UNION {DOMAIN u.packages[d] : d \in {Base} \cup Kernels}
<1>1. /\ IsUpstream(u) /\ n \in Nat /\ \A i \in 1..n : u.feeds[i] \in Feeds
      /\ u.kernel \in Kernels \cup {NoKernel}
    BY PackageIndexAssumption DEF IndexTypeOK, IsUpstream
<1>2. \A d \in {Base} \cup Kernels, f \in Feeds : DOMAIN u.packages[d] \cap DOMAIN u.packages[f] = {}
    BY UpstreamAssumption DEF IndexTypeOK
<1>3. \A d \in Dirs : ListOf(u, d) = IF u.format[d] = "none" THEN Empty ELSE u.packages[d]
    BY DEF NamesTold, ListOf
<1>4. \A d \in Dirs : DOMAIN ListOf(u, d) \subseteq DOMAIN u.packages[d]
    BY <1>3, EmptyIsList
<1>5. /\ Base \in Dirs /\ Kernels \subseteq Dirs /\ Feeds \subseteq Dirs
      /\ \A i \in 1..n : u.feeds[i] \in Dirs
    BY <1>1 DEF Dirs
<1>6. \A i \in 1..n : DOMAIN ListOf(u, u.feeds[i]) \cap T = {}
    BY <1>1, <1>2, <1>4, <1>5
<1>7. DOMAIN B \subseteq T /\ (u.kernel # NoKernel => DOMAIN K \subseteq T)
    BY <1>1, <1>4, <1>5
<1>8. lists \in [1..n -> Lists] /\ B \in Lists /\ Empty \in Lists
    BY <1>1, <1>5, ListOfIsList, ListsAreLists, EmptyIsList
<1>9. Stock = IF u.kernel = NoKernel THEN b[n] ELSE Update(b[n], K)
    <2> DEFINE Of(d) == IF u.format[d] = "none" THEN Empty ELSE u.packages[d]
    <2>1. Of(Base) = B /\ (u.kernel # NoKernel => Of(u.kernel) = K)
        BY <1>1, <1>3, <1>5
    <2>2. [i \in 1..n |-> Of(u.feeds[i])] = lists
        BY <1>3, <1>5
    <2>3. Stock = IF u.kernel = NoKernel THEN Merged(Of(Base), [i \in 1..n |-> Of(u.feeds[i])])[n]
                  ELSE Update(Merged(Of(Base), [i \in 1..n |-> Of(u.feeds[i])])[n], Of(u.kernel))
        BY DEF Stock
    <2> HIDE DEF Of, B, K, lists
    <2> QED
        BY <2>1, <2>2, <2>3
<1>10. \A i \in 1..n : lists[i] = ListOf(u, u.feeds[i])
    OBVIOUS
<1>11. OfFeeds(u) = a[n]
    BY DEF OfFeeds
<1> HIDE DEF n, B, K, lists, T
<1>12. /\ a[0] = Empty /\ b[0] = B
       /\ \A i \in 1..n : a[i] = Update(a[i - 1], lists[i]) /\ b[i] = Update(b[i - 1], lists[i])
    <2>1. n \in Nat /\ lists \in [1..n -> Lists] /\ Empty \in Lists /\ B \in Lists
        BY <1>1, <1>8
    <2>2. \A first \in Lists :
              /\ Merged(first, lists)[0] = first
              /\ \A i \in 1..n :
                     Merged(first, lists)[i] = Update(Merged(first, lists)[i - 1], lists[i])
        BY <2>1, MergedSteps, ZenonT(60)
    <2>3. a[0] = Empty /\ \A i \in 1..n : a[i] = Update(a[i - 1], lists[i])
        BY <2>1, <2>2, Zenon
    <2>4. b[0] = B /\ \A i \in 1..n : b[i] = Update(b[i - 1], lists[i])
        BY <2>1, <2>2, Zenon
    <2> QED
        BY <2>3, <2>4, Zenon
<1> HIDE DEF a, b
<1>13. Agrees(a[n], b[n]) /\ Agrees(B, b[n]) /\ DOMAIN a[n] \cap T = {}
    <2> DEFINE P == {i \in 0..n : Agrees(a[i], b[i]) /\ Agrees(B, b[i]) /\ DOMAIN a[i] \cap T = {}}
    <2>1. 0 \in P
        BY <1>1, <1>12, EmptyIsList DEF Agrees
    <2>2. ASSUME NEW i \in 1..n, i - 1 \in P PROVE i \in P
        <3>1. Agrees(a[i - 1], b[i - 1]) /\ Agrees(B, b[i - 1]) /\ DOMAIN a[i - 1] \cap T = {}
            BY <2>2
        <3>2. a[i] = Update(a[i - 1], lists[i]) /\ b[i] = Update(b[i - 1], lists[i])
            BY <1>12
        <3>3. DOMAIN lists[i] \cap T = {}
            BY <1>6, <1>10
        <3>4. Agrees(a[i], b[i])
            BY <3>1, <3>2, UpdateAgrees
        <3>5. Agrees(B, b[i])
            <4>1. DOMAIN B \cap DOMAIN lists[i] = {}
                BY <1>7, <3>3
            <4> QED
                BY <3>1, <3>2, <4>1, ApartAgrees
        <3>6. DOMAIN a[i] \cap T = {}
            <4>1. \A f, g : DOMAIN Update(f, g) = DOMAIN f \cup DOMAIN g
                BY UpdateValues
            <4>2. DOMAIN a[i] = DOMAIN a[i - 1] \cup DOMAIN lists[i]
                BY <3>2, <4>1
            <4> QED
                BY <3>1, <3>3, <4>2
        <3>7. i \in 0..n
            BY <1>1
        <3> QED
            BY <3>4, <3>5, <3>6, <3>7
    <2>3. 0..n \subseteq P
        <3> HIDE DEF P
        <3> QED
            BY <1>1, <2>1, <2>2, Induction
    <2>4. n \in 0..n
        BY <1>1
    <2> QED
        BY <2>3, <2>4
<1>14. CASE e = "arch"
    <2>1. Offered(u, e) = a[n]
        BY <1>11, <1>14 DEF Offered
    <2>2. u.kernel # NoKernel => DOMAIN a[n] \cap DOMAIN K = {}
        BY <1>7, <1>13
    <2>3. u.kernel # NoKernel => Agrees(a[n], Update(b[n], K))
        BY <1>13, <2>2, ApartAgrees
    <2> QED
        BY <1>9, <1>13, <2>1, <2>3
<1>15. CASE e # "arch"
    <2>1. Offered(u, e) = IF u.kernel = NoKernel THEN B ELSE Update(B, K)
        BY <1>15 DEF Offered, B, K
    <2>2. Agrees(Update(B, K), Update(b[n], K))
        BY <1>13, UpdateAgrees
    <2> QED
        BY <1>9, <1>13, <2>1, <2>2
<1> QED
    BY <1>14, <1>15

LEMMA ExpectedPlus ==
    ASSUME NEW r, NEW S, NEW x \in Expected(r, S) PROVE x \in S \/ ~x.minus
<1>1. \A n : ~Plus(n).minus
    BY DEF Plus
<1>2. \/ x \in S
      \/ \E n : x = Plus(n)
    BY DEF Expected
<1> QED
    BY <1>1, <1>2

\* The items of an index are told apart by their packages.
LEMMA ChosenPackages ==
    ASSUME InputsInv, IndexTypeOK, request.packages = <<>>,
           request.packages_versions \in Seq(Items), IsInjective(request.packages_versions)
    PROVE  /\ PackagesOf(request) \in Seq(Package) /\ IsInjective(PackagesOf(request))
           /\ \A i \in DOMAIN request.packages_versions :
                  LET item == request.packages_versions[i]
                  IN  item \in Items /\ item.package \in ToSet(PackagesOf(request))
           /\ \A x \in ToSet(PackagesOf(request)) : \E n \in DOMAIN packages : x = Plus(n)
<1> DEFINE chosen == request.packages_versions
           q == PackagesOf(request)
<1>1. q \in Seq(Package)
    BY DEF InputsInv, IsRequest
<1>2. CASE chosen = <<>>
    <2>1. q = <<>>
        BY <1>2 DEF PackagesOf
    <2>2. DOMAIN q = {} /\ ToSet(q) = {} /\ DOMAIN chosen = {}
        BY <1>2, <2>1 DEF ToSet
    <2> HIDE DEF q
    <2>3. IsInjective(q)
        BY <2>2 DEF IsInjective
    <2> QED
        BY <1>1, <2>2, <2>3 DEF q
<1>3. CASE chosen # <<>>
    <2>1. q = [i \in DOMAIN chosen |-> chosen[i].package]
        BY <1>3 DEF PackagesOf
    <2>2. \A i \in DOMAIN chosen : chosen[i] \in Items
        OBVIOUS
    <2>3. \A x, y \in Items : x.package = y.package => x = y
        BY DEF Items, Plus
    <2>4. \A x \in Items : \E n \in DOMAIN packages : x.package = Plus(n)
        BY DEF Items
    <2>5. \A i, j \in DOMAIN chosen : chosen[i] = chosen[j] => i = j
        BY DEF IsInjective
    <2> HIDE DEF q
    <2>6. DOMAIN q = DOMAIN chosen /\ \A i \in DOMAIN chosen : q[i] = chosen[i].package
        BY <2>1
    <2>7. IsInjective(q)
        <3>1. ASSUME NEW i \in DOMAIN chosen, NEW j \in DOMAIN chosen, q[i] = q[j] PROVE i = j
            BY <2>2, <2>3, <2>5, <2>6, <3>1
        <3> QED
            BY <2>6, <3>1 DEF IsInjective
    <2>8. ToSet(q) = {q[i] : i \in DOMAIN q}
        BY <1>1 DEF ToSet
    <2>9. \A i \in DOMAIN chosen : chosen[i] \in Items /\ chosen[i].package \in ToSet(q)
        BY <2>2, <2>6, <2>8
    <2>10. \A x \in ToSet(q) : \E n \in DOMAIN packages : x = Plus(n)
        BY <2>2, <2>4, <2>6, <2>8
    <2> QED
        BY <1>1, <2>7, <2>9, <2>10 DEF q
<1> QED
    BY <1>2, <1>3

LEMMA PackagesExpected ==
    ASSUME InputsInv, Changed, IsInjective(PackagesOf(request))
    PROVE  ToSet(build_request.packages) = Expected(Validated(request), ToSet(PackagesOf(request)))
<1>1. IsRequest(request) /\ build_request = ChangedRequest(request)
    BY DEF InputsInv
<1>2. PackagesOf(request) \in Seq(Package) /\ request.version \in Versions
    BY <1>1 DEF IsRequest
<1>3. Validated(request).version = request.version
    BY <1>1, ValidatedFields DEF Fields
<1>4. build_request.packages = apply_package_changes(Validated(request), PackagesOf(request))
    BY <1>1, ChangedFields
<1> DEFINE r == Validated(request)
           s == PackagesOf(request)
<1> HIDE DEF r, s
<1>5. ToSet(apply_package_changes(r, s)) = Expected(r, ToSet(s))
    BY <1>2, <1>3, ChangesAsExpected DEF r, s
<1> QED
    BY <1>4, <1>5 DEF r, s

\* Without defaults nothing is removed.
LEMMA CommandSet ==
    ASSUME InputsInv, Selected, default_packages = {}
    PROVE  ToSet(command) = ToSet(build_request.packages)
<1> DEFINE s == build_request.packages
<1>1. s \in Seq(Package)
    BY PackagesTyped
<1>2. CASE build_request.diff_packages
    <2>1. command = diff_packages(s, {})
        BY <1>2 DEF InputsInv
    <2>2. SetToSeq({}) \in Seq({}) /\ ToSet(SetToSeq({})) = {}
        BY FS_EmptySet, SetToSeqIsSet
    <2>3. diff_packages(s, {}) = SetToSeq({}) \o s
        <3>1. {Minus(x) : x \in {} \ ToSet(s)} = {}
            OBVIOUS
        <3> QED
            BY <3>1 DEF diff_packages
    <2> DEFINE e == SetToSeq({})
    <2>5. e \in Seq({}) /\ ToSet(e) = {} /\ command = e \o s
        BY <2>1, <2>2, <2>3
    <2>6. e \in Seq(Package)
        BY <2>5
    <2> HIDE DEF s, e
    <2>4. ToSet(e \o s) = ToSet(e) \cup ToSet(s)
        BY <1>1, <2>6, JoinedSet
    <2> QED
        BY <2>4, <2>5 DEF s
<1>3. CASE ~build_request.diff_packages
    BY <1>3 DEF InputsInv
<1> QED
    BY <1>2, <1>3

\* The client of an index, as long as upstream is what it was.
ServedWell ==
    /\ step = "answered" /\ calm /\ NamesTold /\ Single(release) /\ Untouched
    /\ default_packages = {} /\ request.packages = <<>>
    /\ request.packages_versions \in Seq(Items) /\ IsInjective(request.packages_versions)

LEMMA ToBeHad ==
    ASSUME InputsInv, CompleteInv, IndexComplete, ServedWell, Selected
    PROVE  /\ Wanted \subseteq DOMAIN Stock
           /\ \A i \in DOMAIN request.packages_versions :
                  LET item == request.packages_versions[i]
                  IN  /\ ~item.package.minus
                      /\ item.package.name \in Wanted
                      /\ Stock[item.package.name] = item.version
<1> DEFINE S == ToSet(PackagesOf(request))
           all == Expected(Validated(request), S)
           chosen == request.packages_versions
<1>1. IndexTypeOK
    BY DEF CompleteInv
<1>2. Agrees(packages, Stock)
    <2>1. packages = Offered(upstream, endpoint)
        BY DEF IndexComplete, ServedWell
    <2>2. Agrees(Offered(upstream, endpoint), Stock)
        BY <1>1, OfferedInStock DEF ServedWell
    <2> QED
        BY <2>1, <2>2
<1>3. /\ IsInjective(PackagesOf(request))
      /\ \A i \in DOMAIN chosen : chosen[i] \in Items /\ chosen[i].package \in S
      /\ \A x \in S : \E n \in DOMAIN packages : x = Plus(n)
    BY <1>1, ChosenPackages DEF ServedWell
<1>4. ToSet(command) = all
    BY <1>3, PackagesExpected, CommandSet DEF ServedWell, Changed, Selected
<1>5. S \subseteq all /\ \A x \in all \ S : x.name \in DOMAIN Stock
    BY DEF Untouched, ServedWell
<1>6. \A n : Plus(n).name = n /\ ~Plus(n).minus
    BY DEF Plus
<1>7. \A x \in all : ~x.minus
    BY <1>3, <1>6, ExpectedPlus
<1> HIDE DEF S, all
<1>8. Wanted = {x.name : x \in all}
    <2>1. default_packages \cup ToSet(command) = all
        BY <1>4 DEF ServedWell
    <2>2. {y \in all : y.minus} = {} /\ {y \in all : ~y.minus} = all
        BY <1>7
    <2> QED
        BY <2>1, <2>2 DEF Wanted
<1>9. \A x \in all : x.name \in DOMAIN Stock
    BY <1>2, <1>3, <1>5, <1>6 DEF Agrees
<1>10. ASSUME NEW i \in DOMAIN chosen
       PROVE  /\ ~chosen[i].package.minus
              /\ chosen[i].package.name \in Wanted
              /\ Stock[chosen[i].package.name] = chosen[i].version
    <2>1. chosen[i] \in Items /\ chosen[i].package \in all
        BY <1>3, <1>5
    <2>2. PICK n \in DOMAIN packages : chosen[i] = [package |-> Plus(n), version |-> packages[n]]
        BY <2>1 DEF Items
    <2>3. chosen[i].package.name = n /\ chosen[i].version = packages[n]
        BY <1>6, <2>2
    <2> QED
        BY <1>2, <1>7, <1>8, <2>1, <2>3 DEF Agrees
<1> QED
    BY <1>8, <1>9, <1>10

LEMMA NothingWrong ==
    ASSUME NEW image, NEW versions,
           \A i \in DOMAIN versions :
               InManifest(versions[i], image) /\ versions[i].version = image[versions[i].package.name]
    PROVE  check_manifest(image, versions) = NoError
BY DEF check_manifest

Faults == {"not in manifest", "version not as requested", "package errors"}

\* The job as it was leaves the promise as it was.
LEMMA PromiseStays ==
    ASSUME IndexedIsBuilt, UNCHANGED <<indexVars, request, default_packages, command, error>>
    PROVE  IndexedIsBuilt'
<1>1. UNCHANGED Stock /\ InConflict(Stock)' = InConflict(Stock)
    BY StockStays
<1>2. UNCHANGED <<step, calm, upstream, release>>
    BY DEF indexVars, requestVars
<1>3. Untouched' <=> Untouched
    BY <1>1 DEF Untouched
<1>4. (NamesTold' <=> NamesTold) /\ (Single(release)' <=> Single(release))
    BY <1>2 DEF NamesTold, Single
<1> QED
    BY <1>1, <1>2, <1>3, <1>4 DEF IndexedIsBuilt

LEMMA NoFault == error.reason \notin Faults => IndexedIsBuilt
BY DEF IndexedIsBuilt, Faults

LEMMA BuiltInit == IndexedInit => BuiltInv
<1>1. NoError.reason \notin Faults
    BY DEF NoError, Faults
<1>2. CASE ServerInit /\ Init
    <2>1. step = "idle" /\ stage = "received" /\ error = NoError
        BY <1>2 DEF ServerInit, Init
    <2> QED
        BY <1>1, <2>1, NoFault DEF BuiltInv
<1>3. ASSUME Receive([request |-> [Blank EXCEPT !.version = release],
                      asker |-> [Blank EXCEPT !.version = release]]),
             default_packages = {}, stage = "listing", error = NoError
      PROVE  BuiltInv
    <2>1. request = [Blank EXCEPT !.version = release]
        BY <1>3 DEF Receive
    <2>2. request.packages = <<>>
        BY <2>1, IndexedBuildAssumption DEF IsRequest, Fields
    <2> QED
        BY <1>1, <1>3, <2>2, NoFault DEF BuiltInv
<1> QED
    BY <1>2, <1>3 DEF IndexedInit

LEMMA BuiltStep ==
    BuiltInv /\ InputsInv /\ CompleteInv /\ IndexComplete /\ [IndexedNext]_allVars => BuiltInv'
<1> SUFFICES ASSUME BuiltInv, InputsInv, CompleteInv, IndexComplete, [IndexedNext]_allVars
             PROVE  BuiltInv'
    OBVIOUS
<1> USE DEF settings
<1>1. NoError.reason \notin Faults
    BY DEF NoError, Faults
\* Before the manifest nothing is wrong with the packages.
<1>2. ASSUME UNCHANGED <<indexVars, default_packages, request>>, stage # "listing", stage' # "listing",
             stage' # "manifest", error' = NoError \/ (stage' = "failed" /\ error'.reason \notin Faults)
      PROVE  BuiltInv'
    <2>1. UNCHANGED <<step, packages>>
        BY <1>2 DEF indexVars
    <2>2. UNCHANGED Items
        BY <2>1 DEF Items
    <2>3. error'.reason \notin Faults
        BY <1>1, <1>2
    <2>4. IndexedIsBuilt'
        BY <2>3 DEF IndexedIsBuilt, Faults
    <2> QED
        BY <1>2, <2>1, <2>2, <2>4 DEF BuiltInv
<1>3. CASE Validate /\ UNCHANGED indexVars
    BY <1>2, <1>3 DEF Validate, BuiltInv
<1>4. CASE Restart /\ UNCHANGED indexVars
    BY <1>2, <1>4 DEF Restart, BuiltInv
<1>5. CASE InjectFiles /\ UNCHANGED indexVars
    BY <1>2, <1>5 DEF InjectFiles, BuiltInv
<1>6. CASE ValidateRevision /\ UNCHANGED indexVars
    <2>1. /\ stage = "container_setup" /\ UNCHANGED <<request, default_packages>>
          /\ \/ stage' = "validate_revision" /\ error' = error
             \/ stage' = "failed" /\ error' = [reason |-> "incorrect version"]
        BY <1>6 DEF ValidateRevision
    <2>2. error = NoError
        BY <2>1 DEF BuiltInv
    <2>3. CASE error' = [reason |-> "incorrect version"] /\ stage' = "failed"
        <3>1. error'.reason = "incorrect version"
            BY <2>3
        <3> QED
            BY <1>2, <1>6, <2>1, <2>3, <3>1 DEF Faults
    <2>4. CASE error' = error /\ stage' = "validate_revision"
        BY <1>2, <1>6, <2>1, <2>2, <2>4
    <2> QED
        BY <2>1, <2>3, <2>4
<1>7. CASE ChangePackages /\ UNCHANGED indexVars
    BY <1>2, <1>7 DEF ChangePackages, BuiltInv
<1>8. CASE SelectPackages /\ UNCHANGED indexVars
    BY <1>2, <1>8 DEF SelectPackages, BuiltInv
<1>9. CASE MakeManifest(Stock) /\ UNCHANGED indexVars
    <2>1. /\ stage = "validate_manifest" /\ stage' \in {"manifest", "failed"}
          /\ UNCHANGED <<request, default_packages, command>>
        BY <1>9 DEF MakeManifest
    <2>2. UNCHANGED <<Stock, Wanted>> /\ InConflict(Stock)' = InConflict(Stock)
        BY <1>9, <2>1, StockStays DEF Wanted
    <2>3. UNCHANGED <<step, packages>> /\ UNCHANGED Items
        BY <1>9 DEF indexVars, Items
    <2>4. CASE MissingFrom(Stock) \cup InConflict(Stock) = {}
        <3>1. stage' = "manifest" /\ manifest' = [n \in Wanted |-> Stock[n]] /\ error' = error
            BY <1>9, <2>4 DEF MakeManifest
        <3>2. IndexedIsBuilt'
            BY <1>9, <2>1, <3>1, PromiseStays DEF BuiltInv
        <3>3. manifest' = [n \in Wanted |-> Stock[n]]'
            BY <2>2, <3>1
        <3> QED
            BY <2>1, <2>3, <3>1, <3>2, <3>3 DEF BuiltInv
    <2>5. CASE MissingFrom(Stock) \cup InConflict(Stock) # {}
        <3>1. stage' = "failed"
            BY <1>9, <2>5 DEF MakeManifest
        <3>2. IndexedIsBuilt'
            <4>1. ASSUME step = "answered", calm, NamesTold, Single(release), Untouched
                  PROVE  InConflict(Stock) # {}
                <5>1. ServedWell
                    BY <2>1, <4>1 DEF ServedWell, BuiltInv
                <5>2. Wanted \subseteq DOMAIN Stock
                    BY <2>1, <5>1, ToBeHad DEF Selected
                <5> QED
                    BY <2>5, <5>2 DEF MissingFrom
            <4>2. UNCHANGED <<calm, upstream, release>>
                BY <1>9 DEF indexVars, requestVars
            <4>3. Untouched' <=> Untouched
                BY <2>1, <2>2 DEF Untouched
            <4>4. (NamesTold' <=> NamesTold) /\ (Single(release)' <=> Single(release))
                BY <4>2 DEF NamesTold, Single
            <4> QED
                BY <2>2, <2>3, <4>1, <4>2, <4>3, <4>4 DEF IndexedIsBuilt
        <3> QED
            BY <2>1, <2>3, <3>1, <3>2 DEF BuiltInv
    <2> QED
        BY <2>4, <2>5
<1>10. CASE CheckManifest /\ UNCHANGED indexVars
    <2> DEFINE versions == request.packages_versions
    <2>1. /\ stage = "manifest" /\ stage' \in {"building_image", "failed"}
          /\ UNCHANGED <<request, default_packages, command>>
        BY <1>10 DEF CheckManifest
    <2>2. build_request.packages_versions = versions
        BY <2>1, ValidatedFields, ChangedFields DEF InputsInv, Changed, Fields
    <2>3. error' = check_manifest(manifest, versions)
        BY <1>10, <2>2 DEF CheckManifest
    <2>4. manifest = [n \in Wanted |-> Stock[n]]
        BY <2>1 DEF BuiltInv
    <2>5. UNCHANGED <<step, packages>> /\ UNCHANGED Items
        BY <1>10 DEF indexVars, Items
    <2>6. ASSUME step = "answered", calm, NamesTold, Single(release), Untouched
          PROVE  error' = NoError
        <3>1. ServedWell
            BY <2>1, <2>6 DEF ServedWell, BuiltInv
        <3>2. \A i \in DOMAIN versions :
                  /\ ~versions[i].package.minus
                  /\ versions[i].package.name \in Wanted
                  /\ Stock[versions[i].package.name] = versions[i].version
            BY <2>1, <3>1, ToBeHad DEF Selected
        <3> HIDE DEF versions
        <3>3. \A i \in DOMAIN versions :
                  /\ InManifest(versions[i], manifest)
                  /\ versions[i].version = manifest[versions[i].package.name]
            BY <2>4, <3>2 DEF InManifest
        <3> QED
            BY <2>3, <3>3, NothingWrong
    <2>7. IndexedIsBuilt'
        <3>1. UNCHANGED Stock
            BY <1>10, <2>1, StockStays
        <3>2. UNCHANGED <<calm, upstream, release>>
            BY <1>10 DEF indexVars, requestVars
        <3>3. Untouched' <=> Untouched
            BY <2>1, <3>1 DEF Untouched
        <3>4. (NamesTold' <=> NamesTold) /\ (Single(release)' <=> Single(release))
            BY <3>2 DEF NamesTold, Single
        <3> QED
            BY <1>1, <2>5, <2>6, <3>2, <3>3, <3>4 DEF IndexedIsBuilt, Faults
    <2> QED
        BY <2>1, <2>5, <2>7 DEF BuiltInv
<1>11. CASE Choose
    <2>1. /\ stage = "listing" /\ step = "answered" /\ stage' = "received"
          /\ UNCHANGED <<indexVars, default_packages, error>>
        BY <1>11 DEF Choose
    <2>2. PICK chosen \in BoundedSeq(Items, MaxChosen) :
              IsInjective(chosen) /\ request' = [request EXCEPT !.packages_versions = chosen]
        BY <1>11 DEF Choose
    <2>3. chosen \in Seq(Items)
        <3>1. PICK m \in 0..MaxChosen : chosen \in [1..m -> Items]
            BY DEF BoundedSeq, SeqOf
        <3>2. m \in Nat
            OBVIOUS
        <3> QED
            BY <3>1, <3>2
    <2>4. request'.packages_versions = chosen /\ request'.packages = <<>>
        BY <2>1, <2>2 DEF InputsInv, IsRequest, Fields, BuiltInv
    <2>5. UNCHANGED <<step, packages>> /\ UNCHANGED Items
        BY <2>1 DEF indexVars, Items
    <2>6. IndexedIsBuilt'
        <3>1. error'.reason \notin Faults
            BY <1>1, <2>1 DEF BuiltInv
        <3> QED
            BY <3>1 DEF IndexedIsBuilt, Faults
    <2> QED
        BY <2>1, <2>2, <2>3, <2>4, <2>5, <2>6 DEF BuiltInv
<1>12. CASE stage = "listing" /\ Serve /\ UNCHANGED vars
    <2>1. UNCHANGED <<stage, request, default_packages, error>>
        BY <1>12 DEF vars
    <2>2. IndexedIsBuilt'
        <3>1. error'.reason \notin Faults
            BY <1>1, <1>12, <2>1 DEF BuiltInv
        <3> QED
            BY <3>1 DEF IndexedIsBuilt, Faults
    <2> QED
        BY <1>12, <2>1, <2>2 DEF BuiltInv
<1>13. CASE Rebuilt
    <2>1. UNCHANGED <<stage, request, default_packages, error, step, packages>> /\ step # "idle"
        BY <1>13 DEF Rebuilt, Rebuild, vars
    <2>2. UNCHANGED Items /\ stage \in {"listing", "validate_manifest"}
        BY <1>13, <2>1 DEF Rebuilt, Items
    <2>3. IndexedIsBuilt'
        <3>1. error'.reason \notin Faults
            BY <1>1, <2>1, <2>2 DEF BuiltInv
        <3> QED
            BY <3>1 DEF IndexedIsBuilt, Faults
    <2> QED
        BY <2>1, <2>2, <2>3 DEF BuiltInv
<1>14. CASE UNCHANGED allVars
    <2>1. UNCHANGED <<indexVars, stage, request, default_packages, command, manifest, error>>
        BY <1>14 DEF allVars, vars
    <2>2. UNCHANGED Stock /\ UNCHANGED Wanted /\ UNCHANGED Items /\ UNCHANGED step
        BY <2>1, StockStays DEF Wanted, Items, indexVars
    <2>3. IndexedIsBuilt'
        BY <2>1, PromiseStays DEF BuiltInv
    <2> QED
        BY <2>1, <2>2, <2>3 DEF BuiltInv
<1>15. CASE RouteThroughCache /\ UNCHANGED indexVars
    BY <1>2, <1>15 DEF RouteThroughCache, BuiltInv
<1> QED
    BY <1>3, <1>4, <1>5, <1>6, <1>7, <1>8, <1>9, <1>10, <1>11, <1>12, <1>13, <1>14, <1>15
       DEF IndexedNext, Steps

(* What a client takes from an index can be built: for all that upstream     *)
(* publishes, whichever index was asked for and whatever is chosen from it.  *)
THEOREM IndexedAlwaysBuilt == IndexedSpec => []IndexedIsBuilt
<1>1. BuiltInv => IndexedIsBuilt
    BY DEF BuiltInv
<1>2. IndexedSpec => []CompleteInv
    BY IndexedImplementsIndex, CompleteInit, CompleteStep, PTL DEF IndexSpec
<1>3. IndexedSpec => []BuiltInv
    BY <1>2, InputsKept, IndexedAlwaysComplete, BuiltInit, BuiltStep, PTL DEF IndexedSpec
<1> QED
    BY <1>1, <1>3, PTL
===============================================================================
