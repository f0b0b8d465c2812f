----------------------------- MODULE BranchesProofs -----------------------------
(***************************************************************************)
(* Theorems about Branches, for every number of threads, any branches and  *)
(* any versions.                                                           *)
(***************************************************************************)
EXTENDS Branches, SequenceTheorems, FiniteSetTheorems, TLAPS

LEMMA BranchSeqProperties ==
    /\ Len(BranchSeq) \in Nat \ {0}
    /\ DOMAIN BranchSeq = 1..Len(BranchSeq)
    /\ \A i \in 1..Len(BranchSeq) : BranchSeq[i] \in BranchSet
    /\ \A b \in BranchSet : \E i \in 1..Len(BranchSeq) : b = BranchSeq[i]
    BY BranchesAssumption DEF BranchSet, ToSet

\* The list of a branch with one more version.
LEMMA AppendVersion ==
    ASSUME NEW s \in Seq(Versions), NEW v \in Versions
    PROVE  /\ Append(s, v) \in Seq(Versions)
           /\ Len(Append(s, v)) = Len(s) + 1
           /\ DOMAIN s = 1..Len(s) /\ DOMAIN Append(s, v) = 1..Len(s) + 1
           /\ \A i \in 1..Len(s) : Append(s, v)[i] = s[i]
           /\ Append(s, v)[Len(s) + 1] = v
           /\ ToSet(Append(s, v)) = ToSet(s) \cup {v}
<1>1. /\ Append(s, v) \in Seq(Versions)
      /\ Len(Append(s, v)) = Len(s) + 1
      /\ \A i \in 1..Len(s) : Append(s, v)[i] = s[i]
      /\ Append(s, v)[Len(s) + 1] = v
    BY AppendProperties
<1>2. Len(s) \in Nat /\ DOMAIN s = 1..Len(s) /\ DOMAIN Append(s, v) = 1..Len(s) + 1
    BY <1>1
<1>3. ToSet(Append(s, v)) = ToSet(s) \cup {v}
    BY <1>1, <1>2 DEF ToSet
<1> QED
    BY <1>1, <1>2, <1>3

LEMMA NothingInEmpty == ToSet(<<>>) = {}
    BY DEF ToSet

LEMMA EmptyType == Empty \in [BranchSet -> Branch]
<1>1. [versions |-> <<>>, targets |-> NoVersion] \in Branch
    BY EmptySeq DEF Branch
<1> QED
    BY <1>1 DEF Empty

-----------------------------------------------------------------------------
(* Types *)

Places == {"idle", "clear", "read", "fill", "targets", "encode", "answered", "no version", "failed"}

\* A loop over the branches is at one of them, before and after.
LEMMA NextBranchType ==
    ASSUME pc \in [Threads -> Places], at \in [Threads -> 1..Len(BranchSeq)],
           NEW t \in Threads, NEW place \in Places, NEW after \in Places,
           NextBranch(t, place, after)
    PROVE  /\ at' \in [Threads -> 1..Len(BranchSeq)]
           /\ pc' \in [Threads -> Places]
<1>1. at[t] \in 1..Len(BranchSeq) /\ Len(BranchSeq) \in Nat \ {0}
    BY BranchSeqProperties
<1>2. CASE at[t] < Len(BranchSeq)
    <2>1. pc' = [pc EXCEPT ![t] = place] /\ at' = [at EXCEPT ![t] = at[t] + 1]
        BY <1>2 DEF NextBranch, Goto
    <2> QED
        BY <1>1, <1>2, <2>1
<1>3. CASE ~(at[t] < Len(BranchSeq))
    <2>1. pc' = [pc EXCEPT ![t] = after] /\ at' = [at EXCEPT ![t] = 1]
        BY <1>3 DEF NextBranch, Goto
    <2> QED
        BY <1>1, <2>1
<1> QED
    BY <1>2, <1>3

LEMMA ThreadType ==
    ASSUME TypeOK, NEW t \in Threads
    PROVE  /\ at[t] \in 1..Len(BranchSeq) /\ Len(BranchSeq) \in Nat /\ 1 \in 1..Len(BranchSeq)
           /\ BranchSeq[at[t]] \in BranchSet
           /\ todo[t] \in [Versions -> 0..Repeats] /\ Repeats \in Nat
<1>1. at \in [Threads -> 1..Len(BranchSeq)] /\ todo \in [Threads -> [Versions -> 0..Repeats]]
    BY DEF TypeOK
<1>2. at[t] \in 1..Len(BranchSeq) /\ todo[t] \in [Versions -> 0..Repeats]
    BY <1>1
<1>3. Repeats \in Nat
    BY BranchesAssumption
<1> QED
    BY <1>2, <1>3, BranchSeqProperties

\* One more of a version in one list.
LEMMA VersionAdded ==
    ASSUME TypeOK, NEW v \in Versions, versions' = [versions EXCEPT ![BranchOf[v]] = Append(@, v)]
    PROVE  /\ BranchOf[v] \in BranchSet
           /\ versions[BranchOf[v]] \in Seq(Versions)
           /\ versions'[BranchOf[v]] = Append(versions[BranchOf[v]], v)
           /\ ToSet(versions'[BranchOf[v]]) = ToSet(versions[BranchOf[v]]) \cup {v}
           /\ \A b \in BranchSet \ {BranchOf[v]} : versions'[b] = versions[b]
           /\ versions' \in [BranchSet -> Seq(Versions)]
<1>1. BranchOf[v] \in BranchSet
    BY BranchesAssumption
<1>2. versions \in [BranchSet -> Seq(Versions)]
    BY DEF TypeOK
<1>3. versions[BranchOf[v]] \in Seq(Versions)
    BY <1>1, <1>2
<1>4. versions' = [versions EXCEPT ![BranchOf[v]] = Append(versions[BranchOf[v]], v)]
    OBVIOUS
<1>5. /\ Append(versions[BranchOf[v]], v) \in Seq(Versions)
      /\ ToSet(Append(versions[BranchOf[v]], v)) = ToSet(versions[BranchOf[v]]) \cup {v}
    BY <1>3, AppendVersion
<1> QED
    BY <1>1, <1>2, <1>3, <1>4, <1>5

\* One version less to be appended.
LEMMA VersionTaken ==
    ASSUME TypeOK, NEW t \in Threads, NEW v \in Versions, todo[t][v] > 0,
           todo' = [todo EXCEPT ![t][v] = @ - 1]
    PROVE  /\ todo' \in [Threads -> [Versions -> 0..Repeats]]
           /\ todo'[t][v] = todo[t][v] - 1
           /\ \A u \in Versions \ {v} : todo'[t][u] = todo[t][u]
           /\ \A w \in Threads \ {t} : todo'[w] = todo[w]
<1>1. todo \in [Threads -> [Versions -> 0..Repeats]]
    BY DEF TypeOK
<1>2. todo[t][v] \in 0..Repeats /\ Repeats \in Nat
    BY <1>1, BranchesAssumption
<1>3. todo' = [todo EXCEPT ![t] = [todo[t] EXCEPT ![v] = todo[t][v] - 1]]
    OBVIOUS
<1>4. [todo[t] EXCEPT ![v] = todo[t][v] - 1] \in [Versions -> 0..Repeats]
    BY <1>1, <1>2
<1> QED
    BY <1>1, <1>3, <1>4

LEMMA TypeInductive == TypeOK /\ [Next]_vars => TypeOK'
<1> SUFFICES ASSUME TypeOK, [Next]_vars PROVE TypeOK'
    OBVIOUS
<1> USE DEF TypeOK, Places
<1>1. CASE UNCHANGED vars
    BY <1>1 DEF vars
<1>2. CASE OtherReload
    BY <1>2 DEF OtherReload
<1>3. ASSUME NEW t \in Threads, Call(t) PROVE TypeOK'
    BY <1>3 DEF Call, Goto
<1>4. ASSUME NEW t \in Threads, Clear(t) PROVE TypeOK'
    <2>1. /\ at' \in [Threads -> 1..Len(BranchSeq)]
          /\ pc' \in [Threads -> Places]
        BY <1>4, NextBranchType DEF Clear, Places
    <2>2. /\ DOMAIN versions' = BranchSet
          /\ versions' = [b \in BranchSet |-> versions'[b]]
          /\ \A b \in BranchSet : versions'[b] = versions[b] \/ versions'[b] = <<>>
        BY <1>4 DEF Clear
    <2>3. versions' \in [BranchSet -> Seq(Versions)]
        <3>1. ASSUME NEW b \in BranchSet PROVE versions'[b] \in Seq(Versions)
            <4>1. versions[b] \in Seq(Versions)
                OBVIOUS
            <4>2. CASE versions'[b] = versions[b]
                BY <4>1, <4>2
            <4>3. CASE versions'[b] = <<>>
                BY <4>3, EmptySeq
            <4> QED
                BY <2>2, <4>2, <4>3
        <3> QED
            BY <2>2, <3>1
    <2>4. ASSUME NEW b \in BranchSet, NEW v \in ToSet(versions'[b]) PROVE BranchOf[v] = b
        BY <2>2, <2>4, NothingInEmpty
    <2> QED
        BY <1>4, <2>1, <2>3, <2>4 DEF Clear
<1>5. ASSUME NEW t \in Threads, Read(t) PROVE TypeOK'
    BY <1>5 DEF Read, Goto
<1>6. ASSUME NEW t \in Threads, Fill(t) PROVE TypeOK'
    <2>1. PICK v \in Versions :
              /\ todo[t][v] > 0
              /\ versions' = [versions EXCEPT ![BranchOf[v]] = Append(@, v)]
              /\ todo' = [todo EXCEPT ![t][v] = @ - 1]
        BY <1>6 DEF Fill, MayBeNext
    <2>2. versions' \in [BranchSet -> Seq(Versions)]
        BY <2>1, VersionAdded
    <2>3. ASSUME NEW b \in BranchSet, NEW u \in ToSet(versions'[b]) PROVE BranchOf[u] = b
        <3>1. CASE b = BranchOf[v]
            <4>1. ToSet(versions'[b]) = ToSet(versions[b]) \cup {v}
                BY <2>1, <3>1, VersionAdded
            <4>2. u = v \/ u \in ToSet(versions[b])
                BY <2>3, <4>1
            <4> QED
                BY <3>1, <4>2 DEF TypeOK
        <3>2. CASE b # BranchOf[v]
            BY <2>1, <2>3, <3>2, VersionAdded DEF TypeOK
        <3> QED
            BY <3>1, <3>2
    <2>4. todo' \in [Threads -> [Versions -> 0..Repeats]]
        BY <2>1, VersionTaken
    <2> QED
        BY <1>6, <2>2, <2>3, <2>4 DEF Fill, TypeOK
<1>7. ASSUME NEW t \in Threads, Filled(t) PROVE TypeOK'
    BY <1>7 DEF Filled, Goto
<1>8. ASSUME NEW t \in Threads, SetTargets(t) PROVE TypeOK'
    <2> DEFINE b == BranchSeq[at[t]]
    <2>1. at[t] \in 1..Len(BranchSeq) /\ 1 \in 1..Len(BranchSeq) /\ b \in BranchSet
        BY ThreadType
    <2>2. CASE /\ Goto(t, "no version") \/ Goto(t, "failed")
               /\ UNCHANGED targets /\ at' = [at EXCEPT ![t] = 1]
        <3>1. at' \in [Threads -> 1..Len(BranchSeq)] /\ pc' \in [Threads -> Places]
            BY <2>1, <2>2 DEF Goto
        <3> QED
            BY <1>8, <2>2, <3>1 DEF SetTargets
    <2>3. CASE /\ versions[b] # <<>>
               /\ targets' = [targets EXCEPT ![b] = Head(versions[b])]
               /\ NextBranch(t, "targets", "encode")
        <3>1. Head(versions[b]) \in Versions
            BY <2>1, <2>3, HeadTailProperties
        <3>2. targets' \in [BranchSet -> Versions \cup {NoVersion}]
            BY <2>3, <3>1
        <3>3. at' \in [Threads -> 1..Len(BranchSeq)] /\ pc' \in [Threads -> Places]
            BY <2>3, NextBranchType
        <3> QED
            BY <1>8, <3>2, <3>3 DEF SetTargets
    <2> QED
        BY <1>8, <2>2, <2>3 DEF SetTargets
<1>9. ASSUME NEW t \in Threads, Encode(t) PROVE TypeOK'
    <2> DEFINE b == BranchSeq[at[t]]
               r == [versions |-> versions[b], targets |-> targets[b]]
    <2>1. b \in BranchSet
        BY ThreadType
    <2>2. r \in Branch
        BY <2>1 DEF Branch
    <2>3. reply' = [reply EXCEPT ![t][b] = r]
        BY <1>9 DEF Encode
    <2>4. reply' \in [Threads -> [BranchSet -> Branch]]
        BY <2>1, <2>2, <2>3
    <2> QED
        BY <1>9, <2>4, NextBranchType DEF Encode
<1>10. ASSUME NEW t \in Threads, Answered(t) PROVE TypeOK'
    BY <1>10, EmptyType DEF Answered, Goto
<1> QED
    BY <1>1, <1>2, <1>3, <1>4, <1>5, <1>6, <1>7, <1>8, <1>9, <1>10 DEF Next, Generating

LEMMA InitType == Init => TypeOK
<1> SUFFICES ASSUME Init PROVE TypeOK
    OBVIOUS
<1>1. /\ versions \in [BranchSet -> Seq(Versions)]
      /\ \A b \in BranchSet : ToSet(versions[b]) = {}
    BY NothingInEmpty, EmptySeq DEF Init
<1>2. at \in [Threads -> 1..Len(BranchSeq)]
    BY BranchSeqProperties DEF Init
<1>3. todo \in [Threads -> [Versions -> 0..Repeats]]
    BY BranchesAssumption DEF Init
<1> QED
    BY <1>1, <1>2, <1>3, EmptyType DEF Init, TypeOK

(* The threads, the lists they share and their answers are always of their types. *)
THEOREM TypeCorrect == Spec => []TypeOK
    BY InitType, TypeInductive, PTL DEF Spec

-----------------------------------------------------------------------------
(* Copies of a version *)

\* Outside the loops, a thread is before the first branch.
AtStart == \A t \in Threads : pc[t] \notin {"clear", "targets", "encode"} => at[t] = 1

\* The call of t has cleared the list of b and is not yet at the loop that fills it.
Cleared(t, b) ==
    \/ pc[t] = "read"
    \/ pc[t] = "clear" /\ \E i \in 1..at[t] - 1 : BranchSeq[i] = b

\* What each thread may have met so far: <<t, k>> is one meeting with v.
Meetings(b, v) ==
    {m \in Threads \X (1..Repeats) :
        ~Cleared(m[1], b) /\ (pc[m[1]] = "fill" => m[2] > todo[m[1]][v])}

(* Each copy of a version in a list is paid for by a meeting of its own. *)
CopiesPaid ==
    \A b \in BranchSet : \A v \in Versions :
        Cardinality(Copies(b, v)) <= Cardinality(Meetings(b, v))

CopiesInv == TypeOK /\ AtStart /\ CopiesPaid

LEMMA MeetingsFinite ==
    ASSUME NEW b, NEW v
    PROVE  /\ IsFiniteSet(Meetings(b, v))
           /\ Cardinality(Meetings(b, v)) \in Nat
           /\ Cardinality(Meetings(b, v)) <= Cardinality(Threads) * Repeats
<1>1. IsFiniteSet(1..Repeats) /\ Cardinality(1..Repeats) = Repeats
    BY BranchesAssumption, FS_Interval
<1>2. /\ IsFiniteSet(Threads \X (1..Repeats))
      /\ Cardinality(Threads \X (1..Repeats)) = Cardinality(Threads) * Repeats
    BY <1>1, BranchesAssumption, FS_Product
<1>3. Meetings(b, v) \in SUBSET (Threads \X (1..Repeats))
    BY DEF Meetings
<1> QED
    BY <1>2, <1>3, FS_Subset, FS_CardinalityType

LEMMA MeetingsFiniteNext ==
    ASSUME NEW b, NEW v
    PROVE  IsFiniteSet(Meetings(b, v)') /\ Cardinality(Meetings(b, v)') \in Nat
<1>1. IsFiniteSet(1..Repeats)
    BY BranchesAssumption, FS_Interval
<1>2. IsFiniteSet(Threads \X (1..Repeats))
    BY <1>1, BranchesAssumption, FS_Product
<1>3. Meetings(b, v)' \in SUBSET (Threads \X (1..Repeats))
    BY DEF Meetings
<1> QED
    BY <1>2, <1>3, FS_Subset, FS_CardinalityType

LEMMA CopiesFinite ==
    ASSUME TypeOK, NEW b \in BranchSet, NEW v
    PROVE  IsFiniteSet(Copies(b, v)) /\ Cardinality(Copies(b, v)) \in Nat
<1>1. versions[b] \in Seq(Versions)
    BY DEF TypeOK
<1>2. Len(versions[b]) \in Nat /\ DOMAIN versions[b] = 1..Len(versions[b])
    BY <1>1
<1>3. IsFiniteSet(1..Len(versions[b]))
    BY <1>2, FS_Interval
<1>4. Copies(b, v) \in SUBSET (1..Len(versions[b]))
    BY <1>2 DEF Copies
<1> QED
    BY <1>3, <1>4, FS_Subset, FS_CardinalityType

\* Nothing that is paid for is lost when the lists stay and the meetings do.
LEMMA StillPaid ==
    ASSUME NEW b \in BranchSet, NEW v \in Versions, TypeOK, CopiesPaid,
           Copies(b, v)' = Copies(b, v), Meetings(b, v) \subseteq Meetings(b, v)'
    PROVE  Cardinality(Copies(b, v)') <= Cardinality(Meetings(b, v)')
<1>2. IsFiniteSet(Meetings(b, v)') /\ Cardinality(Meetings(b, v)') \in Nat
    BY MeetingsFiniteNext
<1>3. Cardinality(Meetings(b, v)) <= Cardinality(Meetings(b, v)')
    BY <1>2, FS_Subset
<1>4. /\ Cardinality(Copies(b, v)) \in Nat
      /\ Cardinality(Meetings(b, v)) \in Nat
      /\ Cardinality(Copies(b, v)) <= Cardinality(Meetings(b, v))
    BY CopiesFinite, MeetingsFinite DEF CopiesPaid
<1> QED
    BY <1>2, <1>3, <1>4

\* A thread that neither starts nor clears keeps its meetings.
LEMMA MeetingsStay ==
    ASSUME TypeOK, NEW b, NEW v \in Versions,
           \A u \in Threads :
               /\ Cleared(u, b)' => Cleared(u, b)
               /\ \/ pc'[u] # "fill"
                  \/ pc[u] = "read"
                  \/ pc[u] = "fill" /\ todo'[u][v] \in 0..todo[u][v]
    PROVE  Meetings(b, v) \subseteq Meetings(b, v)'
<1> SUFFICES ASSUME NEW m \in Meetings(b, v) PROVE m \in Meetings(b, v)'
    OBVIOUS
<1>1. /\ m \in Threads \X (1..Repeats) /\ m[1] \in Threads
      /\ ~Cleared(m[1], b) /\ (pc[m[1]] = "fill" => m[2] > todo[m[1]][v])
    BY DEF Meetings
<1>2. ~Cleared(m[1], b)' /\ pc[m[1]] # "read"
    BY <1>1 DEF Cleared
<1>3. m[2] \in Nat /\ todo[m[1]][v] \in Nat
    BY <1>1, ThreadType
<1>4. pc'[m[1]] = "fill" => m[2] > todo'[m[1]][v]
    BY <1>1, <1>2, <1>3
<1> QED
    BY <1>1, <1>2, <1>4 DEF Meetings

\* A thread that neither clears nor fills, nor starts to.
LEMMA AsideKept ==
    ASSUME CopiesInv, NEW t \in Threads, UNCHANGED <<versions, todo>>,
           \A u \in Threads \ {t} : pc'[u] = pc[u] /\ at'[u] = at[u],
           pc'[t] \notin {"read", "fill"}, pc'[t] = "clear" => at'[t] = 1
    PROVE  CopiesPaid'
<1>1. ASSUME NEW b \in BranchSet, NEW v \in Versions
      PROVE  Cardinality(Copies(b, v)') <= Cardinality(Meetings(b, v)')
    <2>1. ASSUME NEW u \in Threads
          PROVE  /\ Cleared(u, b)' => Cleared(u, b)
                 /\ pc'[u] # "fill" \/ (pc[u] = "fill" /\ todo'[u][v] \in 0..todo[u][v])
        <3>1. todo[u][v] \in Nat /\ todo' = todo
            BY ThreadType DEF CopiesInv
        <3> QED
            BY <2>1, <3>1 DEF Cleared
    <2>2. Meetings(b, v) \subseteq Meetings(b, v)'
        BY <2>1, MeetingsStay DEF CopiesInv
    <2>3. Copies(b, v)' = Copies(b, v)
        BY DEF Copies
    <2> QED
        BY <2>2, <2>3, StillPaid DEF CopiesInv
<1> QED
    BY <1>1 DEF CopiesPaid

LEMMA AtStartKept == TypeOK /\ AtStart /\ [Next]_vars => AtStart'
<1> SUFFICES ASSUME TypeOK, AtStart, [Next]_vars PROVE AtStart'
    OBVIOUS
<1>1. CASE UNCHANGED vars \/ OtherReload
    BY <1>1 DEF AtStart, vars, OtherReload
<1>2. ASSUME NEW t \in Threads, Generating(t) PROVE AtStart'
    <2>1. pc \in [Threads -> Places] /\ at \in [Threads -> 1..Len(BranchSeq)] /\ AtStart
        BY DEF TypeOK, Places
    <2> QED
        BY <1>2, <2>1
        DEF AtStart, Generating, Call, Clear, Read, Fill, Filled, SetTargets, Encode, Answered,
            NextBranch, Goto
<1> QED
    BY <1>1, <1>2 DEF Next

LEMMA CopiesInductive == CopiesInv /\ [Next]_vars => CopiesInv'
<1> SUFFICES ASSUME CopiesInv, [Next]_vars PROVE CopiesInv'
    OBVIOUS
<1>0. TypeOK' /\ AtStart'
    BY TypeInductive, AtStartKept DEF CopiesInv
<1>1. /\ pc \in [Threads -> Places] /\ at \in [Threads -> 1..Len(BranchSeq)]
      /\ TypeOK /\ AtStart /\ CopiesPaid
    BY DEF CopiesInv, TypeOK, Places
<1>2. CASE UNCHANGED vars \/ OtherReload
    <2>1. UNCHANGED <<versions, pc, at, todo>>
        BY <1>2 DEF vars, OtherReload
    <2>2. ASSUME NEW b \in BranchSet, NEW v \in Versions
          PROVE  Cardinality(Copies(b, v)') <= Cardinality(Meetings(b, v)')
        <3>1. Copies(b, v)' = Copies(b, v) /\ Meetings(b, v)' = Meetings(b, v)
            BY <2>1 DEF Copies, Meetings, Cleared
        <3> QED
            BY <1>1, <3>1 DEF CopiesPaid
    <2> QED
        BY <1>0, <2>2 DEF CopiesInv, CopiesPaid
<1>3. ASSUME NEW t \in Threads, Call(t) \/ Filled(t) \/ SetTargets(t) \/ Encode(t) \/ Answered(t)
      PROVE  CopiesPaid'
    <2>1. /\ UNCHANGED <<versions, todo>>
          /\ \A u \in Threads \ {t} : pc'[u] = pc[u] /\ at'[u] = at[u]
          /\ pc'[t] \notin {"read", "fill"}
          /\ pc'[t] = "clear" => at'[t] = 1
        BY <1>1, <1>3
        DEF AtStart, Call, Filled, SetTargets, Encode, Answered, NextBranch, Goto
    <2> QED
        BY <2>1, AsideKept
<1>4. ASSUME NEW t \in Threads, Read(t) PROVE CopiesPaid'
    <2>1. ASSUME NEW b \in BranchSet, NEW v \in Versions
          PROVE  Cardinality(Copies(b, v)') <= Cardinality(Meetings(b, v)')
        <3>1. /\ \A u \in Threads \ {t} : pc'[u] = pc[u] /\ todo'[u] = todo[u]
              /\ pc[t] = "read" /\ pc'[t] = "fill" /\ at' = at /\ versions' = versions
            BY <1>1, <1>4 DEF Read, Goto, TypeOK
        <3>2. ASSUME NEW u \in Threads
              PROVE  /\ Cleared(u, b)' => Cleared(u, b)
                     /\ \/ pc'[u] # "fill"
                        \/ pc[u] = "read"
                        \/ pc[u] = "fill" /\ todo'[u][v] \in 0..todo[u][v]
            <4>1. todo[u][v] \in Nat
                BY <1>1, ThreadType
            <4> QED
                BY <3>1, <4>1 DEF Cleared
        <3>3. Meetings(b, v) \subseteq Meetings(b, v)'
            BY <1>1, <3>2, MeetingsStay
        <3>4. Copies(b, v)' = Copies(b, v)
            BY <3>1 DEF Copies
        <3> QED
            BY <1>1, <3>3, <3>4, StillPaid
    <2> QED
        BY <2>1 DEF CopiesPaid
<1>5. ASSUME NEW t \in Threads, Clear(t) PROVE CopiesPaid'
    <2> DEFINE cleared == BranchSeq[at[t]]
    <2>0. /\ pc[t] = "clear" /\ todo' = todo /\ NextBranch(t, "clear", "read")
          /\ versions' = [versions EXCEPT ![cleared] = <<>>]
          /\ cleared \in BranchSet
        BY <1>1, <1>5, ThreadType DEF Clear
    <2>1. ASSUME NEW b \in BranchSet, NEW v \in Versions
          PROVE  Cardinality(Copies(b, v)') <= Cardinality(Meetings(b, v)')
        <3>1. CASE b = cleared
            <4>1. versions'[b] = <<>>
                BY <1>1, <2>0, <3>1 DEF TypeOK
            <4>2. Copies(b, v)' = {}
                BY <4>1 DEF Copies
            <4>3. Cardinality(Meetings(b, v)') \in Nat
                BY MeetingsFiniteNext
            <4> QED
                BY <4>2, <4>3, FS_EmptySet
        <3>2. CASE b # cleared
            <4>1. versions'[b] = versions[b]
                BY <1>1, <2>0, <3>2 DEF TypeOK
            <4>2. ASSUME NEW u \in Threads
                  PROVE  /\ Cleared(u, b)' => Cleared(u, b)
                         /\ pc'[u] # "fill" \/ (pc[u] = "fill" /\ todo'[u][v] \in 0..todo[u][v])
                <5>0. todo[u][v] \in Nat
                    BY <1>1, ThreadType
                <5>1. CASE u # t
                    BY <1>1, <2>0, <5>0, <5>1 DEF NextBranch, Goto, Cleared
                <5>2. CASE u = t
                    <6>1. at[t] \in 1..Len(BranchSeq) /\ Len(BranchSeq) \in Nat
                        BY <1>1, ThreadType
                    <6>2. CASE at[t] < Len(BranchSeq)
                        <7>1. pc'[t] = "clear" /\ at'[t] = at[t] + 1
                            BY <1>1, <2>0, <6>2 DEF NextBranch, Goto
                        <7>2. ASSUME NEW i \in 1..at[t], BranchSeq[i] = b PROVE i \in 1..at[t] - 1
                            BY <3>2, <6>1, <7>2
                        <7> QED
                            BY <2>0, <5>2, <6>1, <7>1, <7>2 DEF Cleared
                    <6>3. CASE ~(at[t] < Len(BranchSeq))
                        <7>1. pc'[t] = "read" /\ at[t] = Len(BranchSeq)
                            BY <1>1, <2>0, <6>1, <6>3 DEF NextBranch, Goto
                        <7>2. PICK i \in 1..Len(BranchSeq) : BranchSeq[i] = b
                            BY BranchSeqProperties
                        <7>3. i \in 1..at[t] - 1
                            BY <3>2, <6>1, <7>1, <7>2
                        <7> QED
                            BY <2>0, <5>2, <7>1, <7>2, <7>3 DEF Cleared
                    <6> QED
                        BY <6>2, <6>3
                <5> QED
                    BY <5>1, <5>2
            <4>3. Meetings(b, v) \subseteq Meetings(b, v)'
                BY <1>1, <4>2, MeetingsStay
            <4>4. Copies(b, v)' = Copies(b, v)
                BY <4>1 DEF Copies
            <4> QED
                BY <1>1, <4>3, <4>4, StillPaid
        <3> QED
            BY <3>1, <3>2
    <2> QED
        BY <2>1 DEF CopiesPaid
<1>6. ASSUME NEW t \in Threads, Fill(t) PROVE CopiesPaid'
    <2>1. PICK v \in Versions :
              /\ todo[t][v] > 0
              /\ versions' = [versions EXCEPT ![BranchOf[v]] = Append(@, v)]
              /\ todo' = [todo EXCEPT ![t][v] = @ - 1]
        BY <1>6 DEF Fill, MayBeNext
    <2>2. pc[t] = "fill" /\ UNCHANGED <<pc, at>>
        BY <1>6 DEF Fill
    <2> DEFINE of == BranchOf[v]
               old == versions[of]
    <2>3. ASSUME NEW b \in BranchSet, NEW u \in Versions
          PROVE  Meetings(b, u) \subseteq Meetings(b, u)'
        <3>1. ASSUME NEW w \in Threads
              PROVE  /\ Cleared(w, b)' => Cleared(w, b)
                     /\ pc'[w] # "fill" \/ (pc[w] = "fill" /\ todo'[w][u] \in 0..todo[w][u])
            <4>1. todo[w][u] \in Nat /\ todo[t][v] \in Nat
                BY <1>1, ThreadType
            <4>2. todo'[w][u] \in 0..todo[w][u]
                BY <1>1, <2>1, <4>1, VersionTaken
            <4> QED
                BY <2>2, <4>2 DEF Cleared
        <3> QED
            BY <1>1, <3>1, MeetingsStay
    <2>4. /\ of \in BranchSet /\ old \in Seq(Versions)
          /\ versions'[of] = Append(old, v)
          /\ \A b \in BranchSet \ {of} : versions'[b] = versions[b]
        BY <1>1, <2>1, VersionAdded
    <2>5. ASSUME NEW b \in BranchSet, NEW u \in Versions, b # of \/ u # v
          PROVE  Cardinality(Copies(b, u)') <= Cardinality(Meetings(b, u)')
        <3>1. CASE b # of
            BY <1>1, <2>3, <2>4, <3>1, StillPaid DEF Copies
        <3>2. CASE b = of
            <4>1. Copies(b, u)' = Copies(b, u)
                BY <2>4, <2>5, <3>2, AppendVersion DEF Copies
            <4> QED
                BY <1>1, <2>3, <4>1, StillPaid
        <3> QED
            BY <3>1, <3>2
    <2>6. Cardinality(Copies(of, v)') <= Cardinality(Meetings(of, v)')
        <3> DEFINE m == <<t, todo[t][v]>>
        <3>1. Copies(of, v)' = Copies(of, v) \cup {Len(old) + 1}
            BY <2>4, AppendVersion DEF Copies
        <3>2. Len(old) + 1 \notin Copies(of, v)
            BY <2>4 DEF Copies
        <3>3. /\ IsFiniteSet(Copies(of, v)) /\ Cardinality(Copies(of, v)) \in Nat
              /\ IsFiniteSet(Meetings(of, v)) /\ Cardinality(Meetings(of, v)) \in Nat
            BY <1>1, <2>4, CopiesFinite, MeetingsFinite
        <3>4. Cardinality(Copies(of, v)') = Cardinality(Copies(of, v)) + 1
            BY <3>1, <3>2, <3>3, FS_AddElement
        <3>5. todo[t][v] \in 1..Repeats /\ todo'[t][v] < todo[t][v]
            <4>1. todo[t][v] \in 0..Repeats /\ Repeats \in Nat
                BY <1>1, ThreadType
            <4>2. todo'[t][v] = todo[t][v] - 1
                BY <1>1, <2>1, VersionTaken
            <4> QED
                BY <2>1, <4>1, <4>2
        <3>6. m \notin Meetings(of, v) /\ m \in Meetings(of, v)'
            BY <2>2, <3>5 DEF Meetings, Cleared
        <3>7. IsFiniteSet(Meetings(of, v)') /\ Cardinality(Meetings(of, v)') \in Nat
            BY MeetingsFiniteNext
        <3>8. Cardinality(Meetings(of, v) \cup {m}) = Cardinality(Meetings(of, v)) + 1
            BY <3>3, <3>6, FS_AddElement
        <3>9. Meetings(of, v) \cup {m} \in SUBSET Meetings(of, v)'
            BY <2>3, <2>4, <3>6
        <3>10. Cardinality(Meetings(of, v) \cup {m}) <= Cardinality(Meetings(of, v)')
            BY <3>7, <3>9, FS_Subset
        <3> QED
            BY <1>1, <2>4, <3>3, <3>4, <3>7, <3>8, <3>10 DEF CopiesPaid
    <2> QED
        BY <2>5, <2>6 DEF CopiesPaid
<1> QED
    BY <1>0, <1>2, <1>3, <1>4, <1>5, <1>6 DEF CopiesInv, Next, Generating

(* However calls overlap, no list has a version more often than each thread's *)
(* latest call can have met it.                                               *)
THEOREM CopiesAlwaysBounded == Spec => []CopiesBounded
<1>1. Init => CopiesInv
    <2> SUFFICES ASSUME Init PROVE CopiesInv
        OBVIOUS
    <2>1. TypeOK
        BY InitType
    <2>2. AtStart
        BY DEF Init, AtStart
    <2>3. ASSUME NEW b \in BranchSet, NEW v \in Versions
          PROVE  Cardinality(Copies(b, v)) <= Cardinality(Meetings(b, v))
        <3>1. Copies(b, v) = {}
            BY DEF Init, Copies
        <3> QED
            BY <3>1, FS_EmptySet, MeetingsFinite
    <2> QED
        BY <2>1, <2>2, <2>3 DEF CopiesInv, CopiesPaid
<1>2. CopiesInv => CopiesBounded
    <2> SUFFICES ASSUME CopiesInv, NEW b \in BranchSet, NEW v \in Versions
                 PROVE  Cardinality(Copies(b, v)) <= Cardinality(Threads) * Repeats
        BY DEF CopiesBounded
    <2>1. /\ Cardinality(Copies(b, v)) \in Nat /\ Cardinality(Meetings(b, v)) \in Nat
          /\ Cardinality(Copies(b, v)) <= Cardinality(Meetings(b, v))
          /\ Cardinality(Meetings(b, v)) <= Cardinality(Threads) * Repeats
        BY CopiesFinite, MeetingsFinite DEF CopiesInv, CopiesPaid
    <2>2. Cardinality(Threads) \in Nat /\ Repeats \in Nat
        BY BranchesAssumption, FS_CardinalityType
    <2>3. Cardinality(Threads) * Repeats \in Nat
        BY <2>2
    <2> QED
        BY <2>1, <2>3
<1> QED
    BY <1>1, <1>2, CopiesInductive, PTL DEF Spec

-----------------------------------------------------------------------------
(* A call on its own *)

Reply(b) == [versions |-> versions[b], targets |-> targets[b]]

\* How far the loops of a call have got.
ClearedSoFar(t) ==
    /\ pc[t] = "clear" => \A i \in 1..at[t] - 1 : versions[BranchSeq[i]] = <<>>
    /\ pc[t] = "read" => \A b \in BranchSet : versions[b] = <<>>

Appended(t) == {v \in Versions : todo[t][v] = 0}

FilledSoFar(t) ==
    /\ \A v \in Versions : todo[t][v] \in 0..1
    /\ \A u \in Appended(t) : \A v \in Versions \ Appended(t) : Place(u) < Place(v)
    /\ \A b \in BranchSet : NewestFirst(versions[b], VersionsOf(b) \cap Appended(t))

TargetsSoFar(t) ==
    /\ pc[t] = "targets" =>
           \A i \in 1..at[t] - 1 : targets[BranchSeq[i]] = Head(versions[BranchSeq[i]])
    /\ pc[t] \in {"encode", "answered"} =>
           \A b \in BranchSet : targets[b] = Head(versions[b])

EncodedSoFar(t) ==
    /\ pc[t] = "encode" => \A i \in 1..at[t] - 1 : reply[t][BranchSeq[i]] = Reply(BranchSeq[i])
    /\ pc[t] = "answered" => \A b \in BranchSet : reply[t][b] = Reply(b)

Undisturbed(t) ==
    /\ \A u \in Threads \ {t} : pc[u] = "idle"
    /\ ClearedSoFar(t)
    /\ pc[t] = "fill" => FilledSoFar(t)
    /\ pc[t] \in {"targets", "encode", "answered"} =>
           \A b \in BranchSet : NewestFirst(versions[b], VersionsOf(b))
    /\ TargetsSoFar(t)
    /\ EncodedSoFar(t)
    /\ pc[t] = "no version" => \E b \in BranchSet : VersionsOf(b) = {}

(* A call that nothing has overlapped finds the lists as it left them. *)
AloneInv ==
    /\ TypeOK
    /\ AtStart
    /\ \A t \in Threads : alone[t] => pc[t] # "idle" /\ Undisturbed(t)

LEMMA PlaceProperties ==
    /\ \A v \in Versions : Place(v) \in Nat
    /\ \A u, v \in Versions : Place(u) = Place(v) => u = v
<1>1. ASSUME NEW v \in Versions PROVE Place(v) \in Nat /\ VersionSeq[Place(v)] = v
    <2>1. \E i \in DOMAIN VersionSeq : VersionSeq[i] = v
        BY DEF Versions, ToSet
    <2>2. Place(v) \in DOMAIN VersionSeq /\ VersionSeq[Place(v)] = v
        BY <2>1 DEF Place
    <2>3. DOMAIN VersionSeq \subseteq Nat
        BY BranchesAssumption
    <2> QED
        BY <2>2, <2>3
<1> QED
    BY <1>1

LEMMA NewestAppended ==
    ASSUME NEW s \in Seq(Versions), NEW v \in Versions, NEW S,
           NewestFirst(s, S), \A u \in S : Place(u) < Place(v)
    PROVE  NewestFirst(Append(s, v), S \cup {v})
<1>1. ToSet(Append(s, v)) = S \cup {v}
    BY AppendVersion DEF NewestFirst
<1>2. ASSUME NEW i \in DOMAIN Append(s, v), NEW j \in DOMAIN Append(s, v), i < j
      PROVE  Place(Append(s, v)[i]) < Place(Append(s, v)[j])
    <2>1. /\ Len(s) \in Nat /\ DOMAIN s = 1..Len(s) /\ i \in 1..Len(s) /\ j \in 1..Len(s) + 1
          /\ Append(s, v)[i] = s[i] /\ s[i] \in S
        BY <1>2, AppendVersion DEF NewestFirst, ToSet
    <2>2. CASE j \in 1..Len(s)
        BY <1>2, <2>1, <2>2, AppendVersion DEF NewestFirst
    <2>3. CASE j = Len(s) + 1
        BY <2>1, <2>3, AppendVersion
    <2> QED
        BY <2>1, <2>2, <2>3
<1> QED
    BY <1>1, <1>2 DEF NewestFirst

\* A call that is on its own makes every step itself.
LEMMA OwnStep ==
    ASSUME AloneInv, NEW s \in Threads, Generating(s), NEW t \in Threads, alone'[t]
    PROVE  s = t /\ (Call(t) \/ alone[t])
<1>1. /\ alone \in [Threads -> BOOLEAN] /\ pc \in [Threads -> Places]
      /\ \A u \in Threads : alone[u] => pc[u] # "idle" /\ Undisturbed(u)
    BY DEF AloneInv, TypeOK, Places
<1>2. CASE Call(s)
    BY <1>2 DEF Call
<1>3. CASE ~Call(s)
    <2>1. alone[t] /\ pc[s] # "idle"
        BY <1>1, <1>3
        DEF Generating, Clear, Read, Fill, Filled, SetTargets, Encode, Answered
    <2>2. s = t
        BY <1>1, <2>1 DEF Undisturbed
    <2> QED
        BY <2>1, <2>2
<1> QED
    BY <1>2, <1>3

LEMMA CallAlone ==
    ASSUME AloneInv, NEW t \in Threads, Call(t), alone'[t]
    PROVE  pc'[t] # "idle" /\ Undisturbed(t)'
<1>1. pc \in [Threads -> Places] /\ at[t] = 1 /\ pc' = [pc EXCEPT ![t] = "clear"] /\ at' = at
    BY DEF AloneInv, TypeOK, Places, AtStart, Call, Goto
<1>2. \A u \in Threads \ {t} : pc'[u] = "idle"
    BY <1>1 DEF Call
<1>3. pc'[t] = "clear" /\ at'[t] = 1
    BY <1>1
<1> QED
    BY <1>2, <1>3 DEF Undisturbed, ClearedSoFar, TargetsSoFar, EncodedSoFar

\* What a step of a loop over the branches does.
LEMMA NextBranchAlone ==
    ASSUME TypeOK, NEW t \in Threads, NEW place \in Places, NEW after \in Places,
           NextBranch(t, place, after)
    PROVE  /\ \A u \in Threads \ {t} : pc'[u] = pc[u]
           /\ \/ pc'[t] = place /\ at'[t] = at[t] + 1
              \/ /\ pc'[t] = after /\ at'[t] = 1
                 /\ \A b \in BranchSet : \E i \in 1..at[t] : b = BranchSeq[i]
<1>1. /\ pc \in [Threads -> Places] /\ at \in [Threads -> 1..Len(BranchSeq)]
      /\ at[t] \in 1..Len(BranchSeq) /\ Len(BranchSeq) \in Nat
    BY ThreadType DEF TypeOK, Places
<1>2. CASE at[t] < Len(BranchSeq)
    BY <1>1, <1>2 DEF NextBranch, Goto
<1>3. CASE ~(at[t] < Len(BranchSeq))
    <2>1. at[t] = Len(BranchSeq)
        BY <1>1, <1>3
    <2>2. pc' = [pc EXCEPT ![t] = after] /\ at' = [at EXCEPT ![t] = 1]
        BY <1>3 DEF NextBranch, Goto
    <2> QED
        BY <1>1, <2>1, <2>2, BranchSeqProperties
<1> QED
    BY <1>2, <1>3

LEMMA ClearAlone ==
    ASSUME AloneInv, NEW t \in Threads, Clear(t), alone[t]
    PROVE  pc'[t] # "idle" /\ Undisturbed(t)'
<1> DEFINE b == BranchSeq[at[t]]
<1>1. /\ TypeOK /\ Undisturbed(t) /\ pc[t] = "clear" /\ NextBranch(t, "clear", "read")
      /\ versions' = [versions EXCEPT ![b] = <<>>]
    BY DEF AloneInv, Clear
<1>2. /\ \A u \in Threads \ {t} : pc'[u] = pc[u]
      /\ \/ pc'[t] = "clear" /\ at'[t] = at[t] + 1
         \/ pc'[t] = "read" /\ \A c \in BranchSet : \E i \in 1..at[t] : c = BranchSeq[i]
    BY <1>1, NextBranchAlone DEF Places
<1>3. at[t] \in 1..Len(BranchSeq) /\ Len(BranchSeq) \in Nat
    BY <1>1, ThreadType
<1>4. ASSUME NEW i \in 1..at[t] PROVE versions'[BranchSeq[i]] = <<>>
    <2>1. i \in 1..Len(BranchSeq) /\ BranchSeq[i] \in BranchSet
        BY <1>3, BranchSeqProperties
    <2>2. i = at[t] \/ i \in 1..at[t] - 1
        BY <1>3
    <2> QED
        BY <1>1, <2>1, <2>2 DEF TypeOK, Undisturbed, ClearedSoFar
<1>5. ClearedSoFar(t)'
    BY <1>2, <1>3, <1>4 DEF ClearedSoFar
<1> QED
    BY <1>1, <1>2, <1>5 DEF Undisturbed, TargetsSoFar, EncodedSoFar

LEMMA ReadAlone ==
    ASSUME AloneInv, NEW t \in Threads, Read(t), alone[t]
    PROVE  pc'[t] # "idle" /\ Undisturbed(t)'
<1>1. /\ TypeOK /\ Undisturbed(t) /\ pc[t] = "read" /\ UNCHANGED versions
      /\ pc \in [Threads -> Places] /\ pc' = [pc EXCEPT ![t] = "fill"]
    BY DEF AloneInv, Read, Goto, TypeOK, Places
<1>2. pc'[t] = "fill" /\ \A u \in Threads \ {t} : pc'[u] = pc[u]
    BY <1>1
<1>3. \A v \in Versions : todo'[t][v] = 1
    BY <1>1 DEF Read, TypeOK
<1>4. Appended(t)' = {}
    BY <1>3 DEF Appended
<1>5. ASSUME NEW b \in BranchSet PROVE NewestFirst(versions[b], VersionsOf(b) \cap {})
    <2>1. versions[b] = <<>>
        BY <1>1 DEF Undisturbed, ClearedSoFar
    <2> QED
        BY <2>1, NothingInEmpty DEF NewestFirst
<1>6. FilledSoFar(t)'
    BY <1>1, <1>3, <1>4, <1>5 DEF FilledSoFar, NewestFirst
<1> QED
    BY <1>1, <1>2, <1>6 DEF Undisturbed, ClearedSoFar, TargetsSoFar, EncodedSoFar

LEMMA FillAlone ==
    ASSUME AloneInv, NEW t \in Threads, Fill(t), alone[t]
    PROVE  pc'[t] # "idle" /\ Undisturbed(t)'
<1>1. /\ TypeOK /\ Undisturbed(t) /\ pc[t] = "fill" /\ UNCHANGED pc /\ FilledSoFar(t)
    BY DEF AloneInv, Fill, Undisturbed
<1>2. PICK v \in Versions :
          /\ todo[t][v] > 0
          /\ \A u \in Versions : todo[t][u] > 0 => Place(v) <= Place(u)
          /\ versions' = [versions EXCEPT ![BranchOf[v]] = Append(@, v)]
          /\ todo' = [todo EXCEPT ![t][v] = @ - 1]
    BY DEF Fill, MayBeNext
<1> DEFINE of == BranchOf[v]
<1>3. /\ of \in BranchSet /\ versions[of] \in Seq(Versions)
      /\ versions'[of] = Append(versions[of], v)
      /\ \A b \in BranchSet \ {of} : versions'[b] = versions[b]
    BY <1>1, <1>2, VersionAdded
<1>4. todo'[t][v] = todo[t][v] - 1 /\ \A u \in Versions \ {v} : todo'[t][u] = todo[t][u]
    BY <1>1, <1>2, VersionTaken
<1>5. todo[t][v] = 1 /\ todo'[t][v] = 0
    BY <1>1, <1>2, <1>4 DEF FilledSoFar
<1>6. \A u \in Versions : todo'[t][u] \in 0..1
    BY <1>1, <1>4, <1>5 DEF FilledSoFar
<1>7. Appended(t)' = Appended(t) \cup {v} /\ v \notin Appended(t)
    BY <1>4, <1>5 DEF Appended
<1>8. ASSUME NEW u \in Appended(t)', NEW w \in Versions \ Appended(t)' PROVE Place(u) < Place(w)
    <2>1. u \in Versions /\ w \in Versions /\ w # v /\ w \notin Appended(t)
        BY <1>7 DEF Appended
    <2>2. CASE u \in Appended(t)
        BY <1>1, <2>1, <2>2 DEF FilledSoFar
    <2>3. CASE u = v
        <3>1. todo[t][w] \in 0..1 /\ todo[t][w] # 0
            BY <1>1, <2>1 DEF FilledSoFar, Appended
        <3>2. Place(v) <= Place(w)
            BY <1>2, <2>1, <3>1
        <3> QED
            BY <2>1, <2>3, <3>2, PlaceProperties
    <2> QED
        BY <1>7, <2>2, <2>3
<1>9. ASSUME NEW b \in BranchSet
      PROVE  NewestFirst(versions'[b], VersionsOf(b) \cap Appended(t)')
    <2>1. NewestFirst(versions[b], VersionsOf(b) \cap Appended(t))
        BY <1>1 DEF FilledSoFar
    <2>2. CASE b = of
        <3>1. VersionsOf(b) \cap Appended(t)' = (VersionsOf(b) \cap Appended(t)) \cup {v}
            BY <1>7, <2>2 DEF VersionsOf
        <3>2. \A u \in VersionsOf(b) \cap Appended(t) : Place(u) < Place(v)
            BY <1>1, <1>7 DEF FilledSoFar
        <3>3. NewestFirst(Append(versions[b], v), (VersionsOf(b) \cap Appended(t)) \cup {v})
            BY <1>3, <2>1, <2>2, <3>2, NewestAppended
        <3> QED
            BY <1>3, <2>2, <3>1, <3>3
    <2>3. CASE b # of
        <3>1. VersionsOf(b) \cap Appended(t)' = VersionsOf(b) \cap Appended(t)
            BY <1>7, <2>3 DEF VersionsOf
        <3> QED
            BY <1>3, <2>1, <2>3, <3>1
    <2> QED
        BY <2>2, <2>3
<1>10. FilledSoFar(t)'
    <2>1. \A b \in BranchSet : NewestFirst(versions[b], VersionsOf(b) \cap Appended(t))'
        BY <1>9 DEF NewestFirst, VersionsOf, Place
    <2>2. \A u \in Appended(t)' : \A w \in Versions \ Appended(t)' : Place(u)' < Place(w)'
        BY <1>8 DEF Place
    <2> QED
        BY <1>6, <2>1, <2>2 DEF FilledSoFar
<1> QED
    BY <1>1, <1>10 DEF Undisturbed, ClearedSoFar, TargetsSoFar, EncodedSoFar

LEMMA FilledAlone ==
    ASSUME AloneInv, NEW t \in Threads, Filled(t), alone[t]
    PROVE  pc'[t] # "idle" /\ Undisturbed(t)'
<1>1. /\ TypeOK /\ Undisturbed(t) /\ FilledSoFar(t) /\ UNCHANGED versions
      /\ pc \in [Threads -> Places] /\ pc' = [pc EXCEPT ![t] = "targets"]
      /\ at'[t] = 1 /\ Appended(t) = Versions
    <2>1. TypeOK /\ Undisturbed(t) /\ AtStart /\ pc[t] = "fill"
        BY DEF AloneInv, Filled
    <2>2. FilledSoFar(t)
        BY <2>1 DEF Undisturbed
    <2>3. UNCHANGED <<versions, at>> /\ pc' = [pc EXCEPT ![t] = "targets"] /\ at[t] = 1
        BY <2>1 DEF Filled, Goto, AtStart
    <2>4. pc \in [Threads -> Places]
        BY <2>1 DEF TypeOK, Places
    <2>5. Appended(t) = Versions
        BY DEF Filled, Appended
    <2> QED
        BY <2>1, <2>2, <2>3, <2>4, <2>5
<1>2. pc'[t] = "targets" /\ \A u \in Threads \ {t} : pc'[u] = pc[u]
    BY <1>1
<1>3. \A b \in BranchSet : VersionsOf(b) \cap Versions = VersionsOf(b)
    BY DEF VersionsOf
<1>4. \A b \in BranchSet : NewestFirst(versions[b], VersionsOf(b))
    BY <1>1, <1>3 DEF FilledSoFar
<1>5. \A b \in BranchSet : NewestFirst(versions[b], VersionsOf(b))'
    BY <1>1, <1>4 DEF NewestFirst, VersionsOf, Place
<1>6. TargetsSoFar(t)'
    BY <1>1, <1>2 DEF TargetsSoFar
<1> QED
    BY <1>2, <1>1, <1>5, <1>6 DEF Undisturbed, ClearedSoFar, EncodedSoFar

LEMMA SetTargetsAlone ==
    ASSUME AloneInv, NEW t \in Threads, SetTargets(t), alone[t]
    PROVE  pc'[t] # "idle" /\ Undisturbed(t)'
<1> DEFINE b == BranchSeq[at[t]]
<1>1. /\ TypeOK /\ Undisturbed(t) /\ pc[t] = "targets" /\ UNCHANGED <<versions, reply>>
      /\ \A c \in BranchSet : NewestFirst(versions[c], VersionsOf(c))
      /\ pc \in [Threads -> Places]
    BY DEF AloneInv, SetTargets, TypeOK, Places, Undisturbed
<1>2. at[t] \in 1..Len(BranchSeq) /\ Len(BranchSeq) \in Nat /\ b \in BranchSet
    BY <1>1, ThreadType
<1>3. CASE versions[b] = <<>>
    <2>1. pc'[t] = "no version" /\ \A u \in Threads \ {t} : pc'[u] = pc[u]
        BY <1>1, <1>3 DEF SetTargets, Goto
    <2>2. VersionsOf(b) = {}
        BY <1>1, <1>2, <1>3, NothingInEmpty DEF NewestFirst
    <2> QED
        BY <1>1, <1>2, <2>1, <2>2
        DEF Undisturbed, ClearedSoFar, TargetsSoFar, EncodedSoFar, VersionsOf
<1>4. CASE Goto(t, "failed")
    <2>1. pc'[t] = "failed" /\ \A u \in Threads \ {t} : pc'[u] = pc[u]
        BY <1>1, <1>4 DEF Goto
    <2> QED
        BY <1>1, <2>1 DEF Undisturbed, ClearedSoFar, TargetsSoFar, EncodedSoFar
<1>5. CASE /\ targets' = [targets EXCEPT ![b] = Head(versions[b])]
           /\ NextBranch(t, "targets", "encode")
    <2>1. /\ \A u \in Threads \ {t} : pc'[u] = pc[u]
          /\ \/ pc'[t] = "targets" /\ at'[t] = at[t] + 1
             \/ /\ pc'[t] = "encode" /\ at'[t] = 1
                /\ \A c \in BranchSet : \E i \in 1..at[t] : c = BranchSeq[i]
        BY <1>1, <1>5, NextBranchAlone DEF Places
    <2>2. ASSUME NEW i \in 1..at[t] PROVE targets'[BranchSeq[i]] = Head(versions[BranchSeq[i]])
        <3>1. i \in 1..Len(BranchSeq) /\ BranchSeq[i] \in BranchSet
            BY <1>2, BranchSeqProperties
        <3>2. i = at[t] \/ i \in 1..at[t] - 1
            BY <1>2
        <3> QED
            BY <1>1, <1>5, <3>1, <3>2 DEF TypeOK, Undisturbed, TargetsSoFar
    <2>3. TargetsSoFar(t)'
        BY <1>1, <1>2, <2>1, <2>2 DEF TargetsSoFar
    <2>4. \A c \in BranchSet : NewestFirst(versions[c], VersionsOf(c))'
        BY <1>1 DEF NewestFirst, VersionsOf, Place
    <2>5. EncodedSoFar(t)' /\ ClearedSoFar(t)'
        BY <2>1 DEF EncodedSoFar, ClearedSoFar
    <2> QED
        BY <1>1, <2>1, <2>3, <2>4, <2>5 DEF Undisturbed
<1> QED
    BY <1>3, <1>4, <1>5 DEF SetTargets

LEMMA EncodeAlone ==
    ASSUME AloneInv, NEW t \in Threads, Encode(t), alone[t]
    PROVE  pc'[t] # "idle" /\ Undisturbed(t)'
<1> DEFINE b == BranchSeq[at[t]]
<1>1. /\ TypeOK /\ Undisturbed(t) /\ pc[t] = "encode" /\ UNCHANGED <<versions, targets>>
      /\ reply' = [reply EXCEPT ![t][b] = Reply(b)] /\ NextBranch(t, "encode", "answered")
    BY DEF AloneInv, Encode, Reply
<1>2. at[t] \in 1..Len(BranchSeq) /\ Len(BranchSeq) \in Nat /\ b \in BranchSet
    BY <1>1, ThreadType
<1>3. /\ \A u \in Threads \ {t} : pc'[u] = pc[u]
      /\ \/ pc'[t] = "encode" /\ at'[t] = at[t] + 1
         \/ pc'[t] = "answered" /\ \A c \in BranchSet : \E i \in 1..at[t] : c = BranchSeq[i]
    BY <1>1, NextBranchAlone DEF Places
<1>4. \A c : Reply(c)' = Reply(c)
    BY <1>1 DEF Reply
<1>5. ASSUME NEW i \in 1..at[t] PROVE reply'[t][BranchSeq[i]] = Reply(BranchSeq[i])
    <2>1. i \in 1..Len(BranchSeq) /\ BranchSeq[i] \in BranchSet
        BY <1>2, BranchSeqProperties
    <2>2. reply \in [Threads -> [BranchSet -> Branch]]
        BY <1>1 DEF TypeOK
    <2>3. i = at[t] \/ i \in 1..at[t] - 1
        BY <1>2
    <2> QED
        BY <1>1, <2>1, <2>2, <2>3 DEF Undisturbed, EncodedSoFar
<1>6. EncodedSoFar(t)'
    BY <1>2, <1>3, <1>4, <1>5 DEF EncodedSoFar
<1> QED
    BY <1>1, <1>3, <1>6 DEF Undisturbed, ClearedSoFar, TargetsSoFar, NewestFirst, VersionsOf

LEMMA AloneInductive == AloneInv /\ [Next]_vars => AloneInv'
<1> SUFFICES ASSUME AloneInv, [Next]_vars PROVE AloneInv'
    OBVIOUS
<1>1. TypeOK' /\ AtStart'
    BY TypeInductive, AtStartKept DEF AloneInv
<1>2. CASE UNCHANGED vars
    <2>1. ASSUME NEW t \in Threads, alone'[t] PROVE pc'[t] # "idle" /\ Undisturbed(t)'
        <3>1. pc[t] # "idle" /\ Undisturbed(t)
            BY <1>2, <2>1 DEF AloneInv, vars
        <3> QED
            BY <1>2, <3>1
            DEF vars, Undisturbed, ClearedSoFar, FilledSoFar, TargetsSoFar, EncodedSoFar, Reply, Appended
    <2> QED
        BY <1>1, <2>1 DEF AloneInv
<1>3. CASE OtherReload
    BY <1>1, <1>3 DEF AloneInv, OtherReload
<1>4. ASSUME NEW s \in Threads, Generating(s) PROVE AloneInv'
    <2>1. ASSUME NEW t \in Threads, alone'[t] PROVE pc'[t] # "idle" /\ Undisturbed(t)'
        <3>1. s = t /\ (Call(t) \/ alone[t])
            BY <1>4, <2>1, OwnStep
        <3>2. ~Answered(t)
            BY <2>1 DEF AloneInv, TypeOK, Answered
        <3> QED
            BY <1>4, <2>1, <3>1, <3>2, CallAlone, ClearAlone, ReadAlone, FillAlone, FilledAlone,
               SetTargetsAlone, EncodeAlone DEF Generating
    <2> QED
        BY <1>1, <2>1 DEF AloneInv
<1> QED
    BY <1>2, <1>3, <1>4 DEF Next

(* A call that overlaps no other, and no reload of the versions, answers each *)
(* branch with its versions, newest first and each once, and with the targets *)
(* of the newest, whatever overlapping calls have left behind.                *)
THEOREM AloneAlwaysComplete == Spec => []AloneComplete
<1>1. Init => AloneInv
    BY InitType DEF Init, AloneInv, AtStart
<1>2. AloneInv => AloneComplete
    <2> SUFFICES ASSUME AloneInv, NEW t \in Threads, alone[t]
                 PROVE  /\ pc[t] = "no version" => \E b \in BranchSet : VersionsOf(b) = {}
                        /\ pc[t] = "answered" =>
                               \A b \in BranchSet :
                                   /\ NewestFirst(reply[t][b].versions, VersionsOf(b))
                                   /\ reply[t][b].targets = Head(reply[t][b].versions)
        BY DEF AloneComplete
    <2>1. Undisturbed(t)
        BY DEF AloneInv
    <2>2. ASSUME pc[t] = "answered", NEW b \in BranchSet
          PROVE  /\ reply[t][b].versions = versions[b] /\ reply[t][b].targets = targets[b]
                 /\ NewestFirst(versions[b], VersionsOf(b)) /\ targets[b] = Head(versions[b])
        <3>1. reply[t][b] = Reply(b)
            BY <2>1, <2>2 DEF Undisturbed, EncodedSoFar
        <3> QED
            BY <2>1, <2>2, <3>1 DEF Undisturbed, TargetsSoFar, Reply
    <2> QED
        BY <2>1, <2>2 DEF Undisturbed
<1> QED
    BY <1>1, <1>2, AloneInductive, PTL DEF Spec
===============================================================================
