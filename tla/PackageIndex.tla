------------------------------ MODULE PackageIndex -----------------------------
(***************************************************************************)
(* The package indices that clients ask the server for before they ask for *)
(* an image: json_v1_target_index and json_v1_arch_index (asu/main.py),    *)
(* which download one file of upstream after the other, with the functions *)
(* of asu/util.py that read them.  Each download is a step: upstream may   *)
(* be rebuilt between any two, and may fail to answer any.                 *)
(*                                                                         *)
(* A directory of packages upstream has its list as index.json of version  *)
(* 2, or in the older formats: index.json of version 1, whose names may    *)
(* have an ABI version at the end, and opkg's Packages, which says what    *)
(* that suffix is.  The architecture that an index names is left out.      *)
(***************************************************************************)
EXTENDS Naturals, Sequences

CONSTANTS
    Releases,     \* the versions whose indices are asked for
    PathOf,       \* what is_post_kmod_split_build reads from the path of each
    Kernels,      \* linux_kernel, as parse_kernel_version joins it
    Feeds,        \* the feeds there may be in feeds.conf
    IndexNames,   \* names of packages, without an ABI version
    AbiNameOf,    \* the name with the ABI version, of each name
    PackageVersions, \* versions of packages
    Upstreams,    \* what upstream may have for a release
    MaxRebuilds   \* bound of the model: rebuilds upstream

Base     == "packages"
Dirs     == {Base} \cup Kernels \cup Feeds
AllNames == IndexNames \cup {AbiNameOf[n] : n \in IndexNames}
Formats  == {"none", "opkg", "v1", "both", "v2"}
NoKernel == ""

IsList(f, names) == DOMAIN f \subseteq names /\ f \in [DOMAIN f -> PackageVersions]

\* v1 and both have index.json of version 1; opkg and both have Packages, which
\* is not empty: parse_packages_file would read a package without a name from it.
IsUpstream(u) ==
    /\ u.kernel \in Kernels \cup {NoKernel}
    /\ u.feeds \in Seq(Feeds)
    /\ u.format \in [Dirs -> Formats]
    /\ DOMAIN u.packages = Dirs
    /\ \A d \in Dirs : IsList(u.packages[d], IndexNames)
    /\ \A d \in Dirs : u.format[d] \in {"opkg", "both"} => DOMAIN u.packages[d] # {}

\* The releases whose modules are not with the base, as the server's docs list them.
ModulesApart(v) ==
    LET p == PathOf[v]
    IN  \/ p.snapshots
        \/ p.major >= 24
        \/ p.major = 23 /\ (p.snapshot \/ Len(p.minor) > 1 \/ Head(p.minor) >= 6)

ASSUME PackageIndexAssumption ==
    /\ Base \notin Kernels \cup Feeds
    /\ NoKernel \notin Kernels
    /\ Kernels \cap Feeds = {}
    /\ DOMAIN AbiNameOf = IndexNames
    /\ Releases # {}
    /\ \A v \in Releases :
           /\ Upstreams[v] # {}
           /\ \A u \in Upstreams[v] : IsUpstream(u) /\ (u.kernel # NoKernel => ModulesApart(v))
    /\ MaxRebuilds \in Nat

VARIABLES
    upstream,     \* what is published for the release
    rebuilds,     \* rebuilds so far
    release,      \* the release of the request
    endpoint,     \* which index is asked for: a target's or an architecture's
    step,         \* where the request is
    dir,          \* the directory that parse_packages_file reads
    known,        \* its answer so far: whether it has "packages" at all
    found,        \* its answer's packages
    feeds,        \* the feeds that are yet to be read
    base,         \* base_packages has "packages"
    packages,     \* the packages of the answer so far
    calm,         \* history: upstream was not rebuilt, and answered, since the request
    past          \* history: what upstream published since the request

requestVars == <<release, endpoint, calm, past>>
fileVars    == <<dir, known, found>>
indexVars   == <<upstream, rebuilds, requestVars, step, fileVars, feeds, base, packages>>

Empty == [n \in {} |-> ""]

\* dict.update
Update(f, g) == [n \in DOMAIN f \cup DOMAIN g |-> IF n \in DOMAIN g THEN g[n] ELSE f[n]]

\* The names of an index.json of version 1.
AbiNamed(f) ==
    [n \in {AbiNameOf[m] : m \in DOMAIN f} |-> f[CHOOSE m \in DOMAIN f : AbiNameOf[m] = n]]

IndexTypeOK ==
    /\ rebuilds \in 0..MaxRebuilds
    /\ release \in Releases
    /\ upstream \in Upstreams[release]
    /\ endpoint \in {"none", "target", "arch"}
    /\ step \in {"idle", "index", "Packages", "merge", "kernel", "feeds", "answered", "error"}
    /\ dir \in Dirs
    /\ known \in BOOLEAN
    /\ IsList(found, AllNames)
    /\ feeds \in Seq(Feeds)
    /\ base \in BOOLEAN
    /\ IsList(packages, AllNames)
    /\ calm \in BOOLEAN
    /\ past \subseteq Upstreams[release]

ServerInit ==
    /\ rebuilds = 0
    /\ endpoint = "none"
    /\ step = "idle"
    /\ dir = Base
    /\ known = FALSE
    /\ found = Empty
    /\ feeds = <<>>
    /\ base = FALSE
    /\ packages = Empty
    /\ calm = TRUE
    /\ past = {upstream}

IndexInit ==
    /\ release \in Releases
    /\ upstream \in Upstreams[release]
    /\ ServerInit

-----------------------------------------------------------------------------
(* Upstream *)

Rebuild ==
    /\ rebuilds < MaxRebuilds
    /\ rebuilds' = rebuilds + 1
    /\ upstream' \in Upstreams[release] \ {upstream}
    /\ past' = past \cup {upstream'}
    /\ calm' = FALSE
    /\ UNCHANGED <<release, endpoint, step, fileVars, feeds, base, packages>>

-----------------------------------------------------------------------------
(* The server *)

\* Mutant of is_post_kmod_split_build: the last release before the split is off by one.
split_after(v) ==
    LET p == PathOf[v]
    IN  \/ p.snapshots
        \/ p.major >= 24
        \/ p.major = 23 /\ (p.snapshot \/ Head(p.minor) > 6)

\* The minor version is a sequence of digits, and is compared as a string with "6".
is_post_kmod_split_build(v) ==
    LET p == PathOf[v]
    IN  \/ p.snapshots
        \/ p.major >= 24
        \/ p.major = 23 /\ (p.snapshot \/ Head(p.minor) >= 6)

ReadDir(d) == dir' = d /\ step' = "index" /\ known' = FALSE /\ found' = Empty

TargetIndex ==
    /\ step = "idle"
    /\ endpoint' = "target"
    /\ calm' = TRUE
    /\ past' = {upstream}
    /\ ReadDir(Base)
    /\ UNCHANGED <<upstream, rebuilds, release, feeds, base, packages>>

(* feeds.conf; none when upstream has none or does not answer. *)
ArchIndex ==
    /\ step = "idle"
    /\ endpoint' = "arch"
    /\ step' = "feeds"
    /\ \/ feeds' = upstream.feeds /\ calm' = TRUE
       \/ feeds' = <<>> /\ calm' = FALSE
    /\ past' = {upstream}
    /\ UNCHANGED <<upstream, rebuilds, release, fileVars, base, packages>>

NextFeed ==
    /\ step = "feeds"
    /\ IF feeds = <<>>
       THEN step' = "answered" /\ UNCHANGED <<fileVars, feeds>>
       ELSE ReadDir(Head(feeds)) /\ feeds' = Tail(feeds)
    /\ UNCHANGED <<upstream, rebuilds, requestVars, base, packages>>

(* parse_packages_file: an index.json of version 2 is the answer; otherwise  *)
(* Packages is tried, and index.json of version 1, or nothing, is what is    *)
(* left when that is not there.                                              *)
GetIndex ==
    LET format == upstream.format[dir]
        list   == upstream.packages[dir]
    IN  /\ step = "index"
        /\ \/ /\ format = "v2"
              /\ known' = TRUE /\ found' = list /\ step' = "merge"
              /\ UNCHANGED calm
           \/ /\ format \in {"v1", "both"}
              /\ known' = TRUE /\ found' = AbiNamed(list) /\ step' = "Packages"
              /\ UNCHANGED calm
           \/ /\ format \in {"none", "opkg"}
              /\ step' = "Packages"
              /\ UNCHANGED <<known, found, calm>>
           \/ /\ calm' = FALSE
              /\ step' = "Packages"
              /\ UNCHANGED <<known, found>>
        /\ UNCHANGED <<upstream, rebuilds, release, endpoint, past, dir, feeds, base, packages>>

\* Mutant of GetPackages: a list that was found in version 1 is not replaced.
GetPackagesLast ==
    /\ step = "Packages"
    /\ step' = "merge"
    /\ \/ /\ upstream.format[dir] \in {"opkg", "both"} /\ ~known
          /\ known' = TRUE /\ found' = upstream.packages[dir]
          /\ UNCHANGED calm
       \/ /\ upstream.format[dir] \notin {"opkg", "both"} \/ known
          /\ UNCHANGED <<known, found, calm>>
       \/ calm' = FALSE /\ UNCHANGED <<known, found>>
    /\ UNCHANGED <<upstream, rebuilds, release, endpoint, past, dir, feeds, base, packages>>

GetPackages ==
    /\ step = "Packages"
    /\ step' = "merge"
    /\ \/ /\ upstream.format[dir] \in {"opkg", "both"}
          /\ known' = TRUE /\ found' = upstream.packages[dir]
          /\ UNCHANGED calm
       \/ /\ upstream.format[dir] \notin {"opkg", "both"}
          /\ UNCHANGED <<known, found, calm>>
       \/ calm' = FALSE /\ UNCHANGED <<known, found>>
    /\ UNCHANGED <<upstream, rebuilds, release, endpoint, past, dir, feeds, base, packages>>

(* What parse_packages_file returns is the base, or is merged with what      *)
(* there is; base_packages["packages"] raises when the base has none.        *)
Merge ==
    /\ step = "merge"
    /\ IF dir \in Kernels /\ ~base
       THEN step' = "error" /\ UNCHANGED <<base, packages>>
       ELSE /\ packages' = Update(packages, found)
            /\ IF dir = Base THEN base' = known ELSE UNCHANGED base
            /\ step' = CASE dir = Base /\ is_post_kmod_split_build(release) -> "kernel"
                         [] dir \in Feeds -> "feeds"
                         [] OTHER -> "answered"
    /\ UNCHANGED <<upstream, rebuilds, requestVars, fileVars, feeds>>

\* Mutant of GetKernel: the directory is read even if no kernel is known.
GetKernelUnchecked ==
    /\ step = "kernel"
    /\ \/ /\ ReadDir(upstream.kernel)
          /\ UNCHANGED calm
       \/ /\ ReadDir(NoKernel) /\ calm' = FALSE
    /\ UNCHANGED <<upstream, rebuilds, release, endpoint, past, feeds, base, packages>>

\* Mutant of GetKernel: without an answer, the kernel of an earlier request is taken.
GetKernelCached ==
    /\ step = "kernel"
    /\ \/ /\ upstream.kernel # NoKernel
          /\ ReadDir(upstream.kernel)
          /\ UNCHANGED calm
       \/ /\ \E k \in Kernels : ReadDir(k)
          /\ calm' = FALSE
    /\ UNCHANGED <<upstream, rebuilds, release, endpoint, past, feeds, base, packages>>

(* profiles.json, for the directory of the kernel's modules. *)
GetKernel ==
    /\ step = "kernel"
    /\ \/ /\ upstream.kernel # NoKernel
          /\ ReadDir(upstream.kernel)
          /\ UNCHANGED calm
       \/ /\ upstream.kernel = NoKernel
          /\ step' = "answered" /\ UNCHANGED <<fileVars, calm>>
       \/ /\ step' = "answered" /\ calm' = FALSE
          /\ UNCHANGED fileVars
    /\ UNCHANGED <<upstream, rebuilds, release, endpoint, past, feeds, base, packages>>

(* A download that raises is an internal error. *)
Raises ==
    /\ step \in {"index", "Packages", "kernel"}
    /\ step' = "error"
    /\ calm' = FALSE
    /\ UNCHANGED <<upstream, rebuilds, release, endpoint, past, fileVars, feeds, base, packages>>

Serve ==
    \/ TargetIndex \/ ArchIndex \/ NextFeed \/ GetIndex \/ GetPackages \/ Merge
    \/ GetKernel \/ Raises

IndexNext == Rebuild \/ Serve

IndexSpec == IndexInit /\ [][IndexNext]_indexVars

-----------------------------------------------------------------------------
(* Properties *)

\* What a directory lists, by names without the ABI version where it tells them.
ListOf(u, d) ==
    CASE u.format[d] = "none" -> Empty
      [] u.format[d] = "v1"   -> AbiNamed(u.packages[d])
      [] OTHER                -> u.packages[d]

\* What the first of some lists come to, by how many they are: the later one counts.
Merged(first, lists) ==
    LET of[i \in 0..Len(lists)] == IF i = 0 THEN first ELSE Update(of[i - 1], lists[i])
    IN  of

OfFeeds(u) == Merged(Empty, [i \in 1..Len(u.feeds) |-> ListOf(u, u.feeds[i])])[Len(u.feeds)]

Offered(u, e) ==
    IF e = "arch" THEN OfFeeds(u)
    ELSE IF u.kernel = NoKernel THEN ListOf(u, Base)
    ELSE Update(ListOf(u, Base), ListOf(u, u.kernel))

Single(v) == PathOf[v].snapshots \/ PathOf[v].snapshot \/ Len(PathOf[v].minor) = 1

(* When upstream stays as it is and answers, a target's index is all of its  *)
(* packages and the modules of its kernel, and an architecture's is all of   *)
(* its feeds; an error says that the target has no packages at all.  For     *)
(* minor versions of one digit, as 23.05 has them: "10" would come before    *)
(* "6", so that 23.05.10 would lose its modules.                             *)
IndexComplete ==
    calm /\ Single(release) =>
        /\ step = "answered" => packages = Offered(upstream, endpoint)
        /\ step = "error" => upstream.format[Base] = "none"

Published(n, d) ==
    \E u \in past :
        \/ n \in DOMAIN u.packages[d] /\ packages[n] = u.packages[d][n]
        \/ n \in DOMAIN AbiNamed(u.packages[d]) /\ packages[n] = AbiNamed(u.packages[d])[n]

(* Whatever is rebuilt or fails meanwhile, an index has only packages that   *)
(* upstream published since the request, at their versions, and the modules  *)
(* of one kernel only, which was the target's at some moment.                *)
IndexWasPublished ==
    /\ \A n \in DOMAIN packages : \E d \in Dirs : Published(n, d)
    /\ \E k \in {u.kernel : u \in past} :
           \A n \in DOMAIN packages : \E d \in ({Base, k} \cap Dirs) \cup Feeds : Published(n, d)
================================================================================
