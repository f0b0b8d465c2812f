---------------------------- MODULE MCIndexedBuild -----------------------------
(***************************************************************************)
(* IndexedBuild for TLC.  Three families of requests:                      *)
(*   - Lists: every list of up to three packages, for each version and     *)
(*     shape of rule, with and without diff_packages;                      *)
(*   - Options: requests that differ from Blank in up to two fields, each  *)
(*     with every asker of the same hash;                                  *)
(*   - clients that ask for an index of one of six releases first.        *)
(***************************************************************************)
EXTENDS IndexedBuild, TLC

MCBranchOf ==
    ("22.03.7" :> "22.03") @@ ("23.05.1" :> "23.05") @@ ("23.05.10" :> "23.05") @@
    ("23.05.6" :> "23.05") @@ ("24.10.1" :> "24.10") @@ ("25.12.0" :> "25.12") @@
    ("SNAPSHOT" :> "SNAPSHOT")
MCVersions == DOMAIN MCBranchOf
MCTargets  == {"mediatek/mt7622", "ath79/generic", "lantiq/xrx200", "kirkwood/generic", "x86/64"}

\* A package from each rule, one that none is about, tmux, one that is missing, gone,
\* and those of the indices.
MCIndexNames == {"libubus", "kmod-a", "kmod-b", "luci"}
MCNames ==
    {"auc", "owut", "opkg-de", "opkg-en", "manager-de", "manager-en", "tmux", "gone",
     "kmod-nf-conntrack6", "kmod-lib-crc32c", "libubus1"}
        \cup MCIndexNames \cup {Rules[i].add : i \in DOMAIN Rules}

MCNewNameOf == ("opkg-de" :> "manager-de") @@ ("opkg-en" :> "manager-en")
MCEnglish   == {"opkg-en", "manager-en"}
MCConflicts == {{"fitblk", "owut"}, {"auc", "gone"}}

MCShelf == [n \in MCNames \ {"gone", "libubus1"} |-> "1"]

\* 23.05.1 with the revision "0" reads as 23.05.10.
MCText ==
    ("22.03.7" :> <<"22.03.7">>) @@ ("23.05.1" :> <<"23.05.1">>) @@
    ("23.05.10" :> <<"23.05.1", "0">>) @@ ("23.05.6" :> <<"23.05.6">>) @@
    ("24.10.1" :> <<"24.10.1">>) @@ ("25.12.0" :> <<"25.12.0">>) @@ ("SNAPSHOT" :> <<"SNAPSHOT">>) @@
    ("" :> <<>>) @@ ("0" :> <<"0">>) @@ ("r1" :> <<"r1">>) @@ ("r2" :> <<"r2">>) @@
    [t \in MCTargets \cup {"first", "second", "other", "alias"} |-> <<t>>]

MCCanonical == [p \in {"first", "second", "other", "alias"} |-> IF p = "alias" THEN "first" ELSE p]
MCRevisions == {"r1", "r2"}

-----------------------------------------------------------------------------
(* Repositories: the path /feeds/kmods is not below /feeds/k. *)
MCParsed ==
    LET Url(scheme, hostname, path) == [scheme |-> scheme, hostname |-> hostname, path |-> path]
    IN  ("https://own/feeds"  :> Url("https", "own", <<"", "feeds">>)) @@
        ("https://own/feeds/x"  :> Url("https", "own", <<"", "feeds", "x">>)) @@
        ("https://own/feeds2/x" :> Url("https", "own", <<"", "feeds2", "x">>)) @@
        ("https://base/packages" :> Url("https", "base", <<"", "packages">>)) @@
        ("http://plain/packages" :> Url("http", "plain", <<"", "packages">>))
MCUrls       == DOMAIN MCParsed
MCAllowList  == {"https://own/feeds"}
MCAllowLists == {MCAllowList, {}}
MCBaseFile   == [apk \in BOOLEAN |-> {"https://base/packages", "http://plain/packages"}]
MCProxied ==
    ("https://own/feeds"  :> "http://cache/own/feeds") @@
    ("https://own/feeds/x"  :> "http://cache/own/feeds/x") @@
    ("https://own/feeds2/x" :> "http://cache/own/feeds2/x") @@
    ("https://base/packages" :> "http://cache/base/packages") @@
    ("http://plain/packages" :> "http://plain/packages")
MCApkBranches == {"25.12", "SNAPSHOT"}

-----------------------------------------------------------------------------
(* Requests *)
MCBlank ==
    [version |-> "23.05.1", version_code |-> "", target |-> "x86/64", profile |-> "other",
     packages |-> <<>>, packages_versions |-> <<>>, diff_packages |-> FALSE,
     options |-> [filesystem |-> "", defaults |-> "", rootfs_size_mb |-> 0, repository_keys |-> <<>>],
     repositories |-> <<>>, repositories_mode |-> "replace"]

MCAllDefaults == {{Plus("auc"), Plus("libubus"), Minus(Plus("tmux"))}}

MCAsked ==
    {Plus(n) : n \in {"auc", "owut", "opkg-de", "opkg-en", "manager-en", "kmod-lib-crc32c", "fitblk"}}
        \cup {[name |-> "tmux", minus |-> b] : b \in BOOLEAN}

\* Each version with the targets and profiles that a rule of its branch is about, and another.
Shapes ==
    {r \in [version : {"22.03.7", "23.05.1", "24.10.1", "25.12.0", "SNAPSHOT"},
            target : MCTargets \ {"x86/64"}, profile : Profiles] :
        \E i \in DOMAIN Rules : Rules[i].targets # MCTargets /\ Applies(Rules[i], r)}
    \cup [version : {"22.03.7", "24.10.1", "SNAPSHOT"}, target : {"x86/64"}, profile : {"first", "other"}]

MCLists ==
    {[MCBlank EXCEPT !.version = s.version, !.target = s.target, !.profile = s.profile,
                     !.packages = l, !.diff_packages = d] :
        s \in Shapes, l \in {m \in BoundedSeq(MCAsked, 3) : IsInjective(m)}, d \in BOOLEAN}

\* The ways in which a field may differ from Blank's.
Item(n, v) == [package |-> Plus(n), version |-> v]
Repo(u)    == [name |-> "own", url |-> u]
Changes ==
    {[field |-> "version", value |-> "23.05.10"], [field |-> "version", value |-> "25.12.0"],
     [field |-> "version_code", value |-> "r1"], [field |-> "version_code", value |-> "0"],
     [field |-> "profile", value |-> "alias"], [field |-> "profile", value |-> "first"],
     [field |-> "target", value |-> "ath79/generic"],
     [field |-> "packages", value |-> <<Plus("auc"), Plus("gone")>>],
     [field |-> "packages", value |-> <<Plus("owut"), Plus("auc")>>],
     [field |-> "packages", value |-> <<Plus("auc"), Plus("owut")>>],
     [field |-> "packages_versions", value |-> <<Item("auc", "1"), Item("owut", "1")>>],
     [field |-> "packages_versions", value |-> <<Item("owut", "1"), Item("auc", "1")>>],
     [field |-> "packages_versions", value |-> <<Item("auc", "1"), Item("owut", "2")>>],
     [field |-> "diff_packages", value |-> TRUE],
     [field |-> "options", value |-> [MCBlank.options EXCEPT !.filesystem = "ext4"]],
     [field |-> "options", value |-> [MCBlank.options EXCEPT !.defaults = "reboot"]],
     [field |-> "options", value |-> [MCBlank.options EXCEPT !.rootfs_size_mb = 256]],
     [field |-> "options", value |-> [MCBlank.options EXCEPT !.repository_keys = <<"key">>]],
     [field |-> "repositories", value |-> <<Repo("https://own/feeds/x")>>],
     [field |-> "repositories", value |-> <<Repo("https://own/feeds2/x")>>],
     [field |-> "repositories_mode", value |-> "append"]}

MCOptions ==
    LET With(r, c) == [r EXCEPT ![c.field] = c.value]
    IN  {With(With(MCBlank, c), d) : c \in Changes, d \in Changes}

MCRequests ==
    {[request |-> r, asker |-> r] : r \in MCLists} \cup
    {p \in [request : MCOptions, asker : MCOptions] :
        get_request_hash(p.request) = get_request_hash(p.asker)}

\* Bound of the run: the caching proxy is set for the requests of the second family only.
MCProxy == cache_url => stage # "listing" /\ request \in MCOptions

-----------------------------------------------------------------------------
(* Upstream: the releases before the split have the modules beside the base. *)
MCPathOf ==
    LET Release(major, minor) ==
            [snapshots |-> FALSE, major |-> major, minor |-> minor, snapshot |-> FALSE]
    IN  ("22.03.7" :> Release(22, <<7>>)) @@ ("23.05.1" :> Release(23, <<1>>)) @@
        ("23.05.6" :> Release(23, <<6>>)) @@ ("23.05.10" :> Release(23, <<1, 0>>)) @@
        ("24.10.1" :> Release(24, <<1>>)) @@
        ("SNAPSHOT" :> [snapshots |-> TRUE, major |-> 0, minor |-> <<0>>, snapshot |-> FALSE])
MCReleases == DOMAIN MCPathOf
MCKernels  == {"6.6", "6.7"}
MCFeeds    == {"feed1", "feed2"}
MCPackageVersions == {"1", "2"}
MCAbiNameOf == [n \in MCIndexNames |-> IF n = "libubus" THEN "libubus1" ELSE n]

Split == {"23.05.6", "23.05.10", "24.10.1", "SNAPSHOT"}
OldFormats == {"opkg", "both"}

\* A build: the format of its lists, the version of its packages, its kernel.  The modules
\* of the kernel before stay.
Built(v, format, version, kernel) ==
    LET apart == v \in Split
        Is(d)  == CASE d = Base          -> TRUE
                    [] d \in MCKernels   -> apart /\ (d = kernel \/ d = "6.6")
                    [] OTHER             -> TRUE
        At(d)  == IF d = "6.6" /\ kernel = "6.7" THEN "1" ELSE version
        Of(d)  == CASE d = Base /\ apart  -> {"libubus"}
                    [] d = Base /\ ~apart -> {"libubus", "kmod-a"}
                    [] d = "6.6"         -> {"kmod-a"}
                    [] d = "6.7"         -> {"kmod-a", "kmod-b"}
                    [] OTHER             -> {"luci"}
    IN  [kernel   |-> IF apart THEN kernel ELSE NoKernel,
         feeds    |-> <<"feed1">>,
         format   |-> [d \in Dirs |-> IF Is(d) THEN format ELSE "none"],
         packages |-> [d \in Dirs |-> [n \in Of(d) |-> At(d)]]]

\* One release with two feeds that both have luci, one without any packages yet.
TwoFeeds == [Built("22.03.7", "both", "1", "6.6") EXCEPT
                !.feeds = <<"feed1", "feed2">>, !.packages["feed2"]["luci"] = "2"]
Bare     == [Built("SNAPSHOT", "v2", "1", "6.6") EXCEPT !.format[Base] = "none"]

MCUpstreams ==
    [v \in MCReleases |->
        {Built(v, f, pv, k) : f \in (IF v \in {"24.10.1", "SNAPSHOT"} THEN {"both", "v1", "v2"} ELSE OldFormats),
                              pv \in MCPackageVersions, k \in MCKernels}
            \cup (IF v = "22.03.7" THEN {TwoFeeds} ELSE {})
            \cup (IF v = "SNAPSHOT" THEN {Bare} ELSE {})]
===============================================================================
