------------------------------ MODULE BuildInputs ------------------------------
(***************************************************************************)
(* What a request turns into: from the POST that queues its job, through   *)
(* the checks of validate_request that change it (asu/routers/api.py), to  *)
(* the repositories, the packages and the manifest of _build               *)
(* (asu/build.py).  The answer of the job is also given to every other     *)
(* client whose request has the same hash: the asker is one of them.       *)
(*                                                                         *)
(* The ImageBuilder is external: its revision, default packages, file of   *)
(* repositories and "make manifest" are as _build uses them.               *)
(***************************************************************************)
EXTENDS PackageSelection, RequestHash, Repositories, Manifest

CONSTANTS
    Requests,     \* pairs of a request and an asker's, of one hash
    Canonical,    \* the profile of each name of a profile
    Revisions,    \* version_code that the ImageBuilder of a version may have
    AllowLists,   \* what repository_allow_list may be set to
    AllowList,    \* what it is when the request arrives
    ApkBranches,  \* branches whose ImageBuilder uses apk
    BaseFile,     \* the lines of its file of repositories, for apk and for opkg
    CacheUrls,    \* whether settings.cache_url may be set
    Proxied,      \* the line of each URL when the caching proxy is in front of it
    AllDefaults,  \* its default and profile packages there may be, as sets
    Conflicts     \* the pairs of packages that cannot be installed together

IsRequest(r) ==
    /\ DOMAIN r = Fields
    /\ r.version \in Versions /\ r.target \in Targets /\ r.profile \in DOMAIN Canonical
    /\ r.packages \in Seq(Package) /\ PackagesOf(r) \in Seq(Package)
    /\ \A item \in ToSet(r.repositories) : item.url \in Urls

ASSUME BuildInputsAssumption ==
    /\ \A p \in Requests :
           /\ IsRequest(p.request) /\ IsRequest(p.asker)
           /\ get_request_hash(p.request) = get_request_hash(p.asker)
    /\ \A d \in AllDefaults : d \subseteq Package /\ IsFiniteSet(d)
    /\ \A name \in DOMAIN Canonical : Canonical[name] \in Profiles
    /\ \A profile \in Profiles : Canonical[profile] = profile
    /\ BaseFile \in [BOOLEAN -> SUBSET Urls]
    /\ AllowList \in AllowLists
    /\ CacheUrls \subseteq BOOLEAN
    /\ OpkgLines \cap Urls = {}
    /\ \A u \in Urls : Parsed[u].scheme # "https" => Proxied[u] = u

\* The revision of a release, or none.
RevisionsAsked == Revisions \cup {""}

\* The names of releases, targets and profiles upstream are told apart in a joined text.
ASSUME JoinedAssumption ==
    \A v, w \in Versions, c, d \in RevisionsAsked, t, u \in Targets, p, q \in DOMAIN Canonical :
        Text[v] \o Text[c] \o Text[t] \o Text[p] = Text[w] \o Text[d] \o Text[u] \o Text[q] =>
            v = w /\ t = u /\ p = q

VARIABLES
    request,      \* the request whose POST queues the job
    asker,        \* the request of a client that is answered with it
    allow_list,   \* settings.repository_allow_list
    cache_url,    \* whether settings.cache_url is set where the worker runs
    default_packages, \* the image's default and profile packages
    stage,        \* where the job is
    build_request,\* the request as the handler and the worker change it
    repositories, \* the lines of the container's file of repositories
    command,      \* build_cmd_packages
    manifest,     \* the manifest
    error         \* what is reported of a failure

vars == <<request, asker, allow_list, cache_url, default_packages, stage, build_request,
          repositories, command, manifest, error>>

settings == <<request, asker, cache_url, default_packages>>

Stages == {"listing", "received", "refused", "queued", "injected", "container_setup",
           "validate_revision", "changed", "validate_manifest", "manifest", "building_image",
           "failed"}

\* What the file of repositories may have, a URL or the proxy's line of it.
Lines == Urls \cup {Proxied[u] : u \in Urls} \cup OpkgLines

TypeOK ==
    /\ stage \in Stages
    /\ allow_list \in AllowLists
    /\ cache_url \in CacheUrls
    /\ repositories \subseteq Lines
    /\ build_request.packages \in Seq(Package)
    /\ build_request.profile \in Profiles \/ stage \in {"listing", "received", "refused"}
    /\ command \in Seq(Package)
    /\ DOMAIN manifest \subseteq Names
    /\ error.reason \in {"none", "package errors", "not in manifest", "version not as requested",
                         "incorrect version"}

apk_mode == BranchOf[request.version] \in ApkBranches

(* A request as it is hashed, with the commas of its profile replaced. *)
Receive(p) ==
    /\ request = p.request
    /\ asker = p.asker
    /\ build_request = p.request
    /\ repositories = BaseFile[apk_mode]

Init ==
    /\ \E p \in Requests : Receive(p)
    /\ allow_list = AllowList
    /\ cache_url \in CacheUrls
    /\ default_packages \in AllDefaults
    /\ stage = "received"
    /\ command = <<>>
    /\ manifest = <<>>
    /\ error = NoError

-----------------------------------------------------------------------------
(* The handler *)

(* A disallowed URL refuses the request.  packages_versions become the       *)
(* packages, and an alias is replaced by its profile.                        *)
Validate ==
    /\ stage = "received"
    /\ IF \A item \in ToSet(request.repositories) : is_repo_allowed(item.url, allow_list)
       THEN /\ stage' = "queued"
            /\ build_request' = [request EXCEPT !.packages = PackagesOf(request),
                                                !.profile = Canonical[@]]
       ELSE stage' = "refused" /\ UNCHANGED build_request
    /\ UNCHANGED <<settings, allow_list, repositories, command, manifest, error>>

(* The server is started with other settings before the job is. *)
Restart ==
    /\ stage \in {"received", "queued"}
    /\ request.repositories # <<>>
    /\ allow_list' \in AllowLists \ {allow_list}
    /\ UNCHANGED <<settings, stage, build_request, repositories, command, manifest, error>>

-----------------------------------------------------------------------------
(* The worker *)

(* inject_files: the mode "replace" does not read the file there is. *)
InjectFiles ==
    /\ stage = "queued"
    /\ stage' = "injected"
    /\ IF request.repositories = <<>>
       THEN UNCHANGED repositories
       ELSE LET base == IF request.repositories_mode = "append" THEN repositories ELSE {}
                allowed == validate_repos(request.repositories, allow_list)
            IN  repositories' = merge_repositories(base, allowed, apk_mode)
    /\ UNCHANGED <<settings, allow_list, build_request, command, manifest, error>>

\* sed rewrites each URL of https, those that the ImageBuilder came with too.
through_cache(lines) == {IF line \in Urls THEN Proxied[line] ELSE line : line \in lines}

(* The caching proxy, for every build of a worker that has one. *)
RouteThroughCache ==
    /\ stage = "injected"
    /\ stage' = "container_setup"
    /\ repositories' = IF cache_url THEN through_cache(repositories) ELSE repositories
    /\ UNCHANGED <<settings, allow_list, build_request, command, manifest, error>>

(* "make info" tells the revision. *)
ValidateRevision ==
    /\ stage = "container_setup"
    /\ \E revision \in Revisions :
           IF request.version_code = "" \/ request.version_code = revision
           THEN stage' = "validate_revision" /\ UNCHANGED error
           ELSE stage' = "failed" /\ error' = [reason |-> "incorrect version"]
    /\ UNCHANGED <<settings, allow_list, build_request, repositories, command, manifest>>

ChangePackages ==
    /\ stage = "validate_revision"
    /\ stage' = "changed"
    /\ build_request' =
           [build_request EXCEPT !.packages = apply_package_changes(build_request, @)]
    /\ UNCHANGED <<settings, allow_list, repositories, command, manifest, error>>

SelectPackages ==
    /\ stage = "changed"
    /\ stage' = "validate_manifest"
    /\ command' = IF build_request.diff_packages
                  THEN diff_packages(build_request.packages, default_packages)
                  ELSE build_request.packages
    /\ UNCHANGED <<settings, allow_list, build_request, repositories, manifest, error>>

\* What is to be installed: a removal goes before everything else.
Wanted ==
    LET all == default_packages \cup ToSet(command)
    IN  {x.name : x \in {y \in all : ~y.minus}} \ {x.name : x \in {y \in all : y.minus}}

\* Nothing is known of the conflicts of a package that is missing.
MissingFrom(stock) == Wanted \ DOMAIN stock
InConflict(stock)  == UNION {c \in Conflicts : c \subseteq Wanted \cap DOMAIN stock}

\* How opkg and apk put it; opkg may name a conflict also with what it prevents.
TextOfMissing == IF apk_mode THEN "no such package" ELSE "Cannot install package"
TextsOfConflict ==
    IF apk_mode THEN {"conflicts", "trying to overwrite"} ELSE {"conflicts", "wants to install file"}
Prevented(stock) == IF apk_mode THEN {{}} ELSE SUBSET InConflict(stock)

Said(complaint, names) == {[complaint |-> complaint, package |-> n] : n \in names}
StderrOf(stock, text, prevented) ==
    Said(TextOfMissing, MissingFrom(stock) \cup prevented) \cup Said(text, InConflict(stock))

(* "make manifest", with what can be had of every package at the moment. *)
MakeManifest(stock) ==
    /\ stage = "validate_manifest"
    /\ IF MissingFrom(stock) \cup InConflict(stock) = {}
       THEN /\ stage' = "manifest"
            /\ manifest' = [n \in Wanted |-> stock[n]]
            /\ UNCHANGED error
       ELSE /\ stage' = "failed"
            /\ \E text \in TextsOfConflict, prevented \in Prevented(stock) :
                   error' = check_package_errors(StderrOf(stock, text, prevented))
            /\ UNCHANGED manifest
    /\ UNCHANGED <<settings, allow_list, build_request, repositories, command>>

(* The build goes on only with what packages_versions says. *)
CheckManifest ==
    /\ stage = "manifest"
    /\ error' = check_manifest(manifest, build_request.packages_versions)
    /\ stage' = IF error' = NoError THEN "building_image" ELSE "failed"
    /\ UNCHANGED <<settings, allow_list, build_request, repositories, command, manifest>>

Steps(stock) ==
    \/ Validate \/ Restart \/ InjectFiles \/ RouteThroughCache \/ ValidateRevision
    \/ ChangePackages \/ SelectPackages \/ MakeManifest(stock) \/ CheckManifest

-----------------------------------------------------------------------------
(* Properties *)

Changed == stage \in {"changed", "validate_manifest", "manifest", "building_image"}
Selected == stage \in {"validate_manifest", "manifest", "building_image"}

Validated(r)  == [r EXCEPT !.packages = PackagesOf(r), !.profile = Canonical[@]]
AskedOnce(r)  == Cardinality(ToSet(PackagesOf(r))) = Len(PackagesOf(r))
WellFormed(r) == r.version_code \in RevisionsAsked

(* The packages that a job is built with are those which the asker's own set *)
(* of packages decides for the asker's version, target and profile, in       *)
(* whatever order the rules, the renaming and the removals meet them.  (The  *)
(* hash has no duplicates and RemoveIfPresent takes one copy only, so        *)
(* <<auc, auc>> is built with auc in 24.10 and <<auc>> without; and the      *)
(* joined fields are told apart only if each version_code is a revision.)    *)
SetDecides ==
    Changed /\ AskedOnce(request) /\ AskedOnce(asker) /\ WellFormed(request) /\ WellFormed(asker) =>
        ToSet(build_request.packages) = Expected(Validated(asker), ToSet(PackagesOf(asker)))

\* The image has every package of some packages_versions, at its version.
Has(image, versions) ==
    \A item \in ToSet(versions) :
        InManifest(item, image) /\ image[item.package.name] = item.version

VersionsHonoured == stage = "building_image" => Has(manifest, asker.packages_versions)

(* An asker is given an image of its own request in everything else that     *)
(* _build reads, too: two requests of one hash differ only in the order of   *)
(* their packages and of their repositories and in what is not read, and an  *)
(* alias is hashed apart from its profile.  The image has every package that *)
(* the asker gave a version of, at that version.                             *)
HashDecides ==
    /\ VersionsHonoured
    /\ stage = "building_image" /\ WellFormed(request) /\ WellFormed(asker) =>
           LET Read(r) == <<r.version, r.target, Canonical[r.profile], r.diff_packages,
                            r.options, ToSet(r.repositories), r.repositories_mode>>
           IN  Read(build_request) = Read(asker)

(* diff_packages keeps the packages "in user-specified order": those of the *)
(* client that are not renamed keep its order, before what the server adds   *)
(* and after what it removes.                                                *)
OrderKept ==
    Selected /\ AskedOnce(request) =>
        LET Place(s, x) == CHOOSE i \in DOMAIN s : s[i] = x
            requested == PackagesOf(request)
            packages  == build_request.packages
            new   == {Plus(NewNameOf[n]) : n \in DOMAIN NewNameOf}
            own   == (ToSet(requested) \cap ToSet(packages)) \ new
            added == ToSet(packages) \ (ToSet(requested) \cup new)
        IN  /\ \A x, y \in own :
                   Place(requested, x) < Place(requested, y) => Place(packages, x) < Place(packages, y)
            /\ \A x \in own, y \in added : Place(packages, x) < Place(packages, y)
            /\ IsSuffix(packages, command)

\* No default removes a package that is asked for.
DefaultsAgree ==
    \A x \in ToSet(build_request.packages) : ~x.minus => Minus(x) \notin default_packages

Both(x) == Contains(command, x) /\ Contains(command, Minus(x))

(* The description of the field diff_packages: "all default packages outside *)
(* the requested packages are removed".  Each default package is asked for   *)
(* or removed, and what is asked for is not removed but by the client, for   *)
(* defaults and profiles that do not remove it themselves: diff_packages     *)
(* takes such a removal for a package that is to be removed.                 *)
AbsoluteAsAsked ==
    Selected /\ build_request.diff_packages /\ DefaultsAgree =>
        /\ \A x \in default_packages : Contains(command, x) \/ Contains(command, Minus(x))
        /\ \A x \in ToSet(build_request.packages) : Both(x) => Contains(build_request.packages, Minus(x))

\* The ImageBuilder's own repositories, if they stay, and those asked for that are allowed.
OwnUrls ==
    IF asker.repositories = <<>> \/ asker.repositories_mode = "append" THEN BaseFile[apk_mode] ELSE {}
AllowedUrls ==
    {u \in {item.url : item \in ToSet(asker.repositories)} : is_repo_allowed(u, allow_list)}

\* How the worker's build reaches a URL.
Reached(u) == IF cache_url /\ stage # "injected" THEN Proxied[u] ELSE u

(* The file of repositories is what the ImageBuilder had, if the mode is     *)
(* "append" or nothing is asked for, and what the asker asked for and the    *)
(* worker's own settings allow, whatever the API's were when the job was     *)
(* queued; opkg keeps its own repository and checks signatures.  From the    *)
(* rewriting for the caching proxy on, each of them is reached through the   *)
(* proxy, and none that was not there before.                                *)
RepositoriesAsAllowed ==
    stage \in Stages \ {"listing", "received", "refused", "queued"} =>
        LET all == {Reached(u) : u \in OwnUrls \cup AllowedUrls}
        IN  /\ all \subseteq repositories
            /\ repositories \subseteq all \cup OpkgLines
            /\ asker.repositories # <<>> /\ ~apk_mode => OpkgLines \subseteq repositories

(* A client is told each package that is missing as missing, and each that   *)
(* is in a conflict as such, though opkg complains of both in one way.       *)
ErrorsNamed(stock) ==
    error.reason = "package errors" =>
        /\ error.missing = MissingFrom(stock)
        /\ error.conflicts = InConflict(stock)
================================================================================
