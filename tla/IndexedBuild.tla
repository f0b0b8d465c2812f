------------------------------ MODULE IndexedBuild -----------------------------
(***************************************************************************)
(* PackageIndex and BuildInputs together, as a client such as owut uses    *)
(* them: it asks the server for an index of its release, chooses packages  *)
(* of it, and asks for an image with exactly these versions, which the     *)
(* worker holds against the manifest of the build.  Other clients bring a  *)
(* request of their own.                                                   *)
(***************************************************************************)
EXTENDS PackageIndex, BuildInputs

CONSTANTS
    Blank,        \* what a request has that is not about its packages, and none of these
    Shelf,        \* what the ImageBuilder finds for a request that is ready
    MaxChosen     \* bound of the model: packages chosen from an index

allVars == <<indexVars, vars>>

ASSUME IndexedBuildAssumption ==
    /\ AllNames \subseteq Names
    /\ Releases \subseteq Versions
    /\ IsRequest(Blank) /\ Blank.packages = <<>> /\ Blank.packages_versions = <<>>

\* Upstream builds a package for the target or for a feed of its architecture.
ASSUME UpstreamAssumption ==
    \A v \in Releases : \A u \in Upstreams[v], d \in {Base} \cup Kernels, f \in Feeds :
        DOMAIN u.packages[d] \cap DOMAIN u.packages[f] = {}

(* Either a request that is ready, for which upstream is Shelf, or a client *)
(* that asks for an index first.                                            *)
IndexedInit ==
    \/ /\ release = CHOOSE v \in Releases : TRUE
       /\ upstream = CHOOSE u \in Upstreams[release] : TRUE
       /\ ServerInit
       /\ Init
    \/ LET asked == [Blank EXCEPT !.version = release]
       IN /\ IndexInit
          /\ Receive([request |-> asked, asker |-> asked])
          /\ allow_list = AllowList
          /\ cache_url \in CacheUrls
          /\ default_packages = {}
          /\ stage = "listing"
          /\ command = <<>>
          /\ manifest = <<>>
          /\ error = NoError

\* packages_versions, from the index.
Items == {[package |-> Plus(n), version |-> packages[n]] : n \in DOMAIN packages}

Choose ==
    /\ stage = "listing"
    /\ step = "answered"
    /\ stage' = "received"
    /\ \E chosen \in BoundedSeq(Items, MaxChosen) :
           /\ IsInjective(chosen)
           /\ request' = [request EXCEPT !.packages_versions = chosen]
    /\ asker' = request'
    /\ build_request' = request'
    /\ UNCHANGED <<indexVars, allow_list, cache_url, default_packages, repositories, command,
                   manifest, error>>

\* What the ImageBuilder of the release finds upstream, by names without an ABI version.
Stock ==
    LET Of(d) == IF upstream.format[d] = "none" THEN Empty ELSE upstream.packages[d]
        n     == Len(upstream.feeds)
        lists == [i \in 1..n |-> Of(upstream.feeds[i])]
    IN  IF step = "idle" THEN Shelf
        ELSE IF upstream.kernel = NoKernel THEN Merged(Of(Base), lists)[n]
        ELSE Update(Merged(Of(Base), lists)[n], Of(upstream.kernel))

\* What is rebuilt after the manifest is of no consequence here.
Rebuilt ==
    /\ step # "idle"
    /\ stage \in {"listing", "validate_manifest"}
    /\ Rebuild
    /\ UNCHANGED vars

IndexedNext ==
    \/ stage = "listing" /\ Serve /\ UNCHANGED vars
    \/ Rebuilt
    \/ Choose
    \/ Steps(Stock) /\ UNCHANGED indexVars

IndexedSpec == IndexedInit /\ [][IndexedNext]_allVars

-----------------------------------------------------------------------------
(* Properties *)

IndexedTypeOK == TypeOK /\ IndexTypeOK

MissingNamed == ErrorsNamed(Stock)

\* apply_package_changes leaves what is asked for as it is, and adds what can be had.
Untouched ==
    LET asked == ToSet(PackagesOf(request))
        all   == Expected(Validated(request), asked)
    IN  asked \subseteq all /\ \A x \in all \ asked : x.name \in DOMAIN Stock

\* The lists tell the names without the ABI version.
NamesTold == \A d \in Dirs : upstream.format[d] # "v1"

(* A client that asks for packages that an index of the server has, at the   *)
(* versions it has there, is not refused for them, as long as upstream stays *)
(* what it was when the index was asked for: the names that the index takes  *)
(* from the older formats, and the modules it finds, are the ones that the   *)
(* build reports in its manifest.                                            *)
IndexedIsBuilt ==
    step = "answered" /\ calm /\ NamesTold /\ Single(release) /\ Untouched /\ InConflict(Stock) = {} =>
        error.reason \notin {"not in manifest", "version not as requested", "package errors"}
================================================================================
