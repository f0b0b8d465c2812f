CONSTANTS
    Versions <- MCVersions
    BranchOf <- MCBranchOf
    Targets <- MCTargets
    Names <- MCNames
    NewNameOf <- MCNewNameOf
    English <- MCEnglish
    Text <- MCText
    Urls <- MCUrls
    Parsed <- MCParsed
    Requests <- MCRequests
    Canonical <- MCCanonical
    Revisions <- MCRevisions
    AllowLists <- MCAllowLists
    AllowList <- MCAllowList
    ApkBranches <- MCApkBranches
    BaseFile <- MCBaseFile
    CacheUrls = {TRUE, FALSE}
    Proxied <- MCProxied
    AllDefaults <- MCAllDefaults
    Conflicts <- MCConflicts
    Releases <- MCReleases
    PathOf <- MCPathOf
    Kernels <- MCKernels
    Feeds <- MCFeeds
    IndexNames <- MCIndexNames
    AbiNameOf <- MCAbiNameOf
    PackageVersions <- MCPackageVersions
    Upstreams <- MCUpstreams
    MaxRebuilds = 1
    Blank <- MCBlank
    Shelf <- MCShelf
    MaxChosen = 2
SPECIFICATION IndexedSpec
CONSTRAINT MCProxy
INVARIANTS
    IndexedTypeOK
    SetDecides
    OrderKept
    AbsoluteAsAsked
    HashDecides
    RepositoriesAsAllowed
    MissingNamed
    IndexComplete
    IndexWasPublished
    IndexedIsBuilt
CHECK_DEADLOCK FALSE
