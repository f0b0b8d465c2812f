# A verification project for ASU, the OpenWrt sysupgrade server

ASU builds firmware images on demand.  A client POSTs a build request; the
server hashes it, answers at once if the hash has a job, and otherwise
validates it and queues a job for a worker, which builds the image in a
container of its own and leaves it in a store.  This directory has TLA+ models
of that server, the TLC configurations that check them and proofs that TLAPS
checks.  All paths below are under `src/`.

## 1. The system

| Part | State | Operations | Interacts with |
|---|---|---|---|
| Build API, `asu/routers/api.py` | none of its own; a thread pool runs each handler | POST and GET/HEAD `/api/v1/build`, `validate_request`, `return_job_v1` | reads and writes RQ's jobs and queue in Redis; calls the caches of versions, targets and profiles; counts events |
| Queue and workers (RQ, external) | jobs with a status, a list of ids, a started registry | enqueue, dequeue, start, store the result, fail abandoned jobs, expire | the handlers above, `build()` below |
| Image builder, `asu/build.py` | one container at a time, `bin_dir` on disk, `job.meta` | `_build`: pull, create, set up, make info/manifest/image, check, sign, upload | podman, the store, Redis |
| Stores, `asu/store.py` | the local store directory or an S3 bucket | `upload_dir`, `get_url` | called by `_build` and `/store` |
| Version, target, profile caches, `asu/util.py` | `app.versions`, `app.latest`, `app.targets`, `app.profiles`, shared by all threads | `reload_versions`, `reload_targets`, `reload_profiles` | downloads from upstream; called by `validate_request` and the overview endpoints |
| Statistics, `asu/util.py` | time series in Redis | `add_build_event`, `add_timestamp` | POST handler, workers |
| Error log, `asu/util.py` | a capped list in Redis | `log_build_error`, `get_entries` | workers, the stats pages |
| Request identity, `asu/util.py`, `asu/build_request.py` | none | `get_request_hash`, `get_packages_hash`, `get_manifest_hash` | names the job, the image and `bin_dir` |
| Package selection, `asu/package_changes.py`, `asu/util.py` | `build_request.packages`, changed in place | `apply_package_changes`, `diff_packages` | called by `_build`, after the hash was taken |
| Manifests, `asu/util.py` | none | `parse_manifest`, `check_manifest`, `check_package_errors` | `_build` holds `packages_versions` against what would be installed |
| Repository allow list, `asu/repositories.py` | the settings of the API and of the worker; the container's file | `is_repo_allowed`, `validate_repos`, `merge_repositories` | checked by `validate_request` and again by `inject_files` |
| Package indices, `asu/main.py`, `asu/util.py` | none; each request downloads up to five files | `json_v1_target_index`, `json_v1_arch_index`, `parse_packages_file` | upstream; clients take their `packages_versions` from them |
| Branches and overview, `asu/main.py` | `settings.branches`, changed in place | `generate_latest`, `generate_branches` | the caches above |

What is hard here is not any handler by itself but what happens between the
accesses to what they share.  Handlers run in a thread pool and, with several
server processes, in several processes; every access to Redis is a step of its
own; workers die and are restarted; `job_timeout` raises an exception at any
point of a build; container, file system and store calls fail; attempts at one
request share a directory on disk.  `PROJECT.json` lists the hazards, each at
its line, with the properties that cover it.

What makes the parts correct:

- *Build API and queue*: a hash is queued and built once at a time; a job that
  is shown as pending has somebody who will end it, and does end; an image that
  was answered stays until its TTL; the queue is bounded; the status shown is
  where the job is; an answer is true of the job.
- *Image builder*: a done build has its own image in the store; no container
  outlives its build; a failure or timeout is final; builds do not affect each
  other.
- *Caches*: a complete, sorted list of versions, whatever the interleaving of
  reloads; an accepted request is for what upstream offered, and what upstream
  offers is served.
- *Branches*: a complete answer, whatever earlier calls left behind.
- *Request identity*: a client is answered with an image of its own request,
  whoever queued the job.
- *Package selection*: a function of the set of packages that the hash stands
  for.
- *Manifests*: no image is built without the versions that were asked for, and
  a failure names what is missing and what is in a conflict.
- *Repository allow list*: the container has only what the client asked for
  and the worker's own settings allow.
- *Package indices*: complete while upstream stays as it is, never a mixture
  that was not published, and what they list can be built.
- *Error log*: bounded, without gaps, and ahead of what clients are told.
- *Statistics*: the counters add up in the way that their users check.

## 2. Modules

### BuildPromise

The abstract specification: for each request hash, an image that is not there,
pending, built or failed.  Two POSTs of a hash that overlap move it to
"raced", about which nothing more is promised: this is the code's own limit,
see `jobs_cached` below.

### BuildJobs

The core: the POST and GET handlers, the RQ queue and the workers.  One step is
one access to Redis.

| Code | Model |
|---|---|
| RQ's job hash, its `status` | `job[id]` |
| the RQ list | `queue` |
| a thread in the POST handler | `pc[t]`, `req[t]` |
| an RQ worker and its current job | `worker[w]`, `held[w]` |
| started registry entries of dead workers | `orphans` |
| api.py:226-229, request event and `fetch_job` | `PostFetch` |
| api.py:239-244 without client and User-Agent | `PostAnonymous` |
| api.py:277, `is_finished` of a known job | `Found` |
| api.py:254-257, `validate_request` | `Validate`: refused (or raised), or on |
| api.py:259-266, the 529 answer | `Overloaded`, `CheckQueue` |
| api.py:268-275, `enqueue` | `Enqueue` |
| api.py:280-284, `return_job_v1` | `Respond` |
| api.py:197-213, GET and HEAD | `Get` |
| build.py:498-508, `build` | `BuildEnds` |
| RQ, external | `Dequeue`, `Start`, `Finish`, `Crash`, `CleanOrphan`, `Expire` |

`served` and `raced` are history variables: no action but the recording ones
reads them.  RQ is modelled from how the code uses it: `enqueue` with a
`job_id` writes the job's record over an older one and appends the id to the
list; an id whose job is gone is dropped at the dequeue; the job of a worker
that died before or while it built is failed by RQ's maintenance, which every
worker runs.  `Expire` needs that no worker holds the job: the shortest TTL of
a job with a result, `build_defaults_ttl`, is 30 minutes and `job_timeout` 10
(config.py:112-117).

### BuildStats

`BuildJobs` with the five counters of `add_build_event`: the steps that count
an event do, and no other step changes a counter.  The event of a miss is
counted in the step that looks the job up.

### JobReply

`return_job_v1` in detail for one job: `BuildJobs` answers in one step, but the
handler asks Redis again for `is_failed`, `is_queued`, `is_started`,
`is_finished`, and for the result or the place in the queue.  The job's own
steps are those of `BuildJobs`, without its actors: `waiting`, `taken` and
`running` count the copies of its id that are in the queue, with workers that
have not started them, and with workers that have; `raced` says whether it was
queued while there was a copy already, until none is left.  `position` counts
the ids ahead of its own in the queue, which other jobs' dequeues (`Advance`)
bring down, and is `Unlisted` when the queue does not have it.  `had` and
`places` are history variables: what the job has been since the reader fetched
it, and which places it had while it was queued.  The answer is told in the
step of its last read, so what an answer must be is an action property.

`AnswerWasTrue` says of the answer "queued" exactly what the two reads give: the
position told was the job's at a moment at which it was queued, or is the 0
that `get_position() or 0` (api.py:174) makes of a job that a worker has just
taken.

### ErrorLog

`log_build_error`: the time is taken (`LogError`), the entry is pushed (`Push`)
and the list is trimmed (`Trim`), with other workers' accesses between any two
and any of them refused (`Leave`, an exception that the code swallows).
`pushed` and `untrimmed` are history variables.

### FailureReport

`JobReply` and `ErrorLog` composed by what joins them, the `except` clause of
`build()`: the failure is counted, logged, and raised again, upon which RQ
marks the job failed.

| Code | Model |
|---|---|
| build.py:498-500, a worker in `build` | `Take`, `doing[w] = "job"` |
| build.py:502-504, the count and the entry | `Fails`, `Logs`; `CountRefused` if Redis refuses the count |
| build.py:505, `raise` | `Raise` |
| build.py:506-508, the `else` clause | `Succeeds`; `CountRefused` if Redis refuses the count: the job then fails without an entry |
| a failing build of any other job | the same with `doing[w] = "other"` |
| RQ and the death of a worker | `Die`, `Maintain` |

`ours`, `failures` and `unlogged` are history variables.

### VersionCache

`app.versions` as Python has it: an attribute that refers to a list object,
list objects that are filled and sorted in place, and the emptying of a list
while it is sorted.  Every bytecode that reads or writes the shared state is a
step: `Reset` rebinds, `Bind` reads the attribute for `add_versions`, `Look`
and `AppendVersion` treat one version, `SortBegin` and `SortEnd` are
`list.sort`.  The web server's threads call the key function between the last
two, and may be switched there.  A download may be told another status than
200, which leaves `app.versions` alone; it may raise, as the connection, the
parsing of the JSON and the keys read before line 601 may, which leaves it alone
and is an internal error; or bring a document without `versions_list`, which is
missed only after line 601 has emptied the list.  The server may also have
started with an empty list (main.py:43).  `Return` ends a call.  `Sorted` puts each item at the number of those
that come no later (`Upto`), as a stable descending sort does.

### ImageBuild

`_build` in detail, with its two `try`/`finally` statements, the exceptions
that may leave each part, `job_timeout`, the death of the worker, `bin_dir`
and the two stores.  `Together` says whether builds with one `bin_dir` may
overlap: they cannot if they are attempts at one request that follow each
other, and they do if they are the jobs of two requests that differ only in an
alias of the profile, which `validate_request` replaces after the job's id was
computed.  The commands that run in the container are their outcomes.
`latest`, `made`, `missed`, `leaked` and `swallowed` are history variables.

### RequestValidation

`validate_request` from its check of the target on, with the two caches of one
version that it reads and that `reload_targets` and `reload_profiles` write.

| Code | Model |
|---|---|
| `app.targets[version]`, its keys | `targets` |
| `app.profiles[version][target]` | `profiles[g]`, a map from names to profiles |
| upstream's files | `upstream`; `Change` rebuilds or drops a target |
| the response of `client_get` | `file[t]`, between the download and the assignment |
| api.py:120-128 | `LookTarget`, `DownloadTargets`, `SetTargets`, `LookTargetAgain` |
| api.py:130-147 | `valid_profile`, `LookProfile`, `DownloadProfiles`, `SetProfiles`, `LookProfileAgain` |
| api.py:149 | `Lookup` |
| main.py:166-167, the same reload by the overview | `Overview` |

The checks before (`allow_defaults`, distro, branch) read the settings only,
the repositories are in `BuildInputs`, and the version is `VersionCache`'s:
`Request` is a request that passed them.  `offered`, `asked` and `calm` are
history variables.

### Branches

`generate_branches`: `dict(**settings.branches)` copies the outer dictionary
only, so all threads clear and fill the same lists, and the answer is encoded
from them after the function has returned.  A step treats one branch or one
version.  What a thread reads of `app.versions` is the complete list if its own
reload worked and overlapped no other, which is `AloneRepairs` of
`VersionCache`.  Otherwise the list may be filled or sorted under the loop, which
then misses a version or meets it again: up to `Repeats` times.  A branch that is
not enabled, or any branch before the first successful download, has no first
version: the code raises an `IndexError` for the whole answer (main.py:165), the
model does so as well, and `AloneComplete` allows a lone call to end so if a
branch has no version at all.

### PackageSelection, RequestHash, Repositories, Manifest

Operators only, the pure functions of the code.  `PackageSelection` has
`apply_package_changes` and `diff_packages` on sequences; `Rules` is the code's
chain of versions, targets and profiles as a table, and a profile is known by
the list of its rule that has it.  `Expected` is the reference definition of the
package changes, on sets, without any order of rules.  The order in which
`diff_packages` puts the removals is left open.  `RequestHash` has `get_request_hash`; SHA-256 is taken
to be one to one, so a hash is what is hashed, and the first four fields are
concatenated, as the code joins them without a separator.  `Repositories` has
the allow list and the merged file as a set of lines; URLs are names with their
parts.  `Manifest` has `check_manifest` and `check_package_errors`; the texts
are the lines that the regular expressions find.

### BuildInputs

What a request becomes between the POST that queues its job and the image.  The
variable `request` is the one that queued the job, `asker` that of any client
with the same hash, who is answered with the same job.

| Code | Model |
|---|---|
| api.py:79-151, the parts that change the request or read the allow list | `Validate` |
| the settings, between the API and the worker | `allow_list`, `Restart` |
| build.py:108-118, `inject_files` | `InjectFiles` |
| build.py:219-229, `sed` for the caching proxy | `RouteThroughCache`, if `cache_url`; `Proxied` has the line that it makes of each URL |
| build.py:231-248, `make info` and `version_code` | `ValidateRevision` |
| build.py:264, 277-283, `apply_package_changes` and `diff_packages` | `ChangePackages`, `SelectPackages` |
| build.py:288-305, `make manifest` and its complaints | `MakeManifest` |
| build.py:307-309, `check_manifest` | `CheckManifest` |

`cache_url` says whether the worker's settings have one; it does not change in a
behaviour, since the worker reads it once for a job and the API never does.
`IsRequest` is what the request model lets through.  `JoinedAssumption` says
that the names of releases, targets and profiles upstream, joined with a revision
or none between them, are told apart; the code joins them without a separator and
does not check it, see `WellFormed` below.

### PackageIndex

`json_v1_target_index` and `json_v1_arch_index`; a step is one download.
`Rebuild` replaces what upstream has between any two, and each download may get
no answer or raise.

| Code | Model |
|---|---|
| main.py, the two endpoints | `TargetIndex`; `ArchIndex` and `NextFeed` |
| util.py, `parse_packages_file` | `GetIndex`, `GetPackages`, on `dir`, `known`, `found` |
| util.py, `parse_kernel_version` | `GetKernel` |
| util.py, `is_post_kmod_split_build` | the operator of that name |
| main.py, the merging of the lists | `Merge`, on `base`, `packages` |
| util.py:517-525, the releases whose modules are not with the base | `ModulesApart`, an assumption on what upstream has, against which `is_post_kmod_split_build` is checked |

`IsUpstream` assumes that no list in opkg's format is empty:
`parse_packages_file` would make one chunk of it and enter a package without a
name (util.py:480-491).  `calm` and `past` are history variables.

### IndexedBuild

`PackageIndex` and `BuildInputs` composed the way a client such as owut joins
them: it asks for the index of its release, chooses packages of it (`Choose`)
and asks for an image with exactly these versions.  `Stock` is what the
ImageBuilder then finds upstream.  It is the same through the caching proxy.  Other clients come with a request of their
own.  `UpstreamAssumption` says that no feed lists a package of a target's base
or kernel: upstream builds each for the one or the other.  If both had it, the
index of a target would show one version and the ImageBuilder take another.

`MC*.tla` give the constants of each module their values for TLC.
`*Proofs.tla` have the theorems.

## 3. What the runs check

| Run | Bounds | Shows |
|---|---|---|
| `jobs_safety` | 2 hashes, 2 threads, 2 workers, `max_pending_jobs` 1, 4 POSTs, 1 crash; `BuildJobs` with the counters of `BuildStats` | `QueueBounded`, `JobOwned`, `SingleCopy`, `StatusAgrees`, `ImagesKept`, `BuildsAccounted`, `LookupsAccounted` |
| `jobs_promise` | the same with `max_pending_jobs` 0 and 3 POSTs | `RequestsSettle` and the refinement of `BuildPromise`, with its liveness |
| `jobs_cached` | 1 hash, 3 POSTs, no crash | a violation: an answered image is rebuilt after two POSTs raced |
| `stats_misses` | 1 hash, 2 POSTs | a violation: cache misses are not the sum of successes and failures |
| `versions_alone` | 2 threads, 3 reloads, versions 0 to 3, of which 0 is unsupported and 3 is released later (three are needed for an order the sort must change); started with the list or without | `AloneRepairs` |
| `versions_race` | the same with 2 reloads | a violation: a request is refused although the file it downloaded has its version |
| `image_retry` | 2 attempts in one `bin_dir`, both stores, with and without a key | `DoneStored`, `ContainersRemoved`, `FailureStands`, and `TimeLimited` |
| `image_shared` | 2 jobs in one `bin_dir` at a time | a violation: one build removes the other's JSON |
| `validation` | 2 threads, a generic target and one with 2 builds, 3 names, 1 change upstream | `AcceptedWasOffered`, `ServedInCalm` |
| `branches` | 2 threads, 2 branches with 3 versions, `Repeats` 2 | `AloneComplete`, `CopiesBounded` |
| `failures` | 1 reader, 2 workers, a job queued up to twice behind up to one other (`MaxAhead`), `MAX_ENTRIES` 1, 3 errors | `SuccessIsSafe`, `AnswerWasTrue`, `LogBounded`, `NewestKept`, `FailuresLogged`, `ToldIsLogged` |
| `requests` | three families of requests, see below | `SetDecides`, `OrderKept`, `AbsoluteAsAsked`, `HashDecides`, `RepositoriesAsAllowed`, `MissingNamed`, `IndexComplete`, `IndexWasPublished`, `IndexedIsBuilt` |

Each run that shows invariants also checks the type invariant of its module.

Why the bounds are enough.  Two threads are what a race needs, and the fourth
POST lets one come after a race is over; with two hashes one can block the
other in the queue.  Two workers can hold two copies of one job.  One crash can
hit either copy, before or after the start.  With `max_pending_jobs` 0 or 1
both threads pass the length check at the limit.  `versions_alone` needs three
reloads: two that overlap and one after them.  Two attempts are enough for
`image_retry`: what an attempt finds is what the last one left.  `MaxPosts`,
`MaxCrashes`, `MaxReloads`, `MaxEnqueues` and `MaxAhead` are the bounds of the models; the
theorems hold for all their values.  `Repeats` is 2 in `branches`: once is what
an undisturbed loop does, and twice is what a disturbed one may.  One change upstream (`MaxChanges`) makes
each cache, and a response in hand, old.  It is assumed that a target has the
one profile `generic` in every build or in none.  Two branches make a thread
leave one list behind while it works on another, and three versions give a
branch two.
Threads, workers, hashes, builds and readers are symmetric where a run checks
no liveness.

In `failures` the two workers are the two copies of a job that raced, or a copy
and another job's build.  With `MAX_ENTRIES` 1 (5000 in the code) and 3 errors,
entries are pushed between another worker's push and trim, trims are refused
and made good by a later one, and an entry of the job is displaced.  One reader
is enough: readers only read.  One job ahead makes the position change between
two reads without the job's leaving the queue.

`requests` has three families.  *Lists*: every list of up to three of eight
packages and the removal of one, without repetition, for each shape of a rule and with both values of
`diff_packages`; three let a package stand between two that are changed.
*Options*: requests that differ from one plain request in up to two fields,
each with every asker of the same hash: two fields are what it takes for a
hash that joins or misses a field to be the same.  *Indices*: clients that ask
for an index first, of one of six releases on either side of the split of the
kernel modules, in each format of lists, with one rebuild (`MaxRebuilds`) to
other versions, another kernel or both, and that choose up to two packages
(`MaxChosen`).  One rebuild falls between any two of the downloads.
The caching proxy (`cache_url`) is set and not set for the second family, and not
set for the others (`MCProxy`): their requests ask for no repositories.  The
ImageBuilder's own file has a URL of https, which is rewritten, and one of http.

Deadlock is not checked: the server stops when the bound of requests is
reached and everything is done, as it does when nobody asks.

### The violations

- **`CachedNeverRebuilt`** (README.md:54-56).  The lookup at api.py:229 and the
  enqueue at api.py:268 are not atomic.  Two POSTs of a hash both find no job;
  the first is queued, built, finished and answered, then the second one
  queues the id again and the image is built again; meanwhile clients that had
  an image see "queued".  All other properties of `BuildJobs` that exempt
  `raced` hashes do so for this reason.  The exemption is for hashes only for
  which two lookups in one window failed; it is for good, though: `BuildJobs`
  does not take a hash out of `raced` again when its copies are gone, so nothing
  is said of what becomes of it later.  `JobReply` does take its job out.
- **`MissesAreBuilds`** (util.py:71-72).  A request that is refused after its
  lookup is a miss without a build.  The docstring's other equation, requests =
  hits + misses, fails as plainly: a request that raises before its lookup is
  counted, or that finds an unfinished job, is neither.  What does hold is
  `BuildsAccounted` and `LookupsAccounted`, the inequalities in one direction.
- **`NoRaceConditions`** (util.py:563-565).  The downloading is not the only
  thing that races.
- **`NotAffected`** (README.md:76-77).  Containers do not separate builds whose
  `bin_dir` is the same.

### Preconditions that are there for a reason

Some properties have a precondition without which TLC finds them violated.

- `ServedInCalm` needs that no download fails: a reload that fails assigns `{}`
  to `app.targets[version]` (util.py:634), and if that falls between another
  thread's reload and its second look (api.py:121-122), that thread refuses a
  target that the file it downloaded has.  The docstring of `reload_targets`
  (util.py:624-625) says that no race conditions occur.
- `SetDecides` needs that a request names no package twice (`AskedOnce`): the
  hash removes duplicates (util.py:192) and `_remove_if_present` removes one
  copy only (package_changes.py:32-37), so `auc auc` and `auc` have one job but
  not one list of packages.
- `SetDecides` and the second part of `HashDecides` need that a `version_code`
  is a revision (`WellFormed`): the first fields are joined without a separator
  (util.py:167), so version 23.05.1 with the code `0` and version 23.05.10
  without one have one hash.  No revision begins with a digit, but nothing
  checks that (build_request.py:36).
- `AbsoluteAsAsked` needs that the profile removes nothing that is asked for:
  if it has `-tmux` and the client asks for `tmux`, `diff_packages` gives
  `-tmux tmux`.
- `IndexComplete` and `IndexedIsBuilt` need a minor version of one digit
  (`Single`): util.py:537 compares it with "6" as a string.  All releases of
  23.05 have one.
- `IndexedIsBuilt` needs that upstream did not change and answered (`calm`),
  that its lists tell the names without an ABI version (`NamesTold`; an
  index.json of version 1 alone does not, and then the name in the index is not
  the one in the manifest), that `apply_package_changes` leaves the packages as
  they are (`Untouched`; it renames packages but not the keys of
  `packages_versions`, as a TODO at package_changes.py:219 has it) and adds only
  what the ImageBuilder has, without which the build fails whatever was asked
  for, and that none is in a conflict.

## 4. Fairness

`jobs_promise` assumes weak fairness of `Dequeue`, `Start`, `BuildEnds` and
`Finish` of each worker and of `CleanOrphan`: workers are services that are
restarted (`podman-compose.yml`), take the next job whenever they are idle,
`job_timeout` ends each build, and each worker runs RQ's maintenance.  Nothing
is assumed of clients, web threads, crashes and expiry.  A worker may crash at
any point but not forever, which the bound `MaxCrashes` stands for: with
endless crashes no build would end.

`image_retry` assumes weak fairness of `Timeout`, `Kill` and `Remove` only: the
commands in the container, the pulls and the uploads may all hang for ever, for
none has a limit of its own; RQ's alarm is sure to come, and podman is trusted
to answer for the two calls of `_cleanup_container`.  `TimeLimited` exempts the
builds whose `job_timeout` fell into the `except` clauses of
`_cleanup_container`, which swallow it: nothing in the code limits such a build
any more.  RQ still does, from outside: its monitor kills the work-horse of a job
about a minute after the timeout, without a cleanup.  `Crash` is that step, and
no fairness is assumed of it: with it, `TimeLimited` would be about RQ's monitor
for every build and would say nothing of the code.

## 5. Proofs

Every invariant and action property that a passing run checks is a theorem.
The theorems are for any sets of threads, workers, readers, builds, targets,
names, packages and releases (finite where their number matters), any values of
the bounds, lists of any length, and anything upstream may publish.  They assume
nothing but the named assumptions on the constants, which TLC evaluates in the
runs: `BuildJobsAssumption`, `JobReplyAssumption`, `ErrorLogAssumption`,
`RequestValidationAssumption`, `ImageBuildAssumption`, `VersionCacheAssumption`,
`BranchesAssumption`, `PackageIndexAssumption`, `PackageSelectionAssumption`,
`RulesAssumption`, `RepositoriesAssumption`, `BuildInputsAssumption`,
`JoinedAssumption`, `IndexedBuildAssumption` and `UpstreamAssumption`.  Most
say what kind of value a constant is or what the code itself fixes.  The rest
are about upstream, and the code relies on them without a check:
`JoinedAssumption`, `UpstreamAssumption`, the part of `PackageIndexAssumption`
about `ModulesApart` (section 2) and the part of `RequestValidationAssumption`
about `generic` (section 3).

- `BuildJobsProofs`, of `BuildJobs` and `BuildStats`.  `TypeCorrect` needs
  nothing but itself.  `QueueBoundedAlways` rests on `Admitted`: the queue's
  length plus the number of threads that passed the check exceed the limit by no
  more than the number of threads; a thread that passes pays with its own place.
  `JobOwned` is inductive by itself.  `SingleCopyAlways`, `StatusAgreesAlways`
  and `ImagesAreKept` rest on `AllExclusive`: of an id that is not raced, the
  places it may be in (a thread's window, the queue, a worker, the registry)
  exclude each other, each goes with one status, and an id that is served has a
  finished job or none.  It is needed because a second copy anywhere makes each
  of the three false a few steps later.  `PromiseKept` shows that each step
  maps to a step of `BuildPromise` or to none, with `ImageOf` as the refinement
  mapping.  Each step of `StatsNext` is one of `Next`, so the types carry over;
  `BuildsAccounted` is inductive; `LookupsAccounted` follows from an inductive
  form that counts the threads still to be classified.
- `FailureReportProofs`, of `JobReply`, `ErrorLog` and their composition.
  `SuccessIsAlwaysSafe` and `AnswerWasAlwaysTrue` rest on `AllReading`: a reader
  at a given read either has seen the job fail, expire or be queued again, or
  the job's status is one that the reads already made have not ruled out; and on
  an account of the copies, which says where the job of a reader that has read
  "queued" may be when the position is read.
  `LogBounded` is inductive with the types: a push pays for itself with its own
  trim.  `NewestKept` is inductive because a prefix of a prefix is one, and a
  list that is shorter than the limit has never been cut.
  `ReportImplementsReply` and `ReportKeepsLog` show that the composition
  implements both of its parts, each step a step of the part or none, so what is
  proved of the parts holds of it.  `FailuresAlwaysLogged` rests on an inductive
  account of the job's errors: each time is an entry, is in a worker's hands, or
  is counted as unlogged, and each failure marked is one of them.
  `ToldIsAlwaysLogged` adds that a reader that was told of a failure was told
  after one was marked, and `NewestKept`.
- `RequestValidationProofs`.  `AcceptedWasOfferedAlways` rests on
  `KnownOffered`, that upstream and the cache hold only maps that were offered,
  and on `Traced(t)`: what thread t has downloaded was offered for its target,
  and a name that passed its check passed it against an offered map.  `Lookup`
  reads the cache a second time, perhaps after another thread's reload, so the
  two maps differ; the assumption that a target has the one profile `generic`
  in every build or in none is what makes the second as good as the first.
  `ServedInCalmAlways` rests on `CalmInv`: while a request is in calm, whatever
  any thread has in hand is what upstream has, so that no reload by another
  takes away what this one has found.
- `ImageBuildProofs`.  `ContainersAlwaysRemoved` and `FailuresStand` rest on
  `BuildInv`: a container that podman has is within a `try` statement, in
  `_cleanup_container`, or accounted for (`Tracked`); and a build that told its
  failure, or that the alarm has hit, is on its way to fail, while one past its
  checks made its image (`Stands`).  They hold however many builds share a
  `bin_dir`.  `DoneAlwaysStored` is for builds that do not: `StoreInv` adds
  that only the latest build of a `bin_dir` runs (`Alone`), and that what it
  has copied or uploaded is its own (`Held`).
- `VersionCacheProofs`.  The sort first: of any list of versions, `Sorted` has
  the same items at the places that `Upto` counts, for which the number of
  earlier ones must be shown to be one to one.  `TypeCorrect` needs that a thread
  which is to append has a version left (`Pending`).  `AloneAlwaysRepairs` rests
  on `AllAlone`: at each step of a reload that overlaps no other one, the list
  bound is its own, and what it has plus what is still in the file is what the
  file had (`Filling`); and on `Unmade`: the list that the next reload binds is
  empty and in nobody's hands, which is why what a race has left does no harm.
- `BranchesProofs`.  `CopiesAlwaysBounded` rests on `CopiesPaid`: each copy of a
  version in a shared list is paid for by a meeting of some thread's latest call
  with it.  A thread that clears the list gives up its meetings, and the list
  is then empty; a thread that appends spends one.  `AloneAlwaysComplete`
  rests on how far the loops of an undisturbed call have come: the branches it
  has cleared are empty, those it has filled have the versions that are before
  the next one, newest first, and what it has encoded is what is there.
- `PackageSelectionProofs`, for lists of any length.  `ChangesType`;
  `ChangesAsExpected`: as a set, the result of the chain of changes is
  `Expected`, so no change undoes or misses what another did, for a list that
  has no package twice; `ChangesKeepOrder`: what is kept keeps its order, before
  what is added.  Each of the five changes is shown to keep a list without
  duplicates one, to have the items it should (`InOrder` for the order), and the
  theorems put them together.
- `IndexedBuildProofs`, of `PackageIndex`, `BuildInputs` and their composition.
  `IndexAlwaysPublished` rests on `PublishedInv`: what a request has read and
  merged is listed by something in `past`, and what it has of kernel modules by
  one kernel's directory.  `IndexAlwaysComplete` rests on `CompleteInv`, which
  says of each step what has been read so far and what is left: `FileInv` of the
  directory in hand, in each format, `TargetInv` of the base and then the
  modules, `ArchInv` of the first feeds and those to come.
  `IndexedImplementsIndex` carries both over to the composition.
  `RepositoriesAlwaysAllowed` and `VersionsAlwaysHonoured` rest on `PromiseInv`:
  the asker shares with the request what its hash tells, and the job keeps it
  until the worker reads it; what `inject_files` leaves (`Injected`) is known
  exactly, so that what `sed` makes of it (`Routed`) is, too.  `SetAlwaysDecides`, `HashAlwaysDecides`,
  `OrderAlwaysKept` and `AbsoluteAlwaysAsAsked` rest on `InputsInv`: the worker
  has what the handler made of the request until it changes the packages, and
  then the result of `apply_package_changes` and nothing else; with it they
  follow from what equal hashes say, from the theorems of
  `PackageSelectionProofs` and from `DiffIsAbsolute`, which is about
  `diff_packages` on any lists.  `MissingAlwaysNamed` rests on what a line says
  being only one of the two kinds (`NamedInSaid`), and on nothing being known of
  the conflicts of a package that is missing.  `IndexedAlwaysBuilt` rests on
  `BuiltInv`: the request has packages of the index and no others until it is
  queued, the manifest is what the ImageBuilder had of what was wanted, and, by
  `OfferedInStock`, what a complete index offers is in `Stock` at its version.

What a recursive definition computes for every input is proved by hand here:
the library's induction theorems are about operators, but its theorem that a
well-founded order has minimal elements is about sets.  `Least` is its instance
for natural numbers; from it come `Induction`, on the set of the numbers for which
a claim fails, and `Recursion`, that a function defined over an interval has the
values its definition gives.  `DropEnglish`, `AddByRules` and `Merged` are such
functions.

The proofs also changed the models where they were too loose to be reasoned
about.  `Offered` and `Stock` had been written with a `CASE` whose guards
overlap, which leaves the value open; the loop of `Branches` had been unable to
meet a version twice, which a loop over a list that is being sorted may; and
`JoinedAssumption`, `UpstreamAssumption` and
the second half of `Untouched` had been true of the runs' constants without
having been stated.

Only model-checked: liveness (`RequestsSettle`, the fairness half of
`KeepsPromise`, `TimeLimited`), which is outside the prover's reach.  The
violations are TLC's counterexamples.

## 6. What is not modelled

- `asu/static/chart.js`, the one JavaScript file: a minified copy of a
  third-party library that draws the statistics page in the browser.  It is no
  part of the server, and the server is what these modules are about.
- The statistics pages, templates and settings: queries and presentation.  The
  time series of requested packages (build.py:266-275).
- What the keys, the defaults and the size of the root file system make of an
  image; the commands in the container; the contents of packages and images;
  the signatures, whose failure the code ignores (build.py:426).
- `api_v1_revision`, `json_v1_profile` and the redirects: single reads.  The
  proxy that serves and rewrites files of the store.
- `app.latest`: as `app.versions`, without the sort.  It, too, is emptied before
  it is filled (util.py:593).
- Redis failing under a web handler: the client gets an error and nothing else
  changes but what was already written.
- `async_queue = False`, the tests' synchronous queue.
- The `+` that may stand before the name of a requested package:
  `validate_request` removes it (api.py:115-118), and `get_packages_hash` does as
  well (util.py:205), so a request has one hash and one list of packages with it
  and without.  The keys of `packages_versions` keep it, in their hash
  (util.py:151) and when they are held against the manifest (util.py:370-371),
  where no package is found under such a name.
- In `Repositories`, the order of the lines and the names opkg has for them; it
  is assumed that the ImageBuilder's file can be read, for the return code of
  `cat` is not looked at (build.py:115), and that `sed` succeeds, for the same
  reason (build.py:226).  A URL has `https://` at its start or not at all, though
  `sed` replaces it anywhere in a line.
- In `IndexedBuild`, which feed opkg takes a package from that several have: the
  later one is assumed, as in the index.

## 7. Plan

1. `VersionCache` composed with `Branches`, which now takes what a thread reads
   of `app.versions` from `AloneRepairs`, and the theorem that the composition
   implements `Branches`.
2. `BuildJobs` composed with `ImageBuild`: what a client is told of a job is
   what the store has.
3. Runs for two things that are preconditions now: the comparison of minor
   versions (util.py:537) and the names of `packages_versions` after a renaming
   (package_changes.py:219).
