----------------------------- MODULE Repositories ------------------------------
(***************************************************************************)
(* asu/repositories.py: the repositories that a request may add to the     *)
(* ImageBuilder.  A URL is a name that CONSTANT Parsed takes apart as      *)
(* urlparse does; the path is the sequence of its segments, without the    *)
(* empty ones at the end for the allowed URLs (rstrip).  A file of         *)
(* repositories is the set of its lines: their order, and the name that    *)
(* opkg has for each, are left out.                                        *)
(***************************************************************************)
EXTENDS Sequences, SequencesExt

CONSTANTS
    Urls,         \* the URLs of requests, of allow lists and of the ImageBuilder
    Parsed        \* the scheme, hostname and path of each

ASSUME RepositoriesAssumption ==
    \A u \in Urls : {"scheme", "hostname", "path"} \subseteq DOMAIN Parsed[u]

\* The two lines that opkg needs and that no request can leave out.
OpkgLines == {"src imagebuilder file:packages", "option check_signature"}

is_repo_allowed(url, allow_list) ==
    \E allowed \in allow_list :
        /\ Parsed[url].scheme = Parsed[allowed].scheme
        /\ Parsed[url].hostname = Parsed[allowed].hostname
        /\ IsStrictPrefix(Parsed[allowed].path, Parsed[url].path)

\* Mutant of validate_repos: the worker relies on the check of the API.
validate_no_repos(repositories, allow_list) == ToSet(repositories)

validate_repos(repositories, allow_list) ==
    {item \in ToSet(repositories) : is_repo_allowed(item.url, allow_list)}

merge_repositories(base, extra_repos, apk_mode) ==
    base \cup {item.url : item \in extra_repos} \cup (IF apk_mode THEN {} ELSE OpkgLines)
================================================================================
