------------------------------ MODULE RequestHash ------------------------------
(***************************************************************************)
(* get_request_hash (asu/util.py): the identity of a request's job and of  *)
(* its image.  SHA-256 is one to one here, so a hash is what is hashed.    *)
(* The first four fields are joined without a separator: each is the       *)
(* sequence of the pieces of its text, and they are concatenated.  What    *)
(* follows them begins with two digests of a fixed length, so it can be    *)
(* told apart field by field.                                              *)
(*                                                                         *)
(* A dictionary of a request is the sequence of its items in their order.  *)
(***************************************************************************)
EXTENDS Sequences, SequencesExt

CONSTANT Text     \* the pieces of the text of a version, revision, target or profile

\* options: filesystem, defaults, rootfs_size_mb and repository_keys.
Fields == {"version", "version_code", "target", "profile", "packages", "packages_versions",
           "diff_packages", "options", "repositories", "repositories_mode"}

\* packages_versions, when there are any, stand for the packages.
PackagesOf(r) ==
    IF r.packages_versions # <<>>
    THEN [i \in DOMAIN r.packages_versions |-> r.packages_versions[i].package]
    ELSE r.packages

Joined(r) == Text[r.version] \o Text[r.version_code] \o Text[r.target] \o Text[r.profile]

\* Sorted, and without the duplicates.
get_packages_hash(packages) == ToSet(packages)
get_manifest_hash(manifest) == ToSet(manifest)

\* Mutant of get_request_hash: it was not extended for a new field of the request.
hash_unextended(r) ==
    [joined       |-> Joined(r),
     packages     |-> get_packages_hash(PackagesOf(r)),
     versions     |-> get_manifest_hash(r.packages_versions),
     diff         |-> r.diff_packages,
     repositories |-> r.repositories,
     mode         |-> r.repositories_mode]

get_request_hash(r) ==
    [joined       |-> Joined(r),
     packages     |-> get_packages_hash(PackagesOf(r)),
     versions     |-> get_manifest_hash(r.packages_versions),
     diff         |-> r.diff_packages,
     options      |-> r.options,
     repositories |-> r.repositories,
     mode         |-> r.repositories_mode]
================================================================================
