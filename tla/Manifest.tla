------------------------------- MODULE Manifest --------------------------------
(***************************************************************************)
(* What the worker makes of "make manifest" (asu/util.py): check_manifest  *)
(* for its output, check_package_errors for its complaints.  A manifest is *)
(* the function from the names of what would be installed to their         *)
(* versions.  A complaint is a line that the regular expressions find,     *)
(* with the package they take from it.                                     *)
(***************************************************************************)
EXTENDS Naturals, Sequences, SequencesExt, FiniteSetsExt

NoError == [reason |-> "none"]

\* The key of a removal is not the name of anything installed.
InManifest(item, manifest) == ~item.package.minus /\ item.package.name \in DOMAIN manifest

\* The first of packages_versions that the manifest does not agree with.
check_manifest(manifest, packages_versions) ==
    LET Agrees(i) ==
            /\ InManifest(packages_versions[i], manifest)
            /\ packages_versions[i].version = manifest[packages_versions[i].package.name]
        wrong == {i \in DOMAIN packages_versions : ~Agrees(i)}
    IN  IF wrong = {}
        THEN NoError
        ELSE LET item == packages_versions[Min(wrong)]
             IN  [reason |-> IF InManifest(item, manifest) THEN "version not as requested"
                                                           ELSE "not in manifest",
                  package |-> item.package]

Complaints ==
    {"Cannot install package", "no such package", "conflicts", "wants to install file",
     "already provided by", "trying to overwrite", "owned by"}

\* opkg's "Cannot install" and apk's "no such package" are said of what is missing.
NamesMissing == {"Cannot install package", "no such package"}

Named(stderr, complaints) ==
    {line.package : line \in {l \in stderr : l.complaint \in complaints}}

\* Mutant of check_package_errors: what conflicts is also named as missing.
check_both_errors(stderr) ==
    [reason    |-> "package errors",
     missing   |-> Named(stderr, NamesMissing),
     conflicts |-> Named(stderr, Complaints \ NamesMissing)]

check_package_errors(stderr) ==
    LET conflicts == Named(stderr, Complaints \ NamesMissing)
    IN  [reason    |-> "package errors",
         missing   |-> Named(stderr, NamesMissing) \ conflicts,
         conflicts |-> conflicts]
================================================================================
