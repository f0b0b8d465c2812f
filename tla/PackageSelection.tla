--------------------------- MODULE PackageSelection ---------------------------
(***************************************************************************)
(* Which packages _build (asu/build.py) gives to the ImageBuilder:         *)
(* apply_package_changes (asu/package_changes.py) and diff_packages        *)
(* (asu/util.py), as operators.                                            *)
(*                                                                         *)
(* A package in a list is a name with or without a minus, which says that  *)
(* it is to be removed.  A profile is known by where the rule for its      *)
(* target has it: on its first list of profiles, its second or neither.    *)
(***************************************************************************)
EXTENDS Naturals, FiniteSets, Sequences, SequencesExt

CONSTANTS
    Versions,     \* versions of the requests
    BranchOf,     \* the branch of each: what the rules look at
    Targets,      \* targets of the requests
    Names,        \* names of packages
    NewNameOf,    \* the new name of each "luci-i18n-opkg-" package
    English       \* the names "luci-i18n-...-en"

Profiles == {"first", "second", "other"}
Package  == [name : Names, minus : BOOLEAN]
Plus(n)  == [name |-> n, minus |-> FALSE]

ASSUME PackageSelectionAssumption ==
    /\ BranchOf \in [Versions -> {"22.03", "23.05", "24.10", "25.12", "SNAPSHOT"}]
    /\ DOMAIN NewNameOf \subseteq Names
    /\ \A n \in DOMAIN NewNameOf :
           /\ NewNameOf[n] \in Names \ DOMAIN NewNameOf
           /\ NewNameOf[n] \in English <=> n \in English
    /\ English \subseteq Names

-----------------------------------------------------------------------------
(* apply_package_changes *)

\* A package that a branch adds for a target and profile, in the order of the code.
Rule(b, targets, profiles, add) ==
    [branch |-> b, targets |-> targets, profiles |-> profiles, add |-> add]

Lantiq    == {"lantiq/xrx200", "lantiq/xrx200_legacy"}
Mvebu     == {"kirkwood/generic", "mvebu/cortexa9", "mvebu/cortexa53", "mvebu/cortexa72"}
Bluetooth == {"bcm53xx/generic", "ipq40xx/generic", "qualcommax/ipq807x"}
Fitblk    == {"mediatek/filogic", "mediatek/mt7622", "mediatek/mt7623"}

Rules == <<
    Rule("23.05", {"mediatek/mt7622"}, Profiles, "kmod-mt7622-firmware"),
    Rule("23.05", {"ath79/generic"}, {"first"}, "kmod-switch-rtl8366s"),
    Rule("23.05", {"ath79/generic"}, {"second"}, "kmod-switch-rtl8366rb"),
    Rule("24.10", Targets, {"first"}, "ipq-wifi-tplink_archer-c6-v2"),
    Rule("24.10", Fitblk, Profiles, "fitblk"),
    Rule("25.12", Mvebu, {"first"}, "kmod-dsa-mv88e6xxx"),
    Rule("25.12", Lantiq, Profiles, "kmod-dsa-gswip"),
    Rule("25.12", Lantiq, {"first"}, "xrx200-rev1.1-phy22f-firmware"),
    Rule("25.12", Lantiq, {"first"}, "xrx200-rev1.2-phy22f-firmware"),
    Rule("25.12", Lantiq, {"second"}, "xrx200-rev1.1-phy11g-firmware"),
    Rule("25.12", Lantiq, {"second"}, "xrx200-rev1.2-phy11g-firmware"),
    Rule("25.12", Bluetooth, {"first"}, "kmod-hci-uart"),
    Rule("25.12", {"ath79/mikrotik"}, Profiles, "kmod-ag71xx-legacy") >>

\* None of what the code adds is one of the language packs that it renames.
ASSUME RulesAssumption ==
    /\ {Rules[i].add : i \in DOMAIN Rules} \cup {"owut"} \subseteq Names \ DOMAIN NewNameOf
    /\ "auc" \in Names

Applies(rule, r) ==
    BranchOf[r.version] = rule.branch /\ r.target \in rule.targets /\ r.profile \in rule.profiles

\* Mutant of AddIfMissing: what the server adds comes before what the user asked for.
AddInFront(s, n) == IF Contains(s, Plus(n)) THEN s ELSE <<Plus(n)>> \o s

AddIfMissing(s, n)    == IF Contains(s, Plus(n)) THEN s ELSE Append(s, Plus(n))
RemoveIfPresent(s, n) == RemoveFirst(s, Plus(n))

AddByRules(r, s) ==
    LET added[i \in 0..Len(Rules)] ==
            IF i = 0 THEN s
            ELSE IF Applies(Rules[i], r) THEN AddIfMissing(added[i - 1], Rules[i].add)
            ELSE added[i - 1]
    IN  added[Len(Rules)]

\* Branch 24.10 has owut for auc.
ReplaceAuc(r, s) ==
    IF BranchOf[r.version] = "24.10" /\ Contains(s, Plus("auc"))
    THEN AddIfMissing(RemoveIfPresent(s, "auc"), "owut")
    ELSE s

DropFromSnapshot(r, s) ==
    IF BranchOf[r.version] = "SNAPSHOT"
    THEN RemoveIfPresent(RemoveIfPresent(s, "kmod-nf-conntrack6"), "kmod-lib-crc32c")
    ELSE s

\* The language packs are renamed from 24.10 on: versions compare as strings,
\* and "SNAPSHOT" comes after them.
RenameLanguagePacks(r, s) ==
    IF BranchOf[r.version] \in {"24.10", "25.12", "SNAPSHOT"}
    THEN [i \in DOMAIN s |->
             IF ~s[i].minus /\ s[i].name \in DOMAIN NewNameOf
             THEN Plus(NewNameOf[s[i].name])
             ELSE s[i]]
    ELSE s

\* Mutant of DropEnglish: the list is changed while the loop runs over it, so
\* the package after one that is removed is passed over.
DropEnglishInPlace(s) ==
    LET gone[i \in DOMAIN s] ==
            s[i] \in {Plus(n) : n \in English} /\ (i = 1 \/ ~gone[i - 1])
        left[i \in 0..Len(s)] ==
            IF i = 0 THEN <<>> ELSE IF gone[i] THEN left[i - 1] ELSE Append(left[i - 1], s[i])
    IN  left[Len(s)]

DropEnglish(s) ==
    LET left[i \in 0..Len(s)] ==
            IF i = 0 THEN <<>>
            ELSE IF s[i] \in {Plus(n) : n \in English} THEN left[i - 1]
            ELSE Append(left[i - 1], s[i])
    IN  left[Len(s)]

apply_package_changes(r, s) ==
    DropEnglish(RenameLanguagePacks(r, DropFromSnapshot(r, AddByRules(r, ReplaceAuc(r, s)))))

\* The packages there are to be for a set of packages asked for, without any order.
Expected(r, S) ==
    LET rules  == {i \in DOMAIN Rules : Applies(Rules[i], r)}
        branch == BranchOf[r.version]
        gone   == CASE branch = "24.10"    -> {"auc"}
                    [] branch = "SNAPSHOT" -> {"kmod-nf-conntrack6", "kmod-lib-crc32c"}
                    [] OTHER               -> {}
        kept   == S \ {Plus(n) : n \in gone}
        old    == IF branch \in {"22.03", "23.05"} THEN {} ELSE {Plus(n) : n \in DOMAIN NewNameOf}
        owut   == IF branch = "24.10" /\ Plus("auc") \in S THEN {Plus("owut")} ELSE {}
    IN  ((kept \ old) \cup {Plus(NewNameOf[x.name]) : x \in kept \cap old}
            \cup owut \cup {Plus(Rules[i].add) : i \in rules})
        \ {Plus(n) : n \in English}

-----------------------------------------------------------------------------
(* diff_packages *)

\* "-" before a name, where "--" becomes "-".
Minus(x) == [name |-> x.name, minus |-> TRUE]

\* Mutant of diff_packages: the default packages that are asked for go, too.
diff_packages_all(requested, defaults) ==
    SetToSeq({Minus(x) : x \in defaults}) \o requested

\* The order of the names that are removed is of no consequence.
diff_packages(requested, defaults) ==
    SetToSeq({Minus(x) : x \in defaults \ ToSet(requested)}) \o requested
===============================================================================
