--------------------------- MODULE BundleExchange ---------------------------
(***************************************************************************)
(* vision_shark/profile_distribution.py and the commands of main.py that   *)
(* use it: signed bundles are created at a path, verified there and        *)
(* imported from there, by processes of their own.                         *)
(*                                                                         *)
(* An archive is the sequence of its members, a digest is what it is the   *)
(* digest of, and a signature names the key pair and what was signed.      *)
(* ProfileRegistry has the registry's own tables and their transactions,   *)
(* FleetCatalog what is exported of them.                                  *)
(***************************************************************************)
EXTENDS Naturals, SequencesExt

CONSTANTS
    Creators,    \* processes that create bundles, all at one path
    Orders,      \* what a bundle is created of and with
    Stores,      \* trust stores: key id -> [publisher, pair]
    MaxChanges   \* how often the file at the path is created or packed anew

(* Evidence is a list of names with the files they stand for. *)
ASSUME OrdersAssumption ==
    \A o \in Orders : o.evidence \in Seq({o.evidence[i] : i \in DOMAIN o.evidence})

MaxProfile == 2
MaxEvidenceFile == 3
MaxEvidenceTotal == 4
MaxEvidenceFiles == 3
MaxManifest == 3
MaxMembers == MaxEvidenceFiles + 4
MaxBundle == MaxEvidenceTotal + MaxProfile + MaxManifest + 3

Absent == <<>>

VARIABLES
    bundle,     \* the archive at the path, or Absent
    changes,    \* how often it was created or packed anew
    creating,   \* creator -> the order whose bundle it has put in place, or NoOrder
    signed,     \* ghost: [pair, manifest] of every signature ever made
    importing,  \* the import: what it has verified, and the digest it goes by
    installed   \* [manifest, file, swapped]: rows and their files

exchangeVars == <<bundle, changes, creating, signed, importing, installed>>

NoOrder == [version |-> 0]
NotImporting == [pc |-> "idle", manifest |-> [version |-> 0], digest |-> Absent, swapped |-> FALSE]

ExchangeInit ==
    /\ bundle = Absent /\ changes = 0
    /\ creating = [c \in Creators |-> NoOrder]
    /\ signed = {}
    /\ importing = NotImporting
    /\ installed = {}

-----------------------------------------------------------------------------
(* What is in a bundle.                                                       *)

Member(dir, name, holds) == [at |-> [dir |-> dir, name |-> name], holds |-> holds]
ManifestAt == [dir |-> "", name |-> "manifest.json"]
ProfileAt == [dir |-> "", name |-> "profile.json"]
SignatureAt == [dir |-> "", name |-> "signature.ed25519"]

(* _EVIDENCE_NAME and _safe_member: names begin with a letter or a digit. *)
Unsafe == {"", ".", "..", "_a"}
Safe(at) == at.name \notin Unsafe /\ at.dir \notin Unsafe \ {""}

Total(f) == FoldFunction(+, 0, f)

(* The manifest grows with the files it lists; a signature is short. *)
SizeOf(m) == CASE m.at = ManifestAt -> 1
               [] m.at = SignatureAt -> 1
               [] OTHER -> m.holds.bytes
Size(archive) == Total([i \in DOMAIN archive |-> SizeOf(archive[i])])

Held(archive, at) == (CHOOSE m \in Range(archive) : m.at = at).holds
ManifestOf(archive) == Held(archive, ManifestAt)

TrustLoads(store) ==
    DOMAIN store # {} /\ \A key \in DOMAIN store : key # "" /\ store[key].publisher # ""

Resolves(store, m) == m.key \in DOMAIN store /\ store[m.key].publisher = m.publisher

WithinLimits(archive) ==
    /\ archive # Absent /\ Size(archive) <= MaxBundle
    /\ Len(archive) <= MaxMembers
    /\ \A i, j \in DOMAIN archive : archive[i].at = archive[j].at => i = j
    /\ \A i \in DOMAIN archive : Safe(archive[i].at)
    /\ Size(archive) <= MaxEvidenceTotal + MaxProfile + MaxManifest
    /\ {ManifestAt, ProfileAt, SignatureAt} \subseteq {m.at : m \in Range(archive)}

SignedBy(archive, store) ==
    LET m == ManifestOf(archive)
    IN  /\ m.version >= 1 /\ m.publisher # ""
        /\ Resolves(store, m)
        /\ Held(archive, SignatureAt) = [pair |-> store[m.key].pair, of |-> m]

(* Slip: a member that the manifest does not list is let pass. *)
AsListedAtLeast(archive) ==
    LET m == ManifestOf(archive)
    IN  /\ DOMAIN m.files \subseteq {member.at : member \in Range(archive)}
        /\ Held(archive, ProfileAt).pack = m.pack

(* _hash_zip_member for every file that the manifest lists. *)
AsListed(archive) ==
    LET m == ManifestOf(archive)
    IN  /\ ProfileAt \in DOMAIN m.files /\ Cardinality(DOMAIN m.files) <= MaxEvidenceFiles + 1
        /\ {member.at : member \in Range(archive)} = DOMAIN m.files \cup {ManifestAt, SignatureAt}
        /\ \A at \in DOMAIN m.files :
              LET held == Held(archive, at)
              IN  /\ at # ProfileAt => at.dir = "evidence" /\ Safe(at)
                  /\ held.bytes <= IF at = ProfileAt THEN MaxProfile ELSE MaxEvidenceFile
                  /\ held = m.files[at]
        /\ Held(archive, ProfileAt).pack = m.pack

Verifies(archive, store) ==
    TrustLoads(store) /\ WithinLimits(archive) /\ SignedBy(archive, store) /\ AsListed(archive)

-----------------------------------------------------------------------------
(* profile-bundle-create: put in place first, verified then, and taken away    *)
(* whatever it is that went wrong.                                            *)

EvidenceBytes(evidence) == Total([i \in DOMAIN evidence |-> evidence[i].file.bytes])
NamesAreOwn(evidence) ==
    /\ \A i \in DOMAIN evidence : evidence[i].name # ""
    /\ \A i, j \in DOMAIN evidence : evidence[i].name = evidence[j].name => i = j

(* _load_evidence_specs. *)
EvidenceFits(evidence) ==
    /\ NamesAreOwn(evidence)
    /\ \A i \in DOMAIN evidence : evidence[i].file.bytes <= MaxEvidenceFile
    /\ EvidenceBytes(evidence) <= MaxEvidenceTotal

Creatable(o) ==
    /\ TrustLoads(o.store)
    /\ o.profile.pack # "" /\ o.profile.bytes <= MaxProfile
    /\ o.version >= 1 /\ o.publisher # "" /\ o.key # ""
    /\ Len(o.evidence) <= MaxEvidenceFiles /\ EvidenceFits(o.evidence)
    /\ \A i \in DOMAIN o.evidence : o.evidence[i].name \notin Unsafe

Content(o) ==
    <<Member("", "profile.json", o.profile)>>
        \o [i \in DOMAIN o.evidence |-> Member("evidence", o.evidence[i].name, o.evidence[i].file)]

ManifestFor(o) ==
    [pack |-> o.profile.pack, version |-> o.version, publisher |-> o.publisher, key |-> o.key,
     files |-> [at \in {m.at : m \in Range(Content(o))} |-> Held(Content(o), at)]]

Signature(o) == [pair |-> o.pair, of |-> ManifestFor(o)]

Built(o) ==
    <<Member("", "manifest.json", ManifestFor(o))>> \o Content(o)
        \o <<Member("", "signature.ed25519", Signature(o))>>

(* What an import has read may not be what it takes the digest of. *)
Replaced(archive) ==
    /\ bundle' = archive
    /\ importing' = [importing EXCEPT !.swapped = @ \/ importing.pc = "read"]

Create(c, o) ==
    /\ changes < MaxChanges /\ changes' = changes + 1
    /\ creating[c] = NoOrder
    /\ IF Creatable(o)
       THEN /\ Replaced(Built(o))
            /\ creating' = [creating EXCEPT ![c] = o]
            /\ signed' = signed \cup {[pair |-> o.pair, manifest |-> ManifestFor(o)]}
       ELSE Replaced(Absent) /\ UNCHANGED <<creating, signed>>
    /\ UNCHANGED installed

(* It is whatever is at the path by now that is measured and verified. *)
Check(c) ==
    /\ creating[c] # NoOrder
    /\ creating' = [creating EXCEPT ![c] = NoOrder]
    /\ IF Verifies(bundle, creating[c].store)
       THEN UNCHANGED <<bundle, importing>>
       ELSE Replaced(Absent)
    /\ UNCHANGED <<changes, signed, installed>>

(* Somebody unpacks the bundle, changes something and packs it again. *)
PackedAnew(archive) ==
    {RemoveAt(archive, i) : i \in DOMAIN archive}
    \cup {Append(archive, m) : m \in {archive[2], Member("evidence", "b", [bytes |-> 1, text |-> "x"])}}
    \cup {[i \in DOMAIN archive |->
              IF archive[i].at = ManifestAt THEN [archive[i] EXCEPT !.holds.version = @ + 1]
              ELSE archive[i]],
          [i \in DOMAIN archive |->
              IF archive[i].at.dir = "evidence" THEN [archive[i] EXCEPT !.holds.text = "x"]
              ELSE archive[i]]}

PackAnew ==
    /\ changes < MaxChanges /\ changes' = changes + 1
    /\ bundle # Absent /\ Len(bundle) > 2
    /\ \E archive \in PackedAnew(bundle) : Replaced(archive)
    /\ UNCHANGED <<creating, signed, installed>>

-----------------------------------------------------------------------------
(* profile-import: the archive is verified, the digest of what is at the path  *)
(* is taken, and a copy with that digest is installed.                        *)

ReadBundle(store) ==
    /\ importing.pc = "idle"
    /\ Verifies(bundle, store)
    /\ importing' = [pc |-> "read", manifest |-> ManifestOf(bundle), digest |-> Absent,
                     swapped |-> FALSE]
    /\ UNCHANGED <<bundle, changes, creating, signed, installed>>

(* _sha256_path of the path, and the row that is there already. *)
TakeDigest ==
    /\ importing.pc = "read"
    /\ importing' =
          IF bundle = Absent \/ \E row \in installed : row.manifest.pack = importing.manifest.pack
                                                    /\ row.manifest.version = importing.manifest.version
          THEN NotImporting
          ELSE [importing EXCEPT !.pc = "digested", !.digest = bundle]
    /\ UNCHANGED <<bundle, changes, creating, signed, installed>>

(* _atomic_copy: the copy is of what is at the path by now. *)
BytesCopied == IF bundle = importing.digest THEN {bundle} ELSE {}

(* The row, whose digest is unique. *)
CopyAndInsert ==
    /\ importing.pc = "digested"
    /\ importing' = NotImporting
    /\ installed' = installed \cup
          {[manifest |-> importing.manifest, file |-> copy, swapped |-> importing.swapped] :
              copy \in {file \in BytesCopied : \A row \in installed : row.file # file}}
    /\ UNCHANGED <<bundle, changes, creating, signed>>

ExchangeNext ==
    \/ \E c \in Creators : (\E o \in Orders : Create(c, o)) \/ Check(c)
    \/ PackAnew
    \/ \E store \in Stores : ReadBundle(store)
    \/ TakeDigest \/ CopyAndInsert

ExchangeSpec == ExchangeInit /\ [][ExchangeNext]_exchangeVars

-----------------------------------------------------------------------------
(* Its manifest was signed with the key pair that a trust store holds for its
   publisher. *)
OwnerSigned(manifest) ==
    \E store \in Stores :
        Resolves(store, manifest) /\ [pair |-> store[manifest.key].pair, manifest |-> manifest] \in signed

(* The file is the bundle with that manifest: the manifest, the files that it
   lists, a signature and nothing else. *)
IsBundleOf(file, manifest) ==
    /\ \E store \in Stores : Verifies(file, store)
    /\ ManifestOf(file) = manifest
    /\ {m \in Range(file) : m.at # SignatureAt}
          = {[at |-> at, holds |-> manifest.files[at]] : at \in DOMAIN manifest.files}
                \cup {[at |-> ManifestAt, holds |-> manifest]}

(* Nothing gets into the registry but what the owner of a trusted key has signed,
   byte for byte: the installed file is the bundle of the row's manifest and nothing
   else, unless the path was given another one after it was verified. *)
InstalledIsSigned ==
    \A row \in installed :
        OwnerSigned(row.manifest) /\ (~row.swapped => IsBundleOf(row.file, row.manifest))
=============================================================================
