---------------------------- MODULE Verification ----------------------------
(***************************************************************************)
(* What stands between an answer of the service and files on disk          *)
(* (core/src/remote.rs): the trusted root against the pin of the CLI, the  *)
(* attestation against the root, the archive and the linked files against  *)
(* the attestation.                                                        *)
(*                                                                         *)
(* A signature is the key that made it, its domain, and what it signs; a   *)
(* digest is the content itself.  Times are ticks.                         *)
(***************************************************************************)
EXTENDS Naturals, Sequences, FiniteSets, SequencesExt, Sorting

CONSTANTS
  Pin,           \* the root key that the CLI is built with
  Roots,         \* bound: [key, keys]; keys: [id, key, from, to, status, statement, signature]
  Attestations,  \* bound: [fields, statement, signature, wellFormed]
  Archives,      \* bound: [entries, whole]; entries: [kind, path, mode, bytes] and end markers
  LinkedFiles,   \* bound: what GitHub serves for a linked file: path -> bytes
  Folded(_),     \* a path without case
  MaxFiles, MaxLinkedBytes,
  None

(* What an attestation and an archive list, they list in an order.         *)
VerificationAssumption ==
  /\ \A a \in Attestations :
       \A list \in {a.fields.files, a.fields.linked} : list \in Seq(ToSet(list))
  /\ \A tar \in Archives : tar.entries \in Seq(ToSet(tar.entries))

VARIABLES root, attestation, archive, served, stage, files

vars == <<root, attestation, archive, served, stage, files>>

Init ==
  /\ root \in Roots /\ attestation \in Attestations /\ archive \in Archives /\ served \in LinkedFiles
  /\ stage = "root" /\ files = <<>>

(* ed25519 over a domain and the digest of a statement. *)
SignedBy(signature, key, domain, statement) ==
  signature = [key |-> key, domain |-> domain, over |-> statement]

Refuse == stage' = "refused" /\ UNCHANGED <<root, attestation, archive, served, files>>
Pass(next) == stage' = next /\ UNCHANGED <<root, attestation, archive, served, files>>

-----------------------------------------------------------------------------
KeyStatement(k) ==
  [id |-> k.id, key |-> k.key, from |-> k.from, to |-> k.to, status |-> k.status, root |-> root.key]

(* verify_trusted_root *)
RootHolds ==
  /\ root.key = Pin /\ root.keys # <<>>
  /\ \A i, j \in DOMAIN root.keys : root.keys[i].id = root.keys[j].id => i = j
  /\ \A i \in DOMAIN root.keys :
       LET k == root.keys[i] IN
       /\ k.statement = KeyStatement(k) /\ k.from < k.to
       /\ SignedBy(k.signature, root.key, "trusted-key", k.statement)

VerifyTrustedRoot == stage = "root" /\ IF RootHolds THEN Pass("attestation") ELSE Refuse

(* validate_attestation_shape: paths inside the Skill, each once without   *)
(* case, none below another file; modes; limits.                           *)
Paths(fields) == [k \in DOMAIN fields.files |-> fields.files[k].path]
                 \o [k \in DOMAIN fields.linked |-> fields.linked[k].path]
LinkedBytes(fields) == FoldLeft(LAMBDA sum, f : sum + f.size, 0, fields.linked)

ShapeHolds(a) ==
  LET paths == Paths(a.fields) IN
  /\ a.wellFormed
  /\ a.fields.files # <<>> /\ Len(paths) <= MaxFiles
  /\ \A i, j \in DOMAIN paths : Folded(paths[i]) = Folded(paths[j]) => i = j
  /\ \A i, j \in DOMAIN paths : i # j => ~IsStrictPrefix(paths[i], paths[j])
  /\ \A f \in ToSet(a.fields.files) \cup ToSet(a.fields.linked) : f.mode \in {420, 493}
  /\ LinkedBytes(a.fields) <= MaxLinkedBytes
  /\ a.fields.checks # <<>>

(* verify_signature: a known key, active or overlapping, at the time of    *)
(* the attestation.                                                        *)
KeyHolds(a) ==
  \E i \in DOMAIN root.keys :
    LET k == root.keys[i] IN
    /\ k.id = a.signature.id
    /\ k.status \in {"active", "overlapping"}
    /\ a.fields.created \in k.from..k.to
    /\ SignedBy([key |-> a.signature.key, domain |-> a.signature.domain, over |-> a.signature.over],
                k.key, "attestation", a.statement)

Blocked(a) == \E c \in ToSet(a.fields.checks) : c.required /\ c.outcome # "pass"

(* Faulty variant: the outer fields are taken as they came. *)
AnyStatement(a) == TRUE

StatementFits(a) == a.statement = a.fields

VerifyAttestation ==
  /\ stage = "attestation"
  /\ IF ShapeHolds(attestation) /\ StatementFits(attestation) /\ KeyHolds(attestation) /\ ~Blocked(attestation)
     THEN Pass("archive") ELSE Refuse

-----------------------------------------------------------------------------
(* verify_ustar reads block by block: directories without content, files   *)
(* that are declared with their mode and digest, no path twice, and zero   *)
(* blocks at the end, two at least.                                        *)
Declared(path) == {f \in ToSet(attestation.fields.files) : f.path = path}

FirstTime(i) == \A j \in 1..(i - 1) : Folded(archive.entries[j].path) # Folded(archive.entries[i].path)

BlockHolds(i) ==
  LET block == archive.entries[i] IN
  /\ FirstTime(i)
  /\ \/ block.kind = "directory" /\ block.bytes = None
     \/ block.kind = "file" /\ \E f \in Declared(block.path) : f.mode = block.mode /\ f.bytes = block.bytes

TarHolds ==
  \E end \in DOMAIN archive.entries :
    /\ \A i \in 1..(end - 1) : BlockHolds(i)
    /\ end < Len(archive.entries)
    /\ \A i \in end..Len(archive.entries) : archive.entries[i].kind = "zero"

TarFiles ==
  LET blocks == Picked(archive.entries, {i \in DOMAIN archive.entries : archive.entries[i].kind = "file"})
  IN [k \in DOMAIN blocks |-> [path |-> blocks[k].path, mode |-> blocks[k].mode, bytes |-> blocks[k].bytes]]

(* verify_artifact: the digest of the whole, then the files one by one. *)
ArchiveHolds ==
  /\ archive = attestation.fields.content
  /\ TarHolds
  /\ Len(TarFiles) = Cardinality({f.path : f \in ToSet(attestation.fields.files)})
  /\ \E f \in ToSet(TarFiles) : f.path = <<"SKILL.md">>

VerifyArtifact ==
  /\ stage = "archive"
  /\ IF ArchiveHolds
     THEN /\ files' = TarFiles
          /\ stage' = IF attestation.fields.linked = <<>> THEN "verified" ELSE "linked"
          /\ UNCHANGED <<root, attestation, archive, served>>
     ELSE Refuse

(* verify_linked_file and with_linked_files: bytes from GitHub count only  *)
(* with the size and the Git blob that the attestation signs.              *)
LinkedFits(f) == served[f.path] = f.bytes

WithLinkedFiles ==
  /\ stage = "linked"
  /\ IF \A f \in ToSet(attestation.fields.linked) : LinkedFits(f)
     THEN /\ files' = files \o [k \in DOMAIN attestation.fields.linked |->
                                  LET f == attestation.fields.linked[k]
                                  IN [path |-> f.path, mode |-> f.mode, bytes |-> served[f.path]]]
          /\ stage' = "verified" /\ UNCHANGED <<root, attestation, archive, served>>
     ELSE Refuse

Next == VerifyTrustedRoot \/ VerifyAttestation \/ VerifyArtifact \/ WithLinkedFiles

-----------------------------------------------------------------------------
(* What is verified is, file by file and no file more, what a statement    *)
(* declares that a key of the pinned root signed while it was valid.       *)
VerifiedIsSigned ==
  stage = "verified" =>
    LET signed == attestation.signature.over IN
    /\ {[path |-> f.path, mode |-> f.mode, bytes |-> f.bytes] : f \in ToSet(signed.files) \cup ToSet(signed.linked)}
         = ToSet(files)
    /\ Cardinality({Folded(f.path) : f \in ToSet(files)}) = Len(files)
    /\ \E i \in DOMAIN root.keys :
         /\ root.keys[i].key = attestation.signature.key
         /\ root.keys[i].signature.key = Pin
         /\ root.keys[i].signature.over.status \in {"active", "overlapping"}
         /\ signed.created \in root.keys[i].signature.over.from..root.keys[i].signature.over.to
    /\ \A c \in ToSet(signed.checks) : c.required => c.outcome = "pass"
=============================================================================
