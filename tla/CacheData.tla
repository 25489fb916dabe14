------------------------------ MODULE CacheData ------------------------------
(***************************************************************************)
(* The data of the cache, reduced to what its protocol tells apart.        *)
(*                                                                         *)
(* A digest stands for the (algorithm, hash, size) triple, and bytes are   *)
(* identified by the digest they hash to: "the content matches the digest" *)
(* is equality.  Content says what the bytes behind a digest are: canonical*)
(* JSON with the fields of an action descriptor, of a client metadata      *)
(* record or of a Directory, or none of these (a file, a stdout stream,    *)
(* malformed or non-canonical JSON).                                       *)
(***************************************************************************)
EXTENDS Naturals, Sequences, FiniteSets

CONSTANTS
    Namespaces,      \* the namespaces credentials are bound to
    Digests,         \* the digests requests may name
    None,            \* Option::None
    Content,         \* what the bytes with a given digest parse to
    Oversized,       \* digests whose size exceeds the 16 MiB object limit
    MaxDirectories,  \* 100_000 in the code: the directory graph limit
    Submissions      \* the action results clients try to publish

Kinds == {"build-script", "cc", "rustc", "task"}

(* An ActionResult: the action it answers, and two optional digests. *)
Results == [action : Digests, metadata : Digests \cup {None}, root : Digests \cup {None}]

(* What the values of a document can have wrong.  "empty" is an empty name *)
(* where names are required to be something; "path" is an input path that  *)
(* is not ${PLACEHOLDER}/and/plain/components; "deep" is an input behind   *)
(* more than 64 symbolic links.                                            *)
Defects == {"nul", "empty", "digest", "adapter", "assembly", "no inputs", "repeated input",
            "path", "deep", "root", "entry", "repeated entry", "target"}

(* type: whose fields the document has.  blobs: the stdout and stderr of a *)
(* metadata record (none for a task), or the files of a directory, in      *)
(* order.  dirs: a directory's subdirectories.                             *)
Parsed == [type : {"action", "metadata", "directory", "raw"}, kind : Kinds \cup {None},
           version : Nat, defects : SUBSET Defects,
           blobs : Seq(Digests), dirs : Seq(Digests)]

ASSUME NoneAssumption == None \notin Digests /\ None \notin Kinds
ASSUME ContentAssumption == Content \in [Digests -> Parsed]
ASSUME OversizedAssumption == Oversized \subseteq Digests
ASSUME MaxDirectoriesAssumption == MaxDirectories \in Nat
ASSUME SubmissionsAssumption == Submissions \subseteq Results
ASSUME DigestsAssumption == IsFiniteSet(Digests)

(* The validate() of the action structs, by what it refuses.  A task may   *)
(* have empty strings; cc inputs may be host paths and need not be below a *)
(* placeholder; a build script need not have inputs, and has them by path. *)
TaskAction == {"nul"}
RustcAction == {"nul", "empty", "digest", "adapter", "no inputs", "repeated input", "path"}
CcAction == {"nul", "empty", "digest", "adapter", "assembly", "no inputs", "repeated input"}
BuildScriptAction == {"nul", "empty", "digest", "deep"}

ActionDefects(kind) ==
    CASE kind = "task" -> TaskAction
      [] kind = "rustc" -> RustcAction
      [] kind = "cc" -> CcAction
      [] kind = "build-script" -> BuildScriptAction

ActionVersion(kind) == IF kind = "build-script" THEN 2 ELSE 1

(* validate_action_descriptor on the bytes of an object. *)
IsDescriptor(d) ==
    LET document == Content[d] IN
    /\ document.type = "action"
    /\ document.kind \in Kinds
    /\ document.version = ActionVersion(document.kind)
    /\ document.defects \cap ActionDefects(document.kind) = {}

(* TaskMetadata::validate and validate_task_root; the others have digests. *)
MetadataDefects(kind) == IF kind = "task" THEN {"nul", "root"} ELSE {"digest"}

(* validate_client_metadata on the bytes: the kind must be the action's. *)
IsMetadataOf(d, kind) ==
    LET document == Content[d] IN
    /\ document.type = "metadata"
    /\ document.kind = kind
    /\ document.version = 1
    /\ document.defects \cap MetadataDefects(kind) = {}

(* The part of validate_tree that looks at one object's bytes: names are   *)
(* one path component each and all different, modes are permission bits.   *)
IsDirectory(d) ==
    /\ Content[d].type = "directory"
    /\ Content[d].version = 1
    /\ Content[d].defects \cap {"entry", "repeated entry", "target"} = {}

(* validate_action_result_shape: only a task may leave a digest out. *)
HasShape(result, kind) ==
    kind = "task" \/ (result.metadata # None /\ result.root # None)

Items(seq) == {seq[i] : i \in 1 .. Len(seq)}

-----------------------------------------------------------------------------
(***************************************************************************)
(* The reference definitions the handlers are judged by.  They say what it *)
(* means for a result to be complete in a set of available digests, with   *)
(* no reference to the order in which validate_tree looks at anything.     *)
(***************************************************************************)

(* A set of directories that contains its own subdirectories, every object *)
(* of which, and every file of which, is available.                        *)
ClosedTree(dirs, available) ==
    \A d \in dirs : /\ d \in available
                    /\ IsDirectory(d)
                    /\ Items(Content[d].blobs) \subseteq available
                    /\ Items(Content[d].dirs) \subseteq dirs

TreeComplete(root, available) ==
    \E dirs \in SUBSET Digests : root \in dirs /\ ClosedTree(dirs, available)

MetadataComplete(metadata, kind, available) ==
    /\ metadata \in available
    /\ IsMetadataOf(metadata, kind)
    /\ Items(Content[metadata].blobs) \subseteq available

Complete(result, available) ==
    LET kind == Content[result.action].kind
    IN  /\ result.action \in available
        /\ IsDescriptor(result.action)
        /\ HasShape(result, kind)
        /\ result.metadata # None => MetadataComplete(result.metadata, kind, available)
        /\ result.root # None => TreeComplete(result.root, available)

(* No directory of the set contains itself, however deep. *)
Acyclic(dirs) ==
    \A part \in SUBSET dirs :
        part # {} => \E d \in part : Items(Content[d].dirs) \cap part = {}

(* Within the limits the code sets on the objects it reads. *)
WithinLimits(result) ==
    /\ result.action \notin Oversized
    /\ result.metadata \notin Oversized
    /\ result.root # None =>
         \E dirs \in SUBSET Digests :
            /\ result.root \in dirs
            /\ \A d \in dirs : Items(Content[d].dirs) \subseteq dirs
            /\ dirs \cap Oversized = {}
            /\ Cardinality(dirs) <= MaxDirectories
            /\ Acyclic(dirs)

=============================================================================
