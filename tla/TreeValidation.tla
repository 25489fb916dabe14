--------------------------- MODULE TreeValidation ---------------------------
(***************************************************************************)
(* validate_tree by itself, on every small directory graph: self-loops,    *)
(* longer cycles, shared subdirectories, repeated entries, missing files   *)
(* and objects, oversized objects, graphs at and over the directory limit. *)
(* The stores do not change under it here (CacheService lets them).        *)
(***************************************************************************)
EXTENDS Naturals, Sequences, FiniteSets

CONSTANTS
    Nodes,           \* the digests of directory objects
    Files,           \* the digests of files
    None,
    Roots,           \* bound: the digests given as output_root
    MaxEntries,      \* bound: subdirectories per directory
    Limits           \* the values tried for the 100_000 of the code

ASSUME BoundsAssumption == MaxEntries \in Nat /\ Limits \subseteq Nat
ASSUME RootsAssumption == Roots \subseteq Nodes \cup Files
ASSUME FiniteAssumption == IsFiniteSet(Nodes) /\ IsFiniteSet(Files)

VARIABLES
    content,    \* what every digest parses to
    available,  \* the digests with a row and an object
    oversized,  \* the directories over 16 MiB
    limit,      \* the directory graph limit
    root,
    walk,       \* validate_tree's locals
    verdict     \* "walking", "accepted" or "rejected"

input == <<content, available, oversized, limit, root>>
vars == <<content, available, oversized, limit, root, walk, verdict>>

Digests == Nodes \cup Files

Data == INSTANCE DirectoryWalk WITH
    Namespaces <- {}, Submissions <- {}, Content <- content, Oversized <- oversized,
    MaxDirectories <- limit

(* Option::None is no digest and no kind of action. *)
ASSUME NoneAssumption == None \notin Digests \cup Data!Kinds

EntryLists == UNION {[1 .. k -> Nodes] : k \in 0 .. MaxEntries}
Object(type, blobs, dirs) ==
    [type |-> type, kind |-> None, version |-> 1, defects |-> {},
     blobs |-> blobs, dirs |-> dirs]

(* Any graph over Nodes, at most one of which holds the files; at most one *)
(* digest is missing or oversized.                                         *)
Init ==
    /\ \E dirs \in [Nodes -> EntryLists], holder \in Nodes \cup {None},
          files \in {<<f>> : f \in Files} :
          content = [d \in Digests |->
              IF d \in Nodes
              THEN Object("directory", IF d = holder THEN files ELSE <<>>, dirs[d])
              ELSE Object("raw", <<>>, <<>>)]
    /\ \/ available = Digests /\ oversized = {}
       \/ oversized = {} /\ \E d \in Digests : available = Digests \ {d}
       \/ available = Digests /\ \E d \in Nodes : oversized = {d}
    /\ limit \in Limits
    /\ root \in Roots
    /\ walk = Data!StartWalk(root)
    /\ verdict = "walking"

-----------------------------------------------------------------------------
Walking == verdict = "walking" /\ walk.pending # <<>> /\ walk.current = None

skip_visit ==
    /\ Walking /\ Data!SkipsTop(walk)
    /\ walk' = Data!SkipTop(walk)
    /\ UNCHANGED <<input, verdict>>

(* The loop body of an Enter: look the directory up and its files, refuse  *)
(* it or push its Exit and its children.                                   *)
visit_directory ==
    LET d == Data!Top(walk.pending).dir
        refused == \/ Data!RefusesTop(walk)
                   \/ d \notin available
                   \/ ~ Data!IsDirectory(d)
                   \/ ~ (Data!Items(content[d].blobs) \subseteq available)
    IN  /\ Walking /\ ~ Data!SkipsTop(walk)
        /\ \/ /\ ~refused
              /\ walk' = Data!LeaveCurrent(Data!EnterTop(walk), content[d].dirs)
              /\ UNCHANGED verdict
           \/ /\ refused
              /\ verdict' = "rejected"
              /\ UNCHANGED walk
        /\ UNCHANGED <<input>>

accept ==
    /\ verdict = "walking" /\ walk.pending = <<>>
    /\ verdict' = "accepted"
    /\ UNCHANGED <<input, walk>>

done == verdict # "walking" /\ UNCHANGED vars

Next == skip_visit \/ visit_directory \/ accept \/ done

Spec == Init /\ [][Next]_vars /\ WF_vars(skip_visit \/ visit_directory \/ accept)

-----------------------------------------------------------------------------
(* What validate_tree is for, stated on the graph alone. *)
Sound ==
    \E dirs \in SUBSET Digests :
        /\ root \in dirs
        /\ Data!ClosedTree(dirs, available)
        /\ dirs \cap oversized = {}
        /\ Cardinality(dirs) <= limit
        /\ Data!Acyclic(dirs)

(* validate_tree accepts exactly the trees that are whole, acyclic and     *)
(* within the limits; a shared subdirectory is not a cycle.                *)
VerdictRight ==
    /\ verdict = "accepted" => Sound
    /\ verdict = "rejected" => ~Sound

(* The walk ends on every graph, the cyclic ones included. *)
WalkEnds == <>(verdict # "walking")
=============================================================================
