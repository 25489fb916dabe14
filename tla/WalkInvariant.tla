---------------------------- MODULE WalkInvariant ----------------------------
(***************************************************************************)
(* What an accepted tree rests on, stated on the locals of validate_tree.  *)
(***************************************************************************)
EXTENDS DirectoryWalk

EnterPending(w) == {d \in Digests : EnterVisit(d) \in Items(w.pending)}
ExitPending(w) == {d \in Digests : ExitVisit(d) \in Items(w.pending)}

(* The directories that went through the whole loop body of validate_tree. *)
Passed(w) == w.seen \cup (w.visiting \ {w.current})

(* The directories the walk knows about: seen, being visited, or to come.  *)
Known(w) == w.seen \cup w.visiting \cup EnterPending(w)

(* validate_tree: a directory that was passed is whole as far as the walk  *)
(* knows; every directory being visited still has its Exit on the stack.   *)
WalkOK(w, root, held) ==
    /\ \A d \in Passed(w) : /\ d \in held
                            /\ IsDirectory(d)
                            /\ Items(Content[d].blobs) \subseteq held
                            /\ Items(Content[d].dirs) \subseteq Known(w)
    /\ \A d \in w.visiting : d = w.current \/ d \in ExitPending(w)
    /\ ExitPending(w) \subseteq Passed(w)
    /\ root \in Known(w)
=============================================================================
