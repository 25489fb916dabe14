--------------------------- MODULE CacheInvariant ---------------------------
(***************************************************************************)
(* Why ResultsComplete holds: what each handler has established at each of *)
(* its awaits, in terms of the digests its namespace holds.  Everything    *)
(* here only says that digests are held, and while nothing expires the     *)
(* held set only grows, so no other handler can undo it.                   *)
(***************************************************************************)
EXTENDS CacheService, WalkInvariant

(* put_action_result: what holds of the record r and the walk w of a       *)
(* running handler whose namespace holds `held`.                           *)
HandlerOK(r, w, held) ==
    /\ r.pc # "descriptor" => r.result.action \in held
    /\ r.pc \notin {"descriptor", "descriptorGet"} =>
          /\ IsDescriptor(r.result.action)
          /\ r.kind = Content[r.result.action].kind
          /\ HasShape(r.result, r.kind)
    /\ r.pc \in {"metadataGet", "outputs"} =>
          r.result.metadata # None /\ r.result.metadata \in held
    /\ r.pc = "outputs" =>
          /\ IsMetadataOf(r.result.metadata, r.kind)
          /\ Items(Content[r.result.metadata].blobs) \subseteq held \cup Items(r.need)
    /\ r.pc \in {"tree", "directoryGet", "files", "compare"} /\ r.result.metadata # None =>
          MetadataComplete(r.result.metadata, r.kind, held)
    /\ r.result.root = None => w = NoWalk
    /\ r.result.root # None => WalkOK(w, r.result.root, held)
    /\ r.pc \notin {"directoryGet", "files"} => w.current = None
    /\ r.pc \in {"directoryGet", "files"} => w.current \in held \cap w.visiting
    /\ r.pc = "files" =>
          /\ IsDirectory(w.current)
          /\ Items(Content[w.current].blobs) \subseteq held \cup Items(r.need)
    /\ r.pc = "compare" => w.pending = <<>>

HandlersOK ==
    \A p \in Publishers :
        pub[p].pc \in PubRunning => HandlerOK(pub[p], walk[p], rows[pub[p].ns])

(* put_blob: an object holds its own bytes, and a row names an object. *)
StorageOK ==
    /\ \A d \in Digests : objects[d] \in {d, None}
    /\ \A u \in Uploaders :
        /\ up[u].pc \in {"put", "persist"} => up[u].bytes = up[u].digest
        /\ up[u].pc = "register" => objects[up[u].digest] = up[u].digest
    /\ \A n \in Namespaces : \A d \in rows[n] : objects[d] = d

ResultsHeld ==
    \A n \in Namespaces, a \in Digests :
        results[n][a] # None =>
            results[n][a].action = a /\ Complete(results[n][a], rows[n])

(* The inductive invariant: what was checked so far stays checked, through *)
(* every interleaving of uploads, publications, failures and restarts.     *)
CheckedStaysChecked == StorageOK /\ HandlersOK /\ ResultsHeld
=============================================================================
