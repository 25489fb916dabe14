------------------------------ MODULE MCPublish ------------------------------
(* Publishing into one namespace: a result with a shared subdirectory, one *)
(* that conflicts with it, one whose root is over the object limit (as a   *)
(* plain file it is not limited), one without metadata, and one whose      *)
(* metadata has a schema version that is not supported.                    *)
EXTENDS CacheInvariant

CONSTANTS action, meta, later, root, sub, file

Obj(type, kind, blobs, dirs) ==
    [type |-> type, kind |-> kind, version |-> 1, defects |-> {}, blobs |-> blobs, dirs |-> dirs]

MCDigests == {action, meta, later, root, sub, file}

MCContent == [d \in MCDigests |->
    CASE d = action -> [Obj("action", "cc", <<>>, <<>>) EXCEPT !.defects = {"path"}]
      [] d = later -> [Obj("metadata", "cc", <<>>, <<>>) EXCEPT !.version = 2]
      [] d = meta -> Obj("metadata", "cc", <<file, file>>, <<>>)
      [] d = root -> Obj("directory", None, <<file>>, <<sub, sub>>)
      [] d = sub -> Obj("directory", None, <<file>>, <<>>)
      [] d = file -> Obj("raw", None, <<>>, <<>>)]

MCSubmissions ==
    {[action |-> action, metadata |-> meta, root |-> root],
     [action |-> action, metadata |-> meta, root |-> sub],
     [action |-> action, metadata |-> meta, root |-> file],
     [action |-> action, metadata |-> None, root |-> sub],
     [action |-> action, metadata |-> later, root |-> sub]}
==============================================================================
