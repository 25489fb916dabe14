----------------------------- MODULE MCRetention -----------------------------
(* A task whose result names a directory; the directory may hold a file.   *)
EXTENDS CacheRetention

CONSTANTS task, dir, file

Obj(type, kind, blobs) ==
    [type |-> type, kind |-> kind, version |-> 1, defects |-> {}, blobs |-> blobs, dirs |-> <<>>]

BareDigests == {task, dir}
BareContent == [d \in BareDigests |->
    IF d = task THEN Obj("action", "task", <<>>) ELSE Obj("directory", None, <<>>)]

FileDigests == {task, dir, file}
FileContent == [d \in FileDigests |->
    CASE d = task -> Obj("action", "task", <<>>)
      [] d = dir -> Obj("directory", None, <<file>>)
      [] d = file -> Obj("raw", None, <<>>)]

Rooted == [action |-> task, metadata |-> None, root |-> dir]
Bare == [action |-> task, metadata |-> None, root |-> None]
OneSubmission == {Rooted}
TwoSubmissions == {Bare, Rooted}
==============================================================================
