------------------------------- MODULE MCServe -------------------------------
(* A task's results may leave out metadata and root, so two digests are    *)
(* enough for two submissions that conflict.                               *)
EXTENDS CacheService

CONSTANTS task, dir

MCDigests == {task, dir}

MCContent == [d \in MCDigests |->
    [type |-> IF d = task THEN "action" ELSE "directory",
     kind |-> IF d = task THEN "task" ELSE None,
     version |-> 1, defects |-> {}, blobs |-> <<>>, dirs |-> <<>>]]

Bare == [action |-> task, metadata |-> None, root |-> None]
Rooted == [action |-> task, metadata |-> None, root |-> dir]
TwoSubmissions == {Bare, Rooted}
==============================================================================
