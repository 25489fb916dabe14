------------------------------ MODULE AzurePut ------------------------------
(***************************************************************************)
(* AzureStore::put and get under put_blob and get_blob.  A blob is written *)
(* to a temporary key and copied to its own key unless that exists; Azure  *)
(* may accept the copy and make it later, and until then the destination is*)
(* an empty blob that every later put takes for an existing one.  A put    *)
(* polls the last byte a limited number of times before it answers.        *)
(*                                                                         *)
(* Azure itself is external: it completes a pending copy while the source  *)
(* is there and fails it, leaving the empty blob, once the source is gone; *)
(* an answer may be lost on the way, so that a call that had its effect    *)
(* ends in an error, or is repeated by the object_store client and meets   *)
(* its own effect.  Every put is a new one with its own temporary key, a   *)
(* retry of the caller's included.                                         *)
(***************************************************************************)
EXTENDS Naturals

CONSTANTS
    Puts,       \* put_blob handlers, each with one put to make
    Readers,    \* get_blob handlers
    Digests,
    Empty,      \* the digests of size zero
    Uploads,    \* bound: the digests each handler may be asked to put
    MaxPolls,   \* the 120 turns of wait_until_readable
    None

ASSUME PollsAssumption == MaxPolls \in Nat \ {0} /\ Empty \subseteq Digests

(* Option::None is no put, and no outcome of one. *)
ASSUME NoneAssumption == None \notin Puts /\ None \notin {"created", "exists", "failed"}

VARIABLES
    dest,      \* the blob at each digest's key: [state, source]
    temp,      \* the puts whose temporary key exists
    up,        \* each put_blob handler
    rows,      \* the digests registered in the namespace
    read,      \* each get_blob handler
    expired    \* history: the digests whose blob has expired

zvars == <<dest, temp, up, rows, read, expired>>

Gone == [state |-> "none", source |-> None]
Settled == {"idle", "created", "exists", "failed"}
Running == {"write", "copy", "discard", "wait", "register"}

IdlePut == [pc |-> "idle", digest |-> None, then |-> None, polls |-> 0]
IdleRead == [pc |-> "idle", digest |-> None]

ZInit ==
    /\ dest = [d \in Digests |-> Gone]
    /\ temp = {}
    /\ up = [u \in Puts |-> IdlePut]
    /\ rows = {}
    /\ read = [g \in Readers |-> IdleRead]
    /\ expired = {}

Goto(u, pc) == up' = [up EXCEPT ![u].pc = pc]
Fails(u) == up' = [up EXCEPT ![u].pc = "failed", ![u].then = None, ![u].polls = 0]

-----------------------------------------------------------------------------
put(u, d) ==
    /\ up[u].pc = "idle" /\ d \in Uploads[u]
    /\ up' = [up EXCEPT ![u] = [IdlePut EXCEPT !.pc = "write", !.digest = d]]
    /\ UNCHANGED <<dest, temp, rows, read, expired>>

(* An empty blob is put under its own key at once. *)
put_empty(u) ==
    LET d == up[u].digest IN
    /\ up[u].pc = "write" /\ d \in Empty
    /\ \/ /\ dest[d] = Gone
          /\ dest' = [dest EXCEPT ![d] = [state |-> "whole", source |-> u]]
          /\ \/ \E told \in {"created", "exists"} :
                    up' = [up EXCEPT ![u].pc = "register", ![u].then = told]
             \/ Fails(u)
       \/ /\ dest[d] # Gone
          /\ up' = [up EXCEPT ![u].pc = "register", ![u].then = "exists"]
          /\ UNCHANGED dest
    /\ UNCHANGED <<temp, rows, read, expired>>

(* The upload to the temporary key; what a failed one leaves is deleted if *)
(* that works.                                                             *)
write_temp(u) ==
    /\ up[u].pc = "write" /\ up[u].digest \notin Empty
    /\ \/ temp' = temp \cup {u} /\ Goto(u, "copy")
       \/ temp' \in {temp, temp \cup {u}} /\ Fails(u)
    /\ UNCHANGED <<dest, rows, read, expired>>

Accept(u) ==
    /\ dest[up[u].digest] = Gone
    /\ \E state \in {"pending", "whole"} :
        dest' = [dest EXCEPT ![up[u].digest] = [state |-> state, source |-> u]]

(* Mutation: the source is not kept for a copy that was accepted. *)
copy_opts_tidies(u) ==
    /\ up[u].pc = "copy"
    /\ Accept(u)
    /\ up' = [up EXCEPT ![u].pc = "discard", ![u].then = "created"]
    /\ UNCHANGED <<temp, rows, read, expired>>

(* Mutation: a copy that was accepted is taken for made. *)
copy_opts_trusts(u) ==
    /\ up[u].pc = "copy"
    /\ Accept(u)
    /\ up' = [up EXCEPT ![u].pc = "register", ![u].then = "created"]
    /\ UNCHANGED <<temp, rows, read, expired>>

(* Copy Blob, only if there is no destination: accepted, ... *)
copy_opts(u) ==
    /\ up[u].pc = "copy"
    /\ Accept(u)
    /\ up' = [up EXCEPT ![u].pc = "wait", ![u].then = "created"]
    /\ UNCHANGED <<temp, rows, read, expired>>

(* ... refused, because it exists: another put's, or the put's own, when   *)
(* the first answer was an error and the client asked again, ...           *)
copy_exists(u) ==
    /\ up[u].pc = "copy"
    /\ Accept(u) \/ (dest[up[u].digest] # Gone /\ UNCHANGED dest)
    /\ up' = [up EXCEPT ![u].pc = "discard", ![u].then = "exists"]
    /\ UNCHANGED <<temp, rows, read, expired>>

(* ... or an error, the copy having been accepted or not. *)
copy_errs(u) ==
    /\ up[u].pc = "copy"
    /\ Accept(u) \/ UNCHANGED dest
    /\ up' = [up EXCEPT ![u].pc = "discard", ![u].then = "failed"]
    /\ UNCHANGED <<temp, rows, read, expired>>

(* The temporary key is deleted, if that works. *)
discard(u) ==
    /\ up[u].pc = "discard"
    /\ temp' \in {temp, temp \ {u}}
    /\ IF up[u].then = "failed" THEN Fails(u) ELSE Goto(u, "wait")
    /\ UNCHANGED <<dest, rows, read, expired>>

(* Mutation: the wait is over when there is a blob at all. *)
Readable_exists(d) == dest[d] # Gone

Readable(d) == dest[d].state = "whole"

(* Mutation: a put waits as long as it takes. *)
wait_for_ever(u) ==
    /\ up[u].pc = "wait"
    /\ Readable(up[u].digest) /\ Goto(u, "register")
    /\ UNCHANGED <<dest, temp, rows, read, expired>>

(* One turn of wait_until_readable; the read can fail for other reasons. *)
wait_until_readable(u) ==
    /\ up[u].pc = "wait"
    /\ \/ Readable(up[u].digest) /\ up' = [up EXCEPT ![u].pc = "register", ![u].polls = 0]
       \/ up[u].polls + 1 < MaxPolls /\ up' = [up EXCEPT ![u].polls = @ + 1]
       \/ up[u].polls + 1 = MaxPolls /\ Fails(u)
    /\ UNCHANGED <<dest, temp, rows, read, expired>>

(* put has answered; put_blob registers the row and answers. *)
register_blob(u) ==
    /\ up[u].pc = "register"
    /\ rows' = rows \cup {up[u].digest}
    /\ Goto(u, up[u].then)
    /\ UNCHANGED <<dest, temp, read, expired>>

(* The call fails, the task is dropped or the process dies: in the put, or *)
(* when the put has answered.                                              *)
put_fails(u) ==
    /\ up[u].pc \in Running
    /\ IF up[u].pc = "register" THEN Goto(u, "failed") ELSE Fails(u)
    /\ UNCHANGED <<dest, temp, rows, read, expired>>

-----------------------------------------------------------------------------
(* A read that is answered 404, or in full, leaves nothing to remember. *)
get_blob(g, d) ==
    /\ read[g].pc # "get"
    /\ read' = [read EXCEPT ![g] = IF d \in rows THEN [pc |-> "get", digest |-> d]
                                                 ELSE IdleRead]
    /\ UNCHANGED <<dest, temp, up, rows, expired>>

(* The length served is that of whatever blob is there. *)
get(g) ==
    LET found == dest[read[g].digest].state IN
    /\ read[g].pc = "get"
    /\ read' = [read EXCEPT ![g] =
            IF found \in {"none", "whole"} THEN IdleRead
            ELSE [@ EXCEPT !.pc = "served_short"]]
    /\ UNCHANGED <<dest, temp, up, rows, expired>>

-----------------------------------------------------------------------------
(* Azure. *)

copy_completes(d) ==
    /\ dest[d].state = "pending" /\ dest[d].source \in temp
    /\ dest' = [dest EXCEPT ![d].state = "whole"]
    /\ UNCHANGED <<temp, up, rows, read, expired>>

copy_aborts(d) ==
    /\ dest[d].state = "pending" /\ dest[d].source \notin temp
    /\ dest' = [dest EXCEPT ![d].state = "failed"]
    /\ UNCHANGED <<temp, up, rows, read, expired>>

(* The lifecycle rule of the uploads: older than any copy takes. *)
expire_temp(u) ==
    /\ u \in temp /\ up[u].pc \in Settled
    /\ \A d \in Digests : ~(dest[d].state = "pending" /\ dest[d].source = u)
    /\ temp' = temp \ {u}
    /\ UNCHANGED <<dest, up, rows, read, expired>>

(* The lifecycle rule of the blobs: older than the put that made it. *)
expire(d) ==
    /\ dest[d].state \in {"whole", "failed"}
    /\ up[dest[d].source].pc \in Settled
    /\ dest' = [dest EXCEPT ![d] = Gone]
    /\ expired' = expired \cup {d}
    /\ UNCHANGED <<temp, up, rows, read>>

-----------------------------------------------------------------------------
PutStep(u) ==
    \/ put_empty(u) \/ write_temp(u) \/ copy_opts(u) \/ copy_exists(u) \/ copy_errs(u)
    \/ discard(u) \/ wait_until_readable(u) \/ register_blob(u)

ZNext ==
    \/ \E u \in Puts :
        (\E d \in Digests : put(u, d)) \/ PutStep(u) \/ put_fails(u) \/ expire_temp(u)
    \/ \E g \in Readers : (\E d \in Digests : get_blob(g, d)) \/ get(g)
    \/ \E d \in Digests : copy_completes(d) \/ copy_aborts(d) \/ expire(d)

(* Tasks are polled until they return, and Azure makes the copies it can. *)
ZFairness ==
    /\ \A u \in Puts : WF_zvars(PutStep(u))
    /\ \A d \in Digests : WF_zvars(copy_completes(d))

ZSafeSpec == ZInit /\ [][ZNext]_zvars
ZSpec == ZSafeSpec /\ ZFairness

-----------------------------------------------------------------------------
(* Copying, waiting and giving up add up to the put that the rest of the   *)
(* server is written against: a blob counts as stored when its copy is     *)
(* made, and a put has answered when it goes on to register.               *)
Store == INSTANCE BlobStore WITH
    object <- [d \in Digests |-> IF dest[d].state = "whole" THEN dest[d].source ELSE None],
    digest <- [u \in Puts |-> up[u].digest],
    outcome <- [u \in Puts |->
        CASE up[u].pc \in {"write", "copy", "discard", "wait"} -> "asked"
          [] up[u].pc \notin Running /\ up[u].then = None -> up[u].pc
          [] OTHER -> up[u].then]

ImplementsPut == Store!Spec

(* A put that gives up waiting has not wasted its upload: once Azure has   *)
(* accepted its copy the blob arrives, so that a retry finds it.  (Not so  *)
(* when the answer to the copy is lost, or the copy is repeated and then   *)
(* found to exist: the source is deleted.)                                 *)
AcceptedCopyArrives ==
    \A u \in Puts :
        up[u].pc = "wait" /\ up[u].then = "created"
            ~> \E d \in Digests : d = up[u].digest /\ dest[d].state = "whole"

(* get_blob does not compare lengths.  A blob that is not all there is     *)
(* served only under a row that outlived an expired object; while nothing  *)
(* expires, whoever sees the row gets the whole blob.                      *)
ServesWholeUnlessExpired ==
    \A g \in Readers : read[g].pc = "served_short" => read[g].digest \in expired

(* Every put answers, whatever becomes of its copy. *)
PutsEnd == \A u \in Puts : up[u].pc \in Running ~> up[u].pc \in Settled
=============================================================================
