---------------------------- MODULE ManifestStore ----------------------------
(***************************************************************************)
(* Action manifests: what get_action_manifest and put_action_manifest do   *)
(* for workers that predict actions under one selector and merge their     *)
(* predictions by compare-and-swap on the entity tag.                      *)
(*                                                                         *)
(* A manifest is the set of the workers whose predictions it holds.  Its   *)
(* entity tag is the BLAKE3 hash of its canonical bytes, so equal tags     *)
(* mean equal manifests and the manifest itself stands for its tag.  The   *)
(* row is absent (None) until a first put and after a sweep.  The rows are *)
(* PostgreSQL's; memory:// commits the same way, is never swept and loses  *)
(* its manifests when the process ends, which is not modelled.             *)
(*                                                                         *)
(* PUT requests travel on a wire that loses, delays, repeats and reorders  *)
(* them: a request that was once sent may be handled at any later time,    *)
(* any number of times, and its answer may never arrive.  The workers are  *)
(* the clients of the service; they are external and do what the 412 of    *)
(* put_action_manifest tells them: read, merge and retry.                  *)
(***************************************************************************)
EXTENDS Naturals

CONSTANTS
    Workers,   \* the clients, each with one prediction of its own
    Keys,      \* (namespace, selector digest) pairs
    None,      \* no row; an absent precondition etag
    SweepAge   \* days given to the sweep

ASSUME SweepAgeAssumption == SweepAge \in Nat
ASSUME NoManifestAssumption == \A m \in SUBSET Workers : m # None

VARIABLES
    manifests,  \* action_manifests: the manifest of each key, or None
    age,        \* now() - updated_at of each row, in days
    sweep,      \* the keys the open sweep transaction deletes, or None
    wire,       \* every PUT request sent so far
    client,     \* each worker
    acked       \* history: the workers told 201 or 204 in this row's life

vars == <<manifests, age, sweep, wire, client, acked>>

Manifests == SUBSET Workers

(* expected: None for If-None-Match: *, else the etag of If-Match. *)
Requests == [from : Workers, key : Keys, expected : {None} \cup Manifests,
             manifest : Manifests]

MaxAge == SweepAge + 1

Held(k) == IF manifests[k] = None THEN {} ELSE manifests[k]

Swept(k) == sweep # None /\ k \in sweep

Init ==
    /\ manifests = [k \in Keys |-> None]
    /\ age = [k \in Keys |-> 0]
    /\ sweep = None
    /\ wire = {}
    /\ client \in [Workers -> {[pc |-> "read", key |-> k, request |-> None] : k \in Keys}]
    /\ acked = [k \in Keys |-> {}]

-----------------------------------------------------------------------------
(* GET, then the worker adds its prediction and sends the PUT with the tag *)
(* it read (If-Match), or with If-None-Match: * after a 404.               *)
get_action_manifest(w) ==
    LET k == client[w].key
        request == [from |-> w, key |-> k, expected |-> manifests[k],
                    manifest |-> Held(k) \cup {w}]
    IN  /\ client[w].pc = "read"
        /\ wire' = wire \cup {request}
        /\ client' = [client EXCEPT ![w].pc = "wait", ![w].request = request]
        /\ UNCHANGED <<manifests, age, sweep, acked>>

(* commit_manifest: one conditional INSERT or UPDATE. *)
Applies(m) == m.expected = manifests[m.key]

(* Mutation: the UPDATE does not compare the tag. *)
commit_manifest_blind(m) ==
    /\ manifests' = [manifests EXCEPT ![m.key] = m.manifest]
    /\ age' = [age EXCEPT ![m.key] = 0]

commit_manifest(m) ==
    IF Applies(m)
    THEN /\ manifests' = [manifests EXCEPT ![m.key] = m.manifest]
         /\ age' = [age EXCEPT ![m.key] = 0]
    ELSE UNCHANGED <<manifests, age>>

(* Mutation: the statement does not wait for the sweep. *)
Waits_never(m) == FALSE

(* The statement waits while the sweep holds the row it would write.  An   *)
(* UPDATE whose etag does not match finds no row and does not wait.        *)
Waits(m) == Swept(m.key) /\ (m.expected = None \/ Applies(m))

Awaits(w, m) == client[w].pc = "wait" /\ client[w].request = m

(* Mutation: an update is answered 412 although it was made. *)
put_action_manifest_misreports(m) ==
    /\ ~ Waits(m)
    /\ commit_manifest(m)
    /\ Awaits(m.from, m)
    /\ client' = [client EXCEPT ![m.from].pc = "read", ![m.from].request = None]
    /\ UNCHANGED <<sweep, wire, acked>>

(* put_action_manifest, and its answer reaches the worker that waits. *)
put_action_manifest(m) ==
    LET outcome == IF Applies(m) THEN "done" ELSE "read"
    IN  /\ ~ Waits(m)
        /\ commit_manifest(m)
        /\ Awaits(m.from, m)
        /\ client' = [client EXCEPT ![m.from].pc = outcome, ![m.from].request = None]
        /\ acked' = IF Applies(m)
                    THEN [acked EXCEPT ![m.key] = @ \cup {m.from}] ELSE acked
        /\ UNCHANGED <<sweep, wire>>

(* put_action_manifest for nobody: a late or repeated request, or one      *)
(* whose answer is lost.                                                   *)
put_unheard(m) ==
    /\ ~ Waits(m)
    /\ commit_manifest(m)
    /\ UNCHANGED <<sweep, wire, client, acked>>

(* The worker gives up waiting and starts over with a read. *)
client_retries(w) ==
    /\ client[w].pc = "wait"
    /\ client' = [client EXCEPT ![w].pc = "read", ![w].request = None]
    /\ UNCHANGED <<manifests, age, sweep, wire, acked>>

-----------------------------------------------------------------------------
tick ==
    /\ age' = [k \in Keys |-> IF manifests[k] = None THEN 0
                              ELSE IF age[k] < MaxAge THEN age[k] + 1 ELSE age[k]]
    /\ UNCHANGED <<manifests, sweep, wire, client, acked>>

(* DELETE FROM action_manifests WHERE updated_at < now() - age, the last   *)
(* statement of the sweep's transaction ...                                *)
sweep_manifests ==
    /\ sweep = None
    /\ sweep' = {k \in Keys : manifests[k] # None /\ age[k] > SweepAge}
    /\ UNCHANGED <<manifests, age, wire, client, acked>>

(* ... and its commit. *)
sweep_commit ==
    /\ sweep # None
    /\ manifests' = [k \in Keys |-> IF k \in sweep THEN None ELSE manifests[k]]
    /\ age' = [k \in Keys |-> IF k \in sweep THEN 0 ELSE age[k]]
    /\ acked' = [k \in Keys |-> IF k \in sweep THEN {} ELSE acked[k]]
    /\ sweep' = None
    /\ UNCHANGED <<wire, client>>

sweep_fails ==
    /\ sweep # None
    /\ sweep' = None
    /\ UNCHANGED <<manifests, age, wire, client, acked>>

-----------------------------------------------------------------------------
Next ==
    \/ \E w \in Workers : get_action_manifest(w) \/ client_retries(w)
    \/ \E m \in wire : put_action_manifest(m) \/ put_unheard(m)
    \/ tick \/ sweep_manifests \/ sweep_commit \/ sweep_fails

(* The request a worker waits on is handled and answered in the end. *)
Answered(w) == \E m \in wire : m.from = w /\ put_action_manifest(m)

(* Strong fairness for the answer: a worker may give up and ask again, but *)
(* the network does not lose its requests for ever.                        *)
Fairness ==
    /\ \A w \in Workers : WF_vars(get_action_manifest(w)) /\ SF_vars(Answered(w))
    /\ WF_vars(sweep_commit \/ sweep_fails)

SafeSpec == Init /\ [][Next]_vars
Spec == SafeSpec /\ Fairness

-----------------------------------------------------------------------------
(* The shapes of the row, the requests and the workers. *)
ManifestTypeOK ==
    /\ manifests \in [Keys -> {None} \cup Manifests]
    /\ age \in [Keys -> 0 .. MaxAge]
    /\ sweep \in {None} \cup SUBSET Keys
    /\ wire \subseteq Requests
    /\ client \in [Workers -> [pc : {"read", "wait", "done"}, key : Keys,
                               request : Requests \cup {None}]]
    /\ acked \in [Keys -> SUBSET Workers]

(* No lost update: a prediction put_action_manifest acknowledged is in the *)
(* manifest for as long as the row lives, whatever requests of other       *)
(* workers are merged, repeated or arrive late.                            *)
NoLostUpdate == \A k \in Keys : acked[k] \subseteq Held(k)

(* Why: every request ever sent replaces a manifest by a larger one, so a  *)
(* request that still applies, however late, removes nothing; and a worker *)
(* waits only on a request that carries its own prediction.                *)
RequestsGrow ==
    /\ \A m \in wire : m.expected # None => m.expected \subseteq m.manifest
    /\ \A m \in wire : m.from \in m.manifest
    /\ \A w \in Workers : client[w].pc = "wait" =>
          client[w].request \in wire /\ client[w].request.key = client[w].key

(* The sweep removes only manifests nobody updated within SweepAge days,   *)
(* the updates made while its transaction was open included.               *)
SweptManifestsOld ==
    [][\A k \in Keys :
        manifests[k] # None /\ manifests'[k] = None => age[k] > SweepAge]_vars

(* Why: the rows an open sweep deletes stay old and unchanged until its    *)
(* commit, because every statement that would write them waits.            *)
SweepHoldsOldRows ==
    \A k \in Keys : Swept(k) => manifests[k] # None /\ age[k] > SweepAge

(* Contention never shuts a worker out: between sweeps every loop of read, *)
(* merge and put ends with an acknowledged prediction.                     *)
EveryWorkerMerges ==
    <>[](sweep = None) => \A w \in Workers : <>(client[w].pc = "done")
=============================================================================
