------------------------------ MODULE BlobStore ------------------------------
(***************************************************************************)
(* What the rest of the server takes BlobStore::put for: an object is      *)
(* written once, whole, by one of the puts of its digest; only that put is *)
(* told "created" (or "exists", where a client library has repeated its    *)
(* request), every other one "exists", and neither before the object can be*)
(* read.  A put that failed may have had its effect, even later.  Objects  *)
(* expire.                                                                 *)
(***************************************************************************)
CONSTANTS Puts, Digests, None

VARIABLES
    object,   \* the put whose bytes are stored under each digest, or None
    digest,   \* the digest each put is of, or None
    outcome   \* what each put was told

vars == <<object, digest, outcome>>

Init ==
    /\ object = [d \in Digests |-> None]
    /\ digest = [p \in Puts |-> None]
    /\ outcome = [p \in Puts |-> "idle"]

Ask(p, d) ==
    /\ outcome[p] = "idle"
    /\ digest' = [digest EXCEPT ![p] = d]
    /\ outcome' = [outcome EXCEPT ![p] = "asked"]
    /\ UNCHANGED object

Writes(p) ==
    /\ outcome[p] \in {"asked", "failed"}
    /\ object[digest[p]] = None
    /\ object' = [object EXCEPT ![digest[p]] = p]

Write(p) == Writes(p) /\ UNCHANGED <<digest, outcome>>

(* Written and answered in one step, though the answer may be lost. *)
Create(p) ==
    /\ outcome[p] = "asked" /\ Writes(p)
    /\ \E told \in {"created", "exists", "failed"} : outcome' = [outcome EXCEPT ![p] = told]
    /\ UNCHANGED digest

Report(p) ==
    /\ outcome[p] = "asked" /\ object[digest[p]] # None
    /\ \E told \in {"created", "exists"} :
        /\ told = "created" => object[digest[p]] = p
        /\ outcome' = [outcome EXCEPT ![p] = told]
    /\ UNCHANGED <<object, digest>>

Fail(p) ==
    /\ outcome[p] = "asked"
    /\ outcome' = [outcome EXCEPT ![p] = "failed"]
    /\ UNCHANGED <<object, digest>>

Expire(d) ==
    /\ object' = [object EXCEPT ![d] = None]
    /\ UNCHANGED <<digest, outcome>>

Next ==
    \/ \E p \in Puts :
        (\E d \in Digests : Ask(p, d)) \/ Write(p) \/ Create(p) \/ Report(p) \/ Fail(p)
    \/ \E d \in Digests : Expire(d)

Spec == Init /\ [][Next]_vars
==============================================================================
