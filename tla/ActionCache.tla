----------------------------- MODULE ActionCache -----------------------------
(***************************************************************************)
(* What the cache promises the clients that publish action results: a      *)
(* write-once map per namespace, read and written in one step, that only   *)
(* ever takes a result all of whose blobs the namespace holds.             *)
(*                                                                         *)
(* Spec is the promise while nothing is expired; EvictingSpec is what is   *)
(* left of it when old entries may be removed: an entry can disappear, it  *)
(* can never turn into another.                                            *)
(***************************************************************************)
EXTENDS CacheData

CONSTANT Publishers

VARIABLES
    held,     \* the blobs each namespace can read
    cache,    \* the result published for each action, or None
    request,  \* what each publisher is asking for: [ns, result], or None
    answer    \* the last answer each publisher got

avars == <<held, cache, request, answer>>
cvars == <<cache, request, answer>>

Empty == [n \in Namespaces |-> [a \in Digests |-> None]]

NothingHeld == [n \in Namespaces |-> {}]

Start ==
    /\ cache = Empty
    /\ request = [p \in Publishers |-> None]
    /\ answer = [p \in Publishers |-> "idle"]

Reply(p, outcome) ==
    /\ answer' = [answer EXCEPT ![p] = outcome]
    /\ request' = [request EXCEPT ![p] = None]

Ask(p, n, result) ==
    /\ request[p] = None
    /\ request' = [request EXCEPT ![p] = [ns |-> n, result |-> result]]
    /\ answer' = [answer EXCEPT ![p] = "idle"]
    /\ UNCHANGED cache

(* The one step that decides: first writer wins, an equal result is        *)
(* confirmed, a different one is refused.  The winner may never hear of it *)
(* and be told that it failed.                                             *)
Decide(p) ==
    LET n == request[p].ns
        result == request[p].result
        kept == cache[n][result.action]
    IN  /\ request[p] # None
        /\ \/ /\ kept = None
              /\ cache' = [cache EXCEPT ![n][result.action] = result]
              /\ \E told \in {"created", "failed"} : Reply(p, told)
           \/ kept = result /\ Reply(p, "exists") /\ UNCHANGED cache
           \/ kept \notin {None, result} /\ Reply(p, "conflict") /\ UNCHANGED cache

Decline(p) ==
    /\ request[p] # None
    /\ \E outcome \in {"rejected", "failed"} : Reply(p, outcome)
    /\ UNCHANGED cache

(* The service restarted: its requests are lost. *)
Forget ==
    /\ request' = [p \in Publishers |-> None]
    /\ answer' = [p \in Publishers |-> "idle"]

Hold(n, d) ==
    /\ held' = [held EXCEPT ![n] = @ \cup {d}]
    /\ UNCHANGED cvars

Evict ==
    /\ \E gone \in SUBSET (Namespaces \X Digests) :
          cache' = [n \in Namespaces |-> [a \in Digests |->
                        IF <<n, a>> \in gone THEN None ELSE cache[n][a]]]
    /\ UNCHANGED <<request, answer>>

Whole(p) == Complete(request[p].result, held[request[p].ns])

Next ==
    \/ \E p \in Publishers :
        \/ \E n \in Namespaces, result \in Submissions :
              Ask(p, n, result) /\ UNCHANGED held
        \/ Decide(p) /\ Whole(p) /\ UNCHANGED held
        \/ Decline(p) /\ UNCHANGED held
    \/ \E n \in Namespaces, d \in Digests : Hold(n, d)
    \/ Forget /\ UNCHANGED <<cache, held>>
    \/ Forget /\ cache' = Empty /\ held' = NothingHeld

Spec == Start /\ held = NothingHeld /\ [][Next]_avars

EvictingNext ==
    \/ \E p \in Publishers :
        \/ \E n \in Namespaces, result \in Submissions : Ask(p, n, result)
        \/ Decide(p)
        \/ Decline(p)
    \/ Evict

EvictingSpec == Start /\ [][EvictingNext]_cvars
==============================================================================
