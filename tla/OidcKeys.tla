------------------------------ MODULE OidcKeys ------------------------------
(***************************************************************************)
(* OidcProvider::verify and refresh_keys: request tasks share one cached   *)
(* key set and refresh it under a mutex, at most once per cooldown.  Each  *)
(* task is split at its awaits, and a task whose client goes away is       *)
(* dropped at any of them, releasing the mutex.                            *)
(*                                                                         *)
(* The issuer is external: it publishes a sequence of key sets, and a      *)
(* fetch gets the one in force when the issuer answers.  A token is the    *)
(* key ID of its header.  Authorizer adds the rest of a request, and the   *)
(* specification these actions are steps of.                               *)
(***************************************************************************)
EXTENDS Naturals

CONSTANTS
    Requests,      \* request tasks
    Kids,          \* key IDs tokens name
    KeySets,       \* the key sets the issuer publishes, oldest first
    LastVersion,   \* bound: the issuer rotates its keys this often
    MaxFaults,     \* bound: failed fetches and abandoned requests
    RefreshAfter,  \* jwks_refresh_seconds
    Cooldown,      \* MIN_JWKS_REFRESH_SECONDS
    None

ASSUME KeySetsAssumption ==
    LastVersion \in Nat /\ KeySets \in [0 .. LastVersion -> SUBSET Kids]
(* Option::None is no task: a mutex nobody holds is not taken for held. *)
ASSUME HolderAssumption == None \notin Requests
ASSUME TimesAssumption == RefreshAfter \in Nat \ {0} /\ Cooldown \in Nat /\ MaxFaults \in Nat

VARIABLES
    issuer,   \* the version of the key set in force
    keys,     \* CachedKeys: [version, fetched, attempted], the last two ages
    holder,   \* the task that holds the refresh mutex, or None
    req,      \* each request task
    faults    \* failed fetches and abandoned requests so far

vars == <<issuer, keys, holder, req, faults>>

Settled == {"idle", "accepted", "rejected"}
Running == {"lock", "check", "mark", "fetch", "install", "find"}

Idle == [pc |-> "idle", kid |-> None, known |-> FALSE, response |-> None]

Init ==
    /\ issuer = 0
    /\ keys = [version |-> 0, fetched |-> 0, attempted |-> None]
    /\ holder = None
    /\ req = [r \in Requests |-> Idle]
    /\ faults = 0

-----------------------------------------------------------------------------
Known(kid) == kid \in KeySets[keys.version]
Stale == keys.fetched >= RefreshAfter

Fault == faults < MaxFaults /\ faults' = faults + 1

Goto(r, pc) == req' = [req EXCEPT ![r].pc = pc]

(* Mutation: only an unknown key ID makes a refresh, and not age. *)
verify_ageless(r, kid) ==
    /\ req[r].pc \in Settled
    /\ req' = [req EXCEPT ![r] =
            [Idle EXCEPT !.pc = IF ~Known(kid) THEN "lock" ELSE "find",
                         !.kid = kid, !.known = Known(kid)]]
    /\ UNCHANGED <<issuer, keys, holder, faults>>

(* verify, up to its decision whether to refresh. *)
verify(r, kid) ==
    /\ req[r].pc \in Settled
    /\ req' = [req EXCEPT ![r] =
            [Idle EXCEPT !.pc = IF Stale \/ ~Known(kid) THEN "lock" ELSE "find",
                         !.kid = kid, !.known = Known(kid)]]
    /\ UNCHANGED <<issuer, keys, holder, faults>>

(* Mutation: the refreshes are not serialised. *)
lock_shared(r) ==
    /\ req[r].pc = "lock"
    /\ holder' = r
    /\ Goto(r, "check")
    /\ UNCHANGED <<issuer, keys, faults>>

(* refresh_keys: the mutex ... *)
lock(r) ==
    /\ req[r].pc = "lock" /\ holder = None
    /\ holder' = r
    /\ Goto(r, "check")
    /\ UNCHANGED <<issuer, keys, faults>>

Cooling == keys.attempted # None /\ keys.attempted < Cooldown

(* Mutation: an unknown key ID is not held back by the cooldown. *)
NoNeed_eager(kid) == ~Stale /\ Known(kid)

NoNeed(kid) == Cooling \/ (~Stale /\ Known(kid))

(* ... the second look at the cache, now that nobody else refreshes it ... *)
check(r) ==
    /\ req[r].pc = "check"
    /\ \/ NoNeed(req[r].kid) /\ Goto(r, "find") /\ holder' = None
       \/ ~NoNeed(req[r].kid) /\ Goto(r, "mark") /\ UNCHANGED holder
    /\ UNCHANGED <<issuer, keys, faults>>

(* ... the attempt, recorded before the fetch is made ... *)
mark(r) ==
    /\ req[r].pc = "mark"
    /\ keys' = [keys EXCEPT !.attempted = 0]
    /\ Goto(r, "fetch")
    /\ UNCHANGED <<issuer, holder, faults>>

(* ... the issuer's answer ... *)
fetch_jwks(r) ==
    /\ req[r].pc = "fetch"
    /\ req' = [req EXCEPT ![r].pc = "install", ![r].response = issuer]
    /\ UNCHANGED <<issuer, keys, holder, faults>>

(* ... which replaces the cached set. *)
install(r) ==
    /\ req[r].pc = "install"
    /\ keys' = [keys EXCEPT !.version = req[r].response, !.fetched = 0]
    /\ holder' = None
    /\ req' = [req EXCEPT ![r].pc = "find", ![r].response = None]
    /\ UNCHANGED <<issuer, faults>>

GiveUp(r) ==
    req' = [req EXCEPT ![r] = IF @.known THEN [@ EXCEPT !.pc = "find"]
                                         ELSE [Idle EXCEPT !.pc = "rejected"]]

(* Mutation: a failed fetch keeps the mutex. *)
fetch_fails_holding(r) ==
    /\ req[r].pc = "fetch"
    /\ Fault
    /\ GiveUp(r)
    /\ UNCHANGED <<issuer, keys, holder>>

(* The fetch fails: a key that was known is still used, a new one is not.  *)
fetch_fails(r) ==
    /\ req[r].pc = "fetch"
    /\ Fault
    /\ holder' = None
    /\ GiveUp(r)
    /\ UNCHANGED <<issuer, keys>>

(* The key is looked up again in whatever the cache holds by now. *)
find(r) ==
    /\ req[r].pc = "find"
    /\ req' = [req EXCEPT ![r] =
            [Idle EXCEPT !.pc = IF Known(req[r].kid) THEN "accepted" ELSE "rejected"]]
    /\ UNCHANGED <<issuer, keys, holder, faults>>

(* The client goes away and the task is dropped. *)
dropped(r) ==
    /\ req[r].pc \in Running
    /\ Fault
    /\ req' = [req EXCEPT ![r] = Idle]
    /\ holder' = IF holder = r THEN None ELSE holder
    /\ UNCHANGED <<issuer, keys>>

rotate ==
    /\ issuer < LastVersion
    /\ issuer' = issuer + 1
    /\ UNCHANGED <<keys, holder, req, faults>>

(* Ages stop where they change nothing any more. *)
tick ==
    /\ keys' = [keys EXCEPT
            !.fetched = IF @ < RefreshAfter THEN @ + 1 ELSE @,
            !.attempted = IF @ # None /\ @ < Cooldown THEN @ + 1 ELSE @]
    /\ UNCHANGED <<issuer, holder, req, faults>>

-----------------------------------------------------------------------------
(* The shapes of the cache and the tasks; the mutex is held by the task    *)
(* that is between its lock and its release.                               *)
KeysTypeOK ==
    /\ issuer \in 0 .. LastVersion
    /\ keys.version \in 0 .. LastVersion
    /\ keys.fetched \in 0 .. RefreshAfter
    /\ keys.attempted \in 0 .. Cooldown \cup {None}
    /\ \A r \in Requests :
        /\ req[r].pc \in Settled \cup Running
        /\ req[r].pc \in {"check", "mark", "fetch", "install"} <=> holder = r

(* "Refresh attempts have a 30-second cooldown": however many tasks meet a *)
(* stale set or unknown key IDs at once, and however their fetches end,    *)
(* two fetches are never started within the cooldown.                      *)
FetchesSpaced ==
    [][\A r \in Requests :
        req[r].pc # "fetch" /\ req'[r].pc = "fetch" =>
            keys.attempted = None \/ keys.attempted >= Cooldown]_vars

(* A key set never replaces a newer one: fetches that overlap a rotation   *)
(* cannot bring a withdrawn key back.                                      *)
KeysNeverRegress == [][keys'.version >= keys.version]_vars

(* The cache catches up with the issuer: once the issuer stops rotating,   *)
(* and fetches stop failing, the keys it published last are the ones in    *)
(* use, wherever in a refresh or a cooldown the last fault struck.         *)
KeysConverge == <>[](keys.version = issuer)
=============================================================================
