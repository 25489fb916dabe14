----------------------------- MODULE Authorizer -----------------------------
(***************************************************************************)
(* Authorizer::authorize: who may read or write a namespace.  A request    *)
(* arrives with its headers and is answered at once from the configuration,*)
(* or it carries an OIDC token and goes through OidcProvider::verify, whose*)
(* key cache (OidcKeys) other requests are refreshing at the same time; the*)
(* rules are applied in the step that finds the key.                       *)
(*                                                                         *)
(* Namespaces and patterns are sequences of characters, since patterns     *)
(* match by prefix.  A JWT is what its segments decode to; whether its     *)
(* signature, audience and times hold up (the JWT library) is `sound`.     *)
(* A claim's scalar or array is the set of its values.                     *)
(***************************************************************************)
EXTENDS OidcKeys, Sequences

CONSTANTS
    Setups,         \* by name, [config, clients, asks, recurring]: a configuration,
                    \* who asks it, what they may ask and what they keep asking
    Jwt,            \* what each bearer token decodes to, None if it is no JWT
    KeyAlgorithm,   \* the algorithm a published key is bound to, None if to none; a
                    \* key that is not for verifying signatures is bound to no token's
    Asymmetric,     \* DEFAULT_ALGORITHMS
    Characters,     \* those a namespace may have besides "/"
    MaxNamespace    \* its longest length

(* A pattern is a string like any other; grants and providers hold sets of *)
(* them, one for reads and one for writes.                                 *)
Patterns(granter) ==
    granter.read \subseteq Seq(STRING) /\ granter.write \subseteq Seq(STRING)

ASSUME NamespaceAssumption == MaxNamespace \in Nat
ASSUME JwtAssumption ==
    \A t \in DOMAIN Jwt : Jwt[t] # None => Jwt[t].kid \in Kids \cup {None}
ASSUME SetupsAssumption ==
    \A s \in DOMAIN Setups :
        LET c == Setups[s].config IN
        /\ \A q \in Setups[s].asks : /\ q.access \in {"read", "write"}
                                     /\ q.ns \in Seq(STRING)
                                     /\ q.token \in DOMAIN Jwt \cup {None}
        /\ c.anonymous_read \subseteq Seq(STRING)
        /\ DOMAIN c.grants \subseteq Nat
        /\ \A i \in DOMAIN c.grants : c.grants[i].token # None /\ Patterns(c.grants[i])
        /\ c.provider # None => \A rule \in c.provider.rules : Patterns(rule)

VARIABLES
    setup,    \* the name of the setup in force
    ask,      \* the request each task is to authorise, or None
    answer    \* what each task was answered last, or None

avars == <<issuer, keys, holder, req, faults, setup, ask, answer>>

config == Setups[setup].config
clients == Setups[setup].clients
asks == Setups[setup].asks

-----------------------------------------------------------------------------
(* Namespaces. *)

Cuts(ns) == {0, Len(ns) + 1} \cup {i \in DOMAIN ns : ns[i] = "/"}

(* The pieces of split('/'). *)
Components(ns) ==
    {SubSeq(ns, c[1] + 1, c[2] - 1) :
        c \in {c \in Cuts(ns) \X Cuts(ns) :
            c[1] < c[2] /\ \A i \in Cuts(ns) : i <= c[1] \/ i >= c[2]}}

(* Mutation: the components that mean a directory are let through. *)
valid_namespace_lax(ns) ==
    /\ ns # <<>> /\ Len(ns) <= MaxNamespace
    /\ \A i \in DOMAIN ns : ns[i] \in Characters \cup {"/"}
    /\ <<>> \notin Components(ns)

valid_namespace(ns) ==
    /\ ns # <<>> /\ Len(ns) <= MaxNamespace
    /\ \A i \in DOMAIN ns : ns[i] \in Characters \cup {"/"}
    /\ Components(ns) \cap {<<>>, <<".">>, <<".", ".">>} = {}

(* Mutation: a pattern matches every longer name, not only what is below. *)
matches_namespace_prefix(pattern, ns) ==
    LET k == Len(pattern) - 2 IN
    \/ pattern = <<"*">>
    \/ pattern = ns
    \/ /\ k >= 0 /\ SubSeq(pattern, k + 1, k + 2) = <<"/", "*">>
       /\ Len(ns) >= k /\ SubSeq(ns, 1, k) = SubSeq(pattern, 1, k)

matches_namespace(pattern, ns) ==
    LET k == Len(pattern) - 2 IN
    \/ pattern = <<"*">>
    \/ pattern = ns
    \/ /\ k >= 0 /\ SubSeq(pattern, k + 1, k + 2) = <<"/", "*">>
       /\ Len(ns) > k /\ SubSeq(ns, 1, k) = SubSeq(pattern, 1, k)
       /\ ns[k + 1] = "/"

AnyMatches(patterns, ns) == \E pattern \in patterns : matches_namespace(pattern, ns)

-----------------------------------------------------------------------------
(* Providers. *)

(* An OIDC rule that requires no claim would hold of every token. *)
validate_provider_config(p) ==
    p.rules # {} /\ \A rule \in p.rules : DOMAIN rule.claims # {}

configured_algorithms(p) ==
    (IF p.configured = {} THEN Asymmetric ELSE p.configured \cap Asymmetric)
        \cap (IF p.advertised = {} THEN Asymmetric ELSE p.advertised)

(* Authorizer::new refuses every other configuration. *)
Starts(c) ==
    c.provider # None =>
        validate_provider_config(c.provider) /\ configured_algorithms(c.provider) # {}

matches_claims(rule, claims) ==
    \A name \in DOMAIN rule.claims :
        name \in DOMAIN claims /\ rule.claims[name] \cap claims[name] # {}

(* The key has to be one for this token's algorithm, and the token sound. *)
KeyFits(jwt) ==
    jwt.sound /\ KeyAlgorithm[jwt.kid] \in {None, jwt.alg}

RulesAllow(jwt, q) ==
    \E rule \in config.provider.rules :
        matches_claims(rule, jwt.claims) /\ AnyMatches(rule[q.access], q.ns)

AInit ==
    /\ Init
    /\ setup \in {s \in DOMAIN Setups : Starts(Setups[s].config)}
    /\ ask = [r \in Requests |-> None]
    /\ answer = [r \in Requests |-> None]

-----------------------------------------------------------------------------
Reply(r, status) ==
    /\ ask' = [ask EXCEPT ![r] = None]
    /\ answer' = [answer EXCEPT ![r] = status]
    /\ UNCHANGED setup

Waits == UNCHANGED <<setup, ask, answer>>

(* A request comes in. *)
receive(r, q) ==
    /\ r \in clients /\ q \in asks
    /\ ask[r] = None /\ req[r].pc \in Settled
    /\ ask' = [ask EXCEPT ![r] = q]
    /\ answer' = [answer EXCEPT ![r] = None]
    /\ req' = [req EXCEPT ![r] = Idle]
    /\ UNCHANGED <<issuer, keys, holder, faults, setup>>

Grants(q) == {i \in DOMAIN config.grants : config.grants[i].token = q.token}

(* The first of the grants with this token decides. *)
GrantStatus(q) ==
    LET first == CHOOSE i \in Grants(q) : \A j \in Grants(q) : i <= j
    IN  IF AnyMatches(config.grants[first][q.access], q.ns) THEN "granted" ELSE "forbidden"

(* Mutation: anonymous patterns are not limited to reads. *)
OpenTo_writes(q) ==
    \/ config.allow_anonymous /\ config.grants = <<>> /\ config.provider = None
    \/ AnyMatches(config.anonymous_read, q.ns)

OpenTo(q) ==
    \/ config.allow_anonymous /\ config.grants = <<>> /\ config.provider = None
    \/ q.access = "read" /\ AnyMatches(config.anonymous_read, q.ns)

(* The token goes to verify, and gets past its header. *)
Verifiable(q) ==
    /\ config.provider # None
    /\ Jwt[q.token] # None
    /\ Jwt[q.token].issuer = config.provider.issuer
    /\ Jwt[q.token].kid # None
    /\ Jwt[q.token].alg \in configured_algorithms(config.provider)

(* Everything authorize does before it has to look at keys. *)
authorize(r) ==
    LET q == ask[r] IN
    /\ ask[r] # None /\ req[r].pc = "idle"
    /\ IF ~q.protocol THEN Reply(r, "upgrade") /\ UNCHANGED vars
       ELSE IF ~valid_namespace(q.ns) THEN Reply(r, "bad_request") /\ UNCHANGED vars
       ELSE IF OpenTo(q) THEN Reply(r, "granted") /\ UNCHANGED vars
       ELSE IF q.token = None THEN Reply(r, "unauthorized") /\ UNCHANGED vars
       ELSE IF Grants(q) # {} THEN Reply(r, GrantStatus(q)) /\ UNCHANGED vars
       ELSE IF ~Verifiable(q) THEN Reply(r, "unauthorized") /\ UNCHANGED vars
       ELSE verify(r, Jwt[q.token].kid) /\ Waits

(* verify returns its claims or its error, and the rules decide. *)
find_and_decide(r) ==
    LET jwt == Jwt[ask[r].token]
        status == IF ~(Known(jwt.kid) /\ KeyFits(jwt)) THEN "unauthorized"
                  ELSE IF RulesAllow(jwt, ask[r]) THEN "granted" ELSE "forbidden"
    IN  find(r) /\ Reply(r, status)

fetch_fails_or_falls_back(r) ==
    /\ fetch_fails(r)
    /\ IF req[r].known THEN Waits ELSE Reply(r, "unauthorized")

hung_up(r) == dropped(r) /\ Reply(r, "gone")

VerifyStep(r) ==
    \/ (check(r) \/ mark(r) \/ fetch_jwks(r) \/ install(r)) /\ Waits
    \/ fetch_fails_or_falls_back(r)
    \/ find_and_decide(r)

ANext ==
    \/ \E r \in Requests :
        \/ \E q \in asks : receive(r, q)
        \/ authorize(r)
        \/ lock(r) /\ Waits
        \/ VerifyStep(r)
        \/ hung_up(r)
    \/ config.provider # None /\ (rotate \/ tick) /\ Waits

(* Tasks are polled until they return, and tokio's mutex is handed over in *)
(* order of arrival.  Builds with OIDC tokens keep coming and time passes. *)
AFairness ==
    /\ \A r \in Requests :
        /\ WF_avars(authorize(r) \/ VerifyStep(r))
        /\ SF_avars(lock(r) /\ Waits)
        /\ SF_avars(\E q \in Setups[setup].recurring : receive(r, q))
    /\ WF_avars(config.provider # None /\ tick /\ Waits)

ASafeSpec == AInit /\ [][ANext]_avars
ASpec == ASafeSpec /\ AFairness

-----------------------------------------------------------------------------
(* What the configuration promises, independent of how authorize looks.    *)

(* Writing "*" for what follows some slash of ns gives the pattern. *)
Covers(pattern, ns) ==
    \/ pattern \in {ns, <<"*">>}
    \/ \E i \in DOMAIN ns :
        ns[i] = "/" /\ i < Len(ns) /\ pattern = SubSeq(ns, 1, i) \o <<"*">>

Covered(patterns, ns) == \E pattern \in patterns : Covers(pattern, ns)

(* A name that means the same as a path: no two edges of its components   *)
(* are next to each other, nor have they just one dot or two between them. *)
Edge(ns, i) == i \notin DOMAIN ns \/ ns[i] = "/"

PlainName(ns) ==
    /\ Len(ns) \in 1 .. MaxNamespace
    /\ \A i \in DOMAIN ns : ns[i] \in Characters \cup {"/"}
    /\ \A i \in 0 .. Len(ns) :
        Edge(ns, i) => /\ ~Edge(ns, i + 1)
                       /\ ns[i + 1] = "." =>
                            /\ ~Edge(ns, i + 2)
                            /\ ns[i + 2] = "." => ~Edge(ns, i + 3)

Public(q) ==
    \/ config.allow_anonymous /\ config.grants = <<>> /\ config.provider = None
    \/ q.access = "read" /\ Covered(config.anonymous_read, q.ns)

(* A token listed twice has the rights of its first listing only. *)
Granted(q) ==
    \E i \in Grants(q) : /\ \A j \in Grants(q) : i <= j
                         /\ Covered(config.grants[i][q.access], q.ns)

(* A sound token of the issuer, under an algorithm that needs its private  *)
(* key, whose claims meet a rule for this access to this namespace.        *)
Identified(q) ==
    LET jwt == Jwt[q.token] IN
    /\ q.token # None /\ jwt # None /\ config.provider # None
    /\ jwt.issuer = config.provider.issuer /\ jwt.alg \in Asymmetric
    /\ jwt.kid # None /\ KeyFits(jwt)
    /\ \E rule \in config.provider.rules :
        /\ rule.claims # <<>>
        /\ \A name \in DOMAIN rule.claims : rule.claims[name] \cap
                (IF name \in DOMAIN jwt.claims THEN jwt.claims[name] ELSE {}) # {}
        /\ Covered(rule[q.access], q.ns)

(* A published set that held the key is in the cache or was replaced there.*)
EverPublished(kid) == \E v \in 0 .. keys.version : kid \in KeySets[v]

(* What an answer says of its request; `failed` is whether the step that   *)
(* answers is the failure of the request's own refresh.                    *)
Deserves(q, status, failed) ==
    CASE status = "granted" ->
            /\ q.protocol /\ PlainName(q.ns)
            /\ \/ Public(q) \/ Granted(q)
               \/ Identified(q) /\ EverPublished(Jwt[q.token].kid)
      [] status = "forbidden" ->
            ~Public(q) /\ ~Granted(q) /\ ~(Grants(q) = {} /\ Identified(q))
      [] status = "unauthorized" ->
            /\ ~Public(q) /\ ~Granted(q)
            /\ Identified(q) => failed \/ ~Known(Jwt[q.token].kid)
                                \/ Jwt[q.token].alg \notin
                                        configured_algorithms(config.provider)
      [] status = "bad_request" -> q.protocol /\ ~PlainName(q.ns)
      [] OTHER -> TRUE

(* authorize answers 200, 400, 403 and 401 rightly at the step that       *)
(* answers: access is granted only to a plain name that is public, held by *)
(* a static grant, or asked for with a sound token whose key the issuer has*)
(* published; it is forbidden only where nothing allows it; a name is bad  *)
(* only if it is not plain; and credentials that would do are called       *)
(* invalid only when the cached set lacks the key or the request's own     *)
(* refresh fails.                                                          *)
AnswerDeserved ==
    [][\A r \in Requests :
        ask[r] # None /\ ask'[r] = None =>
            Deserves(ask[r], answer'[r], faults' > faults)]_avars

(* Every request is answered, or its client has gone away; none is left    *)
(* waiting for the refresh mutex.                                          *)
RequestsAnswered == \A r \in Requests : ask[r] # None ~> ask[r] = None
=============================================================================
