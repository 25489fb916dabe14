----------------------------- MODULE MCAuthorize -----------------------------
(* The issuer adds a key and then withdraws the old one.  One setup has two*)
(* clients whose tokens need a refresh; the others have one client and all *)
(* the ways a request can be right or wrong.                               *)
EXTENDS Authorizer

CONSTANTS old, new, secret, other, ci, fresh, forged, foreign, symmetric, misfit, fork

MCKids == {old, new}
MCKeySets == [v \in 0 .. 2 |-> CASE v = 0 -> {old} [] v = 1 -> {old, new} [] v = 2 -> {new}]
MCKeyAlgorithm == [k \in MCKids |-> IF k = old THEN "RS256" ELSE None]
MCAsymmetric == {"RS256", "ES256"}
MCCharacters == {"a", "b", "."}

Token(iss, kid, alg, sound, repo) ==
    [issuer |-> iss, kid |-> kid, alg |-> alg, sound |-> sound,
     claims |-> [repo |-> repo, sub |-> {"job"}]]

MCJwt == [t \in {secret, other, ci, fresh, forged, foreign, symmetric, misfit, fork} |->
    CASE t = ci        -> Token("iss", old, "RS256", TRUE, {"main", "x"})
      [] t = fresh     -> Token("iss", new, "RS256", TRUE, {"main"})
      [] t = forged    -> Token("iss", old, "RS256", FALSE, {"main"})
      [] t = foreign   -> Token("elsewhere", old, "RS256", TRUE, {"main"})
      [] t = symmetric -> Token("iss", old, "HS256", TRUE, {"main"})
      [] t = misfit    -> Token("iss", old, "ES256", TRUE, {"main"})
      [] t = fork      -> Token("iss", old, "RS256", TRUE, {"fork"})
      [] OTHER         -> None]

Star == <<"*">>
Below == <<"a", "/", "*">>
Top == <<"a">>
Inner == <<"a", "/", "b">>
Beside == <<"a", "b">>
Dotted == <<"a", "/", ".", "b">>

Rule(claims, read, write) == [claims |-> claims, read |-> read, write |-> write]
Provider(rules) ==
    [issuer |-> "iss", configured |-> {"RS256", "ES256", "HS256"}, advertised |-> {}, rules |-> rules]

Main == [repo |-> {"main"}]
Forks == [repo |-> {"fork", "main"}, sub |-> {"job"}]
Nobody == [repo |-> {"main"}, environment |-> {"release"}]

Static == [allow_anonymous |-> TRUE, anonymous_read |-> {Top},
    grants |-> <<[token |-> secret, read |-> {Star}, write |-> {Below}],
                 [token |-> other, read |-> {}, write |-> {Top}],
                 [token |-> other, read |-> {Star}, write |-> {Star}]>>,
    provider |-> None]
Ruled == [Static EXCEPT !.provider =
    Provider({Rule(Main, {Star}, {Below}), Rule(Forks, {Inner}, {}), Rule(Nobody, {Star}, {Star})})]
Open == [allow_anonymous |-> TRUE, anonymous_read |-> {}, grants |-> <<>>, provider |-> None]
Closed == [Open EXCEPT !.allow_anonymous = FALSE, !.anonymous_read = {Below}]
Unclaimed == [Closed EXCEPT !.provider = Provider({Rule(<<>>, {Star}, {Star})})]

Ask(access, ns, token) == [protocol |-> TRUE, access |-> access, ns |-> ns, token |-> token]
Asks(namespaces, tokens) ==
    {Ask(a, ns, t) : a \in {"read", "write"}, ns \in namespaces, t \in tokens}

BadNames == {<<>>, Star, <<"a", "/">>, <<"/", "a">>, <<"a", "/", "/", "b">>,
             <<".", ".">>, <<"a", "/", ".">>, <<"a", "/", ".", ".">>,
             <<"a", "a", "a", "a", "a">>}
PlainAsks ==
    Asks({Top, Inner, Beside, Dotted} \cup BadNames, {secret, other, foreign, None})
    \cup {[Ask("read", Top, secret) EXCEPT !.protocol = FALSE]}
JwtAsks ==
    Asks({Beside}, {forged, foreign, symmetric, misfit, fork}) \cup Asks({Inner}, {ci, fork, secret})
RecurringAsks == {Ask("write", Inner, ci), Ask("write", Inner, fresh)}

One == {CHOOSE r \in Requests : TRUE}
Setup(c, who, what) ==
    [config |-> c, clients |-> who, asks |-> what \cup RecurringAsks, recurring |-> RecurringAsks]

MCSetups ==
    [contended |-> Setup(Ruled, Requests, {}), ruled |-> Setup(Ruled, One, JwtAsks),
     static |-> Setup(Static, One, PlainAsks), open |-> Setup(Open, One, PlainAsks),
     closed |-> Setup(Closed, One, PlainAsks), unclaimed |-> Setup(Unclaimed, One, JwtAsks)]
==============================================================================
