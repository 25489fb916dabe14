-------------------------- MODULE AuthorizerProofs --------------------------
(* OidcKeys and Authorizer for any number of tasks, any key sets and any   *)
(* configurations: one task refreshes the keys at a time, within the       *)
(* cooldown and never backwards, and every answer is deserved.             *)
EXTENDS Authorizer, SequenceTheorems, WellFoundedInduction, TLAPS

Holding == {"check", "mark", "fetch", "install"}

Tasks == [pc : Settled \cup Running, kid : Kids \cup {None}, known : BOOLEAN,
          response : 0 .. LastVersion \cup {None}]

CachedKeys == [version : 0 .. LastVersion, fetched : 0 .. RefreshAfter,
               attempted : 0 .. Cooldown \cup {None}]

(* What each task and the cache look like, one variable at a time. *)
KeysShapes ==
    /\ issuer \in 0 .. LastVersion
    /\ keys \in CachedKeys
    /\ req \in [Requests -> Tasks]
    /\ faults \in Nat

(* The mutex is held by the task between its lock and its release; the     *)
(* cooldown it saw over stays over until it records its attempt; and what  *)
(* the issuer answered it is no older than the cache, no newer than the    *)
(* issuer.                                                                 *)
RefreshOK ==
    /\ keys.version <= issuer
    /\ \A r \in Requests : req[r].pc \in Holding <=> holder = r
    /\ \A r \in Requests : req[r].pc = "mark" => ~Cooling
    /\ \A r \in Requests :
            req[r].pc = "install" => req[r].response \in keys.version .. issuer

KeysInv == KeysShapes /\ RefreshOK

(* What OidcKeys does in a step of the authorizer. *)
KeysStep ==
    \/ \E r \in Requests :
        \/ /\ req[r].pc \in Settled /\ req' = [req EXCEPT ![r] = Idle]
           /\ UNCHANGED <<issuer, keys, holder, faults>>
        \/ \E kid \in Kids \cup {None} : verify(r, kid)
        \/ lock(r) \/ check(r) \/ mark(r) \/ fetch_jwks(r) \/ install(r)
        \/ fetch_fails(r) \/ find(r) \/ dropped(r)
    \/ rotate \/ tick
    \/ UNCHANGED vars

(* One task moved, and it holds the mutex or another one may. *)
LEMMA TaskMoves ==
    ASSUME KeysShapes, NEW r \in Requests, NEW t, req' = [req EXCEPT ![r] = t]
    PROVE  req'[r] = t /\ \A s \in Requests : s # r => req'[s] = req[s]
  BY DEF KeysShapes

(* The shapes are kept. *)
LEMMA ShapesKept ==
    ASSUME KeysShapes, RefreshOK, KeysStep
    PROVE  KeysShapes'
<1>1. Idle \in Tasks
  BY DEF Idle, Tasks, Settled
<1>2. ASSUME NEW r \in Requests PROVE req[r] \in Tasks
  BY DEF KeysShapes
<1>3. ASSUME NEW r \in Requests, NEW t \in Tasks, req' = [req EXCEPT ![r] = t]
      PROVE  req' \in [Requests -> Tasks]
  BY <1>3 DEF KeysShapes
<1>4. ASSUME NEW r \in Requests, NEW pc \in Settled \cup Running
      PROVE  [req[r] EXCEPT !.pc = pc] \in Tasks
  BY <1>2 DEF Tasks
<1>5. ASSUME NEW r \in Requests, NEW pc \in Settled \cup Running, Goto(r, pc)
      PROVE  req' \in [Requests -> Tasks]
  <2>1. req' = [req EXCEPT ![r] = [req[r] EXCEPT !.pc = pc]]
    BY <1>5 DEF Goto
  <2> QED BY <1>3, <1>4, <2>1
<1>6. 0 \in 0 .. RefreshAfter /\ 0 \in 0 .. Cooldown
  BY TimesAssumption
<1>7. Fault => faults' \in Nat
  BY DEF Fault, KeysShapes
<1>8. CASE UNCHANGED vars
  BY <1>8 DEF vars, KeysShapes
<1>9. CASE rotate
  BY <1>9, KeySetsAssumption DEF rotate, KeysShapes
<1>10. CASE tick
  <2> DEFINE f == IF keys.fetched < RefreshAfter THEN keys.fetched + 1 ELSE keys.fetched
             a == IF keys.attempted # None /\ keys.attempted < Cooldown
                  THEN keys.attempted + 1 ELSE keys.attempted
  <2>1. f \in 0 .. RefreshAfter /\ a \in 0 .. Cooldown \cup {None}
    BY TimesAssumption DEF KeysShapes, CachedKeys
  <2>2. keys' = [keys EXCEPT !.fetched = f, !.attempted = a]
    BY <1>10 DEF tick
  <2> HIDE DEF f, a
  <2>3. keys' \in CachedKeys
    BY <2>1, <2>2 DEF KeysShapes, CachedKeys
  <2> QED BY <1>10, <2>3 DEF tick, KeysShapes
<1>11. ASSUME NEW r \in Requests,
              req[r].pc \in Settled /\ req' = [req EXCEPT ![r] = Idle],
              UNCHANGED <<issuer, keys, holder, faults>>
       PROVE  KeysShapes'
  BY <1>1, <1>3, <1>11 DEF KeysShapes
<1>12. ASSUME NEW r \in Requests, NEW kid \in Kids \cup {None}, verify(r, kid)
       PROVE  KeysShapes'
  <2> DEFINE t == [Idle EXCEPT !.pc = IF Stale \/ ~Known(kid) THEN "lock" ELSE "find",
                               !.kid = kid, !.known = Known(kid)]
  <2>1. Known(kid) \in BOOLEAN
    BY DEF Known
  <2>2. t \in Tasks
    BY <2>1 DEF Idle, Tasks, Settled, Running
  <2>3. req' = [req EXCEPT ![r] = t] /\ UNCHANGED <<issuer, keys, faults>>
    BY <1>12 DEF verify
  <2> HIDE DEF t
  <2> QED BY <1>3, <2>2, <2>3 DEF KeysShapes
<1>13. ASSUME NEW r \in Requests, lock(r) PROVE KeysShapes'
  BY <1>5, <1>13 DEF lock, KeysShapes, Running
<1>14. ASSUME NEW r \in Requests, check(r) PROVE KeysShapes'
  BY <1>5, <1>14 DEF check, KeysShapes, Running
<1>15. ASSUME NEW r \in Requests, mark(r) PROVE KeysShapes'
  <2>1. keys' \in CachedKeys
    BY <1>6, <1>15 DEF mark, KeysShapes, CachedKeys
  <2> QED BY <1>5, <1>15, <2>1 DEF mark, KeysShapes, Running
<1>16. ASSUME NEW r \in Requests, fetch_jwks(r) PROVE KeysShapes'
  <2>1. [req[r] EXCEPT !.pc = "install", !.response = issuer] \in Tasks
    BY <1>2 DEF Tasks, Running, KeysShapes
  <2>2. req' = [req EXCEPT ![r] = [req[r] EXCEPT !.pc = "install", !.response = issuer]]
    BY <1>16 DEF fetch_jwks
  <2> QED BY <1>3, <1>16, <2>1, <2>2 DEF fetch_jwks, KeysShapes
<1>17. ASSUME NEW r \in Requests, install(r) PROVE KeysShapes'
  <2>1. [req[r] EXCEPT !.pc = "find", !.response = None] \in Tasks
    BY <1>2 DEF Tasks, Running
  <2>2. req' = [req EXCEPT ![r] = [req[r] EXCEPT !.pc = "find", !.response = None]]
    BY <1>17 DEF install
  <2>3. req[r].response \in 0 .. LastVersion
    <3>1. req[r].response \in keys.version .. issuer
      BY <1>17 DEF install, RefreshOK
    <3>2. keys.version \in 0 .. LastVersion
      BY DEF KeysShapes, CachedKeys
    <3> QED BY <3>1, <3>2, KeySetsAssumption DEF KeysShapes
  <2>4. keys' \in CachedKeys
    BY <1>6, <1>17, <2>3 DEF install, KeysShapes, CachedKeys
  <2> QED BY <1>3, <1>17, <2>1, <2>2, <2>4 DEF install, KeysShapes
<1>18. ASSUME NEW r \in Requests, fetch_fails(r) PROVE KeysShapes'
  <2>1. [req[r] EXCEPT !.pc = "find"] \in Tasks /\ [Idle EXCEPT !.pc = "rejected"] \in Tasks
    BY <1>2 DEF Tasks, Running, Settled, Idle
  <2>2. req' \in [Requests -> Tasks]
    BY <1>3, <1>18, <2>1 DEF fetch_fails, GiveUp
  <2> QED BY <1>7, <1>18, <2>2 DEF fetch_fails, KeysShapes
<1>19. ASSUME NEW r \in Requests, find(r) PROVE KeysShapes'
  <2>1. \A pc \in Settled : [Idle EXCEPT !.pc = pc] \in Tasks
    BY DEF Tasks, Idle
  <2>2. req' \in [Requests -> Tasks]
    BY <1>3, <1>19, <2>1 DEF find, Settled
  <2> QED BY <1>19, <2>2 DEF find, KeysShapes
<1>20. ASSUME NEW r \in Requests, dropped(r) PROVE KeysShapes'
  BY <1>1, <1>3, <1>7, <1>20 DEF dropped, KeysShapes
<1> QED
  BY <1>8, <1>9, <1>10, <1>11, <1>12, <1>13, <1>14, <1>15, <1>16, <1>17, <1>18, <1>19, <1>20
     DEF KeysStep

(* One refresh at a time, and it goes forward. *)
LEMMA RefreshKept ==
    ASSUME KeysShapes, RefreshOK, KeysStep
    PROVE  RefreshOK'
<1>1. ASSUME NEW r \in Requests PROVE req[r] \in Tasks /\ r # None
  BY HolderAssumption DEF KeysShapes
<1>2. /\ issuer \in Nat /\ keys.version \in Nat
      /\ \A r \in Requests : req[r].pc \in {"check", "mark", "fetch", "install"} => holder = r
  BY DEF KeysShapes, CachedKeys, RefreshOK, Holding
<1>3. CASE UNCHANGED vars
  BY <1>3 DEF vars, RefreshOK, Cooling
<1>4. CASE rotate
  <2>1. issuer' = issuer + 1 /\ UNCHANGED <<keys, holder, req>>
    BY <1>4 DEF rotate
  <2>2. \A x : x \in keys.version .. issuer => x \in keys.version .. issuer'
    BY <1>2, <2>1
  <2> QED BY <1>2, <2>1, <2>2 DEF RefreshOK, Cooling
<1>5. CASE tick
  <2>1. keys'.version = keys.version /\ UNCHANGED <<issuer, holder, req>>
    BY <1>5 DEF tick, KeysShapes, CachedKeys
  <2>2. ~Cooling => ~Cooling'
    <3>1. keys'.attempted = IF keys.attempted # None /\ keys.attempted < Cooldown
                            THEN keys.attempted + 1 ELSE keys.attempted
      BY <1>5 DEF tick, KeysShapes, CachedKeys
    <3> QED BY <3>1 DEF Cooling
  <2> QED BY <2>1, <2>2 DEF RefreshOK
(* A task that neither holds the mutex nor takes it. *)
<1>6. ASSUME NEW r \in Requests, NEW t, req' = [req EXCEPT ![r] = t],
             req[r].pc \notin Holding, t.pc \notin Holding,
             UNCHANGED <<issuer, keys, holder>>
      PROVE  RefreshOK'
  <2>1. req'[r] = t /\ \A s \in Requests : s # r => req'[s] = req[s]
    BY <1>6, TaskMoves
  <2>2. Cooling' = Cooling
    BY <1>6 DEF Cooling
  <2> QED BY <1>6, <2>1, <2>2 DEF RefreshOK, Holding
(* The task that holds it goes on. *)
<1>7. ASSUME NEW r \in Requests, NEW t, req' = [req EXCEPT ![r] = t],
             req[r].pc \in Holding, t.pc \in Holding,
             t.pc = "mark" => ~Cooling',
             t.pc = "install" => t.response \in keys.version .. issuer,
             UNCHANGED <<issuer, holder>>, keys'.version = keys.version
      PROVE  RefreshOK'
  <2>1. req'[r] = t /\ \A s \in Requests : s # r => req'[s] = req[s]
    BY <1>7, TaskMoves
  <2>2. holder = r /\ \A s \in Requests : s # r => req[s].pc \notin Holding
    BY <1>7 DEF RefreshOK
  <2> QED BY <1>7, <2>1, <2>2 DEF RefreshOK, Holding
(* The task that holds it lets it go. *)
<1>8. ASSUME NEW r \in Requests, NEW t, req' = [req EXCEPT ![r] = t],
             req[r].pc \in Holding, t.pc \notin Holding, holder' = None,
             UNCHANGED issuer, keys'.version <= issuer
      PROVE  RefreshOK'
  <2>1. req'[r] = t /\ \A s \in Requests : s # r => req'[s] = req[s]
    BY <1>8, TaskMoves
  <2>2. \A s \in Requests : s # r => req[s].pc \notin Holding
    BY <1>8 DEF RefreshOK
  <2>3. \A s \in Requests : req'[s].pc \notin Holding /\ holder' # s
    BY <1>1, <1>8, <2>1, <2>2
  <2> QED BY <1>8, <2>3 DEF RefreshOK, Holding
<1>9. ASSUME NEW r \in Requests, NEW pc, Goto(r, pc)
      PROVE  /\ req' = [req EXCEPT ![r] = [req[r] EXCEPT !.pc = pc]]
             /\ [req[r] EXCEPT !.pc = pc].pc = pc
  BY <1>1, <1>9 DEF Goto, Tasks
<1>10. /\ Idle.pc \notin Holding
       /\ \A pc : [Idle EXCEPT !.pc = pc].pc = pc
       /\ "find" \notin Holding /\ "rejected" \notin Holding /\ "lock" \notin Holding
       /\ \A pc \in Settled : pc \notin Holding
  BY DEF Idle, Holding, Settled
<1>11. ASSUME NEW r \in Requests,
              req[r].pc \in Settled /\ req' = [req EXCEPT ![r] = Idle],
              UNCHANGED <<issuer, keys, holder, faults>>
       PROVE  RefreshOK'
  BY <1>6, <1>10, <1>11
<1>12. ASSUME NEW r \in Requests, NEW kid \in Kids \cup {None}, verify(r, kid)
       PROVE  RefreshOK'
  <2> DEFINE t == [Idle EXCEPT !.pc = IF Stale \/ ~Known(kid) THEN "lock" ELSE "find",
                               !.kid = kid, !.known = Known(kid)]
  <2>1. t.pc \in {"lock", "find"}
    BY DEF Idle
  <2>2. req' = [req EXCEPT ![r] = t] /\ UNCHANGED <<issuer, keys, holder>>
        /\ req[r].pc \in Settled
    BY <1>12 DEF verify
  <2> HIDE DEF t
  <2> QED BY <1>6, <1>10, <2>1, <2>2
<1>13. ASSUME NEW r \in Requests, lock(r) PROVE RefreshOK'
  <2> DEFINE t == [req[r] EXCEPT !.pc = "check"]
  <2>1. /\ req' = [req EXCEPT ![r] = t] /\ t.pc = "check"
        /\ holder = None /\ holder' = r /\ UNCHANGED <<issuer, keys>>
    BY <1>9, <1>13 DEF lock
  <2> HIDE DEF t
  <2>2. req'[r] = t /\ \A s \in Requests : s # r => req'[s] = req[s]
    BY <2>1, TaskMoves
  <2>3. \A s \in Requests : req[s].pc \notin Holding
    BY <1>1, <2>1 DEF RefreshOK
  <2> QED BY <2>1, <2>2, <2>3 DEF RefreshOK, Holding
<1>14. ASSUME NEW r \in Requests, check(r) PROVE RefreshOK'
  <2>1. req[r].pc \in Holding /\ UNCHANGED <<issuer, keys>>
    BY <1>14 DEF check, Holding
  <2>2. CASE NoNeed(req[r].kid) /\ Goto(r, "find") /\ holder' = None
    <3> DEFINE t == [req[r] EXCEPT !.pc = "find"]
    <3>1. req' = [req EXCEPT ![r] = t] /\ t.pc = "find" /\ keys'.version <= issuer
      BY <1>9, <2>1, <2>2 DEF RefreshOK
    <3> HIDE DEF t
    <3> QED BY <1>8, <1>10, <2>1, <2>2, <3>1
  <2>3. CASE ~NoNeed(req[r].kid) /\ Goto(r, "mark") /\ UNCHANGED holder
    <3> DEFINE t == [req[r] EXCEPT !.pc = "mark"]
    <3>1. req' = [req EXCEPT ![r] = t] /\ t.pc = "mark" /\ keys'.version = keys.version
      BY <1>9, <2>1, <2>3
    <3>2. ~Cooling'
      BY <2>1, <2>3 DEF NoNeed, Cooling
    <3>3. t.pc \in Holding /\ t.pc # "install"
      BY <3>1 DEF Holding
    <3> HIDE DEF t
    <3> QED BY <1>7, <2>1, <2>3, <3>1, <3>2, <3>3
  <2> QED BY <1>14, <2>2, <2>3 DEF check
<1>15. ASSUME NEW r \in Requests, mark(r) PROVE RefreshOK'
  <2> DEFINE t == [req[r] EXCEPT !.pc = "fetch"]
  <2>1. /\ req' = [req EXCEPT ![r] = t] /\ t.pc = "fetch" /\ req[r].pc = "mark"
        /\ UNCHANGED <<issuer, holder>>
    BY <1>9, <1>15 DEF mark
  <2>2. keys'.version = keys.version
    BY <1>15 DEF mark, KeysShapes, CachedKeys
  <2> HIDE DEF t
  <2>3. req[r].pc \in Holding /\ t.pc \in Holding /\ t.pc # "mark" /\ t.pc # "install"
    BY <2>1 DEF Holding
  <2> QED BY <1>7, <2>1, <2>2, <2>3
<1>16. ASSUME NEW r \in Requests, fetch_jwks(r) PROVE RefreshOK'
  <2> DEFINE t == [req[r] EXCEPT !.pc = "install", !.response = issuer]
  <2>1. /\ req' = [req EXCEPT ![r] = t] /\ req[r].pc = "fetch"
        /\ UNCHANGED <<issuer, keys, holder>>
    BY <1>16 DEF fetch_jwks
  <2>2. t.pc = "install" /\ t.response = issuer
    BY <1>1 DEF Tasks
  <2>3. issuer \in keys.version .. issuer
    BY <1>2 DEF RefreshOK
  <2> HIDE DEF t
  <2>4. req[r].pc \in Holding /\ t.pc \in Holding /\ t.pc # "mark"
    BY <2>1, <2>2 DEF Holding
  <2> QED BY <1>7, <2>1, <2>2, <2>3, <2>4
<1>17. ASSUME NEW r \in Requests, install(r) PROVE RefreshOK'
  <2> DEFINE t == [req[r] EXCEPT !.pc = "find", !.response = None]
  <2>1. /\ req' = [req EXCEPT ![r] = t] /\ req[r].pc = "install"
        /\ holder' = None /\ UNCHANGED issuer
    BY <1>17 DEF install
  <2>2. t.pc = "find"
    BY <1>1 DEF Tasks
  <2>3. req[r].response \in keys.version .. issuer
    BY <2>1 DEF RefreshOK
  <2>4. keys'.version = req[r].response
    BY <1>17 DEF install, KeysShapes, CachedKeys
  <2>5. keys'.version <= issuer
    BY <1>2, <2>3, <2>4
  <2> HIDE DEF t
  <2>6. req[r].pc \in Holding /\ t.pc \notin Holding
    BY <2>1, <2>2 DEF Holding
  <2> QED BY <1>8, <2>1, <2>5, <2>6
<1>18. ASSUME NEW r \in Requests, fetch_fails(r) PROVE RefreshOK'
  <2>1. req[r].pc \in Holding /\ holder' = None /\ UNCHANGED <<issuer, keys>>
    BY <1>18 DEF fetch_fails, Holding
  <2>2. PICK t : req' = [req EXCEPT ![r] = t]
                 /\ t \in {[req[r] EXCEPT !.pc = "find"], [Idle EXCEPT !.pc = "rejected"]}
    BY <1>18 DEF fetch_fails, GiveUp
  <2>3. t.pc \in {"find", "rejected"}
    BY <1>1, <1>10, <2>2 DEF Tasks
  <2>4. t.pc \notin Holding
    BY <2>3 DEF Holding
  <2>5. keys'.version <= issuer
    BY <2>1 DEF RefreshOK
  <2> QED BY <1>8, <2>1, <2>2, <2>4, <2>5
<1>19. ASSUME NEW r \in Requests, find(r) PROVE RefreshOK'
  <2> DEFINE t == [Idle EXCEPT !.pc = IF Known(req[r].kid) THEN "accepted" ELSE "rejected"]
  <2>1. /\ req' = [req EXCEPT ![r] = t] /\ req[r].pc = "find"
        /\ UNCHANGED <<issuer, keys, holder>>
    BY <1>19 DEF find
  <2>2. t.pc \in Settled
    BY <1>10 DEF Settled
  <2> HIDE DEF t
  <2> QED BY <1>6, <1>10, <2>1, <2>2
<1>20. ASSUME NEW r \in Requests, dropped(r) PROVE RefreshOK'
  <2>1. /\ req' = [req EXCEPT ![r] = Idle] /\ UNCHANGED <<issuer, keys>>
        /\ holder' = IF holder = r THEN None ELSE holder
    BY <1>20 DEF dropped
  <2>2. CASE req[r].pc \in Holding
    <3>1. holder' = None /\ keys'.version <= issuer
      BY <2>1, <2>2 DEF RefreshOK
    <3> QED BY <1>8, <1>10, <2>1, <2>2, <3>1
  <2>3. CASE req[r].pc \notin Holding
    <3>1. UNCHANGED holder
      BY <2>1, <2>3 DEF RefreshOK
    <3> QED BY <1>6, <1>10, <2>1, <2>3, <3>1
  <2> QED BY <2>2, <2>3
<1> QED
  BY <1>3, <1>4, <1>5, <1>11, <1>12, <1>13, <1>14, <1>15, <1>16, <1>17, <1>18, <1>19, <1>20
     DEF KeysStep

-----------------------------------------------------------------------------
(* The requests. *)

Answers == {"upgrade", "bad_request", "granted", "unauthorized", "forbidden", "gone", None}

(* The requests authorize looks at credentials for. *)
Admitted(q) == q.protocol /\ valid_namespace(q.ns)

(* What authorize knows of a request it hands to verify. *)
Verifying(q) ==
    /\ Admitted(q) /\ ~OpenTo(q)
    /\ q.token # None /\ Grants(q) = {}
    /\ Verifiable(q)

(* A request is being verified only when nothing else could decide it. *)
AsksOK ==
    /\ setup \in DOMAIN Setups /\ Starts(config)
    /\ ask \in [Requests -> asks \cup {None}]
    /\ answer \in [Requests -> Answers]
    /\ \A r \in Requests :
            req[r].pc \in Running => ask[r] # None /\ Verifying(ask[r])

(* Nothing about a request changes while the configuration stays. *)
LEMMA SameConfig ==
    ASSUME setup' = setup
    PROVE  config' = config /\ asks' = asks /\ \A q : Verifying(q)' <=> Verifying(q)
<1>1. config' = config /\ asks' = asks
  BY DEF config, asks
<1> QED BY <1>1 DEF Verifying, OpenTo, Grants, Verifiable, Admitted

(* A task moves on. *)
LEMMA RequestWaits ==
    ASSUME AsksOK, Waits,
           \A s \in Requests : req'[s].pc \in Running =>
                req[s].pc \in Running \/ (Verifying(ask[s]) /\ ask[s] # None)
    PROVE  AsksOK'
<1>1. UNCHANGED <<setup, ask, answer>>
  BY DEF Waits
<1>2. setup' \in DOMAIN Setups /\ Starts(config)'
  BY <1>1, SameConfig DEF AsksOK, Starts
<1> QED BY <1>1, <1>2, SameConfig DEF AsksOK

(* A task is answered. *)
LEMMA RequestAnswered ==
    ASSUME AsksOK, NEW r \in Requests, NEW status \in Answers, Reply(r, status),
           req'[r].pc \notin Running,
           \A s \in Requests : s # r => req'[s] = req[s]
    PROVE  AsksOK'
<1>1. /\ ask' = [ask EXCEPT ![r] = None]
      /\ answer' = [answer EXCEPT ![r] = status] /\ setup' = setup
  BY DEF Reply
<1>2. setup' \in DOMAIN Setups /\ Starts(config)'
  BY <1>1, SameConfig DEF AsksOK, Starts
<1>3. ask' \in [Requests -> asks \cup {None}] /\ answer' \in [Requests -> Answers]
  BY <1>1 DEF AsksOK
<1>4. ASSUME NEW s \in Requests, req'[s].pc \in Running
      PROVE  ask'[s] # None /\ Verifying(ask'[s])
  <2>1. s # r
    BY <1>4
  <2>2. ask'[s] = ask[s] /\ req'[s] = req[s]
    BY <1>1, <2>1 DEF AsksOK
  <2> QED BY <1>4, <2>2 DEF AsksOK
<1> QED BY <1>1, <1>2, <1>3, <1>4, SameConfig DEF AsksOK

(* Every step of the authorizer is a step of the keys, and keeps the       *)
(* requests in order.                                                      *)
LEMMA RequestSteps ==
    ASSUME KeysInv, AsksOK, ANext
    PROVE  KeysStep /\ AsksOK'
<1>0. /\ \A r \in Requests : req[r] \in Tasks
      /\ \A r \in Requests : ask[r] \in asks \cup {None}
      /\ setup \in DOMAIN Setups
  BY DEF KeysInv, KeysShapes, AsksOK
<1>1. ASSUME NEW r \in Requests, NEW t, req' = [req EXCEPT ![r] = t]
      PROVE  req'[r] = t /\ \A s \in Requests : s # r => req'[s] = req[s]
  BY <1>1, TaskMoves DEF KeysInv
<1>2. Idle.pc \notin Running /\ \A s \in Settled : s \notin Running
  BY DEF Idle, Settled, Running
<1>3. ASSUME NEW r \in Requests, NEW q \in asks, receive(r, q) PROVE KeysStep /\ AsksOK'
  <2>1. /\ req[r].pc \in Settled /\ req' = [req EXCEPT ![r] = Idle]
        /\ UNCHANGED <<issuer, keys, holder, faults>>
    BY <1>3 DEF receive
  <2>2. ask' = [ask EXCEPT ![r] = q] /\ answer' = [answer EXCEPT ![r] = None] /\ setup' = setup
    BY <1>3 DEF receive
  <2>3. req'[r].pc \notin Running /\ \A s \in Requests : s # r => req'[s] = req[s]
    BY <1>1, <1>2, <2>1
  <2>4. ask' \in [Requests -> asks \cup {None}] /\ answer' \in [Requests -> Answers]
    BY <2>2 DEF AsksOK, Answers
  <2>5. ASSUME NEW s \in Requests, req'[s].pc \in Running
        PROVE  ask'[s] # None /\ Verifying(ask'[s])
    <3>1. s # r
      BY <2>3, <2>5
    <3>2. ask'[s] = ask[s] /\ req'[s] = req[s]
      BY <2>2, <2>3, <3>1 DEF AsksOK
    <3> QED BY <2>5, <3>2 DEF AsksOK
  <2>6. setup' \in DOMAIN Setups /\ Starts(config)'
    BY <2>2, SameConfig DEF AsksOK, Starts
  <2>7. AsksOK'
    BY <2>2, <2>4, <2>5, <2>6, SameConfig DEF AsksOK
  <2> QED BY <2>1, <2>7 DEF KeysStep
<1>4. ASSUME NEW r \in Requests, authorize(r) PROVE KeysStep /\ AsksOK'
  <2>1. ask[r] # None /\ req[r].pc = "idle"
    BY <1>4 DEF authorize
  <2>2. CASE \E status \in Answers : Reply(r, status) /\ UNCHANGED vars
    <3>1. KeysStep /\ UNCHANGED req
      BY <2>2 DEF KeysStep, vars
    <3>2. req'[r].pc \notin Running
      BY <2>1, <3>1 DEF Running
    <3> QED BY <2>2, <3>1, <3>2, RequestAnswered
  <2>3. CASE Verifying(ask[r]) /\ verify(r, Jwt[ask[r].token].kid) /\ Waits
    <3>1. Jwt[ask[r].token] # None /\ ask[r].token # None
      BY <2>3 DEF Verifying, Verifiable
    <3>2. ask[r] \in asks
      BY <1>0, <2>1
    <3>3. ask[r].token \in DOMAIN Jwt
      BY <1>0, <3>1, <3>2, SetupsAssumption DEF asks
    <3>4. Jwt[ask[r].token].kid \in Kids \cup {None}
      BY <3>1, <3>3, JwtAssumption
    <3>5. KeysStep
      BY <2>3, <3>4 DEF KeysStep
    <3>6. \A s \in Requests : s # r => req'[s] = req[s]
      BY <1>1, <2>3 DEF verify
    <3> QED BY <2>1, <2>3, <3>5, <3>6, RequestWaits
  <2>4. \A q : GrantStatus(q) \in {"granted", "forbidden"}
    BY DEF GrantStatus
  <2> QED BY <1>4, <2>2, <2>3, <2>4
             DEF authorize, Answers, Verifying, Admitted
<1>5. ASSUME NEW r \in Requests, req[r].pc \in Running, Waits,
             \/ lock(r) \/ check(r) \/ mark(r) \/ fetch_jwks(r) \/ install(r)
             \/ fetch_fails(r)
      PROVE  KeysStep /\ AsksOK'
  <2>1. KeysStep
    BY <1>5 DEF KeysStep
  <2>2. \A s \in Requests : s # r => req'[s] = req[s]
    BY <1>1, <1>5 DEF lock, check, mark, fetch_jwks, install, fetch_fails, Goto, GiveUp
  <2> QED BY <1>5, <2>1, <2>2, RequestWaits
<1>6. ASSUME NEW r \in Requests, NEW status \in Answers, Reply(r, status),
             \/ find(r)
             \/ dropped(r)
             \/ fetch_fails(r) /\ ~req[r].known
      PROVE  KeysStep /\ AsksOK'
  <2>1. KeysStep
    BY <1>6 DEF KeysStep
  <2>2. \A s \in Requests : s # r => req'[s] = req[s]
    BY <1>1, <1>6 DEF find, dropped, fetch_fails, GiveUp
  <2>3. req'[r].pc \in Settled
    BY <1>1, <1>6 DEF find, dropped, fetch_fails, GiveUp, Idle, Settled
  <2> QED BY <1>2, <1>6, <2>1, <2>2, <2>3, RequestAnswered
<1>7. ASSUME rotate \/ tick, Waits PROVE KeysStep /\ AsksOK'
  <2>1. KeysStep /\ UNCHANGED req
    BY <1>7 DEF KeysStep, rotate, tick
  <2> QED BY <1>7, <2>1, RequestWaits
<1>8. ASSUME NEW r \in Requests, VerifyStep(r) PROVE KeysStep /\ AsksOK'
  <2>1. CASE (check(r) \/ mark(r) \/ fetch_jwks(r) \/ install(r)) /\ Waits
    BY <1>5, <2>1 DEF check, mark, fetch_jwks, install, Running
  <2>2. CASE fetch_fails_or_falls_back(r)
    <3>1. req[r].pc \in Running
      BY <2>2 DEF fetch_fails_or_falls_back, fetch_fails, Running
    <3> QED BY <1>5, <1>6, <2>2, <3>1 DEF fetch_fails_or_falls_back, Answers
  <2>3. CASE find_and_decide(r)
    <3>1. PICK status \in {"unauthorized", "granted", "forbidden"} : find(r) /\ Reply(r, status)
      BY <2>3 DEF find_and_decide
    <3> QED BY <1>6, <3>1 DEF Answers
  <2> QED BY <1>8, <2>1, <2>2, <2>3 DEF VerifyStep
<1>9. ASSUME NEW r \in Requests, lock(r) /\ Waits PROVE KeysStep /\ AsksOK'
  BY <1>5, <1>9 DEF lock, Running
<1>10. ASSUME NEW r \in Requests, hung_up(r) PROVE KeysStep /\ AsksOK'
  BY <1>6, <1>10 DEF hung_up, Answers
<1> QED BY <1>3, <1>4, <1>7, <1>8, <1>9, <1>10 DEF ANext

-----------------------------------------------------------------------------
AuthorizerInv == KeysInv /\ AsksOK

(* The invariant holds of every behaviour of the authorizer: what refreshes*)
(* the keys, and what is known of the requests being verified.             *)
THEOREM AuthorizerInductive == ASafeSpec => []AuthorizerInv
<1>1. AInit => AuthorizerInv
  <2> SUFFICES ASSUME AInit PROVE AuthorizerInv
    OBVIOUS
  <2>1. Init /\ Idle \in Tasks /\ Idle.pc = "idle" /\ \A r \in Requests : r # None
    BY HolderAssumption DEF AInit, Idle, Tasks, Settled
  <2>2. KeysShapes
    BY <2>1, KeySetsAssumption, TimesAssumption DEF Init, KeysShapes, CachedKeys
  <2>3. RefreshOK
    BY <2>1 DEF Init, RefreshOK, Holding
  <2>4. AsksOK
    BY <2>1 DEF AInit, Init, AsksOK, Answers, Running, config
  <2> QED BY <2>2, <2>3, <2>4 DEF AuthorizerInv, KeysInv
<1>2. AuthorizerInv /\ [ANext]_avars => AuthorizerInv'
  <2> SUFFICES ASSUME AuthorizerInv, [ANext]_avars PROVE AuthorizerInv'
    OBVIOUS
  <2>1. CASE ANext
    BY <2>1, RequestSteps, ShapesKept, RefreshKept DEF AuthorizerInv, KeysInv
  <2>2. CASE UNCHANGED avars
    <3>1. KeysStep /\ Waits /\ UNCHANGED req
      BY <2>2 DEF avars, KeysStep, vars, Waits
    <3> QED BY <3>1, ShapesKept, RefreshKept, RequestWaits DEF AuthorizerInv, KeysInv
  <2> QED BY <2>1, <2>2
<1> QED BY <1>1, <1>2, PTL DEF ASafeSpec

(* The types, and mutual exclusion: refresh_keys is run by one task at a   *)
(* time, the one that holds the mutex.                                     *)
THEOREM KeysTypeCorrect == ASafeSpec => []KeysTypeOK
<1>1. AuthorizerInv => KeysTypeOK
  BY DEF AuthorizerInv, KeysInv, KeysShapes, RefreshOK, KeysTypeOK, Tasks, CachedKeys, Holding
<1> QED BY <1>1, AuthorizerInductive, PTL

(* Two fetches are never started within the cooldown. *)
THEOREM RefreshesSpaced == ASafeSpec => FetchesSpaced
<1> DEFINE Spaced ==
        \A r \in Requests :
            req[r].pc # "fetch" /\ req'[r].pc = "fetch" =>
                keys.attempted = None \/ keys.attempted >= Cooldown
<1>1. AuthorizerInv /\ [ANext]_avars => [Spaced]_vars
  <2> SUFFICES ASSUME AuthorizerInv, ANext, NEW r \in Requests,
                      req[r].pc # "fetch", req'[r].pc = "fetch"
               PROVE  keys.attempted = None \/ keys.attempted >= Cooldown
    BY DEF avars, vars
  <2>1. KeysStep /\ KeysShapes /\ RefreshOK
    BY RequestSteps DEF AuthorizerInv, KeysInv
  <2>2. /\ req[r] \in Tasks
        /\ \A s \in Requests : req[s] \in Tasks
        /\ keys.attempted \in 0 .. Cooldown \cup {None}
    BY <2>1 DEF KeysShapes, CachedKeys
  <2>3. ASSUME NEW s \in Requests, NEW t, req' = [req EXCEPT ![s] = t], t.pc # "fetch"
        PROVE  FALSE
    <3>1. req'[s] = t /\ (s # r => req'[r] = req[r])
      BY <2>1, <2>3, TaskMoves
    <3> QED BY <2>3, <3>1
  <2>4. ASSUME NEW s \in Requests, mark(s) PROVE ~Cooling
    BY <2>1, <2>4 DEF mark, RefreshOK
  <2>5. ASSUME NEW s \in Requests, NEW pc, Goto(s, pc) PROVE pc = "fetch"
    BY <2>2, <2>3, <2>5 DEF Goto, Tasks
  <2>6. \A pc : [Idle EXCEPT !.pc = pc].pc = pc /\ Idle.pc = "idle"
    BY DEF Idle
  <2>7. ~ UNCHANGED req
    OBVIOUS
  <2>8. ASSUME NEW s \in Requests, NEW kid \in Kids \cup {None}, verify(s, kid) PROVE FALSE
    <3> DEFINE t == [Idle EXCEPT !.pc = IF Stale \/ ~Known(kid) THEN "lock" ELSE "find",
                                 !.kid = kid, !.known = Known(kid)]
    <3>1. t.pc \in {"lock", "find"} /\ req' = [req EXCEPT ![s] = t]
      BY <2>8 DEF Idle, verify
    <3> HIDE DEF t
    <3> QED BY <2>3, <3>1
  <2>9. ASSUME NEW s \in Requests, fetch_jwks(s) \/ install(s) PROVE FALSE
    <3> DEFINE Takes(pc, x) == req' = [req EXCEPT ![s] = [req[s] EXCEPT !.pc = pc, !.response = x]]
    <3>0. (\E x : Takes("install", x)) \/ (\E x : Takes("find", x))
      BY <2>9 DEF fetch_jwks, install
    <3> HIDE DEF Takes
    <3>1. PICK pc, x : pc \in {"install", "find"} /\ Takes(pc, x)
      BY <3>0
    <3> USE DEF Takes
    <3>2. [req[s] EXCEPT !.pc = pc, !.response = x].pc = pc
      BY <2>2 DEF Tasks
    <3> QED BY <2>3, <3>1, <3>2
  <2>10. ASSUME NEW s \in Requests, fetch_fails(s) PROVE FALSE
    <3>1. [req[s] EXCEPT !.pc = "find"].pc = "find"
      BY <2>2 DEF Tasks
    <3> QED BY <2>3, <2>6, <2>10, <3>1 DEF fetch_fails, GiveUp
  <2>11. ASSUME NEW s \in Requests, find(s) PROVE FALSE
    BY <2>3, <2>6, <2>11 DEF find
  <2>12. ASSUME NEW s \in Requests, req' = [req EXCEPT ![s] = Idle] PROVE FALSE
    BY <2>3, <2>6, <2>12
  <2>13. ~Cooling
    BY <2>1, <2>4, <2>5, <2>7, <2>8, <2>9, <2>10, <2>11, <2>12
       DEF KeysStep, lock, check, dropped, rotate, tick, vars
  <2> QED BY <2>2, <2>13, TimesAssumption DEF Cooling
<1> QED BY <1>1, AuthorizerInductive, PTL DEF ASafeSpec, FetchesSpaced

(* A key set never replaces a newer one. *)
THEOREM KeySetsAdvance == ASafeSpec => KeysNeverRegress
<1>1. AuthorizerInv /\ [ANext]_avars => [keys'.version >= keys.version]_vars
  <2> SUFFICES ASSUME AuthorizerInv, ANext PROVE keys'.version >= keys.version
    BY DEF avars, vars
  <2>1. KeysStep /\ KeysShapes /\ RefreshOK
    BY RequestSteps DEF AuthorizerInv, KeysInv
  <2>2. keys \in CachedKeys /\ keys.version \in Nat /\ issuer \in Nat
    BY <2>1 DEF KeysShapes, CachedKeys
  <2>3. CASE \E r \in Requests : install(r)
    <3>1. PICK r \in Requests : install(r)
      BY <2>3
    <3>2. req[r].response \in keys.version .. issuer
      BY <2>1, <3>1 DEF install, RefreshOK
    <3>3. keys'.version = req[r].response
      BY <2>2, <3>1 DEF install, CachedKeys
    <3> QED BY <2>2, <3>2, <3>3
  <2>4. CASE tick \/ \E r \in Requests : mark(r)
    <3>1. keys'.version = keys.version
      BY <2>2, <2>4 DEF tick, mark, CachedKeys
    <3> QED BY <2>2, <3>1
  <2>5. CASE UNCHANGED keys
    BY <2>2, <2>5
  <2> QED BY <2>1, <2>3, <2>4, <2>5
             DEF KeysStep, verify, lock, check, fetch_jwks, fetch_fails, find, dropped,
                 rotate, vars
<1> QED BY <1>1, AuthorizerInductive, PTL DEF ASafeSpec, KeysNeverRegress

-----------------------------------------------------------------------------
(* Namespaces and patterns. *)

(* The characters of strings, the two that patterns are about among them.  *)
Letters == STRING \cup {"/", "*"}

(* A valid namespace does not end in a slash. *)
LEMMA NoTrailingSlash ==
    ASSUME NEW ns \in Seq(Letters), valid_namespace(ns)
    PROVE  Len(ns) \in Nat \ {0} /\ DOMAIN ns = 1 .. Len(ns) /\ ns[Len(ns)] # "/"
<1> DEFINE n == Len(ns)
<1>1. n \in Nat \ {0} /\ DOMAIN ns = 1 .. n
  BY EmptySeq, LenProperties DEF valid_namespace
<1>2. ASSUME ns[n] = "/" PROVE FALSE
  <2>1. n \in Cuts(ns) /\ n + 1 \in Cuts(ns)
    <3>1. n \in DOMAIN ns
      BY <1>1
    <3> QED BY <1>2, <3>1 DEF Cuts
  <2>2. \A i \in Cuts(ns) : i <= n \/ i >= n + 1
    BY <1>1 DEF Cuts
  <2> DEFINE c == <<n, n + 1>>
  <2>3. c \in Cuts(ns) \X Cuts(ns) /\ c[1] = n /\ c[2] = n + 1
    BY <2>1
  <2>4. c[1] < c[2] /\ \A i \in Cuts(ns) : i <= c[1] \/ i >= c[2]
    BY <1>1, <2>2
  <2>5. SubSeq(ns, c[1] + 1, c[2] - 1) \in Components(ns)
    BY <2>3, <2>4 DEF Components
  <2>6. SubSeq(ns, c[1] + 1, c[2] - 1) = <<>>
    BY <1>1, SubSeqEmpty
  <2> QED BY <2>5, <2>6 DEF valid_namespace
<1> QED BY <1>1, <1>2

(* Where two edges of a namespace have none between them, split('/') gives *)
(* what is between them.                                                   *)
LEMMA ComponentBetween ==
    ASSUME NEW ns \in Seq(Letters), NEW a \in 0 .. Len(ns), NEW b \in 1 .. Len(ns) + 1,
           a < b, Edge(ns, a), Edge(ns, b),
           \A i \in DOMAIN ns : a < i /\ i < b => ns[i] # "/"
    PROVE  SubSeq(ns, a + 1, b - 1) \in Components(ns)
<1>1. DOMAIN ns = 1 .. Len(ns) /\ Len(ns) \in Nat
  BY LenProperties
<1>2. a \in Cuts(ns) /\ b \in Cuts(ns)
  BY <1>1 DEF Cuts, Edge
<1>3. \A i \in Cuts(ns) : i <= a \/ i >= b
  BY <1>1 DEF Cuts
<1> DEFINE c == <<a, b>>
<1>4. /\ c \in Cuts(ns) \X Cuts(ns) /\ c[1] = a /\ c[2] = b
      /\ c[1] < c[2] /\ \A i \in Cuts(ns) : i <= c[1] \/ i >= c[2]
  BY <1>2, <1>3
<1> QED BY <1>4 DEF Components

(* A sequence of one or two is its items. *)
LEMMA ShortPieces ==
    ASSUME NEW ns \in Seq(Letters), NEW i \in 0 .. Len(ns)
    PROVE  /\ SubSeq(ns, i + 1, i) = <<>>
           /\ i + 1 <= Len(ns) => SubSeq(ns, i + 1, i + 1) = <<ns[i + 1]>>
           /\ i + 2 <= Len(ns) => SubSeq(ns, i + 1, i + 2) = <<ns[i + 1], ns[i + 2]>>
<1>1. Len(ns) \in Nat
  BY LenProperties
<1>2. SubSeq(ns, i + 1, i) = <<>>
  BY <1>1, SubSeqEmpty
<1>3. ASSUME NEW x \in Letters, NEW y \in Letters
      PROVE  /\ <<x>> \in Seq(Letters) /\ Len(<<x>>) = 1 /\ <<x>>[1] = x
             /\ <<x, y>> \in Seq(Letters) /\ Len(<<x, y>>) = 2
             /\ <<x, y>>[1] = x /\ <<x, y>>[2] = y
  OBVIOUS
<1>4. ASSUME i + 1 <= Len(ns) PROVE SubSeq(ns, i + 1, i + 1) = <<ns[i + 1]>>
  <2> DEFINE piece == SubSeq(ns, i + 1, i + 1)
  <2>1. ns[i + 1] \in Letters
    BY <1>1, <1>4, ElementOfSeq
  <2>2. piece \in Seq(Letters) /\ Len(piece) = 1 /\ piece[1] = ns[i + 1]
    BY <2>1, SubSeqProperties
  <2> HIDE DEF piece
  <2>3. piece = <<ns[i + 1]>>
    BY <1>3, <2>1, <2>2, SeqEqual
  <2> QED BY <2>3 DEF piece
<1>5. ASSUME i + 2 <= Len(ns) PROVE SubSeq(ns, i + 1, i + 2) = <<ns[i + 1], ns[i + 2]>>
  <2> DEFINE piece == SubSeq(ns, i + 1, i + 2)
  <2>1. ns[i + 1] \in Letters /\ ns[i + 2] \in Letters
    BY <1>1, <1>5, ElementOfSeq
  <2>2. \A k \in i + 1 .. i + 2 : ns[k] \in Letters
    BY <2>1
  <2>3. piece \in Seq(Letters) /\ Len(piece) = 2
        /\ piece[1] = ns[i + 1] /\ piece[2] = ns[i + 2]
    BY <2>2, SubSeqProperties
  <2> HIDE DEF piece
  <2>4. piece = <<ns[i + 1], ns[i + 2]>>
    BY <1>3, <2>1, <2>3, SeqEqual
  <2> QED BY <2>4 DEF piece
<1> QED BY <1>2, <1>4, <1>5

(* valid_namespace lets exactly the plain names through. *)
LEMMA ValidIsPlain ==
    ASSUME NEW ns \in Seq(Letters), MaxNamespace \in Nat
    PROVE  valid_namespace(ns) <=> PlainName(ns)
<1> DEFINE n == Len(ns)
<1>1. n \in Nat /\ DOMAIN ns = 1 .. n /\ (ns # <<>> <=> n # 0)
  BY EmptySeq, LenProperties
<1>2. ASSUME valid_namespace(ns), NEW i \in 0 .. n, Edge(ns, i)
      PROVE  /\ ~Edge(ns, i + 1)
             /\ ns[i + 1] = "." => /\ ~Edge(ns, i + 2)
                                   /\ ns[i + 2] = "." => ~Edge(ns, i + 3)
  <2>1. ~Edge(ns, i + 1) /\ i + 1 \in DOMAIN ns
    <3>1. ASSUME Edge(ns, i + 1) PROVE FALSE
      <4>1. SubSeq(ns, i + 1, (i + 1) - 1) \in Components(ns)
        BY <1>1, <1>2, <3>1, ComponentBetween
      <4>2. SubSeq(ns, i + 1, i) = <<>> /\ (i + 1) - 1 = i
        BY ShortPieces
      <4> QED BY <1>2, <4>1, <4>2 DEF valid_namespace
    <3> QED BY <1>1, <3>1 DEF Edge
  <2>2. ASSUME ns[i + 1] = "." PROVE ~Edge(ns, i + 2) /\ i + 2 \in DOMAIN ns
    <3>1. ASSUME Edge(ns, i + 2) PROVE FALSE
      <4>1. SubSeq(ns, i + 1, (i + 2) - 1) \in Components(ns)
        BY <1>1, <1>2, <2>1, <2>2, <3>1, ComponentBetween DEF Edge
      <4>2. SubSeq(ns, i + 1, i + 1) = <<".">>
        BY <1>1, <2>1, <2>2, ShortPieces
      <4>3. (i + 2) - 1 = i + 1
        OBVIOUS
      <4> QED BY <1>2, <4>1, <4>2, <4>3 DEF valid_namespace
    <3> QED BY <1>1, <3>1 DEF Edge
  <2>3. ASSUME ns[i + 1] = ".", ns[i + 2] = "." PROVE ~Edge(ns, i + 3)
    <3>1. ASSUME Edge(ns, i + 3) PROVE FALSE
      <4>1. SubSeq(ns, i + 1, (i + 3) - 1) \in Components(ns)
        BY <1>1, <1>2, <2>1, <2>2, <2>3, <3>1, ComponentBetween DEF Edge
      <4>2. SubSeq(ns, i + 1, i + 2) = <<".", ".">>
        BY <1>1, <2>2, <2>3, ShortPieces
      <4>3. (i + 3) - 1 = i + 2
        OBVIOUS
      <4> QED BY <1>2, <4>1, <4>2, <4>3 DEF valid_namespace
    <3> QED BY <3>1
  <2> QED BY <2>1, <2>2, <2>3
<1>3. ASSUME PlainName(ns), NEW piece \in Components(ns)
      PROVE  piece \notin {<<>>, <<".">>, <<".", ".">>}
  <2>1. PICK c \in Cuts(ns) \X Cuts(ns) :
           c[1] < c[2] /\ piece = SubSeq(ns, c[1] + 1, c[2] - 1)
    BY <1>3 DEF Components
  <2> DEFINE a == c[1]
             b == c[2]
  <2>2. a \in 0 .. n + 1 /\ b \in 0 .. n + 1 /\ a < b /\ Edge(ns, a) /\ Edge(ns, b)
    BY <1>1, <2>1 DEF Cuts, Edge
  <2>3. piece = SubSeq(ns, a + 1, b - 1)
    BY <2>1
  <2> HIDE DEF a, b
  <2>4. a \in 0 .. n /\ b - 1 \in 0 .. n /\ a \in Int /\ b \in Int
    BY <1>1, <2>2
  <2>5. /\ Len(piece) = b - a - 1
        /\ \A k \in 1 .. b - a - 1 : piece[k] = ns[a + k]
    BY <1>1, <2>2, <2>3, <2>4
  <2>6. /\ ~Edge(ns, a + 1)
        /\ ns[a + 1] = "." => /\ ~Edge(ns, a + 2)
                              /\ ns[a + 2] = "." => ~Edge(ns, a + 3)
    BY <1>1, <1>3, <2>2, <2>4 DEF PlainName
  <2>7. piece # <<>>
    <3>1. ASSUME b = a + 1 PROVE FALSE
      BY <2>2, <2>6, <3>1
    <3> QED BY <2>2, <2>4, <2>5, <3>1
  <2>8. piece # <<".">>
    <3>1. ASSUME b = a + 2, ns[a + 1] = "." PROVE FALSE
      BY <2>2, <2>6, <3>1
    <3>2. Len(<<".">>) = 1 /\ <<".">>[1] = "."
      OBVIOUS
    <3>3. ASSUME Len(piece) = 1 PROVE b = a + 2 /\ piece[1] = ns[a + 1]
      <4>1. b - a - 1 = 1
        BY <2>5, <3>3, Zenon
      <4>2. b = a + 2
        BY <2>4, <4>1
      <4> QED BY <2>5, <4>1, <4>2
    <3> QED BY <3>1, <3>2, <3>3
  <2>9. piece # <<".", ".">>
    <3>1. ASSUME b = a + 3, ns[a + 1] = ".", ns[a + 2] = "." PROVE FALSE
      BY <2>2, <2>6, <3>1
    <3>2. Len(<<".", ".">>) = 2 /\ <<".", ".">>[1] = "." /\ <<".", ".">>[2] = "."
      OBVIOUS
    <3>3. ASSUME Len(piece) = 2
          PROVE  b = a + 3 /\ piece[1] = ns[a + 1] /\ piece[2] = ns[a + 2]
      <4>1. b - a - 1 = 2
        BY <2>5, <3>3, Zenon
      <4>2. b = a + 3
        BY <2>4, <4>1
      <4> QED BY <2>5, <4>1, <4>2
    <3> QED BY <3>1, <3>2, <3>3
  <2> QED BY <2>7, <2>8, <2>9
<1>4. valid_namespace(ns) => PlainName(ns)
  BY <1>1, <1>2 DEF valid_namespace, PlainName
<1>5. PlainName(ns) => valid_namespace(ns)
  BY <1>1, <1>3 DEF valid_namespace, PlainName
<1> QED BY <1>4, <1>5

(* The ends of patterns are strings. *)
LEMMA PatternEnds ==
    /\ <<"*">> \in Seq(Letters) /\ Len(<<"*">>) = 1 /\ <<"*">>[1] = "*"
    /\ <<"/", "*">> \in Seq(Letters) /\ Len(<<"/", "*">>) = 2
    /\ <<"/", "*">>[1] = "/" /\ <<"/", "*">>[2] = "*"
<1>1. "/" \in Letters /\ "*" \in Letters
  BY DEF Letters
<1>2. ASSUME NEW S, NEW x \in S, NEW y \in S
      PROVE  /\ <<x>> \in Seq(S) /\ Len(<<x>>) = 1 /\ <<x>>[1] = x
             /\ <<x, y>> \in Seq(S) /\ Len(<<x, y>>) = 2
             /\ <<x, y>>[1] = x /\ <<x, y>>[2] = y
  OBVIOUS
<1> QED BY <1>1, <1>2

(* matches_namespace is what a pattern stands for: on a valid namespace    *)
(* its prefix comparison finds exactly the namespaces below the pattern.   *)
LEMMA MatchesCovers ==
    ASSUME NEW pattern \in Seq(Letters), NEW ns \in Seq(Letters), valid_namespace(ns)
    PROVE  matches_namespace(pattern, ns) <=> Covers(pattern, ns)
<1> DEFINE n == Len(ns)
           l == Len(pattern)
           k == Len(pattern) - 2
<1>1. n \in Nat \ {0} /\ DOMAIN ns = 1 .. n /\ ns[n] # "/"
  BY NoTrailingSlash
<1>2. l \in Nat /\ \A i \in 1 .. l : pattern[i] \in Letters
  BY LenProperties, ElementOfSeq
<1>3. \A i \in 1 .. n : ns[i] \in Letters
  BY ElementOfSeq
<1> HIDE DEF n, l
<1>4. ASSUME NEW s \in Seq(Letters), NEW m \in 0 .. Len(s)
      PROVE  /\ SubSeq(s, 1, m) \in Seq(Letters) /\ Len(SubSeq(s, 1, m)) = m
             /\ \A i \in 1 .. m : SubSeq(s, 1, m)[i] = s[i]
  <2>1. Len(s) \in Nat /\ 1 \in Int /\ m \in Int
    BY LenProperties
  <2>2. \A i \in 1 .. m : s[i] \in Letters
    BY <2>1, ElementOfSeq
  <2>3. /\ SubSeq(s, 1, m) \in Seq(Letters)
        /\ Len(SubSeq(s, 1, m)) = IF 1 <= m THEN m - 1 + 1 ELSE 0
        /\ \A i \in 1 .. m - 1 + 1 : SubSeq(s, 1, m)[i] = s[1 + i - 1]
    BY <2>1, <2>2, SubSeqProperties
  <2>4. m - 1 + 1 = m /\ \A i \in 1 .. m : 1 + i - 1 = i
    BY <2>1
  <2> QED BY <2>1, <2>3, <2>4
<1>5. ASSUME NEW i \in 1 .. n - 1
      PROVE  LET t == SubSeq(ns, 1, i) \o <<"*">>
             IN  /\ t \in Seq(Letters) /\ Len(t) = i + 1 /\ t[i + 1] = "*"
                 /\ \A j \in 1 .. i : t[j] = ns[j]
  <2> DEFINE s == SubSeq(ns, 1, i)
             e == <<"*">>
  <2>1. s \in Seq(Letters) /\ Len(s) = i /\ \A j \in 1 .. i : s[j] = ns[j]
    BY <1>1, <1>4 DEF n
  <2>2. e \in Seq(Letters) /\ Len(e) = 1 /\ e[1] = "*"
    BY PatternEnds
  <2> HIDE DEF s, e
  <2>3. /\ s \o e \in Seq(Letters) /\ Len(s \o e) = Len(s) + Len(e)
        /\ \A j \in 1 .. Len(s) + Len(e) :
              (s \o e)[j] = IF j <= Len(s) THEN s[j] ELSE e[j - Len(s)]
    BY <2>1, <2>2, ConcatProperties
  <2>4. i + 1 - i = 1 /\ ~ (i + 1 <= i) /\ i + 1 \in 1 .. i + 1
        /\ \A j \in 1 .. i : j \in 1 .. i + 1 /\ j <= i
    BY <1>1
  <2> QED BY <2>1, <2>2, <2>3, <2>4 DEF s, e
<1>6. ASSUME k >= 0
      PROVE  SubSeq(pattern, k + 1, k + 2) = <<"/", "*">>
                <=> pattern[k + 1] = "/" /\ pattern[k + 2] = "*"
  <2> DEFINE s == SubSeq(pattern, k + 1, k + 2)
             e == <<"/", "*">>
  <2>1. k \in Nat /\ k + 2 = l /\ \A i \in k + 1 .. k + 2 : pattern[i] \in Letters
    BY <1>2, <1>6 DEF l
  <2> HIDE DEF k
  <2>2. /\ s \in Seq(Letters)
        /\ Len(s) = IF k + 1 <= k + 2 THEN (k + 2) - (k + 1) + 1 ELSE 0
        /\ \A i \in 1 .. (k + 2) - (k + 1) + 1 : s[i] = pattern[k + 1 + i - 1]
    <3>1. k + 1 \in Int /\ k + 2 \in Int
      BY <2>1
    <3> QED BY <2>1, <3>1, SubSeqProperties
  <2>3. Len(s) = 2 /\ s[1] = pattern[k + 1] /\ s[2] = pattern[k + 2]
    <3>1. (k + 2) - (k + 1) + 1 = 2 /\ k + 1 <= k + 2
          /\ k + 1 + 1 - 1 = k + 1 /\ k + 1 + 2 - 1 = k + 2
      BY <2>1
    <3>2. 1 \in 1 .. 2 /\ 2 \in 1 .. 2
      OBVIOUS
    <3> QED BY <2>2, <3>1, <3>2
  <2>4. e \in Seq(Letters) /\ Len(e) = 2 /\ e[1] = "/" /\ e[2] = "*"
    BY PatternEnds
  <2> HIDE DEF s, e
  <2>5. ASSUME s[1] = e[1], s[2] = e[2] PROVE s = e
    <3>1. \A i \in 1 .. 2 : i = 1 \/ i = 2
      OBVIOUS
    <3> QED BY <2>2, <2>3, <2>4, <2>5, <3>1, SeqEqual
  <2> QED BY <2>3, <2>4, <2>5 DEF s, e
<1>7. ASSUME k >= 0, SubSeq(pattern, k + 1, k + 2) = <<"/", "*">>,
             n > k, SubSeq(ns, 1, k) = SubSeq(pattern, 1, k), ns[k + 1] = "/"
      PROVE  Covers(pattern, ns)
  <2> DEFINE t == SubSeq(ns, 1, k + 1) \o <<"*">>
  <2>1. k \in Nat /\ l = k + 2 /\ pattern[k + 1] = "/" /\ pattern[k + 2] = "*"
    BY <1>2, <1>6, <1>7 DEF l
  <2> HIDE DEF k
  <2>2. k + 1 \in 1 .. n - 1
    <3>1. k + 1 # n
      BY <1>1, <1>7
    <3> QED BY <1>1, <1>7, <2>1, <3>1
  <2>3. /\ t \in Seq(Letters) /\ Len(t) = k + 1 + 1 /\ t[k + 1 + 1] = "*"
        /\ \A j \in 1 .. k + 1 : t[j] = ns[j]
    BY <1>5, <2>2
  <2> HIDE DEF t
  <2>4. k + 1 + 1 = k + 2 /\ k \in 0 .. Len(ns) /\ k \in 0 .. Len(pattern)
    BY <1>1, <1>7, <2>1 DEF n, l
  <2>5. \A j \in 1 .. k : ns[j] = pattern[j]
    <3>1. /\ \A j \in 1 .. k : SubSeq(ns, 1, k)[j] = ns[j]
          /\ \A j \in 1 .. k : SubSeq(pattern, 1, k)[j] = pattern[j]
      BY <1>4, <2>4
    <3> QED BY <1>7, <3>1
  <2>6. ASSUME NEW j \in 1 .. l PROVE pattern[j] = t[j]
    <3>1. CASE j \in 1 .. k
      <4>1. j \in 1 .. k + 1
        BY <2>1, <3>1
      <4> QED BY <2>3, <2>5, <3>1, <4>1
    <3>2. CASE j = k + 1
      <4>1. j \in 1 .. k + 1
        BY <2>1, <3>2
      <4> QED BY <1>7, <2>1, <2>3, <3>2, <4>1
    <3>3. CASE j = k + 2
      BY <2>1, <2>3, <2>4, <3>3
    <3>4. j \in 1 .. k \/ j = k + 1 \/ j = k + 2
      BY <2>1
    <3> QED BY <3>1, <3>2, <3>3, <3>4
  <2>7. Len(pattern) = Len(t)
    BY <2>1, <2>3, <2>4 DEF l
  <2>8. pattern = t
    BY <2>3, <2>6, <2>7, SeqEqual DEF l
  <2>9. k + 1 \in DOMAIN ns /\ k + 1 < Len(ns)
    BY <1>1, <2>1, <2>2 DEF n
  <2> QED BY <1>7, <2>8, <2>9 DEF Covers, t
<1>8. ASSUME NEW i \in DOMAIN ns, ns[i] = "/", i < n, pattern = SubSeq(ns, 1, i) \o <<"*">>
      PROVE  matches_namespace(pattern, ns)
  <2>1. i \in 1 .. n - 1
    BY <1>1, <1>8
  <2>2. /\ l = i + 1 /\ pattern[i + 1] = "*" /\ \A j \in 1 .. i : pattern[j] = ns[j]
    BY <1>5, <1>8, <2>1 DEF l
  <2>3. /\ k = i - 1 /\ k >= 0 /\ k + 1 = i /\ k + 2 = i + 1 /\ n > k
        /\ k \in 0 .. Len(ns) /\ k \in 0 .. Len(pattern)
        /\ \A j \in 1 .. k : j \in 1 .. i
        /\ i \in 1 .. i
    BY <1>1, <2>1, <2>2 DEF l, n
  <2>4. SubSeq(pattern, k + 1, k + 2) = <<"/", "*">>
    BY <1>6, <1>8, <2>2, <2>3
  <2> HIDE DEF k
  <2>5. SubSeq(ns, 1, k) = SubSeq(pattern, 1, k)
    <3> DEFINE a == SubSeq(ns, 1, k)
               b == SubSeq(pattern, 1, k)
    <3>1. /\ a \in Seq(Letters) /\ Len(a) = k /\ \A j \in 1 .. k : a[j] = ns[j]
          /\ b \in Seq(Letters) /\ Len(b) = k /\ \A j \in 1 .. k : b[j] = pattern[j]
      BY <1>4, <2>3
    <3> HIDE DEF a, b
    <3>2. \A j \in 1 .. Len(a) : a[j] = b[j]
      BY <2>2, <2>3, <3>1
    <3>3. a = b
      BY <3>1, <3>2, SeqEqual
    <3> QED BY <3>3 DEF a, b
  <2> QED BY <1>8, <2>3, <2>4, <2>5 DEF matches_namespace, n, k
<1> QED BY <1>7, <1>8 DEF matches_namespace, Covers, n

(* So a set of patterns allows what it covers. *)
LEMMA AnyMatchesCovered ==
    ASSUME NEW patterns, patterns \subseteq Seq(STRING),
           NEW ns \in Seq(STRING), valid_namespace(ns)
    PROVE  AnyMatches(patterns, ns) <=> Covered(patterns, ns)
<1>1. \A s \in Seq(STRING) : s \in Seq(Letters)
  <2>1. STRING \subseteq Letters
    BY DEF Letters
  <2> QED BY <2>1, SeqMonotonic
<1> QED BY <1>1, MatchesCovers DEF AnyMatches, Covered

-----------------------------------------------------------------------------
(* The answers. *)

(* A set of numbers that is not empty has a least one. *)
LEMMA LeastOfNat ==
    ASSUME NEW T, T \subseteq Nat, T # {}
    PROVE  \E m \in T : \A k \in T : m <= k
<1> DEFINE R == OpToRel(<, Nat)
<1>1. IsWellFoundedOn(R, Nat)
  BY NatLessThanWellFounded
<1>2. \A a, b \in Nat : a < b => <<a, b>> \in R
  BY DEF OpToRel
<1> HIDE DEF R
<1>3. PICK m \in T : \A k \in T : ~ (<<k, m>> \in R)
  BY <1>1, WFMin
<1>4. \A k \in T : ~ (k < m)
  BY <1>2, <1>3
<1> QED BY <1>4

(* The first of the grants with the token of a request decides it. *)
LEMMA FirstGrantDecides ==
    ASSUME AsksOK, NEW q \in asks, Admitted(q), Grants(q) # {}
    PROVE  GrantStatus(q) = IF Granted(q) THEN "granted" ELSE "forbidden"
<1> DEFINE Least(i) == i \in Grants(q) /\ \A j \in Grants(q) : i <= j
           first == CHOOSE i \in Grants(q) : \A j \in Grants(q) : i <= j
<1>1. Grants(q) \subseteq DOMAIN config.grants /\ setup \in DOMAIN Setups
  BY DEF Grants, AsksOK
<1>2. Grants(q) \subseteq Nat
  BY <1>1, SetupsAssumption DEF config
<1>3. Least(first)
  BY <1>2, LeastOfNat
<1>4. \A i : Least(i) => i = first
  BY <1>2, <1>3
<1>5. Granted(q) <=> Covered(config.grants[first][q.access], q.ns)
  BY <1>3, <1>4 DEF Granted
<1>6. /\ q.ns \in Seq(STRING) /\ valid_namespace(q.ns) /\ q.access \in {"read", "write"}
      /\ Patterns(config.grants[first])
  BY <1>1, <1>3, SetupsAssumption DEF asks, config, Admitted
<1>7. config.grants[first][q.access] \subseteq Seq(STRING)
  BY <1>6 DEF Patterns
<1>8. AnyMatches(config.grants[first][q.access], q.ns)
          <=> Covered(config.grants[first][q.access], q.ns)
  BY <1>6, <1>7, AnyMatchesCovered
<1> HIDE DEF first
<1> QED BY <1>5, <1>8 DEF GrantStatus, first

(* The other rules say the same in both forms. *)
LEMMA RulesAgree ==
    ASSUME AsksOK, NEW q \in asks, Admitted(q)
    PROVE  /\ OpenTo(q) <=> Public(q)
           /\ q.token = None => Grants(q) = {}
           /\ q.token # None /\ config.provider # None =>
                (RulesAllow(Jwt[q.token], q) <=>
                    \E rule \in config.provider.rules :
                        /\ rule.claims # <<>>
                        /\ \A name \in DOMAIN rule.claims : rule.claims[name] \cap
                              (IF name \in DOMAIN Jwt[q.token].claims
                               THEN Jwt[q.token].claims[name] ELSE {}) # {}
                        /\ Covered(rule[q.access], q.ns))
<1>1. setup \in DOMAIN Setups /\ Starts(config)
  BY DEF AsksOK
<1>2. /\ q.ns \in Seq(STRING) /\ valid_namespace(q.ns) /\ q.access \in {"read", "write"}
      /\ config.anonymous_read \subseteq Seq(STRING)
      /\ \A i \in DOMAIN config.grants : config.grants[i].token # None
      /\ config.provider # None => \A rule \in config.provider.rules : Patterns(rule)
  BY <1>1, SetupsAssumption DEF asks, config, Admitted
<1>3. OpenTo(q) <=> Public(q)
  BY <1>2, AnyMatchesCovered DEF OpenTo, Public
<1>4. q.token = None => Grants(q) = {}
  BY <1>2 DEF Grants
<1>5. ASSUME config.provider # None, NEW rule \in config.provider.rules
      PROVE  /\ AnyMatches(rule[q.access], q.ns) <=> Covered(rule[q.access], q.ns)
             /\ rule.claims # <<>>
  <2>1. rule[q.access] \subseteq Seq(STRING)
    BY <1>2, <1>5 DEF Patterns
  <2>2. DOMAIN rule.claims # {}
    BY <1>1, <1>5 DEF Starts, validate_provider_config
  <2>3. DOMAIN <<>> = {}
    OBVIOUS
  <2>4. rule.claims # <<>>
    BY <2>2, <2>3
  <2> QED BY <1>2, <2>1, <2>4, AnyMatchesCovered
<1>6. ASSUME NEW rule, NEW claims
      PROVE  matches_claims(rule, claims) <=>
                \A name \in DOMAIN rule.claims : rule.claims[name] \cap
                    (IF name \in DOMAIN claims THEN claims[name] ELSE {}) # {}
  BY DEF matches_claims
<1> QED BY <1>3, <1>4, <1>5, <1>6 DEF RulesAllow

(* A token that verify accepts identifies the request, as far as the rules *)
(* go; one that is refused before its key is looked at does not.           *)
LEMMA TokensIdentify ==
    ASSUME AsksOK, NEW q \in asks, Admitted(q), q.token # None
    PROVE  /\ Verifiable(q) /\ KeyFits(Jwt[q.token]) =>
                (Identified(q) <=> RulesAllow(Jwt[q.token], q))
           /\ Identified(q) =>
                /\ KeyFits(Jwt[q.token])
                /\ ~Verifiable(q) =>
                      Jwt[q.token].alg \notin configured_algorithms(config.provider)
<1>1. configured_algorithms(config.provider) \subseteq Asymmetric
  BY DEF configured_algorithms
<1> QED BY <1>1, RulesAgree DEF Identified, Verifiable

(* The names that are let through are the plain ones. *)
LEMMA AdmittedPlain ==
    ASSUME AsksOK, NEW q \in asks
    PROVE  Admitted(q) <=> q.protocol /\ PlainName(q.ns)
<1>1. q.ns \in Seq(STRING)
  BY SetupsAssumption DEF AsksOK, asks
<1>2. STRING \subseteq Letters
  BY DEF Letters
<1>3. q.ns \in Seq(Letters)
  BY <1>1, <1>2, SeqMonotonic
<1> QED BY <1>3, ValidIsPlain, NamespaceAssumption DEF Admitted

(* authorize decides rightly what it decides without a key. *)
LEMMA AuthorizeDeserved ==
    ASSUME AuthorizerInv, NEW r \in Requests, authorize(r), NEW status, Reply(r, status)
    PROVE  Deserves(ask[r], status, faults' > faults)
<1> DEFINE q == ask[r]
<1>0. AsksOK /\ q \in asks /\ q # None
  BY DEF AuthorizerInv, AsksOK, authorize
<1>1. answer' = [answer EXCEPT ![r] = status] /\ answer'[r] = status
  BY <1>0 DEF Reply, AsksOK
<1>2. ASSUME NEW told, Reply(r, told) PROVE told = status
  BY <1>0, <1>1, <1>2 DEF Reply, AsksOK
<1>3. ~Waits
  <2>1. ask'[r] = None
    BY <1>0 DEF Reply, AsksOK
  <2> QED BY <1>0, <2>1 DEF Waits
<1>4. Admitted(q) <=> q.protocol /\ PlainName(q.ns)
  BY <1>0, AdmittedPlain
<1>5. CASE ~q.protocol
  <2>1. status = "upgrade"
    BY <1>2, <1>5 DEF authorize
  <2> QED BY <2>1 DEF Deserves
<1>6. CASE q.protocol /\ ~valid_namespace(q.ns)
  <2>1. status = "bad_request"
    BY <1>2, <1>6 DEF authorize
  <2> QED BY <1>4, <1>6, <2>1 DEF Deserves, Admitted
<1>7. CASE Admitted(q) /\ OpenTo(q)
  <2>1. status = "granted"
    BY <1>2, <1>7 DEF authorize, Admitted
  <2>2. Public(q)
    BY <1>0, <1>7, RulesAgree
  <2> QED BY <1>4, <1>7, <2>1, <2>2 DEF Deserves
<1>8. CASE Admitted(q) /\ ~OpenTo(q) /\ q.token = None
  <2>1. status = "unauthorized"
    BY <1>2, <1>8 DEF authorize, Admitted
  <2>2. ~Public(q) /\ ~Granted(q)
    BY <1>0, <1>8, RulesAgree DEF Granted
  <2>3. ~Identified(q)
    BY <1>8 DEF Identified
  <2> QED BY <2>1, <2>2, <2>3 DEF Deserves
<1>9. CASE Admitted(q) /\ ~OpenTo(q) /\ q.token # None /\ Grants(q) # {}
  <2>1. status = GrantStatus(q)
    BY <1>2, <1>9 DEF authorize, Admitted
  <2>2. ~Public(q)
    BY <1>0, <1>9, RulesAgree
  <2>3. GrantStatus(q) = IF Granted(q) THEN "granted" ELSE "forbidden"
    BY <1>0, <1>9, FirstGrantDecides
  <2>4. CASE Granted(q)
    BY <1>4, <1>9, <2>1, <2>3, <2>4 DEF Deserves
  <2>5. CASE ~Granted(q)
    BY <1>9, <2>1, <2>2, <2>3, <2>5 DEF Deserves
  <2> QED BY <2>4, <2>5
<1>10. CASE Admitted(q) /\ ~OpenTo(q) /\ q.token # None /\ Grants(q) = {}
  <2>1. status = "unauthorized" /\ ~Verifiable(q)
    BY <1>2, <1>3, <1>10 DEF authorize, Admitted
  <2>2. ~Public(q) /\ ~Granted(q)
    BY <1>0, <1>10, RulesAgree DEF Granted
  <2>3. Identified(q) => Jwt[q.token].alg \notin configured_algorithms(config.provider)
    BY <1>0, <1>10, <2>1, TokensIdentify
  <2> QED BY <2>1, <2>2, <2>3 DEF Deserves
<1> QED BY <1>5, <1>6, <1>7, <1>8, <1>9, <1>10 DEF Admitted

(* What is known of a request that is being verified. *)
LEMMA BeingVerified ==
    ASSUME AsksOK, NEW r \in Requests, req[r].pc \in Running
    PROVE  LET q == ask[r]
           IN  /\ q \in asks /\ Admitted(q) /\ q.token # None /\ Verifiable(q)
               /\ Grants(q) = {} /\ ~Public(q) /\ ~Granted(q)
               /\ q.protocol /\ PlainName(q.ns)
<1> DEFINE q == ask[r]
<1>1. q \in asks /\ Verifying(q)
  BY DEF AsksOK
<1>2. ~Public(q)
  BY <1>1, RulesAgree DEF Verifying
<1>3. q.protocol /\ PlainName(q.ns)
  BY <1>1, AdmittedPlain DEF Verifying
<1> QED BY <1>1, <1>2, <1>3 DEF Verifying, Granted

(* verify and the rules decide rightly the rest, ... *)
LEMMA FindDeserved ==
    ASSUME AuthorizerInv, NEW r \in Requests, find_and_decide(r),
           NEW status, Reply(r, status)
    PROVE  Deserves(ask[r], status, faults' > faults)
<1> DEFINE q == ask[r]
           jwt == Jwt[ask[r].token]
<1>0. AsksOK /\ KeysShapes
  BY DEF AuthorizerInv, KeysInv
<1>1. req[r].pc \in Running
  BY DEF find_and_decide, find, Running
<1>2. /\ q \in asks /\ Admitted(q) /\ q.token # None /\ Verifiable(q)
      /\ Grants(q) = {} /\ ~Public(q) /\ ~Granted(q)
      /\ q.protocol /\ PlainName(q.ns)
  BY <1>0, <1>1, BeingVerified
<1>3. status = IF ~(Known(jwt.kid) /\ KeyFits(jwt)) THEN "unauthorized"
               ELSE IF RulesAllow(jwt, q) THEN "granted" ELSE "forbidden"
  BY <1>0 DEF find_and_decide, Reply, AsksOK
<1>4. /\ KeyFits(jwt) => (Identified(q) <=> RulesAllow(jwt, q))
      /\ Identified(q) => KeyFits(jwt)
  BY <1>0, <1>2, TokensIdentify
<1>5. Known(jwt.kid) => EverPublished(jwt.kid)
  <2>1. keys.version \in 0 .. keys.version
    BY <1>0 DEF KeysShapes, CachedKeys
  <2> QED BY <2>1 DEF Known, EverPublished
<1>6. CASE status = "unauthorized"
  BY <1>2, <1>3, <1>4, <1>6 DEF Deserves
<1>7. CASE status = "granted"
  BY <1>2, <1>3, <1>4, <1>5, <1>7 DEF Deserves
<1>8. CASE status = "forbidden"
  BY <1>2, <1>3, <1>4, <1>8 DEF Deserves
<1> QED BY <1>3, <1>6, <1>7, <1>8

(* ... and a refresh that failed may cost an answer. *)
LEMMA FailureDeserved ==
    ASSUME AuthorizerInv, NEW r \in Requests, fetch_fails(r)
    PROVE  Deserves(ask[r], "unauthorized", faults' > faults)
<1>0. AsksOK /\ KeysShapes
  BY DEF AuthorizerInv, KeysInv
<1>1. req[r].pc \in Running
  BY DEF fetch_fails, Running
<1>2. ~Public(ask[r]) /\ ~Granted(ask[r])
  BY <1>0, <1>1, BeingVerified
<1>3. faults' > faults
  BY <1>0 DEF fetch_fails, Fault, KeysShapes
<1> QED BY <1>2, <1>3 DEF Deserves

(* Every answer of authorize is deserved: 200 only for a plain name that   *)
(* is public, granted or asked for under a published key; 400 only for a   *)
(* name that is not plain; 403 only where nothing allows it; 401 only for  *)
(* want of credentials, of the key, or of a refresh that works.            *)
THEOREM AnswersDeserved == ASafeSpec => AnswerDeserved
<1> DEFINE Right ==
        \A r \in Requests :
            ask[r] # None /\ ask'[r] = None =>
                Deserves(ask[r], answer'[r], faults' > faults)
<1>1. AuthorizerInv /\ [ANext]_avars => [Right]_avars
  <2> SUFFICES ASSUME AuthorizerInv, ANext, NEW r \in Requests,
                      ask[r] # None, ask'[r] = None
               PROVE  Deserves(ask[r], answer'[r], faults' > faults)
    OBVIOUS
  <2>0. AsksOK
    BY DEF AuthorizerInv
  <2>1. ASSUME NEW s \in Requests, NEW status, Reply(s, status)
        PROVE  s = r /\ answer'[r] = status
    BY <2>0, <2>1 DEF Reply, AsksOK
  <2>2. ~Waits
    BY DEF Waits
  <2>3. ASSUME NEW s \in Requests, NEW q \in asks, receive(s, q) PROVE FALSE
    BY <2>0, <2>3 DEF receive, AsksOK
  <2>4. ASSUME NEW s \in Requests, authorize(s)
        PROVE  Deserves(ask[r], answer'[r], faults' > faults)
    <3>1. PICK status : Reply(s, status)
      BY <2>2, <2>4 DEF authorize
    <3> QED BY <2>1, <2>4, <3>1, AuthorizeDeserved
  <2>5. ASSUME NEW s \in Requests, find_and_decide(s)
        PROVE  Deserves(ask[r], answer'[r], faults' > faults)
    <3>1. PICK status : Reply(s, status)
      BY <2>5 DEF find_and_decide
    <3> QED BY <2>1, <2>5, <3>1, FindDeserved
  <2>6. ASSUME NEW s \in Requests, fetch_fails_or_falls_back(s)
        PROVE  Deserves(ask[r], answer'[r], faults' > faults)
    <3>1. fetch_fails(s) /\ Reply(s, "unauthorized")
      BY <2>2, <2>6 DEF fetch_fails_or_falls_back
    <3> QED BY <2>1, <3>1, FailureDeserved
  <2>7. ASSUME NEW s \in Requests, hung_up(s)
        PROVE  Deserves(ask[r], answer'[r], faults' > faults)
    <3>1. answer'[r] = "gone"
      BY <2>1, <2>7 DEF hung_up
    <3> QED BY <3>1 DEF Deserves
  <2> QED BY <2>2, <2>3, <2>4, <2>5, <2>6, <2>7 DEF ANext, VerifyStep
<1> QED BY <1>1, AuthorizerInductive, PTL DEF ASafeSpec, AnswerDeserved
=============================================================================
