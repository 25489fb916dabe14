--------------------------- MODULE ManifestProofs ---------------------------
(* ManifestStore for any number of workers and keys: no acknowledged       *)
(* prediction is lost, and a sweep removes only manifests left alone.      *)
EXTENDS ManifestStore, TLAPS

ManifestInv ==
    ManifestTypeOK /\ RequestsGrow /\ NoLostUpdate /\ SweepHoldsOldRows

(* What commit_manifest leaves behind: a row the request replaced keeps    *)
(* every acknowledged prediction and is not being swept; any other row is  *)
(* as it was.                                                              *)
LEMMA CommitMerges ==
    ASSUME ManifestInv, NEW m \in wire, ~ Waits(m), commit_manifest(m)
    PROVE  /\ manifests' \in [Keys -> {None} \cup Manifests]
           /\ age' \in [Keys -> 0 .. MaxAge]
           /\ \A k \in Keys : acked[k] \subseteq Held(k)'
           /\ Applies(m) => m.manifest = Held(m.key)'
           /\ \A k \in Keys : Swept(k) => manifests'[k] = manifests[k] /\ age'[k] = age[k]
<1>1. m \in Requests
  BY DEF ManifestInv, ManifestTypeOK
<1>2. CASE Applies(m)
  <2>1. manifests' = [manifests EXCEPT ![m.key] = m.manifest]
        /\ age' = [age EXCEPT ![m.key] = 0]
    BY <1>2 DEF commit_manifest
  <2>2. m.key \in Keys /\ m.manifest \in Manifests /\ m.manifest # None
    BY <1>1, NoManifestAssumption DEF Requests, Manifests
  <2>3. ~ Swept(m.key)
    BY <1>2 DEF Waits
  <2>4. 0 \in 0 .. MaxAge
    BY SweepAgeAssumption DEF MaxAge
  <2>5. manifests' \in [Keys -> {None} \cup Manifests] /\ age' \in [Keys -> 0 .. MaxAge]
    BY <2>1, <2>2, <2>4 DEF ManifestInv, ManifestTypeOK
  <2>6. Held(m.key)' = m.manifest
    BY <2>1, <2>2 DEF Held, ManifestInv, ManifestTypeOK
  <2>7. acked[m.key] \subseteq m.manifest
    BY <1>2, <2>2 DEF Applies, Held, ManifestInv, NoLostUpdate, RequestsGrow
  <2>8. ASSUME NEW k \in Keys
        PROVE  acked[k] \subseteq Held(k)'
    BY <2>1, <2>2, <2>6, <2>7 DEF Held, ManifestInv, NoLostUpdate, ManifestTypeOK
  <2>9. ASSUME NEW k \in Keys, Swept(k)
        PROVE  manifests'[k] = manifests[k] /\ age'[k] = age[k]
    BY <2>1, <2>3, <2>9 DEF ManifestInv, ManifestTypeOK
  <2> QED BY <2>5, <2>6, <2>8, <2>9
<1>3. CASE ~ Applies(m)
  BY <1>3 DEF commit_manifest, Held, ManifestInv, NoLostUpdate, ManifestTypeOK
<1> QED BY <1>2, <1>3

LEMMA ManifestInit == Init => ManifestInv
<1> SUFFICES ASSUME Init PROVE ManifestInv
  OBVIOUS
<1>1. 0 \in 0 .. MaxAge
  BY SweepAgeAssumption DEF MaxAge
<1>2. ManifestTypeOK
  BY <1>1 DEF Init, ManifestTypeOK
<1> QED BY <1>2 DEF Init, ManifestInv, RequestsGrow, NoLostUpdate, SweepHoldsOldRows,
                    Swept

(* Steps that leave the rows, their ages and the sweep alone keep the      *)
(* parts that speak of them.                                               *)
LEMMA RowsKept ==
    ASSUME ManifestInv, UNCHANGED <<manifests, age, sweep, acked>>
    PROVE  NoLostUpdate' /\ SweepHoldsOldRows'
BY DEF ManifestInv, NoLostUpdate, Held, SweepHoldsOldRows, Swept

(* Every step of the workers, of put_action_manifest and of the sweep      *)
(* keeps the invariant.                                                    *)
LEMMA ManifestStep == ManifestInv /\ [Next]_vars => ManifestInv'
<1> SUFFICES ASSUME ManifestInv, [Next]_vars PROVE ManifestInv'
  OBVIOUS
<1>1. ASSUME NEW w \in Workers, get_action_manifest(w)
      PROVE  ManifestInv'
  <2> DEFINE k == client[w].key
             request == [from |-> w, key |-> k, expected |-> manifests[k],
                         manifest |-> Held(k) \cup {w}]
  <2>1. /\ wire' = wire \cup {request}
        /\ client' = [client EXCEPT ![w].pc = "wait", ![w].request = request]
        /\ UNCHANGED <<manifests, age, sweep, acked>>
    BY <1>1 DEF get_action_manifest
  <2>2. k \in Keys
    BY DEF ManifestInv, ManifestTypeOK
  <2>3. Held(k) \in Manifests /\ manifests[k] \in {None} \cup Manifests
    BY <2>2 DEF ManifestInv, ManifestTypeOK, Held, Manifests
  <2>4. request \in Requests
    BY <2>2, <2>3 DEF Requests, Manifests
  <2>5. ManifestTypeOK'
    BY <2>1, <2>4 DEF ManifestInv, ManifestTypeOK
  <2>6. request.expected # None => request.expected \subseteq request.manifest
    BY DEF Held
  <2>7. RequestsGrow'
    BY <2>1, <2>6 DEF ManifestInv, RequestsGrow, ManifestTypeOK
  <2> QED BY <2>1, <2>5, <2>7, RowsKept DEF ManifestInv
<1>2. ASSUME NEW w \in Workers, client_retries(w)
      PROVE  ManifestInv'
  <2>1. ManifestTypeOK' /\ RequestsGrow'
    BY <1>2 DEF client_retries, ManifestInv, ManifestTypeOK, RequestsGrow
  <2> QED BY <1>2, <2>1, RowsKept DEF client_retries, ManifestInv
<1>3. ASSUME NEW m \in wire, put_action_manifest(m)
      PROVE  ManifestInv'
  <2>1. /\ ~ Waits(m) /\ commit_manifest(m) /\ UNCHANGED <<sweep, wire>>
        /\ client' = [client EXCEPT ![m.from].pc = IF Applies(m) THEN "done" ELSE "read",
                                    ![m.from].request = None]
        /\ acked' = IF Applies(m) THEN [acked EXCEPT ![m.key] = @ \cup {m.from}] ELSE acked
    BY <1>3 DEF put_action_manifest
  <2>2. m \in Requests
    BY DEF ManifestInv, ManifestTypeOK
  <2>3. m.from \in Workers /\ m.key \in Keys /\ m.from \in m.manifest
    BY <2>2 DEF Requests, ManifestInv, RequestsGrow
  <2>4. ManifestTypeOK'
    BY <2>1, <2>3, CommitMerges DEF ManifestInv, ManifestTypeOK
  <2>5. RequestsGrow'
    BY <2>1, <2>3 DEF ManifestInv, RequestsGrow, ManifestTypeOK
  <2>6. \A k \in Keys : acked[k] \subseteq Held(k)'
    BY <2>1, CommitMerges
  <2>7. Applies(m) => m.from \in Held(m.key)'
    BY <2>1, <2>3, CommitMerges
  <2>8. NoLostUpdate'
    BY <2>1, <2>3, <2>6, <2>7 DEF NoLostUpdate, ManifestInv, ManifestTypeOK
  <2>9. SweepHoldsOldRows'
    BY <2>1, CommitMerges DEF ManifestInv, SweepHoldsOldRows, Swept
  <2> QED BY <2>4, <2>5, <2>8, <2>9 DEF ManifestInv
<1>4. ASSUME NEW m \in wire, put_unheard(m)
      PROVE  ManifestInv'
  <2>1. ~ Waits(m) /\ commit_manifest(m) /\ UNCHANGED <<sweep, wire, client, acked>>
    BY <1>4 DEF put_unheard
  <2>2. ManifestTypeOK' /\ RequestsGrow'
    BY <2>1, CommitMerges DEF ManifestInv, ManifestTypeOK, RequestsGrow
  <2>3. NoLostUpdate'
    BY <2>1, CommitMerges DEF NoLostUpdate
  <2>4. SweepHoldsOldRows'
    BY <2>1, CommitMerges DEF ManifestInv, SweepHoldsOldRows, Swept
  <2> QED BY <2>2, <2>3, <2>4 DEF ManifestInv
<1>5. CASE tick
  <2>1. ManifestTypeOK' /\ RequestsGrow'
    BY <1>5, SweepAgeAssumption DEF tick, ManifestInv, ManifestTypeOK, RequestsGrow, MaxAge
  <2>2. NoLostUpdate'
    BY <1>5 DEF tick, ManifestInv, NoLostUpdate, Held
  <2>3. SweepHoldsOldRows'
    BY <1>5, SweepAgeAssumption
       DEF tick, ManifestInv, ManifestTypeOK, SweepHoldsOldRows, Swept, MaxAge
  <2> QED BY <2>1, <2>2, <2>3 DEF ManifestInv
<1>6. CASE sweep_manifests
  <2>1. ManifestTypeOK' /\ RequestsGrow'
    BY <1>6 DEF sweep_manifests, ManifestInv, ManifestTypeOK, RequestsGrow
  <2>2. NoLostUpdate' /\ SweepHoldsOldRows'
    BY <1>6 DEF sweep_manifests, ManifestInv, NoLostUpdate, Held, SweepHoldsOldRows, Swept
  <2> QED BY <2>1, <2>2 DEF ManifestInv
<1>7. CASE sweep_commit
  <2>1. 0 \in 0 .. MaxAge
    BY SweepAgeAssumption DEF MaxAge
  <2>2. ManifestTypeOK' /\ RequestsGrow'
    BY <1>7, <2>1 DEF sweep_commit, ManifestInv, ManifestTypeOK, RequestsGrow
  <2>3. NoLostUpdate' /\ SweepHoldsOldRows'
    BY <1>7 DEF sweep_commit, ManifestInv, NoLostUpdate, Held, SweepHoldsOldRows, Swept
  <2> QED BY <2>2, <2>3 DEF ManifestInv
<1>8. CASE sweep_fails
  BY <1>8 DEF sweep_fails, ManifestInv, ManifestTypeOK, RequestsGrow, NoLostUpdate, Held,
              SweepHoldsOldRows, Swept
<1>9. CASE UNCHANGED vars
  <2>1. ManifestTypeOK' /\ RequestsGrow'
    BY <1>9 DEF vars, ManifestInv, ManifestTypeOK, RequestsGrow
  <2> QED BY <1>9, <2>1, RowsKept DEF vars, ManifestInv
<1> QED BY <1>1, <1>2, <1>3, <1>4, <1>5, <1>6, <1>7, <1>8, <1>9 DEF Next

(* put_action_manifest loses no acknowledged prediction, for any number of *)
(* workers, and with every request delayed and repeated at will.           *)
THEOREM MergesNeverLost == SafeSpec => []NoLostUpdate
<1>1. SafeSpec => []ManifestInv
  BY ManifestInit, ManifestStep, PTL DEF SafeSpec
<1>2. ManifestInv => NoLostUpdate
  BY DEF ManifestInv
<1> QED BY <1>1, <1>2, PTL

(* sweep never takes a manifest that was put within its age limit.         *)
THEOREM SweepSparesFresh == SafeSpec => SweptManifestsOld
<1> DEFINE Spares == \A k \in Keys :
        manifests[k] # None /\ manifests'[k] = None => age[k] > SweepAge
<1>1. ManifestInv /\ [Next]_vars => [Spares]_vars
  <2> SUFFICES ASSUME ManifestInv, Next, NEW k \in Keys,
                      manifests[k] # None, manifests'[k] = None
               PROVE  age[k] > SweepAge
    OBVIOUS
  <2>1. ASSUME NEW m \in wire, commit_manifest(m)
        PROVE  FALSE
    <3>1. m \in Requests /\ m.manifest # None
      BY NoManifestAssumption DEF ManifestInv, ManifestTypeOK, Requests, Manifests
    <3> QED BY <2>1, <3>1 DEF commit_manifest, ManifestInv, ManifestTypeOK
  <2>2. sweep_commit
    BY <2>1 DEF Next, get_action_manifest, client_retries, put_action_manifest,
                put_unheard, tick, sweep_manifests, sweep_fails
  <2>3. Swept(k)
    BY <2>2 DEF sweep_commit, Swept
  <2> QED BY <2>3 DEF ManifestInv, SweepHoldsOldRows
<1>2. SafeSpec => []ManifestInv
  BY ManifestInit, ManifestStep, PTL DEF SafeSpec
<1> QED BY <1>1, <1>2, PTL DEF SafeSpec, SweptManifestsOld
=============================================================================
