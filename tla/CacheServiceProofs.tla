------------------------- MODULE CacheServiceProofs -------------------------
(***************************************************************************)
(* Proofs about the cache service, for every set of namespaces, digests,   *)
(* handlers and submissions: its types, ResultsComplete from the inductive *)
(* invariant CheckedStaysChecked, what the handlers answer, the refinement *)
(* of ActionCache, what is refused and what is within the limits; then the *)
(* same service while things expire.                                       *)
(***************************************************************************)
EXTENDS CacheInvariant, CacheRetention, WalkProofs

-----------------------------------------------------------------------------
(* Type correctness. *)

(* One handler moved; if what it moved to is typed, all handlers are.     *)
LEMMA PubUpdate ==
    ASSUME PubOK, NEW p \in Publishers,
           pub' = [pub EXCEPT ![p] = pub'[p]], walk' = [walk EXCEPT ![p] = walk'[p]],
           PubTyped(pub[p], walk[p])'
    PROVE  PubOK'
BY DEF PubOK, PubTyped

(* A handler with no request is typed. *)
LEMMA PubIdle == IdlePub \in PubRecords /\ PubTyped(IdlePub, NoWalk)
<1>1. <<>> \in Seq(Digests) /\ NoWalk \in Walks
  BY EmptySeq DEF NoWalk, Walks
<1> QED BY <1>1 DEF IdlePub, PubRecords, PubTyped, PubSettled, PubRunning

(* A handler that settles is typed. *)
LEMMA SettleType ==
    ASSUME PubOK, NEW p \in Publishers, NEW outcome \in PubSettled, Settle(p, outcome)
    PROVE  PubOK'
<1>1. NoWalk \in Walks /\ <<>> \in Seq(Digests)
  BY EmptySeq DEF NoWalk, Walks
<1>2. /\ pub' = [pub EXCEPT ![p] = pub'[p]]
      /\ pub'[p] = [pub[p] EXCEPT !.pc = outcome, !.kind = None, !.need = <<>>]
      /\ walk' = [walk EXCEPT ![p] = walk'[p]]
      /\ walk'[p] = NoWalk
      /\ pub[p] \in PubRecords
  BY DEF Settle, PubOK
<1>3. pub'[p] \in PubRecords /\ pub'[p].pc = outcome
  BY <1>1, <1>2 DEF PubRecords, PubSettled
<1>4. PubTyped(pub[p], walk[p])'
  BY <1>1, <1>2, <1>3 DEF PubTyped, PubSettled, PubRunning
<1> QED BY <1>2, <1>4, PubUpdate

(* Every step of put_action_result keeps the types. *)
LEMMA PublishType ==
    ASSUME TypeOK, NEW p \in Publishers,
           \/ \E n \in Namespaces, result \in Submissions : put_action_result(p, n, result)
           \/ PublishStep(p)
           \/ publish_fails(p) \/ insert_unheard(p)
    PROVE  TypeOK'
<1> USE DEF TypeOK
<1>0. /\ <<>> \in Seq(Digests) /\ NoWalk \in Walks
      /\ pub[p] \in PubRecords /\ walk[p] \in Walks /\ PubTyped(pub[p], walk[p])
      /\ pub[p].need \in Seq(Digests)
  BY EmptySeq DEF NoWalk, Walks, PubOK, PubRecords
<1>1. ASSUME UNCHANGED <<stores, up, read>>, PubOK' PROVE TypeOK'
  BY <1>1 DEF stores, StoresOK, UpOK, ReadOK
<1>2. ASSUME UNCHANGED <<stores, up, read>>,
             pub' = [pub EXCEPT ![p] = pub'[p]], walk' = [walk EXCEPT ![p] = walk'[p]],
             PubTyped(pub[p], walk[p])'
      PROVE  TypeOK'
  BY <1>1, <1>2, PubUpdate
<1>3. ASSUME NEW outcome \in PubSettled, Settle(p, outcome),
             UNCHANGED <<stores, up, read>>
      PROVE  TypeOK'
  BY <1>1, <1>3, SettleType
<1>4. ASSUME Reject(p), UNCHANGED <<up, read>> PROVE TypeOK'
  BY <1>3, <1>4 DEF Reject, PubSettled
<1>5. ASSUME NEW n \in Namespaces, NEW result \in Submissions,
             put_action_result(p, n, result)
      PROVE  TypeOK'
  <2>1. result \in Results
    BY SubmissionsAssumption
  <2>2. result.root # None => StartWalk(result.root) \in Walks
    BY <1>0, <2>1, WalkTypes DEF Results
  <2>3. pub' = [pub EXCEPT ![p] = pub'[p]] /\ walk' = [walk EXCEPT ![p] = walk'[p]]
    BY <1>5 DEF put_action_result, PubOK
  <2>4. walk'[p] \in Walks
    BY <1>0, <1>5, <2>2 DEF put_action_result, PubOK
  <2>5. pub'[p] = [pc |-> "descriptor", ns |-> n, result |-> result,
                   kind |-> None, need |-> <<>>]
    BY <1>5 DEF put_action_result, PubOK, IdlePub
  <2>6. PubTyped(pub[p], walk[p])'
    BY <1>0, <2>1, <2>4, <2>5 DEF PubTyped, PubRecords, PubRunning
  <2> QED BY <1>2, <1>5, <2>3, <2>6 DEF put_action_result
<1>6. ASSUME NEW to \in {"descriptorGet", "metadataGet", "tree", "compare"},
             Goto(p, to), UNCHANGED <<stores, walk, up, read>>, pub[p].pc \in PubRunning,
             to = "metadataGet" => pub[p].result.metadata # None
      PROVE  TypeOK'
  <2>1. /\ pub' = [pub EXCEPT ![p] = pub'[p]] /\ walk' = [walk EXCEPT ![p] = walk'[p]]
        /\ pub'[p] = [pub[p] EXCEPT !.pc = to] /\ walk'[p] = walk[p]
    BY <1>6 DEF Goto, PubOK
  <2>2. pub'[p] \in PubRecords
    BY <1>0, <2>1 DEF PubRecords, PubRunning
  <2>3. PubTyped(pub[p], walk[p])'
    BY <1>0, <1>6, <2>1, <2>2 DEF PubTyped, PubRecords
  <2> QED BY <1>2, <1>6, <2>1, <2>3 DEF stores
<1>7. CASE descriptor_visible(p)
  BY <1>4, <1>6, <1>7 DEF descriptor_visible, LookUp, PubRunning
<1>8. CASE metadata_visible(p)
  <2>1. pub[p].result.metadata # None
    BY <1>0, <1>8 DEF metadata_visible, LookUp, PubTyped
  <2> QED BY <1>4, <1>6, <1>8, <2>1 DEF metadata_visible, LookUp, PubRunning
<1>9. CASE descriptor_get(p)
  <2>1. CASE Reject(p)
    BY <1>4, <1>9, <2>1 DEF descriptor_get
  <2>2. CASE ~Reject(p)
    <3> DEFINE kind == Content[objects[pub[p].result.action]].kind
               to == IF pub[p].result.metadata = None THEN "tree" ELSE "metadata"
    <3>1. pub[p].result \in Results /\ pub[p].ns \in Namespaces
      BY <1>0, <1>9 DEF descriptor_get, PubTyped, PubRunning
    <3>2. objects[pub[p].result.action] \in Digests
      BY <1>9, <2>2, <3>1 DEF descriptor_get, StoresOK, Results
    <3>3. kind \in Kinds \cup {None}
      BY <3>2, ContentType
    <3>4. /\ pub' = [pub EXCEPT ![p] = pub'[p]] /\ walk' = [walk EXCEPT ![p] = walk'[p]]
          /\ pub'[p] = [pub[p] EXCEPT !.pc = to, !.kind = kind] /\ walk'[p] = walk[p]
      BY <1>9, <2>2 DEF descriptor_get, PubOK
    <3> HIDE DEF kind
    <3>5. pub'[p] \in PubRecords
      BY <1>0, <3>3, <3>4 DEF PubRecords, PubRunning
    <3>6. PubTyped(pub[p], walk[p])'
      BY <1>0, <3>1, <3>4, <3>5 DEF PubTyped, PubRecords
    <3> QED BY <1>2, <1>9, <2>2, <3>4, <3>6 DEF descriptor_get
  <2> QED BY <2>1, <2>2
<1>10. ASSUME NEW to \in {"outputs", "files"}, NEW need \in Seq(Digests),
              pub' = [pub EXCEPT ![p].pc = to, ![p].need = need],
              to = "files" => walk[p].current # None,
              pub[p].pc \in PubRunning, UNCHANGED <<stores, walk, up, read>>
       PROVE  TypeOK'
  <2>1. /\ pub' = [pub EXCEPT ![p] = pub'[p]] /\ walk' = [walk EXCEPT ![p] = walk'[p]]
        /\ pub'[p] = [pub[p] EXCEPT !.pc = to, !.need = need] /\ walk'[p] = walk[p]
    BY <1>10 DEF PubOK
  <2>4. pub'[p].pc = to /\ pub'[p].ns = pub[p].ns /\ pub'[p].result = pub[p].result
    BY <1>0, <2>1 DEF PubRecords
  <2>2. pub'[p] \in PubRecords
    BY <1>0, <2>1 DEF PubRecords, PubRunning
  <2>3. PubTyped(pub[p], walk[p])'
    BY <1>0, <1>10, <2>1, <2>2, <2>4 DEF PubTyped
  <2> QED BY <1>2, <1>10, <2>1, <2>3 DEF stores
<1>11. CASE metadata_get(p)
  <2>1. CASE Reject(p)
    BY <1>4, <1>11, <2>1 DEF metadata_get
  <2>2. CASE ~Reject(p)
    <3>1. pub[p].result \in Results /\ pub[p].result.metadata # None
      BY <1>0, <1>11 DEF metadata_get, PubTyped, PubRunning
    <3>2. objects[pub[p].result.metadata] \in Digests
      BY <1>11, <2>2, <3>1 DEF metadata_get, StoresOK, Results
    <3>3. Content[objects[pub[p].result.metadata]].blobs \in Seq(Digests)
      BY <3>2, ContentType
    <3> QED BY <1>10, <1>11, <2>2, <3>3 DEF metadata_get, PubRunning
  <2> QED BY <2>1, <2>2
<1>12. CASE directory_get(p)
  <2>1. CASE Reject(p)
    BY <1>4, <1>12, <2>1 DEF directory_get
  <2>2. CASE ~Reject(p)
    <3>1. walk[p].current # None
      BY <1>0, <1>12 DEF directory_get, PubTyped
    <3>2. walk[p].current \in Digests
      BY <1>0, <3>1 DEF Walks
    <3>3. objects[walk[p].current] \in Digests
      BY <1>12, <2>2, <3>2 DEF directory_get, StoresOK
    <3>4. Content[objects[walk[p].current]].blobs \in Seq(Digests)
      BY <3>3, ContentType
    <3> QED BY <1>10, <1>12, <2>2, <3>1, <3>4 DEF directory_get, PubRunning
  <2> QED BY <2>1, <2>2
<1>13. CASE require_blob(p)
  <2>1. CASE Reject(p)
    BY <1>4, <1>13, <2>1 DEF require_blob
  <2>2. CASE ~Reject(p)
    <3>1. Tail(pub[p].need) \in Seq(Digests)
      BY <1>0, <1>13, TakeHead DEF require_blob
    <3>2. /\ pub' = [pub EXCEPT ![p] = pub'[p]] /\ walk' = [walk EXCEPT ![p] = walk'[p]]
          /\ pub'[p] = [pub[p] EXCEPT !.need = Tail(pub[p].need)] /\ walk'[p] = walk[p]
      BY <1>13, <2>2 DEF require_blob, PubOK
    <3>3. pub'[p] \in PubRecords
      BY <1>0, <3>1, <3>2 DEF PubRecords, PubSettled
    <3>4. PubTyped(pub[p], walk[p])'
      BY <1>0, <3>2, <3>3 DEF PubTyped, PubRecords
    <3> QED BY <1>2, <1>13, <2>2, <3>2, <3>4 DEF require_blob
  <2> QED BY <2>1, <2>2
<1>14. CASE outputs_present(p)
  BY <1>6, <1>14 DEF outputs_present, PubRunning
<1>15. CASE skip_visit(p)
  <2>1. SkipTop(walk[p]) \in Walks
    BY <1>0, <1>15, WalkTypes DEF skip_visit
  <2>2. /\ pub' = [pub EXCEPT ![p] = pub'[p]] /\ walk' = [walk EXCEPT ![p] = walk'[p]]
        /\ pub'[p] = pub[p] /\ walk'[p] = SkipTop(walk[p])
    BY <1>15 DEF skip_visit, PubOK
  <2>3. PubTyped(pub[p], walk[p])'
    BY <1>0, <1>15, <2>1, <2>2 DEF PubTyped, skip_visit
  <2> QED BY <1>2, <1>15, <2>2, <2>3 DEF skip_visit
<1>16. CASE enter_directory(p)
  <2>1. CASE Reject(p)
    BY <1>4, <1>16, <2>1 DEF enter_directory
  <2>2. CASE ~Reject(p)
    <3>1. EnterTop(walk[p]) \in Walks /\ EnterTop(walk[p]).current # None
      BY <1>0, <1>16, WalkTypes, NoneAssumption DEF enter_directory
    <3>2. /\ pub' = [pub EXCEPT ![p] = pub'[p]] /\ walk' = [walk EXCEPT ![p] = walk'[p]]
          /\ pub'[p] = [pub[p] EXCEPT !.pc = "directoryGet"]
          /\ walk'[p] = EnterTop(walk[p])
      BY <1>16, <2>2 DEF enter_directory, Goto, PubOK
    <3>3. pub'[p] \in PubRecords
      BY <1>0, <3>2 DEF PubRecords, PubRunning
    <3>4. PubTyped(pub[p], walk[p])'
      BY <1>0, <1>16, <3>1, <3>2, <3>3 DEF PubTyped, PubRecords, PubRunning, enter_directory
    <3> QED BY <1>2, <1>16, <2>2, <3>2, <3>4 DEF enter_directory
  <2> QED BY <2>1, <2>2
<1>17. CASE leave_directory(p)
  <2>1. walk[p].current \in Digests /\ walk[p].current # None
    BY <1>0, <1>17 DEF leave_directory, PubTyped, Walks
  <2>2. LeaveCurrent(walk[p], Content[walk[p].current].dirs) \in Walks
    BY <1>0, <2>1, ContentType, WalkTypes
  <2>3. /\ pub' = [pub EXCEPT ![p] = pub'[p]] /\ walk' = [walk EXCEPT ![p] = walk'[p]]
        /\ pub'[p] = [pub[p] EXCEPT !.pc = "tree"]
        /\ walk'[p] = LeaveCurrent(walk[p], Content[walk[p].current].dirs)
    BY <1>17 DEF leave_directory, Goto, PubOK
  <2>4. pub'[p] \in PubRecords
    BY <1>0, <2>3 DEF PubRecords, PubRunning
  <2>5. PubTyped(pub[p], walk[p])'
    BY <1>0, <1>17, <2>2, <2>3, <2>4 DEF PubTyped, PubRecords, PubRunning, leave_directory
  <2> QED BY <1>2, <1>17, <2>3, <2>5 DEF leave_directory
<1>18. ASSUME Insert(p), PubOK', pub[p].pc \in PubRunning,
              UNCHANGED <<objects, rows, up, read>>
       PROVE  TypeOK'
  <2>1. pub[p].ns \in Namespaces /\ pub[p].result \in Results
    BY <1>0, <1>18 DEF PubTyped
  <2>2. results' \in [Namespaces -> [Digests -> Results \cup {None}]]
    BY <1>18, <2>1 DEF Insert, StoresOK
  <2> QED BY <1>18, <2>2 DEF StoresOK, UpOK, ReadOK
<1>19. CASE memory_commit(p)
  <2>1. CASE Stored(p) = None
    BY <1>18, <1>19, <2>1, SettleType DEF memory_commit, Validated, PubRunning, PubSettled
  <2>2. CASE Stored(p) # None
    BY <1>3, <1>19, <2>2 DEF memory_commit, PubSettled, stores
  <2> QED BY <2>1, <2>2
<1>20. CASE postgres_insert(p)
  <2>1. CASE Stored(p) = None
    BY <1>18, <1>20, <2>1, SettleType DEF postgres_insert, Validated, PubRunning, PubSettled
  <2>2. CASE Stored(p) # None
    BY <1>6, <1>20, <2>2 DEF postgres_insert, Validated, PubRunning, stores
  <2> QED BY <2>1, <2>2
<1>21. CASE postgres_compare(p)
  <2>1. \E outcome \in PubSettled : Settle(p, outcome)
    BY <1>21 DEF postgres_compare, PubSettled
  <2> QED BY <1>3, <1>21, <2>1 DEF postgres_compare
<1>22. ASSUME Abandon(p) PROVE PubOK'
  <2>1. /\ pub' = [pub EXCEPT ![p] = pub'[p]] /\ walk' = [walk EXCEPT ![p] = walk'[p]]
        /\ pub'[p] = [pc |-> "failed", ns |-> None, result |-> None,
                      kind |-> None, need |-> <<>>]
        /\ walk'[p] = NoWalk
    BY <1>22 DEF Abandon, PubOK, IdlePub
  <2>2. PubTyped(pub[p], walk[p])'
    BY <1>0, <2>1 DEF PubTyped, PubRecords, PubSettled, PubRunning
  <2> QED BY <2>1, <2>2, PubUpdate
<1>23. CASE publish_fails(p)
  BY <1>1, <1>22, <1>23 DEF publish_fails
<1>24. CASE insert_unheard(p)
  BY <1>18, <1>22, <1>24 DEF insert_unheard, Validated, PubRunning
<1> QED
  BY <1>5, <1>7, <1>8, <1>9, <1>11, <1>12, <1>13, <1>14, <1>15, <1>16, <1>17,
     <1>19, <1>20, <1>21, <1>23, <1>24 DEF PublishStep, Validate, Commit

(* Every step of put_blob keeps the types. *)
LEMMA UploadType ==
    ASSUME TypeOK, NEW u \in Uploaders,
           \/ \E n \in Namespaces, d, bytes \in Digests : put_blob(u, n, d, bytes)
           \/ UploadStep(u)
           \/ upload_fails(u) \/ register_unheard(u)
    PROVE  TypeOK'
<1> USE DEF TypeOK
<1>1. ASSUME NEW n \in Namespaces, NEW d \in Digests, NEW bytes \in Digests,
             put_blob(u, n, d, bytes)
      PROVE  TypeOK'
  <2>1. UpOK'
    BY <1>1, NoneAssumption DEF put_blob, UpOK, UpRecords, IdleUp, UpSettled, UpRunning
  <2> QED BY <1>1, <2>1 DEF put_blob, stores, StoresOK, PubOK, ReadOK
<1>2. ASSUME NEW stored \in {"created", "exists"}, up[u].pc \in {"put", "persist"},
             up' = [up EXCEPT ![u].pc = "register", ![u].stored = stored]
      PROVE  UpOK'
  <2>1. up[u].ns \in Namespaces /\ up[u].digest \in Digests /\ up[u].bytes # None
    BY <1>2 DEF UpOK, UpRunning
  <2>2. up[u] \in UpRecords /\ up'[u] = [up[u] EXCEPT !.pc = "register", !.stored = stored]
    BY <1>2 DEF UpOK
  <2>3. /\ up'[u] \in UpRecords
        /\ up'[u].pc = "register" /\ up'[u].stored = stored
        /\ up'[u].ns = up[u].ns /\ up'[u].digest = up[u].digest
        /\ up'[u].bytes = up[u].bytes
    BY <2>2 DEF UpRecords, UpRunning
  <2>4. up' = [up EXCEPT ![u] = up'[u]]
    BY <1>2 DEF UpOK
  <2> QED BY <2>1, <2>2, <2>3, <2>4 DEF UpOK
<1>3. CASE blobs_put(u)
  <2>1. CASE objects[up[u].digest] = None
    <3>1. up[u].ns \in Namespaces /\ up[u].digest \in Digests /\ up[u].bytes # None
      BY <1>3 DEF blobs_put, UpOK, UpRunning
    <3>2. up' = [up EXCEPT ![u].pc = "persist"]
      BY <1>3, <2>1 DEF blobs_put
    <3>3. UpOK'
      BY <3>1, <3>2 DEF UpOK, UpRecords, UpRunning
    <3> QED BY <1>3, <3>3 DEF blobs_put, stores, StoresOK, PubOK, ReadOK
  <2>2. CASE objects[up[u].digest] # None
    BY <1>2, <1>3, <2>2 DEF blobs_put, stores, StoresOK, PubOK, ReadOK
  <2> QED BY <2>1, <2>2
<1>4. CASE persist_noclobber(u)
  <2>1. up[u].digest \in Digests /\ up[u].bytes \in Digests
    BY <1>4 DEF persist_noclobber, UpOK, UpRecords, UpRunning
  <2>2. StoresOK'
    BY <1>4, <2>1 DEF persist_noclobber, Write, StoresOK
  <2>3. UpOK'
    BY <1>2, <1>4 DEF persist_noclobber
  <2> QED BY <1>4, <2>2, <2>3 DEF persist_noclobber, PubOK, ReadOK
<1>5. ASSUME up[u].pc = "register", Register(u), UNCHANGED <<objects, results>>
      PROVE  StoresOK' /\ up[u].stored \in {"created", "exists"}
  BY <1>5 DEF Register, UpOK, UpRecords, UpRunning, StoresOK
<1>6. CASE register_blob(u)
  <2>1. UpOK'
    BY <1>5, <1>6 DEF register_blob, UpOK, UpRecords, UpSettled, UpRunning
  <2> QED BY <1>5, <1>6, <2>1 DEF register_blob, PubOK, ReadOK
<1>7. ASSUME up' = [up EXCEPT ![u] = [IdleUp EXCEPT !.pc = "failed"]] PROVE UpOK'
  BY <1>7 DEF UpOK, UpRecords, IdleUp, UpSettled, UpRunning
<1>8. CASE register_unheard(u)
  BY <1>5, <1>7, <1>8 DEF register_unheard, PubOK, ReadOK
<1>9. CASE upload_fails(u)
  BY <1>7, <1>9 DEF upload_fails, stores, StoresOK, PubOK, ReadOK
<1> QED BY <1>1, <1>3, <1>4, <1>6, <1>8, <1>9 DEF UploadStep

(* Every step of get_blob, and a restart, keeps the types. *)
LEMMA ReadType ==
    ASSUME TypeOK, NEW g \in Readers,
           \/ \E n \in Namespaces, d \in Digests : get_blob(g, n, d)
           \/ ReadStep(g)
           \/ read_fails(g)
    PROVE  TypeOK'
<1> USE DEF TypeOK
<1>1. ReadOK'
  <2>1. ASSUME NEW n \in Namespaces, NEW d \in Digests, get_blob(g, n, d)
        PROVE  ReadOK'
    BY <2>1 DEF get_blob, ReadOK, ReadSettled, ReadRunning
  <2>2. CASE record_blob_access(g)
    BY <2>2 DEF record_blob_access, ReadOK, ReadSettled, ReadRunning
  <2>3. CASE blobs_get(g)
    <3>1. read[g].digest \in Digests
      BY <2>3 DEF blobs_get, ReadOK, ReadRunning
    <3>2. PICK pc \in {"missing", "served"}, bytes \in Digests \cup {None} :
            read' = [read EXCEPT ![g].pc = pc, ![g].bytes = bytes]
      BY <2>3, <3>1 DEF blobs_get, StoresOK
    <3> QED BY <3>2 DEF ReadOK, ReadSettled, ReadRunning
  <2>4. CASE read_fails(g)
    BY <2>4 DEF read_fails, ReadOK, IdleRead, ReadSettled, ReadRunning
  <2> QED BY <2>1, <2>2, <2>3, <2>4 DEF ReadStep
<1>2. UNCHANGED <<stores, pub, walk, up>>
  BY DEF get_blob, ReadStep, record_blob_access, blobs_get, read_fails
<1> QED BY <1>1, <1>2 DEF stores, StoresOK, PubOK, UpOK

(* The types hold to begin with. *)
LEMMA InitialTypes == Init => TypeOK
<1> SUFFICES ASSUME Init PROVE TypeOK
  OBVIOUS
<1>1. PubOK
  BY PubIdle DEF Init, PubOK, PubTyped
<1> QED BY <1>1 DEF Init, TypeOK, StoresOK, UpOK, UpRecords, ReadOK, IdleUp, IdleRead,
                    UpSettled, UpRunning, ReadSettled, ReadRunning

(* The types hold in every state of the service, whatever the handlers,    *)
(* their interleaving, their failures and the restarts.                    *)
THEOREM TypeCorrect == SafeSpec => []TypeOK
<1>0. <<>> \in Seq(Digests) /\ NoWalk \in Walks
  BY EmptySeq DEF NoWalk, Walks
<1>1. Init => TypeOK
  BY InitialTypes
<1>2. TypeOK /\ [Next]_vars => TypeOK'
  <2> SUFFICES ASSUME TypeOK, [Next]_vars PROVE TypeOK'
    OBVIOUS
  <2>1. CASE UNCHANGED vars
    BY <2>1 DEF vars, TypeOK, StoresOK, PubOK, UpOK, ReadOK
  <2>2. CASE restart
    <3>1. PubOK'
      BY <1>0, <2>2, PubIdle DEF restart, PubOK
    <3> QED BY <2>2, <3>1 DEF restart, TypeOK, StoresOK, UpOK, UpRecords, ReadOK, IdleUp, IdleRead,
                              UpSettled, UpRunning, ReadSettled, ReadRunning
  <2> QED BY <2>1, <2>2, PublishType, UploadType, ReadType DEF Next
<1> QED BY <1>1, <1>2, PTL DEF SafeSpec

-----------------------------------------------------------------------------
(* Holding more keeps what was established: everything is monotone.        *)

(* A result that is complete stays complete when more blobs are held. *)
LEMMA CompleteMonotone ==
    ASSUME NEW result, NEW A, NEW B, A \subseteq B, Complete(result, A)
    PROVE  Complete(result, B)
<1>1. ASSUME NEW root, TreeComplete(root, A) PROVE TreeComplete(root, B)
  BY <1>1 DEF TreeComplete, ClosedTree
<1>2. ASSUME NEW m, NEW kind, MetadataComplete(m, kind, A) PROVE MetadataComplete(m, kind, B)
  BY <1>2 DEF MetadataComplete
<1> QED BY <1>1, <1>2 DEF Complete

(* What a running handler has checked stays checked. *)
LEMMA HandlerMonotone ==
    ASSUME NEW r, NEW w, NEW A, NEW B, A \subseteq B, HandlerOK(r, w, A)
    PROVE  HandlerOK(r, w, B)
<1>1. ASSUME NEW root, WalkOK(w, root, A) PROVE WalkOK(w, root, B)
  BY <1>1 DEF WalkOK
<1>2. ASSUME NEW m, NEW kind, MetadataComplete(m, kind, A) PROVE MetadataComplete(m, kind, B)
  BY <1>2 DEF MetadataComplete
<1> QED BY <1>1, <1>2 DEF HandlerOK

-----------------------------------------------------------------------------
(* The steps of put_action_result. *)

(* A handler that has an empty stack has a complete result. *)
LEMMA ValidatedComplete ==
    ASSUME NEW r \in PubRecords, NEW w \in Walks, NEW held, HandlerOK(r, w, held),
           r.pc \in {"tree", "compare"}, r.result \in Results, w.pending = <<>>
    PROVE  Complete(r.result, held)
<1>1. w.current = None
  BY DEF HandlerOK
<1>2. r.result.root # None => TreeComplete(r.result.root, held)
  BY <1>1, WalkEnds DEF HandlerOK
<1>3. /\ r.result.action \in held
      /\ IsDescriptor(r.result.action)
      /\ r.kind = Content[r.result.action].kind
      /\ HasShape(r.result, r.kind)
      /\ r.result.metadata # None => MetadataComplete(r.result.metadata, r.kind, held)
  BY DEF HandlerOK
<1> QED BY <1>2, <1>3 DEF Complete

(* One handler moved, and no row did. *)
LEMMA OneHandler ==
    ASSUME PubOK, HandlersOK, NEW p \in Publishers, rows' = rows,
           pub' = [pub EXCEPT ![p] = pub'[p]], walk' = [walk EXCEPT ![p] = walk'[p]],
           pub'[p].pc \in PubRunning => HandlerOK(pub[p], walk[p], rows[pub[p].ns])'
    PROVE  HandlersOK'
<1> SUFFICES ASSUME NEW q \in Publishers, pub'[q].pc \in PubRunning
             PROVE  HandlerOK(pub'[q], walk'[q], rows'[pub'[q].ns])
  BY DEF HandlersOK
<1>1. CASE q = p
  BY <1>1
<1>2. CASE q # p
  <2>1. pub'[q] = pub[q] /\ walk'[q] = walk[q]
    BY <1>2 DEF PubOK
  <2> QED BY <2>1 DEF HandlersOK
<1> QED BY <1>1, <1>2

(* A handler that settles has nothing more to keep. *)
LEMMA SettleKeeps ==
    ASSUME PubOK, HandlersOK, NEW p \in Publishers, NEW outcome \in PubSettled,
           Settle(p, outcome), rows' = rows
    PROVE  HandlersOK'
<1>1. /\ pub' = [pub EXCEPT ![p] = pub'[p]] /\ walk' = [walk EXCEPT ![p] = walk'[p]]
      /\ pub'[p] = [pub[p] EXCEPT !.pc = outcome, !.kind = None, !.need = <<>>]
      /\ pub[p] \in PubRecords
  BY DEF Settle, PubOK
<1>2. pub'[p].pc = outcome
  BY <1>1 DEF PubRecords
<1> QED BY <1>1, <1>2, OneHandler DEF PubSettled, PubRunning

(* The stores are as they were. *)
LEMMA StoresKept ==
    ASSUME StorageOK, ResultsHeld, UNCHANGED <<stores, up>>
    PROVE  StorageOK' /\ ResultsHeld'
BY DEF StorageOK, ResultsHeld, stores

(* Every look-up and every read of the validation keeps the invariant. *)
LEMMA ValidateKeeps ==
    ASSUME TypeOK, CheckedStaysChecked, NEW p \in Publishers, Validate(p)
    PROVE  CheckedStaysChecked'
<1> DEFINE r == pub[p]
           w == walk[p]
           held == rows[pub[p].ns]
<1>0. /\ PubOK /\ HandlersOK /\ StorageOK /\ ResultsHeld
      /\ r \in PubRecords /\ w \in Walks /\ PubTyped(r, w)
  BY DEF TypeOK, CheckedStaysChecked, PubOK
<1>1. r.pc \in PubRunning /\ UNCHANGED <<stores, up>>
  BY DEF Validate, descriptor_visible, descriptor_get, metadata_visible, metadata_get,
         require_blob, outputs_present, skip_visit, enter_directory, directory_get,
         leave_directory, LookUp, Reject, PubRunning
<1>2. /\ r.ns \in Namespaces /\ r.result \in Results
      /\ HandlerOK(r, w, held)
  BY <1>0, <1>1 DEF PubTyped, HandlersOK
<1>3. rows' = rows /\ \A d \in held : objects[d] = d
  BY <1>0, <1>1, <1>2 DEF stores, StorageOK
<1>4. SUFFICES HandlersOK'
  BY <1>0, <1>1, StoresKept DEF CheckedStaysChecked
<1>5. CASE Reject(p)
  BY <1>0, <1>3, <1>5, SettleKeeps DEF Reject, PubSettled
<1>6. ASSUME pub' = [pub EXCEPT ![p] = pub'[p]], walk' = [walk EXCEPT ![p] = walk'[p]],
             pub'[p].ns = r.ns, HandlerOK(pub'[p], walk'[p], held)
      PROVE  HandlersOK'
  BY <1>0, <1>3, <1>6, OneHandler
<1>7. CASE descriptor_visible(p) /\ ~Reject(p)
  <2>1. /\ pub' = [pub EXCEPT ![p] = pub'[p]] /\ walk' = [walk EXCEPT ![p] = walk'[p]]
        /\ pub'[p] = [r EXCEPT !.pc = "descriptorGet"] /\ walk'[p] = w
        /\ r.pc = "descriptor" /\ r.result.action \in held
    BY <1>0, <1>7 DEF descriptor_visible, LookUp, Visible, Goto, PubOK
  <2>2. /\ pub'[p].pc = "descriptorGet"
        /\ pub'[p].ns = r.ns /\ pub'[p].result = r.result
    BY <1>0, <2>1 DEF PubRecords
  <2>3. HandlerOK(pub'[p], walk'[p], held)
    BY <1>2, <2>1, <2>2 DEF HandlerOK
  <2> QED BY <1>6, <2>1, <2>2, <2>3
<1>8. CASE descriptor_get(p) /\ ~Reject(p)
  <2> DEFINE to == IF r.result.metadata = None THEN "tree" ELSE "metadata"
  <2>1. r.pc = "descriptorGet" /\ objects[r.result.action] = r.result.action
    BY <1>2, <1>3, <1>8 DEF descriptor_get, HandlerOK
  <2>2. /\ pub' = [pub EXCEPT ![p] = pub'[p]] /\ walk' = [walk EXCEPT ![p] = walk'[p]]
        /\ pub'[p] = [r EXCEPT !.pc = to, !.kind = Content[r.result.action].kind]
        /\ walk'[p] = w
        /\ IsDescriptor(r.result.action)
        /\ HasShape(r.result, Content[r.result.action].kind)
    BY <1>0, <1>8, <2>1 DEF descriptor_get, PubOK
  <2>3. /\ pub'[p].pc = to /\ pub'[p].ns = r.ns /\ pub'[p].result = r.result
        /\ pub'[p].kind = Content[r.result.action].kind
    BY <1>0, <2>2 DEF PubRecords
  <2>4. HandlerOK(pub'[p], walk'[p], held)
    BY <1>2, <2>1, <2>2, <2>3 DEF HandlerOK
  <2> QED BY <1>6, <2>2, <2>3, <2>4
<1>9. CASE metadata_visible(p) /\ ~Reject(p)
  <2>1. /\ pub' = [pub EXCEPT ![p] = pub'[p]] /\ walk' = [walk EXCEPT ![p] = walk'[p]]
        /\ pub'[p] = [r EXCEPT !.pc = "metadataGet"] /\ walk'[p] = w
        /\ r.pc = "metadata" /\ r.result.metadata \in held
    BY <1>0, <1>9 DEF metadata_visible, LookUp, Visible, Goto, PubOK
  <2>2. /\ pub'[p].pc = "metadataGet" /\ pub'[p].ns = r.ns
        /\ pub'[p].result = r.result /\ pub'[p].kind = r.kind
    BY <1>0, <2>1 DEF PubRecords
  <2>3. r.result.metadata # None
    BY <1>0, <2>1 DEF PubTyped
  <2>4. HandlerOK(pub'[p], walk'[p], held)
    BY <1>2, <2>1, <2>2, <2>3 DEF HandlerOK
  <2> QED BY <1>6, <2>1, <2>2, <2>4
<1>10. CASE metadata_get(p) /\ ~Reject(p)
  <2>1. r.pc = "metadataGet" /\ objects[r.result.metadata] = r.result.metadata
    BY <1>2, <1>3, <1>10 DEF metadata_get, HandlerOK
  <2>2. /\ pub' = [pub EXCEPT ![p] = pub'[p]] /\ walk' = [walk EXCEPT ![p] = walk'[p]]
        /\ pub'[p] = [r EXCEPT !.pc = "outputs", !.need = Content[r.result.metadata].blobs]
        /\ walk'[p] = w
        /\ IsMetadataOf(r.result.metadata, r.kind)
    BY <1>0, <1>10, <2>1 DEF metadata_get, PubOK
  <2>3. /\ pub'[p].pc = "outputs" /\ pub'[p].ns = r.ns /\ pub'[p].result = r.result
        /\ pub'[p].kind = r.kind /\ pub'[p].need = Content[r.result.metadata].blobs
    BY <1>0, <2>2 DEF PubRecords
  <2>4. HandlerOK(pub'[p], walk'[p], held)
    BY <1>2, <2>1, <2>2, <2>3 DEF HandlerOK
  <2> QED BY <1>6, <2>2, <2>3, <2>4
<1>11. CASE require_blob(p) /\ ~Reject(p)
  <2>1. /\ pub' = [pub EXCEPT ![p] = pub'[p]] /\ walk' = [walk EXCEPT ![p] = walk'[p]]
        /\ pub'[p] = [r EXCEPT !.need = Tail(r.need)] /\ walk'[p] = w
        /\ r.pc \in {"outputs", "files"} /\ Head(r.need) \in held /\ r.need # <<>>
    BY <1>0, <1>11 DEF require_blob, Visible, PubOK
  <2>2. /\ pub'[p].pc = r.pc /\ pub'[p].ns = r.ns /\ pub'[p].result = r.result
        /\ pub'[p].kind = r.kind /\ pub'[p].need = Tail(r.need)
        /\ r.need \in Seq(Digests)
    BY <1>0, <2>1 DEF PubRecords
  <2>3. held \cup Items(r.need) = held \cup Items(pub'[p].need)
    BY <2>1, <2>2, TakeHead
  <2>4. HandlerOK(pub'[p], walk'[p], held)
    BY <1>2, <2>1, <2>2, <2>3 DEF HandlerOK
  <2> QED BY <1>6, <2>1, <2>2, <2>4
<1>12. CASE outputs_present(p)
  <2>1. /\ pub' = [pub EXCEPT ![p] = pub'[p]] /\ walk' = [walk EXCEPT ![p] = walk'[p]]
        /\ pub'[p] = [r EXCEPT !.pc = "tree"] /\ walk'[p] = w
        /\ r.pc = "outputs" /\ r.need = <<>>
    BY <1>0, <1>12 DEF outputs_present, Goto, PubOK
  <2>2. /\ pub'[p].pc = "tree" /\ pub'[p].ns = r.ns /\ pub'[p].result = r.result
        /\ pub'[p].kind = r.kind
    BY <1>0, <2>1 DEF PubRecords
  <2>3. Items(r.need) = {}
    BY <2>1 DEF Items
  <2>4. MetadataComplete(r.result.metadata, r.kind, held)
    BY <1>2, <2>1, <2>3 DEF HandlerOK, MetadataComplete
  <2>5. HandlerOK(pub'[p], walk'[p], held)
    BY <1>2, <2>1, <2>2, <2>4 DEF HandlerOK
  <2> QED BY <1>6, <2>1, <2>2, <2>5
<1>13. CASE skip_visit(p)
  <2>1. /\ pub' = [pub EXCEPT ![p] = pub'[p]] /\ walk' = [walk EXCEPT ![p] = walk'[p]]
        /\ pub'[p] = r /\ walk'[p] = SkipTop(w)
        /\ r.pc = "tree" /\ w.pending # <<>> /\ SkipsTop(w)
    BY <1>0, <1>13 DEF skip_visit, PubOK
  <2>2. w.current = None /\ r.result.root # None
    BY <1>2, <2>1 DEF HandlerOK, NoWalk
  <2>3. WalkOK(SkipTop(w), r.result.root, held) /\ SkipTop(w).current = None
    BY <1>0, <1>2, <2>1, <2>2, WalkSkips DEF HandlerOK
  <2>4. HandlerOK(pub'[p], walk'[p], held)
    BY <1>2, <2>1, <2>2, <2>3 DEF HandlerOK
  <2> QED BY <1>6, <2>1, <2>4
<1>14. CASE enter_directory(p) /\ ~Reject(p)
  <2>1. /\ pub' = [pub EXCEPT ![p] = pub'[p]] /\ walk' = [walk EXCEPT ![p] = walk'[p]]
        /\ pub'[p] = [r EXCEPT !.pc = "directoryGet"] /\ walk'[p] = EnterTop(w)
        /\ r.pc = "tree" /\ w.pending # <<>> /\ ~SkipsTop(w) /\ ~RefusesTop(w)
        /\ Top(w.pending).dir \in held
    BY <1>0, <1>14 DEF enter_directory, Visible, Goto, PubOK
  <2>2. /\ pub'[p].pc = "directoryGet" /\ pub'[p].ns = r.ns /\ pub'[p].result = r.result
        /\ pub'[p].kind = r.kind
    BY <1>0, <2>1 DEF PubRecords
  <2>3. w.current = None /\ r.result.root # None
    BY <1>2, <2>1 DEF HandlerOK, NoWalk
  <2>4. /\ WalkOK(EnterTop(w), r.result.root, held)
        /\ EnterTop(w).current = Top(w.pending).dir
        /\ EnterTop(w).current \in EnterTop(w).visiting
    BY <1>0, <1>2, <2>1, <2>3, WalkEnters DEF HandlerOK
  <2>5. HandlerOK(pub'[p], walk'[p], held)
    BY <1>2, <2>1, <2>2, <2>3, <2>4 DEF HandlerOK
  <2> QED BY <1>6, <2>1, <2>2, <2>5
<1>15. CASE directory_get(p) /\ ~Reject(p)
  <2>1. r.pc = "directoryGet" /\ objects[w.current] = w.current
    BY <1>2, <1>3, <1>15 DEF directory_get, HandlerOK
  <2>2. /\ pub' = [pub EXCEPT ![p] = pub'[p]] /\ walk' = [walk EXCEPT ![p] = walk'[p]]
        /\ pub'[p] = [r EXCEPT !.pc = "files", !.need = Content[w.current].blobs]
        /\ walk'[p] = w /\ IsDirectory(w.current)
    BY <1>0, <1>15, <2>1 DEF directory_get, PubOK
  <2>3. /\ pub'[p].pc = "files" /\ pub'[p].ns = r.ns /\ pub'[p].result = r.result
        /\ pub'[p].kind = r.kind /\ pub'[p].need = Content[w.current].blobs
    BY <1>0, <2>2 DEF PubRecords
  <2>4. HandlerOK(pub'[p], walk'[p], held)
    BY <1>2, <2>1, <2>2, <2>3 DEF HandlerOK
  <2> QED BY <1>6, <2>2, <2>3, <2>4
<1>16. CASE leave_directory(p)
  <2> DEFINE v == LeaveCurrent(w, Content[w.current].dirs)
  <2>1. /\ pub' = [pub EXCEPT ![p] = pub'[p]] /\ walk' = [walk EXCEPT ![p] = walk'[p]]
        /\ pub'[p] = [r EXCEPT !.pc = "tree"] /\ walk'[p] = v
        /\ r.pc = "files" /\ r.need = <<>>
    BY <1>0, <1>16 DEF leave_directory, Goto, PubOK
  <2>2. /\ pub'[p].pc = "tree" /\ pub'[p].ns = r.ns /\ pub'[p].result = r.result
        /\ pub'[p].kind = r.kind
    BY <1>0, <2>1 DEF PubRecords
  <2>3. Items(r.need) = {}
    BY <2>1 DEF Items
  <2>4. /\ w.current \in Digests /\ w.current \in w.visiting /\ w.current \in held
        /\ IsDirectory(w.current) /\ Items(Content[w.current].blobs) \subseteq held
    BY <1>0, <1>2, <2>1, <2>3 DEF HandlerOK, Walks
  <2>5. r.result.root # None
    BY <1>2, <2>4 DEF HandlerOK, NoWalk
  <2>6. WalkOK(v, r.result.root, held) /\ v.current = None
    BY <1>0, <1>2, <2>4, <2>5, WalkLeaves DEF HandlerOK
  <2> HIDE DEF v
  <2>7. HandlerOK(pub'[p], walk'[p], held)
    BY <1>2, <2>1, <2>2, <2>5, <2>6 DEF HandlerOK
  <2> QED BY <1>6, <2>1, <2>2, <2>7
<1> QED
  BY <1>5, <1>7, <1>8, <1>9, <1>10, <1>11, <1>12, <1>13, <1>14, <1>15, <1>16 DEF Validate

(* A new request has checked nothing yet. *)
LEMMA AskKeeps ==
    ASSUME TypeOK, CheckedStaysChecked, NEW p \in Publishers, NEW n \in Namespaces,
           NEW result \in Submissions, put_action_result(p, n, result)
    PROVE  CheckedStaysChecked'
<1>0. PubOK /\ HandlersOK /\ StorageOK /\ ResultsHeld /\ UNCHANGED <<stores, up>>
  BY DEF TypeOK, CheckedStaysChecked, put_action_result
<1>1. result \in Results
  BY SubmissionsAssumption
<1>2. /\ pub' = [pub EXCEPT ![p] = pub'[p]] /\ walk' = [walk EXCEPT ![p] = walk'[p]]
      /\ pub'[p] = [pc |-> "descriptor", ns |-> n, result |-> result,
                    kind |-> None, need |-> <<>>]
      /\ walk'[p] = IF result.root = None THEN NoWalk ELSE StartWalk(result.root)
  BY <1>0 DEF put_action_result, PubOK, IdlePub
<1>3. result.root # None =>
        WalkOK(StartWalk(result.root), result.root, rows[n]) /\ StartWalk(result.root).current = None
  BY <1>1, WalkStarts DEF Results
<1>4. walk'[p].current = None
  BY <1>2, <1>3 DEF NoWalk
<1>5. HandlerOK(pub'[p], walk'[p], rows[n])
  BY <1>2, <1>3, <1>4 DEF HandlerOK
<1>6. HandlersOK'
  BY <1>0, <1>2, <1>5, OneHandler DEF stores
<1> QED BY <1>0, <1>6, StoresKept DEF CheckedStaysChecked

(* The commit inserts a complete result, or changes nothing. *)
LEMMA CommitKeeps ==
    ASSUME TypeOK, CheckedStaysChecked, NEW p \in Publishers,
           Commit(p) \/ publish_fails(p) \/ insert_unheard(p)
    PROVE  CheckedStaysChecked'
<1>0. /\ PubOK /\ HandlersOK /\ StorageOK /\ ResultsHeld /\ StoresOK
      /\ pub[p] \in PubRecords /\ walk[p] \in Walks /\ PubTyped(pub[p], walk[p])
  BY DEF TypeOK, CheckedStaysChecked, PubOK
<1>1. rows' = rows /\ objects' = objects /\ up' = up /\ pub[p].pc \in PubRunning
  BY DEF Commit, memory_commit, postgres_insert, postgres_compare, publish_fails,
         insert_unheard, Validated, stores, PubRunning
<1>2. /\ pub[p].ns \in Namespaces /\ pub[p].result \in Results
      /\ HandlerOK(pub[p], walk[p], rows[pub[p].ns])
  BY <1>0, <1>1 DEF PubTyped, HandlersOK
<1>3. StorageOK'
  BY <1>0, <1>1 DEF StorageOK
<1>4. ASSUME UNCHANGED results PROVE ResultsHeld'
  BY <1>0, <1>1, <1>4 DEF ResultsHeld
<1>5. ASSUME Insert(p), Validated(p) PROVE ResultsHeld'
  <2>1. Complete(pub[p].result, rows[pub[p].ns])
    BY <1>0, <1>2, <1>5, ValidatedComplete DEF Validated
  <2>2. ASSUME NEW n \in Namespaces, NEW a \in Digests, results'[n][a] # results[n][a]
        PROVE  n = pub[p].ns /\ a = pub[p].result.action /\ results'[n][a] = pub[p].result
    BY <1>0, <1>2, <1>5, <2>2 DEF Insert, StoresOK
  <2> QED BY <1>0, <1>1, <2>1, <2>2 DEF ResultsHeld
<1>6. ASSUME NEW outcome \in PubSettled, Settle(p, outcome) PROVE HandlersOK'
  BY <1>0, <1>1, <1>6, SettleKeeps
<1>7. CASE memory_commit(p)
  BY <1>3, <1>4, <1>5, <1>6, <1>7 DEF memory_commit, CheckedStaysChecked, PubSettled
<1>8. CASE postgres_insert(p)
  <2>1. CASE Stored(p) = None
    BY <1>3, <1>5, <1>6, <1>8, <2>1 DEF postgres_insert, CheckedStaysChecked, PubSettled
  <2>2. CASE Stored(p) # None
    <3>1. /\ pub' = [pub EXCEPT ![p] = pub'[p]] /\ walk' = [walk EXCEPT ![p] = walk'[p]]
          /\ pub'[p] = [pub[p] EXCEPT !.pc = "compare"] /\ walk'[p] = walk[p]
          /\ pub[p].pc = "tree" /\ walk[p].pending = <<>> /\ UNCHANGED results
      BY <1>0, <1>8, <2>2 DEF postgres_insert, Validated, Goto, PubOK
    <3>2. /\ pub'[p].pc = "compare" /\ pub'[p].ns = pub[p].ns
          /\ pub'[p].result = pub[p].result /\ pub'[p].kind = pub[p].kind
      BY <1>0, <3>1 DEF PubRecords
    <3>3. HandlerOK(pub'[p], walk'[p], rows[pub[p].ns])
      BY <1>2, <3>1, <3>2 DEF HandlerOK
    <3>4. HandlersOK'
      BY <1>0, <1>1, <3>1, <3>2, <3>3, OneHandler
    <3> QED BY <1>3, <1>4, <3>1, <3>4 DEF CheckedStaysChecked
  <2> QED BY <2>1, <2>2
<1>9. CASE postgres_compare(p)
  <2>1. PICK outcome \in PubSettled : Settle(p, outcome)
    BY <1>9 DEF postgres_compare, PubSettled
  <2> QED BY <1>3, <1>4, <1>6, <1>9, <2>1 DEF postgres_compare, stores, CheckedStaysChecked
<1>10. ASSUME Abandon(p) PROVE HandlersOK'
  <2>1. /\ pub' = [pub EXCEPT ![p] = pub'[p]] /\ walk' = [walk EXCEPT ![p] = walk'[p]]
        /\ pub'[p].pc = "failed"
    BY <1>0, <1>10 DEF Abandon, PubOK, IdlePub
  <2> QED BY <1>0, <1>1, <2>1, OneHandler DEF PubRunning
<1>11. CASE publish_fails(p)
  BY <1>3, <1>4, <1>10, <1>11 DEF publish_fails, stores, CheckedStaysChecked
<1>12. CASE insert_unheard(p)
  BY <1>3, <1>5, <1>10, <1>12 DEF insert_unheard, CheckedStaysChecked
<1> QED BY <1>7, <1>8, <1>9, <1>11, <1>12 DEF Commit

-----------------------------------------------------------------------------
(* The steps of put_blob. *)

(* An upload stores what it verified, and registers what it stored. *)
LEMMA UploadKeeps ==
    ASSUME TypeOK, CheckedStaysChecked, NEW u \in Uploaders,
           \/ \E n \in Namespaces, d, bytes \in Digests : put_blob(u, n, d, bytes)
           \/ UploadStep(u)
           \/ upload_fails(u) \/ register_unheard(u)
    PROVE  CheckedStaysChecked'
<1>0. /\ UpOK /\ StoresOK /\ PubOK /\ HandlersOK /\ StorageOK /\ ResultsHeld
      /\ UNCHANGED <<results, pub, walk>>
  BY DEF TypeOK, CheckedStaysChecked, put_blob, UploadStep, blobs_put, persist_noclobber,
         register_blob, register_unheard, upload_fails, stores
<1>1. ASSUME \A n \in Namespaces : rows[n] \subseteq rows'[n]
      PROVE  HandlersOK' /\ ResultsHeld'
  <2>1. ASSUME NEW p \in Publishers, pub[p].pc \in PubRunning
        PROVE  HandlerOK(pub[p], walk[p], rows'[pub[p].ns])
    <3>1. pub[p].ns \in Namespaces
      BY <1>0, <2>1 DEF PubOK, PubTyped
    <3>2. HandlerOK(pub[p], walk[p], rows[pub[p].ns])
      BY <1>0, <2>1 DEF HandlersOK
    <3> QED BY <1>1, <3>1, <3>2, HandlerMonotone
  <2>2. HandlersOK'
    BY <1>0, <2>1 DEF HandlersOK
  <2>3. ResultsHeld'
    BY <1>0, <1>1, CompleteMonotone DEF ResultsHeld
  <2> QED BY <2>2, <2>3
<1>2. ASSUME NEW n \in Namespaces, NEW d \in Digests, NEW bytes \in Digests,
             put_blob(u, n, d, bytes)
      PROVE  CheckedStaysChecked'
  <2>1. StorageOK'
    <3>1. (up'[u].pc = "put" /\ up'[u].bytes = up'[u].digest) \/ up'[u].pc = "rejected"
      BY <1>0, <1>2 DEF put_blob, UpOK, IdleUp
    <3>2. \A v \in Uploaders \ {u} : up'[v] = up[v]
      BY <1>0, <1>2 DEF put_blob, UpOK
    <3> QED BY <1>0, <1>2, <3>1, <3>2 DEF StorageOK, put_blob, stores
  <2> QED BY <1>1, <1>2, <2>1 DEF put_blob, stores, CheckedStaysChecked
<1>3. CASE blobs_put(u)
  <2>1. /\ up'[u].pc = "persist" => up'[u].bytes = up'[u].digest
        /\ up'[u].pc = "register" => objects[up'[u].digest] = up'[u].digest
        /\ up'[u].pc \in {"persist", "register"}
        /\ \A v \in Uploaders \ {u} : up'[v] = up[v]
    <3>1. /\ up[u] \in UpRecords /\ up[u].digest \in Digests
          /\ up[u].bytes = up[u].digest /\ objects[up[u].digest] \in {up[u].digest, None}
      BY <1>0, <1>3 DEF blobs_put, UpOK, UpRunning, StorageOK
    <3>2. CASE objects[up[u].digest] = None
      <4>1. up' = [up EXCEPT ![u].pc = "persist"]
        BY <1>3, <3>2 DEF blobs_put
      <4> QED BY <1>0, <3>1, <4>1 DEF UpOK, UpRecords
    <3>3. CASE objects[up[u].digest] # None
      <4>1. up' = [up EXCEPT ![u].pc = "register", ![u].stored = "exists"]
        BY <1>3, <3>3 DEF blobs_put
      <4> QED BY <1>0, <3>1, <3>3, <4>1 DEF UpOK, UpRecords
    <3> QED BY <3>2, <3>3
  <2>2. StorageOK'
    <3>1. UNCHANGED <<objects, rows>>
      BY <1>3 DEF blobs_put, stores
    <3>2. ASSUME NEW v \in Uploaders
          PROVE  /\ up'[v].pc \in {"put", "persist"} => up'[v].bytes = up'[v].digest
                 /\ up'[v].pc = "register" => objects[up'[v].digest] = up'[v].digest
      BY <1>0, <2>1 DEF StorageOK
    <3> QED BY <1>0, <3>1, <3>2 DEF StorageOK
  <2> QED BY <1>1, <1>3, <2>2 DEF blobs_put, stores, CheckedStaysChecked
<1>4. CASE persist_noclobber(u)
  <2>1. up[u].pc = "persist" /\ up[u].digest \in Digests /\ up[u].bytes = up[u].digest
    BY <1>0, <1>4 DEF persist_noclobber, UpOK, UpRunning, StorageOK
  <2>2. /\ objects'[up[u].digest] = up[u].digest
        /\ \A d \in Digests \ {up[u].digest} : objects'[d] = objects[d]
    BY <1>0, <1>4, <2>1 DEF persist_noclobber, Write, StorageOK, StoresOK
  <2>3. /\ up'[u].pc = "register" /\ up'[u].digest = up[u].digest
        /\ \A v \in Uploaders \ {u} : up'[v] = up[v]
    BY <1>0, <1>4 DEF persist_noclobber, UpOK, UpRecords
  <2>4. \A v \in Uploaders : up[v].pc = "register" => up[v].digest \in Digests
    BY <1>0 DEF UpOK, UpRunning
  <2>5. rows' = rows /\ \A n \in Namespaces : rows[n] \subseteq Digests
    BY <1>0, <1>4 DEF persist_noclobber, StoresOK
  <2>6. StorageOK'
    <3>1. \A d \in Digests : objects'[d] \in {d, None}
      BY <1>0, <2>2 DEF StorageOK
    <3>2. \A n \in Namespaces : \A d \in rows'[n] : objects'[d] = d
      BY <1>0, <2>2, <2>5 DEF StorageOK
    <3>3. ASSUME NEW v \in Uploaders
          PROVE  /\ up'[v].pc \in {"put", "persist"} => up'[v].bytes = up'[v].digest
                 /\ up'[v].pc = "register" => objects'[up'[v].digest] = up'[v].digest
      BY <1>0, <2>2, <2>3, <2>4 DEF StorageOK
    <3> QED BY <3>1, <3>2, <3>3 DEF StorageOK
  <2> QED BY <1>1, <2>5, <2>6 DEF CheckedStaysChecked
<1>5. ASSUME up[u].pc = "register", Register(u), objects' = objects,
             up'[u].pc \in {"created", "exists", "failed"},
             \A v \in Uploaders \ {u} : up'[v] = up[v]
      PROVE  CheckedStaysChecked'
  <2>1. /\ up[u].ns \in Namespaces /\ up[u].digest \in Digests
        /\ objects[up[u].digest] = up[u].digest
    BY <1>0, <1>5 DEF UpOK, UpRunning, StorageOK
  <2>2. \A n \in Namespaces : /\ rows[n] \subseteq rows'[n]
                              /\ rows'[n] \subseteq rows[n] \cup {up[u].digest}
    BY <1>0, <1>5 DEF Register, StoresOK
  <2>3. StorageOK'
    BY <1>0, <1>5, <2>1, <2>2 DEF StorageOK
  <2> QED BY <1>1, <2>2, <2>3 DEF CheckedStaysChecked
<1>6. CASE register_blob(u)
  <2>1. up'[u].pc \in {"created", "exists"} /\ \A v \in Uploaders \ {u} : up'[v] = up[v]
    BY <1>0, <1>6 DEF register_blob, UpOK, UpRecords
  <2> QED BY <1>5, <1>6, <2>1 DEF register_blob
<1>7. ASSUME up' = [up EXCEPT ![u] = [IdleUp EXCEPT !.pc = "failed"]]
      PROVE  up'[u].pc = "failed" /\ \A v \in Uploaders \ {u} : up'[v] = up[v]
  BY <1>0, <1>7 DEF UpOK, IdleUp
<1>8. CASE register_unheard(u)
  BY <1>5, <1>7, <1>8 DEF register_unheard
<1>9. CASE upload_fails(u)
  <2>1. StorageOK'
    BY <1>0, <1>7, <1>9 DEF StorageOK, upload_fails, stores
  <2> QED BY <1>1, <1>9, <2>1 DEF upload_fails, stores, CheckedStaysChecked
<1> QED BY <1>2, <1>3, <1>4, <1>6, <1>8, <1>9 DEF UploadStep

-----------------------------------------------------------------------------
(* CheckedStaysChecked is an invariant of the service. *)
THEOREM Inductive == SafeSpec => []CheckedStaysChecked
<1>1. Init => CheckedStaysChecked
  BY DEF Init, CheckedStaysChecked, StorageOK, HandlersOK, ResultsHeld, IdlePub, IdleUp, PubRunning
<1>2. TypeOK /\ CheckedStaysChecked /\ [Next]_vars => CheckedStaysChecked'
  <2> SUFFICES ASSUME TypeOK, CheckedStaysChecked, [Next]_vars
               PROVE  CheckedStaysChecked'
    OBVIOUS
  <2>1. ASSUME UNCHANGED <<stores, pub, walk, up>> PROVE CheckedStaysChecked'
    BY <2>1 DEF CheckedStaysChecked, StorageOK, HandlersOK, ResultsHeld, stores
  <2>2. CASE UNCHANGED vars
    BY <2>1, <2>2 DEF vars, stores
  <2>3. CASE restart
    <3>1. HandlersOK'
      BY <2>3 DEF restart, HandlersOK, IdlePub, PubRunning
    <3>2. StorageOK'
      BY <2>3 DEF restart, CheckedStaysChecked, StorageOK, IdleUp
    <3>3. ResultsHeld'
      BY <2>3 DEF restart, CheckedStaysChecked, ResultsHeld
    <3> QED BY <3>1, <3>2, <3>3 DEF CheckedStaysChecked
  <2>4. ASSUME NEW g \in Readers,
               \/ \E n \in Namespaces, d \in Digests : get_blob(g, n, d)
               \/ ReadStep(g)
               \/ read_fails(g)
        PROVE  CheckedStaysChecked'
    BY <2>1, <2>4 DEF get_blob, ReadStep, record_blob_access, blobs_get, read_fails
  <2> QED BY <2>2, <2>3, <2>4, AskKeeps, ValidateKeeps, CommitKeeps, UploadKeeps
             DEF Next, PublishStep
<1> QED BY <1>1, <1>2, TypeCorrect, PTL DEF SafeSpec

-----------------------------------------------------------------------------
(* The limits. *)

(* Why ResultsBounded holds.  None of it speaks of the stores, so it holds *)
(* also while rows and objects go away under a handler.                    *)
HandlerBounded(r, w) ==
    /\ r.pc # "descriptor" => r.result.action \notin Oversized
    /\ r.pc \notin {"descriptor", "descriptorGet", "metadata"} =>
          r.result.metadata \notin Oversized
    /\ r.result.root = None => w = NoWalk
    /\ r.result.root # None => WalkBounded(w, r.result.root)
    /\ r.pc \notin {"directoryGet", "files"} => w.current = None
    /\ r.pc \in {"directoryGet", "files"} => w.current \in w.visiting

HandlersBounded ==
    \A p \in Publishers : pub[p].pc \in PubRunning => HandlerBounded(pub[p], walk[p])

LimitsKept == HandlersBounded /\ ResultsBounded

(* One handler moved; if it keeps to the limits, all handlers do. *)
LEMMA OneBounded ==
    ASSUME PubOK, HandlersBounded, NEW p \in Publishers,
           pub' = [pub EXCEPT ![p] = pub'[p]], walk' = [walk EXCEPT ![p] = walk'[p]],
           pub'[p].pc \in PubRunning => HandlerBounded(pub'[p], walk'[p])
    PROVE  HandlersBounded'
<1> SUFFICES ASSUME NEW q \in Publishers, pub'[q].pc \in PubRunning
             PROVE  HandlerBounded(pub'[q], walk'[q])
  BY DEF HandlersBounded
<1>1. CASE q = p
  BY <1>1
<1>2. CASE q # p
  <2>1. pub'[q] = pub[q] /\ walk'[q] = walk[q]
    BY <1>2 DEF PubOK
  <2> QED BY <2>1 DEF HandlersBounded
<1> QED BY <1>1, <1>2

(* A handler that settles, or fails, has nothing more to keep to. *)
LEMMA SettleBounded ==
    ASSUME PubOK, HandlersBounded, NEW p \in Publishers,
           (\E outcome \in PubSettled : Settle(p, outcome)) \/ Abandon(p)
    PROVE  HandlersBounded'
<1>1. /\ pub' = [pub EXCEPT ![p] = pub'[p]] /\ walk' = [walk EXCEPT ![p] = walk'[p]]
      /\ pub'[p].pc \in PubSettled
  BY DEF Settle, Abandon, PubOK, PubRecords, IdlePub, PubSettled
<1> QED BY <1>1, OneBounded DEF PubSettled, PubRunning

(* A new request has read nothing yet, and its walk has only its root. *)
LEMMA AskBounded ==
    ASSUME TypeOK, HandlersBounded, NEW p \in Publishers, NEW n \in Namespaces,
           NEW result \in Submissions, put_action_result(p, n, result)
    PROVE  HandlersBounded'
<1>0. PubOK /\ result \in Results
  BY SubmissionsAssumption DEF TypeOK
<1>1. /\ pub' = [pub EXCEPT ![p] = pub'[p]] /\ walk' = [walk EXCEPT ![p] = walk'[p]]
      /\ pub'[p].pc = "descriptor" /\ pub'[p].result = result
      /\ walk'[p] = IF result.root = None THEN NoWalk ELSE StartWalk(result.root)
  BY <1>0 DEF put_action_result, PubOK, IdlePub
<1>2. result.root # None =>
        WalkBounded(StartWalk(result.root), result.root) /\ StartWalk(result.root).current = None
  BY <1>0, BoundedStart, WalkStarts DEF Results
<1>3. walk'[p].current = None
  BY <1>1, <1>2 DEF NoWalk
<1>4. HandlerBounded(pub'[p], walk'[p])
  BY <1>1, <1>2, <1>3 DEF HandlerBounded
<1> QED BY <1>0, <1>1, <1>4, OneBounded

(* Validation parses nothing that is too large, and its walk stays acyclic *)
(* and within the limit.                                                   *)
LEMMA ValidateBounded ==
    ASSUME TypeOK, HandlersBounded, NEW p \in Publishers, Validate(p)
    PROVE  HandlersBounded'
<1> DEFINE r == pub[p]
           w == walk[p]
           root == pub[p].result.root
<1>0. PubOK /\ r \in PubRecords /\ w \in Walks /\ PubTyped(r, w)
  BY DEF TypeOK, PubOK
<1>1. r.pc \in PubRunning
  BY DEF Validate, descriptor_visible, descriptor_get, metadata_visible, metadata_get,
         require_blob, outputs_present, skip_visit, enter_directory, directory_get,
         leave_directory, LookUp, PubRunning
<1>2. /\ r.result \in Results /\ HandlerBounded(r, w)
      /\ root # None => root \in Digests
  BY <1>0, <1>1 DEF PubTyped, HandlersBounded, Results
<1>3. CASE Reject(p)
  BY <1>0, <1>3, SettleBounded DEF Reject, PubSettled
<1>4. ASSUME pub' = [pub EXCEPT ![p] = pub'[p]], walk' = walk, pub'[p].result = r.result,
             pub'[p].pc # "descriptor" => r.result.action \notin Oversized,
             pub'[p].pc \notin {"descriptor", "descriptorGet", "metadata"} =>
                r.result.metadata \notin Oversized,
             pub'[p].pc \in {"directoryGet", "files"} <=> r.pc \in {"directoryGet", "files"}
      PROVE  HandlersBounded'
  <2>1. walk' = [walk EXCEPT ![p] = walk'[p]] /\ walk'[p] = w
    BY <1>0, <1>4 DEF PubOK
  <2>2. HandlerBounded(pub'[p], walk'[p])
    BY <1>2, <1>4, <2>1 DEF HandlerBounded
  <2> QED BY <1>0, <1>4, <2>1, <2>2, OneBounded
<1>5. CASE descriptor_visible(p) /\ ~Reject(p)
  <2>1. /\ pub' = [pub EXCEPT ![p] = pub'[p]] /\ walk' = walk
        /\ pub'[p] = [r EXCEPT !.pc = "descriptorGet"]
        /\ r.pc = "descriptor" /\ r.result.action \notin Oversized
    BY <1>0, <1>5 DEF descriptor_visible, LookUp, Goto, PubOK
  <2>2. pub'[p].pc = "descriptorGet" /\ pub'[p].result = r.result
    BY <1>0, <2>1 DEF PubRecords
  <2> QED BY <1>4, <2>1, <2>2
<1>6. CASE descriptor_get(p) /\ ~Reject(p)
  <2>1. /\ pub' = [pub EXCEPT ![p] = pub'[p]] /\ walk' = walk
        /\ pub'[p].pc = IF r.result.metadata = None THEN "tree" ELSE "metadata"
        /\ pub'[p].result = r.result
        /\ r.pc = "descriptorGet"
    BY <1>0, <1>6 DEF descriptor_get, PubOK, PubRecords
  <2>2. None \notin Oversized
    BY NoneAssumption, OversizedAssumption
  <2>3. r.result.action \notin Oversized
    BY <1>2, <2>1 DEF HandlerBounded
  <2>4. pub'[p].pc = "tree" => r.result.metadata \notin Oversized
    BY <2>1, <2>2
  <2>5. pub'[p].pc \in {"tree", "metadata"}
    BY <2>1
  <2> QED BY <1>4, <2>1, <2>3, <2>4, <2>5
<1>7. CASE metadata_visible(p) /\ ~Reject(p)
  <2>1. /\ pub' = [pub EXCEPT ![p] = pub'[p]] /\ walk' = walk
        /\ pub'[p] = [r EXCEPT !.pc = "metadataGet"]
        /\ r.pc = "metadata" /\ r.result.metadata \notin Oversized
    BY <1>0, <1>7 DEF metadata_visible, LookUp, Goto, PubOK
  <2>2. pub'[p].pc = "metadataGet" /\ pub'[p].result = r.result
    BY <1>0, <2>1 DEF PubRecords
  <2>3. r.result.action \notin Oversized
    BY <1>2, <2>1 DEF HandlerBounded
  <2> QED BY <1>4, <2>1, <2>2, <2>3
<1>8. CASE (metadata_get(p) \/ outputs_present(p) \/ require_blob(p) \/ directory_get(p))
             /\ ~Reject(p)
  <2>1. pub' = [pub EXCEPT ![p] = pub'[p]] /\ walk' = walk
    BY <1>0, <1>8 DEF metadata_get, outputs_present, require_blob, directory_get, Goto, PubOK
  <2>2. /\ pub'[p].result = r.result
        /\ \/ r.pc = "metadataGet" /\ pub'[p].pc = "outputs"
           \/ r.pc = "outputs" /\ pub'[p].pc = "tree"
           \/ r.pc \in {"outputs", "files"} /\ pub'[p].pc = r.pc
           \/ r.pc = "directoryGet" /\ pub'[p].pc = "files"
    BY <1>0, <1>8 DEF metadata_get, outputs_present, require_blob, directory_get, Goto, PubOK,
                      PubRecords
  <2>3. r.result.action \notin Oversized /\ r.result.metadata \notin Oversized
    BY <1>2, <2>2 DEF HandlerBounded
  <2> QED BY <1>4, <2>1, <2>2, <2>3
<1>9. CASE skip_visit(p)
  <2>1. /\ pub' = [pub EXCEPT ![p] = pub'[p]] /\ walk' = [walk EXCEPT ![p] = walk'[p]]
        /\ pub'[p] = r /\ walk'[p] = SkipTop(w) /\ SkipsTop(w)
        /\ r.pc = "tree" /\ w.pending # <<>>
    BY <1>0, <1>9 DEF skip_visit, PubOK
  <2>2. w.current = None /\ root # None /\ WalkBounded(w, root)
    BY <1>2, <2>1 DEF HandlerBounded, NoWalk
  <2>3. WalkBounded(SkipTop(w), root)
    BY <1>0, <1>2, <2>1, <2>2, BoundedSkip
  <2>4. SkipTop(w).current = None
    BY <1>0, <2>2 DEF SkipTop, Pop, Walks
  <2>5. HandlerBounded(pub'[p], walk'[p])
    BY <1>2, <2>1, <2>2, <2>3, <2>4 DEF HandlerBounded
  <2> QED BY <1>0, <2>1, <2>5, OneBounded
<1>10. CASE enter_directory(p) /\ ~Reject(p)
  <2>1. /\ pub' = [pub EXCEPT ![p] = pub'[p]] /\ walk' = [walk EXCEPT ![p] = walk'[p]]
        /\ pub'[p] = [r EXCEPT !.pc = "directoryGet"] /\ walk'[p] = EnterTop(w)
        /\ r.pc = "tree" /\ w.pending # <<>> /\ ~SkipsTop(w) /\ ~RefusesTop(w)
    BY <1>0, <1>10 DEF enter_directory, Goto, PubOK
  <2>2. pub'[p].pc = "directoryGet" /\ pub'[p].result = r.result
    BY <1>0, <2>1 DEF PubRecords
  <2>3. w.current = None /\ root # None /\ WalkBounded(w, root)
    BY <1>2, <2>1 DEF HandlerBounded, NoWalk
  <2>4. WalkBounded(EnterTop(w), root)
    BY <1>0, <1>2, <2>1, <2>3, BoundedEnter
  <2>5. EnterTop(w).current \in EnterTop(w).visiting
    BY <1>0 DEF EnterTop, Pop, Walks
  <2>6. HandlerBounded(pub'[p], walk'[p])
    BY <1>2, <2>1, <2>2, <2>3, <2>4, <2>5 DEF HandlerBounded
  <2> QED BY <1>0, <2>1, <2>6, OneBounded
<1>11. CASE leave_directory(p)
  <2> DEFINE v == LeaveCurrent(w, Content[w.current].dirs)
  <2>1. /\ pub' = [pub EXCEPT ![p] = pub'[p]] /\ walk' = [walk EXCEPT ![p] = walk'[p]]
        /\ pub'[p] = [r EXCEPT !.pc = "tree"] /\ walk'[p] = v
        /\ r.pc = "files"
    BY <1>0, <1>11 DEF leave_directory, Goto, PubOK
  <2>2. pub'[p].pc = "tree" /\ pub'[p].result = r.result
    BY <1>0, <2>1 DEF PubRecords
  <2>3. w.current \in Digests /\ w.current \in w.visiting
    BY <1>0, <1>2, <2>1 DEF HandlerBounded, Walks
  <2>4. root # None /\ WalkBounded(w, root)
    BY <1>2, <2>3 DEF HandlerBounded, NoWalk
  <2>5. WalkBounded(v, root)
    BY <1>0, <1>2, <2>3, <2>4, BoundedLeave
  <2>6. v.current = None
    BY <1>0 DEF LeaveCurrent, Walks
  <2> HIDE DEF v
  <2>7. HandlerBounded(pub'[p], walk'[p])
    BY <1>2, <2>1, <2>2, <2>4, <2>5, <2>6 DEF HandlerBounded
  <2> QED BY <1>0, <2>1, <2>7, OneBounded
<1> QED
  BY <1>3, <1>5, <1>6, <1>7, <1>8, <1>9, <1>10, <1>11 DEF Validate

(* A handler with an empty stack has a result within the limits. *)
LEMMA ValidatedBounded ==
    ASSUME TypeOK, HandlersBounded, NEW p \in Publishers, Validated(p)
    PROVE  WithinLimits(pub[p].result)
<1> DEFINE r == pub[p]
           w == walk[p]
           root == pub[p].result.root
<1>1. /\ w \in Walks /\ r.result \in Results /\ HandlerBounded(r, w)
      /\ r.pc = "tree" /\ w.pending = <<>>
  BY DEF TypeOK, PubOK, PubTyped, HandlersBounded, Validated, PubRunning
<1>2. r.result.action \notin Oversized /\ r.result.metadata \notin Oversized
  BY <1>1 DEF HandlerBounded
<1>3. ASSUME root # None
      PROVE  \E dirs \in SUBSET Digests :
                /\ root \in dirs
                /\ \A d \in dirs : Items(Content[d].dirs) \subseteq dirs
                /\ dirs \cap Oversized = {}
                /\ Cardinality(dirs) <= MaxDirectories
                /\ Acyclic(dirs)
  <2>1. root \in Digests /\ WalkBounded(w, root) /\ w.current = None
    BY <1>1, <1>3 DEF HandlerBounded, Results
  <2> QED BY <1>1, <2>1, BoundedEnd
<1> QED BY <1>2, <1>3 DEF WithinLimits

(* Every step of put_action_result keeps to the limits: a result that is   *)
(* inserted has been validated.                                            *)
LEMMA PublishLimits ==
    ASSUME TypeOK, LimitsKept, NEW p \in Publishers,
           \/ \E n \in Namespaces, result \in Submissions : put_action_result(p, n, result)
           \/ PublishStep(p)
           \/ publish_fails(p) \/ insert_unheard(p)
    PROVE  LimitsKept'
<1>0. /\ PubOK /\ HandlersBounded /\ ResultsBounded /\ StoresOK
      /\ pub[p] \in PubRecords /\ walk[p] \in Walks /\ PubTyped(pub[p], walk[p])
  BY DEF TypeOK, PubOK, LimitsKept
<1>1. ASSUME UNCHANGED results PROVE ResultsBounded'
  BY <1>0, <1>1 DEF ResultsBounded
<1>2. ASSUME Insert(p), Validated(p) PROVE ResultsBounded'
  <2>1. WithinLimits(pub[p].result) /\ pub[p].ns \in Namespaces /\ pub[p].result \in Results
    BY <1>0, <1>2, ValidatedBounded DEF Validated, PubTyped, PubRunning
  <2>2. ASSUME NEW n \in Namespaces, NEW a \in Digests, results'[n][a] # results[n][a]
        PROVE  results'[n][a] = pub[p].result
    BY <1>0, <1>2, <2>1, <2>2 DEF Insert, StoresOK, Results
  <2> QED BY <1>0, <2>1, <2>2 DEF ResultsBounded
<1>3. ASSUME NEW n \in Namespaces, NEW result \in Submissions, put_action_result(p, n, result)
      PROVE  LimitsKept'
  BY <1>0, <1>1, <1>3, AskBounded DEF put_action_result, stores, LimitsKept
<1>4. CASE Validate(p)
  <2>1. UNCHANGED results
    BY <1>4 DEF Validate, descriptor_visible, descriptor_get, metadata_visible, metadata_get,
                require_blob, outputs_present, skip_visit, enter_directory, directory_get,
                leave_directory, LookUp, Reject, stores
  <2> QED BY <1>0, <1>1, <1>4, <2>1, ValidateBounded DEF LimitsKept
<1>5. CASE memory_commit(p) \/ postgres_compare(p) \/ publish_fails(p)
                \/ insert_unheard(p)
  <2>1. HandlersBounded'
    BY <1>0, <1>5, SettleBounded DEF memory_commit, postgres_compare, publish_fails,
                                     insert_unheard, PubSettled
  <2>2. ResultsBounded'
    BY <1>1, <1>2, <1>5 DEF memory_commit, postgres_compare, publish_fails,
                                insert_unheard, stores
  <2> QED BY <2>1, <2>2 DEF LimitsKept
<1>6. CASE postgres_insert(p) /\ Stored(p) = None
  BY <1>0, <1>2, <1>6, SettleBounded DEF postgres_insert, LimitsKept, PubSettled
<1>7. CASE postgres_insert(p) /\ Stored(p) # None
  <2>1. /\ pub' = [pub EXCEPT ![p] = pub'[p]] /\ walk' = [walk EXCEPT ![p] = walk'[p]]
        /\ pub'[p].pc = "compare" /\ pub'[p].result = pub[p].result /\ walk'[p] = walk[p]
        /\ pub[p].pc = "tree" /\ UNCHANGED results
    BY <1>0, <1>7 DEF postgres_insert, Goto, Validated, PubOK, PubRecords
  <2>2. HandlerBounded(pub[p], walk[p])
    BY <1>0, <2>1 DEF HandlersBounded, PubRunning
  <2>3. HandlerBounded(pub'[p], walk'[p])
    BY <2>1, <2>2 DEF HandlerBounded
  <2>4. HandlersBounded'
    BY <1>0, <2>1, <2>3, OneBounded
  <2> QED BY <1>1, <2>1, <2>4 DEF LimitsKept
<1> QED BY <1>3, <1>4, <1>5, <1>6, <1>7 DEF PublishStep, Commit

(* The other handlers leave publications and results alone. *)
LEMMA TransferLimits ==
    ASSUME LimitsKept,
           \/ \E u \in Uploaders :
                \/ \E n \in Namespaces, d, bytes \in Digests : put_blob(u, n, d, bytes)
                \/ UploadStep(u)
                \/ upload_fails(u) \/ register_unheard(u)
           \/ \E g \in Readers :
                \/ \E n \in Namespaces, d \in Digests : get_blob(g, n, d)
                \/ ReadStep(g)
                \/ read_fails(g)
    PROVE  LimitsKept'
<1>1. UNCHANGED <<results, pub, walk>>
  BY DEF put_blob, UploadStep, blobs_put, persist_noclobber, register_blob, upload_fails,
         register_unheard, get_blob, ReadStep, record_blob_access, blobs_get, read_fails, stores
<1> QED BY <1>1 DEF LimitsKept, HandlersBounded, ResultsBounded

LEMMA InitialLimits == Init => LimitsKept
BY DEF Init, LimitsKept, HandlersBounded, ResultsBounded, IdlePub, PubRunning

(* put_action_result commits only results within the limits: no object it  *)
(* parsed is too large, and the output tree is acyclic, of at most         *)
(* MaxDirectories directories, however handlers interleave and fail.       *)
THEOREM LimitsInductive == SafeSpec => []LimitsKept
<1>1. Init => LimitsKept
  BY InitialLimits
<1>2. TypeOK /\ LimitsKept /\ [Next]_vars => LimitsKept'
  <2> SUFFICES ASSUME TypeOK, LimitsKept, [Next]_vars PROVE LimitsKept'
    OBVIOUS
  <2>1. CASE restart
    BY <2>1 DEF restart, LimitsKept, HandlersBounded, ResultsBounded, IdlePub, PubRunning
  <2>2. CASE UNCHANGED vars
    BY <2>2 DEF vars, LimitsKept, HandlersBounded, ResultsBounded
  <2> QED BY <2>1, <2>2, PublishLimits, TransferLimits DEF Next
<1> QED BY <1>1, <1>2, TypeCorrect, PTL DEF SafeSpec

(* While nothing expires, every committed result is complete: put_blob and *)
(* put_action_result between them never publish a result one of whose      *)
(* blobs its namespace cannot read, or whose tree is over the limits.      *)
THEOREM CommittedComplete == SafeSpec => []ResultsComplete
<1>1. TypeOK /\ CheckedStaysChecked /\ LimitsKept => ResultsComplete
  <2> SUFFICES ASSUME TypeOK, CheckedStaysChecked, LimitsKept PROVE ResultsComplete
    OBVIOUS
  <2>1. \A n \in Namespaces : Available(n) = rows[n]
    BY DEF CheckedStaysChecked, StorageOK, Available
  <2> QED BY <2>1 DEF CheckedStaysChecked, LimitsKept, ResultsHeld, ResultsComplete
<1> QED BY <1>1, TypeCorrect, Inductive, LimitsInductive, PTL

-----------------------------------------------------------------------------
(* The answers. *)

(* put_blob: what was acknowledged is registered. *)
UploadsKept ==
    \A u \in Uploaders :
        up[u].pc \in {"created", "exists"} =>
            up[u].ns \in Namespaces /\ up[u].digest \in rows[up[u].ns]

(* put_action_result: an answer is about the entry the store keeps, and a  *)
(* handler that lost the race for an entry finds that entry when it looks. *)
AnswerOK(r, kept) ==
    /\ r.pc \in {"created", "exists", "conflict"} => r.ns \in Namespaces /\ r.result \in Results
    /\ r.pc \in {"created", "exists"} => kept = r.result
    /\ r.pc = "conflict" => kept # None /\ kept # r.result
    /\ r.pc = "compare" => kept # None

PublishedKept ==
    \A p \in Publishers : AnswerOK(pub[p], results[pub[p].ns][pub[p].result.action])

(* The inductive invariant: no answer is taken back. *)
AnswersKept == UploadsKept /\ PublishedKept /\ ServedBytesMatch

(* Entries only appear: then an answer about one stays true. *)
LEMMA AnswerStays ==
    ASSUME TypeOK, PublishedKept, NEW q \in Publishers, pub'[q] = pub[q],
           \A n \in Namespaces, a \in Digests :
                results[n][a] # None => results'[n][a] = results[n][a]
    PROVE  AnswerOK(pub[q], results[pub[q].ns][pub[q].result.action])'
<1>1. AnswerOK(pub[q], results[pub[q].ns][pub[q].result.action])
  BY DEF PublishedKept
<1>2. pub[q].pc \in {"created", "exists", "conflict", "compare"} =>
        pub[q].ns \in Namespaces /\ pub[q].result \in Results
  BY <1>1 DEF AnswerOK, TypeOK, PubOK, PubTyped, PubRunning
<1>3. CASE pub[q].pc \in {"created", "exists", "conflict", "compare"}
  <2>1. pub[q].result.action \in Digests /\ pub[q].result # None
    BY <1>2, <1>3, OptionAssumption DEF Results
  <2>2. results[pub[q].ns][pub[q].result.action] # None
    BY <1>1, <1>3, <2>1 DEF AnswerOK
  <2> QED BY <1>1, <1>2, <1>3, <2>1, <2>2 DEF AnswerOK
<1>4. CASE pub[q].pc \notin {"created", "exists", "conflict", "compare"}
  BY <1>4 DEF AnswerOK
<1> QED BY <1>3, <1>4

(* One publication moved, and its own answer is true. *)
LEMMA OneAnswer ==
    ASSUME TypeOK, PublishedKept, NEW p \in Publishers,
           pub' = [pub EXCEPT ![p] = pub'[p]],
           \A n \in Namespaces, a \in Digests :
                results[n][a] # None => results'[n][a] = results[n][a],
           AnswerOK(pub[p], results[pub[p].ns][pub[p].result.action])'
    PROVE  PublishedKept'
<1>1. ASSUME NEW q \in Publishers
      PROVE  AnswerOK(pub[q], results[pub[q].ns][pub[q].result.action])'
  <2>1. CASE q = p
    BY <2>1
  <2>2. CASE q # p
    <3>1. pub'[q] = pub[q]
      BY <2>2 DEF TypeOK, PubOK
    <3> QED BY <3>1, AnswerStays
  <2> QED BY <2>1, <2>2
<1> QED BY <1>1 DEF PublishedKept

(* Every step of put_action_result keeps every answer. *)
LEMMA PublishAnswers ==
    ASSUME TypeOK, PublishedKept, NEW p \in Publishers,
           \/ \E n \in Namespaces, result \in Submissions : put_action_result(p, n, result)
           \/ PublishStep(p)
           \/ publish_fails(p) \/ insert_unheard(p)
    PROVE  PublishedKept'
<1> DEFINE r == pub[p]
<1>0. PubOK /\ StoresOK /\ r \in PubRecords /\ PubTyped(r, walk[p])
  BY DEF TypeOK, PubOK
<1>1. ASSUME UNCHANGED results, pub' = [pub EXCEPT ![p] = pub'[p]],
             pub'[p].pc \notin {"created", "exists", "conflict", "compare"}
      PROVE  PublishedKept'
  BY <1>1, OneAnswer DEF AnswerOK
<1>2. ASSUME NEW outcome \in PubSettled, Settle(p, outcome)
      PROVE  /\ pub' = [pub EXCEPT ![p] = pub'[p]]
             /\ pub'[p].pc = outcome /\ pub'[p].ns = r.ns /\ pub'[p].result = r.result
  <2>1. /\ pub' = [pub EXCEPT ![p] = pub'[p]]
        /\ pub'[p] = [r EXCEPT !.pc = outcome, !.kind = None, !.need = <<>>]
    BY <1>0, <1>2 DEF Settle, PubOK
  <2> QED BY <1>0, <2>1 DEF PubRecords
<1>3. CASE Reject(p)
  BY <1>1, <1>2, <1>3 DEF Reject, PubSettled, stores
<1>4. ASSUME NEW n \in Namespaces, NEW result \in Submissions, put_action_result(p, n, result)
      PROVE  PublishedKept'
  <2>1. pub' = [pub EXCEPT ![p] = pub'[p]] /\ pub'[p].pc = "descriptor"
    BY <1>0, <1>4 DEF put_action_result, PubOK, IdlePub
  <2> QED BY <1>1, <1>4, <2>1 DEF put_action_result, stores
<1>5. ASSUME Abandon(p) PROVE pub' = [pub EXCEPT ![p] = pub'[p]] /\ pub'[p].pc = "failed"
  BY <1>0, <1>5 DEF Abandon, PubOK, IdlePub
<1>6. CASE Validate(p) /\ ~Reject(p)
  <2>1. UNCHANGED results
    BY <1>6 DEF Validate, descriptor_visible, descriptor_get, metadata_visible,
                metadata_get, require_blob, outputs_present, skip_visit, enter_directory,
                directory_get, leave_directory, LookUp, stores
  <2>2. pub' = [pub EXCEPT ![p] = pub'[p]]
    BY <1>0, <1>6 DEF Validate, descriptor_visible, descriptor_get, metadata_visible,
                metadata_get, require_blob, outputs_present, skip_visit, enter_directory,
                directory_get, leave_directory, LookUp, Goto, PubOK
  <2>3. pub'[p].pc \in {"descriptorGet", "tree", "metadata", "metadataGet", "outputs", "files",
                        "directoryGet"}
    BY <1>0, <1>6 DEF Validate, descriptor_visible, descriptor_get, metadata_visible,
                metadata_get, require_blob, outputs_present, skip_visit, enter_directory,
                directory_get, leave_directory, LookUp, Goto, PubOK, PubRecords
  <2> QED BY <1>1, <2>1, <2>2, <2>3
<1>7. ASSUME r.pc \in PubRunning
      PROVE  /\ r.ns \in Namespaces /\ r.result \in Results
             /\ r.result.action \in Digests /\ r.result # None
  BY <1>0, <1>7, OptionAssumption DEF PubTyped, Results
<1>8. ASSUME Insert(p), Stored(p) = None, r.pc \in PubRunning
      PROVE  /\ results'[r.ns][r.result.action] = r.result
             /\ \A n \in Namespaces, a \in Digests :
                    results[n][a] # None => results'[n][a] = results[n][a]
  BY <1>0, <1>7, <1>8 DEF Insert, Stored, StoresOK
<1>9. ASSUME NEW outcome \in PubSettled, Settle(p, outcome), UNCHANGED results,
             r.pc \in PubRunning, outcome # "created",
             outcome = "exists" => Stored(p) = r.result,
             outcome = "conflict" => Stored(p) # None /\ Stored(p) # r.result
      PROVE  PublishedKept'
  <2>1. /\ pub' = [pub EXCEPT ![p] = pub'[p]]
        /\ pub'[p].pc = outcome /\ pub'[p].ns = r.ns /\ pub'[p].result = r.result
    BY <1>2, <1>9
  <2>2. AnswerOK(pub[p], results[pub[p].ns][pub[p].result.action])'
    BY <1>7, <1>9, <2>1 DEF AnswerOK, Stored, PubSettled
  <2> QED BY <1>9, <2>1, <2>2, OneAnswer
<1>10. ASSUME Insert(p), Settle(p, "created"), Stored(p) = None, r.pc \in PubRunning
       PROVE  PublishedKept'
  <2>1. /\ pub' = [pub EXCEPT ![p] = pub'[p]]
        /\ pub'[p].pc = "created" /\ pub'[p].ns = r.ns /\ pub'[p].result = r.result
    BY <1>2, <1>10 DEF PubSettled
  <2>2. AnswerOK(pub[p], results[pub[p].ns][pub[p].result.action])'
    BY <1>7, <1>8, <1>10, <2>1 DEF AnswerOK
  <2> QED BY <1>8, <1>10, <2>1, <2>2, OneAnswer
<1>11. CASE memory_commit(p)
  BY <1>9, <1>10, <1>11 DEF memory_commit, Validated, PubRunning, PubSettled
<1>12. CASE postgres_insert(p)
  <2>1. CASE Stored(p) = None
    BY <1>10, <1>12, <2>1 DEF postgres_insert, Validated, PubRunning
  <2>2. CASE Stored(p) # None
    <3>1. /\ pub' = [pub EXCEPT ![p] = pub'[p]] /\ UNCHANGED results
          /\ pub'[p] = [r EXCEPT !.pc = "compare"]
      BY <1>0, <1>12, <2>2 DEF postgres_insert, Goto, PubOK
    <3>2. pub'[p].pc = "compare" /\ pub'[p].ns = r.ns /\ pub'[p].result = r.result
      BY <1>0, <3>1 DEF PubRecords
    <3>3. AnswerOK(pub[p], results[pub[p].ns][pub[p].result.action])'
      BY <2>2, <3>1, <3>2 DEF AnswerOK, Stored
    <3> QED BY <3>1, <3>3, OneAnswer
  <2> QED BY <2>1, <2>2
<1>13. CASE postgres_compare(p)
  BY <1>9, <1>13 DEF postgres_compare, PubRunning, PubSettled, stores
<1>14. CASE publish_fails(p)
  BY <1>1, <1>5, <1>14 DEF publish_fails, stores
<1>15. CASE insert_unheard(p)
  <2>1. AnswerOK(pub[p], results[pub[p].ns][pub[p].result.action])'
    BY <1>5, <1>15 DEF insert_unheard, AnswerOK
  <2> QED BY <1>5, <1>8, <1>15, <2>1, OneAnswer DEF insert_unheard, Validated, PubRunning
<1> QED BY <1>3, <1>4, <1>6, <1>11, <1>12, <1>13, <1>14, <1>15 DEF PublishStep, Commit

(* An acknowledged upload is registered, and nothing unregisters it. *)
LEMMA UploadAnswers ==
    ASSUME TypeOK, UploadsKept, NEW u \in Uploaders,
           \/ \E n \in Namespaces, d, bytes \in Digests : put_blob(u, n, d, bytes)
           \/ UploadStep(u)
           \/ upload_fails(u) \/ register_unheard(u)
    PROVE  UploadsKept'
<1>0. UpOK /\ StoresOK
  BY DEF TypeOK
<1>1. ASSUME up' = [up EXCEPT ![u] = up'[u]], UNCHANGED rows,
             up'[u].pc \notin {"created", "exists"}
      PROVE  UploadsKept'
  <2>1. \A v \in Uploaders \ {u} : up'[v] = up[v]
    BY <1>0, <1>1 DEF UpOK
  <2> QED BY <1>1, <2>1 DEF UploadsKept
<1>2. ASSUME NEW n \in Namespaces, NEW d \in Digests, NEW bytes \in Digests,
             put_blob(u, n, d, bytes)
      PROVE  UploadsKept'
  BY <1>0, <1>1, <1>2 DEF put_blob, UpOK, IdleUp, stores
<1>3. CASE blobs_put(u) \/ persist_noclobber(u)
  <2>1. up' = [up EXCEPT ![u] = up'[u]] /\ up'[u].pc \in {"persist", "register"}
    BY <1>0, <1>3 DEF blobs_put, persist_noclobber, UpOK, UpRecords
  <2> QED BY <1>1, <1>3, <2>1 DEF blobs_put, persist_noclobber, stores
<1>4. ASSUME up[u].pc = "register", Register(u)
      PROVE  /\ up[u].ns \in Namespaces /\ up[u].digest \in rows'[up[u].ns]
             /\ \A n \in Namespaces : rows[n] \subseteq rows'[n]
  BY <1>0, <1>4 DEF Register, UpOK, UpRunning, StoresOK
<1>5. CASE register_blob(u)
  <2>1. /\ up'[u].ns = up[u].ns /\ up'[u].digest = up[u].digest
        /\ \A v \in Uploaders \ {u} : up'[v] = up[v]
    BY <1>0, <1>5 DEF register_blob, UpOK, UpRecords
  <2> QED BY <1>4, <1>5, <2>1 DEF register_blob, UploadsKept
<1>6. CASE register_unheard(u)
  <2>1. up'[u].pc = "failed" /\ \A v \in Uploaders \ {u} : up'[v] = up[v]
    BY <1>0, <1>6 DEF register_unheard, UpOK, IdleUp
  <2> QED BY <1>4, <1>6, <2>1 DEF register_unheard, UploadsKept
<1>7. CASE upload_fails(u)
  BY <1>0, <1>1, <1>7 DEF upload_fails, UpOK, IdleUp, stores
<1> QED BY <1>2, <1>3, <1>5, <1>6, <1>7 DEF UploadStep

(* get_blob hands out what it finds, and finds only what was verified. *)
LEMMA ReadAnswers ==
    ASSUME TypeOK, \A d \in Digests : objects[d] \in {d, None},
           ServedBytesMatch, NEW g \in Readers,
           \/ \E n \in Namespaces, d \in Digests : get_blob(g, n, d)
           \/ ReadStep(g)
           \/ read_fails(g)
    PROVE  ServedBytesMatch'
<1>0. ReadOK /\ StoresOK
  BY DEF TypeOK
<1>1. ASSUME NEW n \in Namespaces, NEW d \in Digests, get_blob(g, n, d)
      PROVE  ServedBytesMatch'
  BY <1>0, <1>1 DEF get_blob, ReadOK, ServedBytesMatch
<1>2. CASE record_blob_access(g)
  BY <1>0, <1>2 DEF record_blob_access, ReadOK, ServedBytesMatch
<1>3. CASE blobs_get(g)
  <2>1. /\ read[g].digest \in Digests
        /\ objects[read[g].digest] \in {read[g].digest, None}
    BY <1>0, <1>3 DEF blobs_get, ReadOK, ReadRunning
  <2>2. /\ read'[g].digest = read[g].digest /\ read'[g].bytes = objects[read[g].digest]
        /\ read'[g].pc = "served" => objects[read[g].digest] # None
        /\ \A h \in Readers \ {g} : read'[h] = read[h]
    BY <1>0, <1>3 DEF blobs_get, ReadOK
  <2> QED BY <2>1, <2>2 DEF ServedBytesMatch
<1>4. CASE read_fails(g)
  BY <1>0, <1>4 DEF read_fails, ReadOK, IdleRead, ServedBytesMatch
<1> QED BY <1>1, <1>2, <1>3, <1>4 DEF ReadStep

(* AnswersKept is an invariant: no interleaving of handlers, no failure    *)
(* and no restart makes an answer wrong that a client was given.           *)
THEOREM AnswersInductive == SafeSpec => []AnswersKept
<1>1. Init => AnswersKept
  BY DEF Init, AnswersKept, UploadsKept, PublishedKept, AnswerOK, ServedBytesMatch,
         IdlePub, IdleUp, IdleRead
<1>2. TypeOK /\ CheckedStaysChecked /\ AnswersKept /\ [Next]_vars => AnswersKept'
  <2> SUFFICES ASSUME TypeOK, StorageOK, UploadsKept, PublishedKept, ServedBytesMatch,
                      [Next]_vars
               PROVE  AnswersKept'
    BY DEF AnswersKept, CheckedStaysChecked
  <2>1. ASSUME UNCHANGED read PROVE ServedBytesMatch'
    BY <2>1 DEF ServedBytesMatch
  <2>2. ASSUME UNCHANGED <<rows, up>> PROVE UploadsKept'
    BY <2>2 DEF UploadsKept
  <2>3. ASSUME UNCHANGED <<results, pub>> PROVE PublishedKept'
    BY <2>3 DEF PublishedKept, AnswerOK
  <2>4. CASE UNCHANGED vars
    BY <2>1, <2>2, <2>3, <2>4 DEF vars, AnswersKept
  <2>5. CASE restart
    BY <2>5 DEF restart, AnswersKept, UploadsKept, PublishedKept, AnswerOK,
                ServedBytesMatch, IdlePub, IdleUp, IdleRead
  <2>6. ASSUME NEW p \in Publishers,
               \/ \E n \in Namespaces, result \in Submissions : put_action_result(p, n, result)
               \/ PublishStep(p)
               \/ publish_fails(p) \/ insert_unheard(p)
        PROVE  AnswersKept'
    <3>1. UNCHANGED <<rows, up, read>>
      BY <2>6 DEF put_action_result, PublishStep, publish_fails, insert_unheard, Validate,
                  descriptor_visible, descriptor_get, metadata_visible, metadata_get, require_blob,
                  outputs_present, skip_visit, enter_directory, directory_get,
                  leave_directory, LookUp, Reject, Commit, memory_commit, postgres_insert,
                  postgres_compare, stores
    <3> QED BY <2>1, <2>2, <2>6, <3>1, PublishAnswers DEF AnswersKept
  <2>7. ASSUME NEW u \in Uploaders,
               \/ \E n \in Namespaces, d, bytes \in Digests : put_blob(u, n, d, bytes)
               \/ UploadStep(u)
               \/ upload_fails(u) \/ register_unheard(u)
        PROVE  AnswersKept'
    <3>1. UNCHANGED <<results, pub, read>>
      BY <2>7 DEF put_blob, UploadStep, blobs_put, persist_noclobber, register_blob,
                  upload_fails, register_unheard, stores
    <3> QED BY <2>1, <2>3, <2>7, <3>1, UploadAnswers DEF AnswersKept
  <2>8. ASSUME NEW g \in Readers,
               \/ \E n \in Namespaces, d \in Digests : get_blob(g, n, d)
               \/ ReadStep(g)
               \/ read_fails(g)
        PROVE  AnswersKept'
    <3>1. UNCHANGED <<stores, pub, up>>
      BY <2>8 DEF get_blob, ReadStep, record_blob_access, blobs_get, read_fails
    <3>2. \A d \in Digests : objects[d] \in {d, None}
      BY DEF StorageOK
    <3> QED BY <2>2, <2>3, <2>8, <3>1, <3>2, ReadAnswers DEF AnswersKept, stores
  <2> QED BY <2>4, <2>5, <2>6, <2>7, <2>8 DEF Next
<1> QED BY <1>1, <1>2, TypeCorrect, Inductive, PTL DEF SafeSpec

(* The status put_action_result answered agrees with the published entry   *)
(* for as long as the client can refer to it: 201 and 204 with this very   *)
(* result, 409 with another one.                                           *)
THEOREM PublicationsHonest == SafeSpec => []AnswersHold
<1>1. AnswersKept => AnswersHold
  BY DEF AnswersKept, PublishedKept, AnswerOK, AnswersHold
<1> QED BY <1>1, AnswersInductive, PTL

(* An upload put_blob acknowledged can be read in its namespace. *)
THEOREM UploadsReadable == SafeSpec => []AcknowledgedReadable
<1>1. TypeOK /\ CheckedStaysChecked /\ AnswersKept => AcknowledgedReadable
  <2> SUFFICES ASSUME StorageOK, UploadsKept PROVE AcknowledgedReadable
    BY DEF CheckedStaysChecked, AnswersKept
  <2> QED BY DEF StorageOK, UploadsKept, AcknowledgedReadable, Available
<1> QED BY <1>1, TypeCorrect, Inductive, AnswersInductive, PTL

(* Who was told that it created an object knows that the object is there:  *)
(* that is why nobody else can be told so, and the inductive part of       *)
(* CreatedOnce.                                                            *)
CreatorsStored ==
    \A u \in Uploaders : up[u].stored = "created" =>
        up[u].digest \in Digests /\ objects[up[u].digest] # None

(* Of uploads that meet at one digest, all of which may have found no      *)
(* object, one at most is told by BlobStore::put that it created it.       *)
THEOREM CreatorsApart == SafeSpec => []CreatedOnce
<1>1. Init => CreatorsStored /\ CreatedOnce
  BY NoneIsNoOutcome DEF Init, CreatorsStored, CreatedOnce, IdleUp
<1>2. TypeOK /\ CreatorsStored /\ CreatedOnce /\ [Next]_vars => (CreatorsStored /\ CreatedOnce)'
  <2> SUFFICES ASSUME StoresOK, UpOK, CreatorsStored, CreatedOnce, [Next]_vars
               PROVE  (CreatorsStored /\ CreatedOnce)'
    BY DEF TypeOK
  <2>1. ASSUME UNCHANGED <<objects, up>> PROVE (CreatorsStored /\ CreatedOnce)'
    BY <2>1 DEF CreatorsStored, CreatedOnce
  <2>2. CASE restart
    BY <2>2, NoneIsNoOutcome DEF restart, CreatorsStored, CreatedOnce, IdleUp
  <2>3. ASSUME NEW u \in Uploaders, UNCHANGED objects,
               \A v \in Uploaders \ {u} : up'[v] = up[v],
               up'[u].stored = "created" => up[u].stored = "created" /\ up'[u].digest = up[u].digest
        PROVE  (CreatorsStored /\ CreatedOnce)'
    BY <2>3 DEF CreatorsStored, CreatedOnce
  <2>4. ASSUME NEW u \in Uploaders, persist_noclobber(u)
        PROVE  (CreatorsStored /\ CreatedOnce)'
    <3>1. /\ up[u].digest \in Digests /\ up[u].bytes \in Digests
          /\ up'[u].digest = up[u].digest
          /\ \A v \in Uploaders \ {u} : up'[v] = up[v]
      BY <2>4 DEF persist_noclobber, UpOK, UpRecords, UpRunning
    <3>2. CASE objects[up[u].digest] = None
      <4>1. /\ objects'[up[u].digest] # None
            /\ \A d \in Digests : objects[d] # None => objects'[d] # None
        BY <2>4, <3>1, <3>2, NoneAssumption DEF persist_noclobber, Write, StoresOK
      <4>2. \A v \in Uploaders \ {u} : up[v].stored = "created" => up[v].digest # up[u].digest
        BY <3>2 DEF CreatorsStored
      <4> QED BY <3>1, <4>1, <4>2 DEF CreatorsStored, CreatedOnce
    <3>3. CASE objects[up[u].digest] # None
      <4>1. UNCHANGED objects /\ up'[u].stored = "exists"
        BY <2>4, <3>3 DEF persist_noclobber, UpOK, UpRecords
      <4> QED BY <2>3, <3>1, <4>1
    <3> QED BY <3>2, <3>3
  <2>5. ASSUME NEW u \in Uploaders,
               \/ \E n \in Namespaces, d, bytes \in Digests : put_blob(u, n, d, bytes)
               \/ blobs_put(u) \/ register_blob(u) \/ upload_fails(u) \/ register_unheard(u)
        PROVE  (CreatorsStored /\ CreatedOnce)'
    <3>1. UNCHANGED objects
      BY <2>5 DEF put_blob, blobs_put, register_blob, upload_fails, register_unheard, stores
    <3>2. /\ \A v \in Uploaders \ {u} : up'[v] = up[v]
          /\ up'[u].stored = "created" =>
                up[u].stored = "created" /\ up'[u].digest = up[u].digest
      <4>1. ASSUME NEW n \in Namespaces, NEW d \in Digests, NEW bytes \in Digests,
                   put_blob(u, n, d, bytes)
            PROVE  up'[u].stored = None /\ \A v \in Uploaders \ {u} : up'[v] = up[v]
        BY <4>1 DEF put_blob, UpOK, IdleUp
      <4>2. CASE blobs_put(u)
        BY <4>2 DEF blobs_put, UpOK, UpRecords
      <4>3. CASE register_blob(u)
        BY <4>3 DEF register_blob, UpOK, UpRecords
      <4>4. CASE upload_fails(u) \/ register_unheard(u)
        BY <4>4, NoneIsNoOutcome DEF upload_fails, register_unheard, UpOK, IdleUp
      <4> QED BY <2>5, <4>1, <4>2, <4>3, <4>4, NoneIsNoOutcome
    <3> QED BY <2>3, <3>1, <3>2
  <2>6. ASSUME NEW p \in Publishers,
               \/ \E n \in Namespaces, result \in Submissions : put_action_result(p, n, result)
               \/ PublishStep(p)
               \/ publish_fails(p) \/ insert_unheard(p)
        PROVE  UNCHANGED <<objects, up>>
    BY <2>6 DEF put_action_result, PublishStep, publish_fails, insert_unheard, Validate,
                descriptor_visible, descriptor_get, metadata_visible, metadata_get,
                require_blob, outputs_present, skip_visit, enter_directory, directory_get,
                leave_directory, LookUp, Reject, Commit, memory_commit, postgres_insert,
                postgres_compare, stores
  <2>7. ASSUME NEW g \in Readers,
               \/ \E n \in Namespaces, d \in Digests : get_blob(g, n, d)
               \/ ReadStep(g)
               \/ read_fails(g)
        PROVE  UNCHANGED <<objects, up>>
    BY <2>7 DEF get_blob, ReadStep, record_blob_access, blobs_get, read_fails, stores
  <2> QED BY <2>1, <2>2, <2>4, <2>5, <2>6, <2>7 DEF Next, UploadStep, vars
<1> QED BY <1>1, <1>2, TypeCorrect, PTL DEF SafeSpec

(* A blob that missing_blobs reports as present, by its row alone, is in   *)
(* the object store.                                                       *)
THEOREM RowsHaveObjects == SafeSpec => []SkippedStored
<1>1. TypeOK /\ CheckedStaysChecked => SkippedStored
  <2> SUFFICES ASSUME StoresOK, StorageOK PROVE SkippedStored
    BY DEF TypeOK, CheckedStaysChecked
  <2> QED BY NoneAssumption DEF StoresOK, StorageOK, SkippedStored
<1> QED BY <1>1, TypeCorrect, Inductive, PTL

(* get_blob serves the bytes of the digest it was asked for, from stores   *)
(* whose objects are there whole or not at all.                            *)
THEOREM ReadsExact == SafeSpec => []ServedBytesMatch
<1>1. AnswersKept => ServedBytesMatch
  BY DEF AnswersKept
<1> QED BY <1>1, AnswersInductive, PTL

-----------------------------------------------------------------------------
(* The refinement: every step of a handler is a step of ActionCache, or    *)
(* changes nothing ActionCache speaks of.                                  *)

(* How a publication appears to ActionCache. *)
RequestOf(r) == IF r.pc \in PubRunning THEN [ns |-> r.ns, result |-> r.result] ELSE None
AnswerOf(r) == IF r.pc \in PubRunning THEN "idle" ELSE r.pc

(* A publication appears as a request exactly while it runs. *)
LEMMA RequestRuns ==
    ASSUME TypeOK, NEW p \in Publishers
    PROVE  RequestOf(pub[p]) # None <=> pub[p].pc \in PubRunning
<1>1. pub[p].pc \in PubRunning => pub[p].ns \in Namespaces /\ pub[p].result \in Results
  BY DEF TypeOK, PubOK, PubTyped
<1> QED BY <1>1, OptionAssumption DEF RequestOf

(* A publication that moves within its validation is not seen to move. *)
LEMMA StaysAsking ==
    ASSUME TypeOK, NEW p \in Publishers, UNCHANGED stores,
           pub' = [pub EXCEPT ![p] = pub'[p]],
           RequestOf(pub[p])' = RequestOf(pub[p]), AnswerOf(pub[p])' = AnswerOf(pub[p])
    PROVE  UNCHANGED Promise!avars
<1>1. \A q \in Publishers : /\ RequestOf(pub[q])' = RequestOf(pub[q])
                            /\ AnswerOf(pub[q])' = AnswerOf(pub[q])
  <2> TAKE q \in Publishers
  <2>1. CASE q = p
    BY <2>1
  <2>2. CASE q # p
    <3>1. pub'[q] = pub[q]
      BY <2>2 DEF TypeOK, PubOK
    <3> QED BY <3>1 DEF RequestOf, AnswerOf
  <2> QED BY <2>1, <2>2
<1> QED BY <1>1 DEF Promise!avars, RequestOf, AnswerOf, Available, stores

(* A publication that settles is seen to be answered. *)
LEMMA Replies ==
    ASSUME TypeOK, NEW p \in Publishers, NEW outcome \in PubSettled,
           pub' = [pub EXCEPT ![p] = pub'[p]], pub'[p].pc = outcome
    PROVE  Promise!Reply(p, outcome)
<1>1. RequestOf(pub'[p]) = None /\ AnswerOf(pub'[p]) = outcome
  BY DEF RequestOf, AnswerOf, PubSettled, PubRunning
<1>2. \A q \in Publishers \ {p} : pub'[q] = pub[q]
  BY DEF TypeOK, PubOK
<1> QED BY <1>1, <1>2 DEF Promise!Reply, RequestOf, AnswerOf

(* A handler that settles leaves with its outcome. *)
LEMMA Settles ==
    ASSUME TypeOK, NEW p \in Publishers, NEW outcome \in PubSettled, Settle(p, outcome)
    PROVE  pub' = [pub EXCEPT ![p] = pub'[p]] /\ pub'[p].pc = outcome
BY DEF Settle, TypeOK, PubOK, PubRecords

(* A new request is an Ask. *)
LEMMA Asks ==
    ASSUME TypeOK, NEW p \in Publishers, NEW n \in Namespaces, NEW result \in Submissions,
           put_action_result(p, n, result)
    PROVE  Promise!Ask(p, n, result)
<1>1. pub[p].pc \notin PubRunning /\ UNCHANGED results
  BY DEF put_action_result, PubSettled, PubRunning, stores
<1>2. pub'[p].pc \in PubRunning /\ pub'[p].ns = n /\ pub'[p].result = result
  BY DEF put_action_result, TypeOK, PubOK, IdlePub, PubRunning
<1>3. \A q \in Publishers \ {p} : pub'[q] = pub[q]
  BY DEF put_action_result, TypeOK, PubOK
<1>4. /\ RequestOf(pub[p]) = None
      /\ RequestOf(pub'[p]) = [ns |-> n, result |-> result]
      /\ AnswerOf(pub'[p]) = "idle"
  BY <1>1, <1>2 DEF RequestOf, AnswerOf
<1> QED BY <1>1, <1>3, <1>4 DEF Promise!Ask, RequestOf, AnswerOf

(* A refusal, and any failure, declines. *)
LEMMA Declines ==
    ASSUME TypeOK, NEW p \in Publishers, pub[p].pc \in PubRunning, UNCHANGED results,
           NEW outcome \in {"rejected", "failed"},
           pub' = [pub EXCEPT ![p] = pub'[p]], pub'[p].pc = outcome
    PROVE  Promise!Decline(p)
<1>1. Promise!Reply(p, outcome)
  BY Replies DEF PubSettled
<1>2. RequestOf(pub[p]) # None
  BY RequestRuns
<1> QED BY <1>1, <1>2 DEF Promise!Decline, RequestOf

(* Validation asks, refuses, or is not seen. *)
LEMMA Validates ==
    ASSUME TypeOK, NEW p \in Publishers, Validate(p)
    PROVE  Promise!Decline(p) \/ UNCHANGED Promise!avars
<1> DEFINE r == pub[p]
<1>0. PubOK /\ r \in PubRecords /\ r.pc \in PubRunning /\ UNCHANGED stores
  BY DEF TypeOK, PubOK, Validate, descriptor_visible, descriptor_get, metadata_visible,
         metadata_get, require_blob, outputs_present, skip_visit, enter_directory,
         directory_get, leave_directory, LookUp, Reject, PubRunning
<1>1. CASE Reject(p)
  <2>1. pub' = [pub EXCEPT ![p] = pub'[p]] /\ pub'[p].pc = "rejected"
    BY <1>1, Settles DEF Reject, PubSettled
  <2> QED BY <1>0, <2>1, Declines DEF stores
<1>2. CASE ~Reject(p)
  <2>1. pub' = [pub EXCEPT ![p] = pub'[p]]
    BY <1>0, <1>2 DEF Validate, descriptor_visible, descriptor_get, metadata_visible,
                metadata_get, require_blob, outputs_present, skip_visit, enter_directory,
                directory_get, leave_directory, LookUp, Goto, PubOK
  <2>2. /\ pub'[p].pc \in {"descriptorGet", "tree", "metadata", "metadataGet", "outputs",
                           "files", "directoryGet"}
        /\ pub'[p].ns = r.ns /\ pub'[p].result = r.result
    BY <1>0, <1>2 DEF Validate, descriptor_visible, descriptor_get, metadata_visible,
                metadata_get, require_blob, outputs_present, skip_visit, enter_directory,
                directory_get, leave_directory, LookUp, Goto, PubOK, PubRecords
  <2>3. RequestOf(pub[p])' = RequestOf(pub[p]) /\ AnswerOf(pub[p])' = AnswerOf(pub[p])
    BY <1>0, <2>2 DEF RequestOf, AnswerOf, PubRunning
  <2> QED BY <1>0, <2>1, <2>3, StaysAsking
<1> QED BY <1>1, <1>2

(* A commit decides in one step: at the insert, or at the look that        *)
(* follows a conflict.                                                     *)
LEMMA Decides ==
    ASSUME TypeOK, NEW p \in Publishers, Commit(p) \/ insert_unheard(p)
    PROVE  \/ Promise!Decide(p) /\ (Validated(p) \/ pub[p].pc = "compare")
           \/ Promise!Decline(p)
           \/ UNCHANGED Promise!avars
<1> DEFINE r == pub[p]
<1>0. PubOK /\ StoresOK /\ r \in PubRecords /\ r.pc \in PubRunning
  BY DEF TypeOK, PubOK, Commit, memory_commit, postgres_insert, postgres_compare,
         insert_unheard, Validated, PubRunning
<1>1. /\ r.ns \in Namespaces /\ r.result \in Results
      /\ r.result.action \in Digests /\ r.result # None
  BY <1>0, OptionAssumption DEF PubOK, PubTyped, Results
<1>2. RequestOf(r) = [ns |-> r.ns, result |-> r.result] /\ RequestOf(r) # None
  BY <1>0, RequestRuns DEF RequestOf
<1>3. ASSUME Insert(p), Stored(p) = None, NEW told \in {"created", "failed"},
             pub' = [pub EXCEPT ![p] = pub'[p]], pub'[p].pc = told
      PROVE  Promise!Decide(p)
  <2>1. Promise!Reply(p, told)
    BY <1>3, Replies DEF PubSettled
  <2> QED BY <1>2, <1>3, <2>1 DEF Promise!Decide, Insert, Stored, RequestOf
<1>4. ASSUME NEW outcome \in {"exists", "conflict"}, Settle(p, outcome), UNCHANGED results,
             outcome = "exists" => Stored(p) = r.result,
             outcome = "conflict" => Stored(p) \notin {None, r.result}
      PROVE  Promise!Decide(p)
  <2>1. Promise!Reply(p, outcome)
    BY <1>4, Replies, Settles DEF PubSettled
  <2> QED BY <1>2, <1>4, <2>1 DEF Promise!Decide, Stored, RequestOf
<1>5. CASE memory_commit(p)
  BY <1>3, <1>4, <1>5, Settles DEF memory_commit, PubSettled
<1>6. CASE postgres_insert(p)
  <2>1. CASE Stored(p) = None
    BY <1>3, <1>6, <2>1, Settles DEF postgres_insert, PubSettled
  <2>2. CASE Stored(p) # None
    <3>1. /\ pub' = [pub EXCEPT ![p] = pub'[p]] /\ UNCHANGED stores
          /\ pub'[p].pc = "compare" /\ pub'[p].ns = r.ns /\ pub'[p].result = r.result
      BY <1>0, <1>6, <2>2 DEF postgres_insert, Goto, PubOK, PubRecords, stores
    <3>2. RequestOf(pub[p])' = RequestOf(pub[p]) /\ AnswerOf(pub[p])' = AnswerOf(pub[p])
      BY <1>0, <3>1 DEF RequestOf, AnswerOf, PubRunning
    <3> QED BY <3>1, <3>2, StaysAsking
  <2> QED BY <2>1, <2>2
<1>7. CASE postgres_compare(p)
  <2> DEFINE outcome == CASE Stored(p) = None -> "failed"
                          [] Stored(p) = pub[p].result -> "exists"
                          [] OTHER -> "conflict"
  <2>0. Settle(p, outcome) /\ UNCHANGED results
    BY <1>7 DEF postgres_compare, stores
  <2>1. CASE Stored(p) = None
    <3>1. outcome = "failed"
      BY <1>1, <2>1
    <3> HIDE DEF outcome
    <3> QED BY <1>0, <2>0, <3>1, Settles, Declines DEF PubSettled
  <2>2. CASE Stored(p) # None
    BY <1>4, <1>7, <2>2 DEF postgres_compare, stores
  <2> QED BY <2>1, <2>2
<1>8. CASE insert_unheard(p)
  <2>1. pub' = [pub EXCEPT ![p] = pub'[p]] /\ pub'[p].pc = "failed"
    BY <1>0, <1>8 DEF insert_unheard, Abandon, PubOK, IdlePub
  <2> QED BY <1>3, <1>8, <2>1 DEF insert_unheard
<1> QED BY <1>5, <1>6, <1>7, <1>8
           DEF Commit, memory_commit, postgres_insert, postgres_compare, insert_unheard

(* An upload is a Hold of what it registers, and otherwise is not seen: an *)
(* object counts for a namespace when its row is there.                    *)
LEMMA Uploads ==
    ASSUME TypeOK, StorageOK, NEW u \in Uploaders,
           \/ \E n \in Namespaces, d, bytes \in Digests : put_blob(u, n, d, bytes)
           \/ UploadStep(u)
           \/ upload_fails(u) \/ register_unheard(u)
    PROVE  \/ \E n \in Namespaces, d \in Digests : Promise!Hold(n, d)
           \/ UNCHANGED Promise!avars
<1>0. UpOK /\ StoresOK
  BY DEF TypeOK
<1>1. ASSUME NEW n \in Namespaces, NEW d \in Digests, NEW bytes \in Digests,
             put_blob(u, n, d, bytes)
      PROVE  UNCHANGED Promise!avars
  BY <1>1 DEF put_blob, stores, Available, Promise!avars
<1>2. CASE blobs_put(u) \/ persist_noclobber(u)
  <2>1. /\ UNCHANGED <<rows, results, pub>>
        /\ \A d \in Digests : objects'[d] # objects[d] => objects[d] = None
    BY <1>0, <1>2 DEF blobs_put, persist_noclobber, Write, stores, StoresOK
  <2>2. \A n \in Namespaces : rows[n] \subseteq Digests
    BY <1>0 DEF StoresOK
  <2>3. \A n \in Namespaces : \A d \in rows[n] : objects[d] = d /\ objects'[d] = d
    BY <2>1, <2>2, NoneAssumption DEF StorageOK
  <2>4. \A n \in Namespaces : Available(n)' = Available(n)
    BY <2>1, <2>3 DEF Available
  <2> QED BY <2>1, <2>4 DEF Promise!avars
<1>3. CASE register_blob(u) \/ register_unheard(u)
  <2>0. /\ up[u].ns \in Namespaces /\ up[u].digest \in Digests
        /\ objects[up[u].digest] = up[u].digest
    BY <1>0, <1>3 DEF register_blob, register_unheard, UpOK, UpRunning, StorageOK
  <2>1. PICK n \in Namespaces, d \in Digests :
            n = up[u].ns /\ d = up[u].digest /\ objects[d] = d
    BY <2>0
  <2>2. rows' = [rows EXCEPT ![n] = @ \cup {d}] /\ UNCHANGED <<objects, results, pub>>
    BY <1>3, <2>1 DEF register_blob, register_unheard, Register
  <2>3. /\ Available(n)' = Available(n) \cup {d}
        /\ \A m \in Namespaces \ {n} : Available(m)' = Available(m)
    BY <1>0, <2>1, <2>2 DEF Available, StoresOK
  <2>4. Promise!Hold(n, d)
    BY <2>1, <2>2, <2>3 DEF Promise!Hold, Promise!cvars
  <2> QED BY <2>1, <2>4
<1>4. CASE upload_fails(u)
  BY <1>4 DEF upload_fails, stores, Available, Promise!avars
<1> QED BY <1>1, <1>2, <1>3, <1>4 DEF UploadStep

(* ActionCache and the service mean the same by a complete result. *)
LEMMA CompleteAlike ==
    ASSUME NEW result, NEW S
    PROVE  Promise!Complete(result, S) <=> Complete(result, S)
BY DEF Promise!Complete, Promise!IsDescriptor, Promise!HasShape, Promise!MetadataComplete,
       Promise!IsMetadataOf, Promise!TreeComplete, Promise!ClosedTree, Promise!IsDirectory,
       Promise!Items, Promise!Kinds, Promise!ActionVersion, Promise!ActionDefects,
       Promise!TaskAction, Promise!RustcAction, Promise!CcAction, Promise!BuildScriptAction,
       Promise!MetadataDefects,
       Complete, IsDescriptor, HasShape, MetadataComplete, IsMetadataOf, TreeComplete,
       ClosedTree, IsDirectory, Items, Kinds, ActionVersion, ActionDefects,
       TaskAction, RustcAction, CcAction, BuildScriptAction, MetadataDefects

(* The handlers of the service, their interleavings and failures included, *)
(* and the service's restarts, implement the write-once action cache that  *)
(* only takes complete results.  An INSERT whose answer was lost is a      *)
(* decision of which the client is told that it failed.                    *)
THEOREM ImplementsActionCache == SafeSpec => KeepsPromise
<1> DEFINE Held == [n \in Namespaces |-> Available(n)]
<1>1. Init => Promise!Start /\ Held = Promise!NothingHeld
  <2> SUFFICES ASSUME Init PROVE Promise!Start /\ Held = Promise!NothingHeld
    OBVIOUS
  <2>1. Promise!Start
    BY DEF Init, IdlePub, PubRunning, Promise!Start, Promise!Empty
  <2>2. Held = Promise!NothingHeld
    BY DEF Init, Available, Promise!NothingHeld
  <2> QED BY <2>1, <2>2
<1>2. TypeOK /\ CheckedStaysChecked /\ [Next]_vars => [Promise!Next]_(Promise!avars)
  <2> SUFFICES ASSUME TypeOK, StorageOK, HandlersOK, [Next]_vars
               PROVE  Promise!Next \/ UNCHANGED Promise!avars
    BY DEF CheckedStaysChecked
  <2>1. CASE UNCHANGED vars
    BY <2>1 DEF vars, Promise!avars, Available
  <2>2. CASE restart
    <3>1. Promise!Forget
      BY <2>2 DEF restart, IdlePub, PubRunning, Promise!Forget
    <3>2. CASE UNCHANGED <<rows, results>>
      <4>1. UNCHANGED results /\ Held' = Held
        BY <2>2, <3>2 DEF restart, Available
      <4> QED BY <3>1, <4>1 DEF Promise!Next
    <3>3. CASE ~ UNCHANGED <<rows, results>>
      <4>1. results' = Promise!Empty /\ Held' = Promise!NothingHeld
        BY <2>2, <3>3 DEF restart, Available, Promise!Empty, Promise!NothingHeld
      <4> QED BY <3>1, <4>1 DEF Promise!Next
    <3> QED BY <3>2, <3>3
  <2>3. ASSUME NEW p \in Publishers, NEW n \in Namespaces, NEW result \in Submissions,
               put_action_result(p, n, result)
        PROVE  Promise!Next
    <3>1. Held' = Held
      BY <2>3 DEF put_action_result, stores, Available
    <3>2. Promise!Ask(p, n, result)
      BY <2>3, Asks
    <3> QED BY <3>1, <3>2 DEF Promise!Next
  <2>4. ASSUME NEW p \in Publishers, Promise!Decline(p), UNCHANGED <<objects, rows>>
        PROVE  Promise!Next
    <3>1. Held' = Held
      BY <2>4 DEF Available
    <3> QED BY <2>4, <3>1 DEF Promise!Next
  <2>5. ASSUME NEW p \in Publishers, Validate(p)
        PROVE  Promise!Next \/ UNCHANGED Promise!avars
    <3>1. UNCHANGED <<objects, rows>>
      BY <2>5 DEF Validate, descriptor_visible, descriptor_get, metadata_visible,
                  metadata_get, require_blob, outputs_present, skip_visit, enter_directory,
                  directory_get, leave_directory, LookUp, Reject, stores
    <3> QED BY <2>4, <2>5, <3>1, Validates
  <2>6. ASSUME NEW p \in Publishers, Commit(p) \/ insert_unheard(p)
        PROVE  Promise!Next \/ UNCHANGED Promise!avars
    <3>1. UNCHANGED <<objects, rows>>
      BY <2>6 DEF Commit, memory_commit, postgres_insert, postgres_compare,
                  insert_unheard, stores
    <3>2. ASSUME Promise!Decide(p), Validated(p) \/ pub[p].pc = "compare"
          PROVE  Promise!Next
      <4>1. /\ pub[p] \in PubRecords /\ walk[p] \in Walks
            /\ pub[p].pc \in {"tree", "compare"} /\ pub[p].pc \in PubRunning
        BY <3>2 DEF TypeOK, PubOK, Validated, PubRunning
      <4>2. /\ pub[p].ns \in Namespaces /\ pub[p].result \in Results
            /\ HandlerOK(pub[p], walk[p], rows[pub[p].ns])
        BY <4>1 DEF TypeOK, PubOK, PubTyped, HandlersOK
      <4>3. walk[p].pending = <<>>
        BY <3>2, <4>2 DEF HandlerOK, Validated
      <4>4. Complete(pub[p].result, rows[pub[p].ns])
        BY <4>1, <4>2, <4>3, ValidatedComplete
      <4>5. Available(pub[p].ns) = rows[pub[p].ns]
        BY <4>2 DEF StorageOK, Available
      <4>6. Promise!Whole(p)
        BY <4>1, <4>2, <4>4, <4>5, CompleteAlike DEF Promise!Whole
      <4>7. Held' = Held
        BY <3>1 DEF Available
      <4> QED BY <3>2, <4>6, <4>7 DEF Promise!Next
    <3> QED BY <2>4, <2>6, <3>1, <3>2, Decides
  <2>7. ASSUME NEW p \in Publishers, publish_fails(p)
        PROVE  Promise!Next
    <3>1. /\ pub' = [pub EXCEPT ![p] = pub'[p]] /\ pub'[p].pc = "failed"
          /\ UNCHANGED stores /\ pub[p].pc \in PubRunning
      BY <2>7 DEF publish_fails, Abandon, TypeOK, PubOK, IdlePub
    <3> QED BY <2>4, <3>1, Declines DEF stores
  <2>8. ASSUME NEW g \in Readers,
               \/ \E n \in Namespaces, d \in Digests : get_blob(g, n, d)
               \/ ReadStep(g)
               \/ read_fails(g)
        PROVE  UNCHANGED Promise!avars
    <3>1. UNCHANGED <<stores, pub>>
      BY <2>8 DEF get_blob, ReadStep, record_blob_access, blobs_get, read_fails
    <3> QED BY <3>1 DEF stores, Promise!avars, Available
  <2>9. ASSUME NEW u \in Uploaders,
               \/ \E n \in Namespaces, d, bytes \in Digests : put_blob(u, n, d, bytes)
               \/ UploadStep(u)
               \/ upload_fails(u) \/ register_unheard(u)
        PROVE  Promise!Next \/ UNCHANGED Promise!avars
    BY <2>9, Uploads DEF Promise!Next
  <2> QED BY <2>1, <2>2, <2>3, <2>5, <2>6, <2>7, <2>8, <2>9 DEF Next, PublishStep
<1> QED
  BY <1>1, <1>2, TypeCorrect, Inductive, PTL DEF SafeSpec, KeepsPromise, Promise!Spec

-----------------------------------------------------------------------------
(* The refusals. *)

(* A running publication looks at nothing but what its result consists of. *)
LooksAtOwn(r, w) ==
    /\ r.pc = "outputs" => Items(r.need) \subseteq Items(Content[r.result.metadata].blobs)
    /\ r.pc = "files" => Items(r.need) \subseteq Items(Content[w.current].blobs)
    /\ r.result.root # None => StaysWithin(w, r.result.root)
    /\ w.seen \cap w.visiting = {}
    /\ Descends(w)

LooksOK ==
    \A p \in Publishers : pub[p].pc \in PubRunning => LooksAtOwn(pub[p], walk[p])

(* One handler moved; if it looks at its own, all handlers do. *)
LEMMA OneLook ==
    ASSUME PubOK, LooksOK, NEW p \in Publishers,
           pub' = [pub EXCEPT ![p] = pub'[p]], walk' = [walk EXCEPT ![p] = walk'[p]],
           pub'[p].pc \in PubRunning => LooksAtOwn(pub'[p], walk'[p])
    PROVE  LooksOK'
<1> SUFFICES ASSUME NEW q \in Publishers, pub'[q].pc \in PubRunning
             PROVE  LooksAtOwn(pub'[q], walk'[q])
  BY DEF LooksOK
<1>1. CASE q = p
  BY <1>1
<1>2. CASE q # p
  <2>1. pub'[q] = pub[q] /\ walk'[q] = walk[q]
    BY <1>2 DEF PubOK
  <2> QED BY <2>1 DEF LooksOK
<1> QED BY <1>1, <1>2

(* A handler that settles looks no further. *)
LEMMA SettleLooks ==
    ASSUME PubOK, LooksOK, NEW p \in Publishers, NEW outcome \in PubSettled, Settle(p, outcome)
    PROVE  LooksOK'
<1>1. /\ pub' = [pub EXCEPT ![p] = pub'[p]] /\ walk' = [walk EXCEPT ![p] = walk'[p]]
      /\ pub'[p].pc = outcome
  BY DEF Settle, PubOK, PubRecords
<1> QED BY <1>1, OneLook DEF PubSettled, PubRunning

(* Validation looks at nothing but what the result consists of. *)
LEMMA ValidateLooks ==
    ASSUME TypeOK, CheckedStaysChecked, LooksOK, NEW p \in Publishers, Validate(p)
    PROVE  LooksOK'
<1> DEFINE r == pub[p]
           w == walk[p]
           held == rows[pub[p].ns]
<1>0. /\ PubOK /\ HandlersOK /\ StorageOK
      /\ r \in PubRecords /\ w \in Walks /\ PubTyped(r, w)
  BY DEF TypeOK, CheckedStaysChecked, PubOK
<1>1. r.pc \in PubRunning
  BY DEF Validate, descriptor_visible, descriptor_get, metadata_visible, metadata_get,
         require_blob, outputs_present, skip_visit, enter_directory, directory_get,
         leave_directory, LookUp, PubRunning
<1>2. /\ r.ns \in Namespaces /\ r.result \in Results
      /\ HandlerOK(r, w, held) /\ LooksAtOwn(r, w)
      /\ \A d \in held : objects[d] = d
  BY <1>0, <1>1 DEF PubTyped, HandlersOK, LooksOK, StorageOK
<1>3. CASE Reject(p)
  BY <1>0, <1>3, SettleLooks DEF Reject, PubSettled
<1>4. ASSUME pub' = [pub EXCEPT ![p] = pub'[p]], walk' = walk,
             pub'[p].result = r.result, pub'[p].pc \notin {"outputs", "files"}
      PROVE  LooksOK'
  <2>1. walk' = [walk EXCEPT ![p] = walk'[p]] /\ walk'[p] = w
    BY <1>0, <1>4 DEF PubOK
  <2>2. LooksAtOwn(pub'[p], walk'[p])
    BY <1>2, <1>4, <2>1 DEF LooksAtOwn
  <2> QED BY <1>0, <1>4, <2>1, <2>2, OneLook
<1>5. CASE (descriptor_visible(p) \/ metadata_visible(p) \/ descriptor_get(p)
              \/ outputs_present(p)) /\ ~Reject(p)
  <2>1. pub' = [pub EXCEPT ![p] = pub'[p]] /\ walk' = walk
    BY <1>0, <1>5 DEF descriptor_visible, metadata_visible, descriptor_get, outputs_present,
                      LookUp, Goto, PubOK
  <2>2. /\ pub'[p].pc \in {"descriptorGet", "metadataGet", "tree", "metadata"}
        /\ pub'[p].result = r.result
    BY <1>0, <1>5 DEF descriptor_visible, metadata_visible, descriptor_get, outputs_present,
                      LookUp, Goto, PubOK, PubRecords
  <2> QED BY <1>4, <2>1, <2>2
<1>6. CASE metadata_get(p) /\ ~Reject(p)
  <2>1. r.pc = "metadataGet" /\ objects[r.result.metadata] = r.result.metadata
    BY <1>2, <1>6 DEF metadata_get, HandlerOK
  <2>2. /\ pub' = [pub EXCEPT ![p] = pub'[p]] /\ walk' = [walk EXCEPT ![p] = walk'[p]]
        /\ pub'[p] = [r EXCEPT !.pc = "outputs", !.need = Content[r.result.metadata].blobs]
        /\ walk'[p] = w
    BY <1>0, <1>6, <2>1 DEF metadata_get, PubOK
  <2>3. /\ pub'[p].pc = "outputs" /\ pub'[p].result = r.result
        /\ pub'[p].need = Content[r.result.metadata].blobs
    BY <1>0, <2>2 DEF PubRecords
  <2>4. LooksAtOwn(pub'[p], walk'[p])
    BY <1>2, <2>2, <2>3 DEF LooksAtOwn
  <2> QED BY <1>0, <2>2, <2>4, OneLook
<1>7. CASE directory_get(p) /\ ~Reject(p)
  <2>1. r.pc = "directoryGet" /\ objects[w.current] = w.current
    BY <1>2, <1>7 DEF directory_get, HandlerOK
  <2>2. /\ pub' = [pub EXCEPT ![p] = pub'[p]] /\ walk' = [walk EXCEPT ![p] = walk'[p]]
        /\ pub'[p] = [r EXCEPT !.pc = "files", !.need = Content[w.current].blobs]
        /\ walk'[p] = w
    BY <1>0, <1>7, <2>1 DEF directory_get, PubOK
  <2>3. /\ pub'[p].pc = "files" /\ pub'[p].result = r.result
        /\ pub'[p].need = Content[w.current].blobs
    BY <1>0, <2>2 DEF PubRecords
  <2>4. LooksAtOwn(pub'[p], walk'[p])
    BY <1>2, <2>2, <2>3 DEF LooksAtOwn
  <2> QED BY <1>0, <2>2, <2>4, OneLook
<1>8. CASE require_blob(p) /\ ~Reject(p)
  <2>1. r.need # <<>> /\ r.need \in Seq(Digests) /\ r.pc \in {"outputs", "files"}
    BY <1>0, <1>8 DEF require_blob, PubRecords
  <2>2. /\ pub' = [pub EXCEPT ![p] = pub'[p]] /\ walk' = [walk EXCEPT ![p] = walk'[p]]
        /\ pub'[p] = [r EXCEPT !.need = Tail(r.need)] /\ walk'[p] = w
    BY <1>0, <1>8 DEF require_blob, PubOK
  <2>3. pub'[p].pc = r.pc /\ pub'[p].result = r.result /\ pub'[p].need = Tail(r.need)
    BY <1>0, <2>2 DEF PubRecords
  <2>4. Items(Tail(r.need)) \subseteq Items(r.need)
    BY <2>1, TakeHead
  <2>5. LooksAtOwn(pub'[p], walk'[p])
    BY <1>2, <2>2, <2>3, <2>4 DEF LooksAtOwn
  <2> QED BY <1>0, <2>2, <2>5, OneLook
<1>9. CASE skip_visit(p)
  <2>1. /\ pub' = [pub EXCEPT ![p] = pub'[p]] /\ walk' = [walk EXCEPT ![p] = walk'[p]]
        /\ pub'[p] = r /\ walk'[p] = SkipTop(w)
        /\ r.pc = "tree" /\ w.pending # <<>>
    BY <1>0, <1>9 DEF skip_visit, PubOK
  <2>2. w.current = None /\ r.result.root # None /\ WalkOK(w, r.result.root, held)
    BY <1>2, <2>1 DEF HandlerOK, NoWalk
  <2>3. /\ StaysWithin(SkipTop(w), r.result.root) /\ Descends(SkipTop(w))
        /\ SkipTop(w).seen \cap SkipTop(w).visiting = {}
    BY <1>0, <1>2, <2>1, <2>2, LooksSkip DEF LooksAtOwn
  <2>4. LooksAtOwn(pub'[p], walk'[p])
    BY <2>1, <2>3 DEF LooksAtOwn
  <2> QED BY <1>0, <2>1, <2>4, OneLook
<1>10. CASE enter_directory(p) /\ ~Reject(p)
  <2>1. /\ pub' = [pub EXCEPT ![p] = pub'[p]] /\ walk' = [walk EXCEPT ![p] = walk'[p]]
        /\ pub'[p] = [r EXCEPT !.pc = "directoryGet"] /\ walk'[p] = EnterTop(w)
        /\ r.pc = "tree" /\ w.pending # <<>> /\ ~SkipsTop(w)
    BY <1>0, <1>10 DEF enter_directory, Goto, PubOK
  <2>2. pub'[p].pc = "directoryGet" /\ pub'[p].result = r.result
    BY <1>0, <2>1 DEF PubRecords
  <2>3. r.result.root # None
    BY <1>2, <2>1 DEF HandlerOK, NoWalk
  <2>4. /\ StaysWithin(EnterTop(w), r.result.root) /\ Descends(EnterTop(w))
        /\ EnterTop(w).seen \cap EnterTop(w).visiting = {}
    BY <1>0, <1>2, <2>1, <2>3, LooksEnter DEF LooksAtOwn
  <2>5. LooksAtOwn(pub'[p], walk'[p])
    BY <2>1, <2>2, <2>4 DEF LooksAtOwn
  <2> QED BY <1>0, <2>1, <2>5, OneLook
<1>11. CASE leave_directory(p)
  <2> DEFINE v == LeaveCurrent(w, Content[w.current].dirs)
  <2>1. /\ pub' = [pub EXCEPT ![p] = pub'[p]] /\ walk' = [walk EXCEPT ![p] = walk'[p]]
        /\ pub'[p] = [r EXCEPT !.pc = "tree"] /\ walk'[p] = v
        /\ r.pc = "files"
    BY <1>0, <1>11 DEF leave_directory, Goto, PubOK
  <2>2. pub'[p].pc = "tree" /\ pub'[p].result = r.result
    BY <1>0, <2>1 DEF PubRecords
  <2>3. w.current \in Digests /\ w.current \in w.visiting
    BY <1>0, <1>2, <2>1 DEF HandlerOK, Walks
  <2>4. r.result.root # None
    BY <1>2, <2>3 DEF HandlerOK, NoWalk
  <2>5. /\ StaysWithin(v, r.result.root) /\ Descends(v) /\ v.seen \cap v.visiting = {}
    BY <1>0, <1>2, <2>3, <2>4, LooksLeave DEF LooksAtOwn
  <2> HIDE DEF v
  <2>6. LooksAtOwn(pub'[p], walk'[p])
    BY <2>1, <2>2, <2>5 DEF LooksAtOwn
  <2> QED BY <1>0, <2>1, <2>6, OneLook
<1> QED
  BY <1>3, <1>5, <1>6, <1>7, <1>8, <1>9, <1>10, <1>11 DEF Validate

(* LooksOK is an invariant of the service. *)
LEMMA LooksInductive == SafeSpec => []LooksOK
<1>1. Init => LooksOK
  BY DEF Init, LooksOK, IdlePub, PubRunning
<1>2. TypeOK /\ CheckedStaysChecked /\ LooksOK /\ [Next]_vars => LooksOK'
  <2> SUFFICES ASSUME TypeOK, CheckedStaysChecked, LooksOK, [Next]_vars PROVE LooksOK'
    OBVIOUS
  <2>0. PubOK
    BY DEF TypeOK
  <2>1. ASSUME UNCHANGED <<pub, walk>> PROVE LooksOK'
    BY <2>1 DEF LooksOK
  <2>2. CASE restart
    BY <2>2 DEF restart, LooksOK, IdlePub, PubRunning
  <2>3. ASSUME NEW p \in Publishers, NEW n \in Namespaces, NEW result \in Submissions,
               put_action_result(p, n, result)
        PROVE  LooksOK'
    <3>1. result \in Results
      BY SubmissionsAssumption
    <3>2. /\ pub' = [pub EXCEPT ![p] = pub'[p]] /\ walk' = [walk EXCEPT ![p] = walk'[p]]
          /\ pub'[p].pc = "descriptor" /\ pub'[p].result = result
          /\ walk'[p] = IF result.root = None THEN NoWalk ELSE StartWalk(result.root)
      BY <2>0, <2>3 DEF put_action_result, PubOK, IdlePub
    <3>3. /\ NoWalk.seen \cap NoWalk.visiting = {} /\ NoWalk.pending = <<>>
          /\ NoWalk.current = None
      BY DEF NoWalk
    <3>4. Descends(NoWalk)
      BY <3>3 DEF Descends
    <3>5. CASE result.root = None
      <4>1. LooksAtOwn(pub'[p], walk'[p])
        BY <3>2, <3>3, <3>4, <3>5 DEF LooksAtOwn
      <4> QED BY <2>0, <3>2, <4>1, OneLook
    <3>6. CASE result.root # None
      <4>1. result.root \in Digests
        BY <3>1, <3>6 DEF Results
      <4>2. LooksAtOwn(pub'[p], walk'[p])
        BY <3>2, <3>6, <4>1, LooksStart DEF LooksAtOwn
      <4> QED BY <2>0, <3>2, <4>2, OneLook
    <3> QED BY <3>5, <3>6
  <2>4. ASSUME NEW p \in Publishers, Commit(p) PROVE LooksOK'
    <3>1. CASE \E outcome \in PubSettled : Settle(p, outcome)
      BY <2>0, <3>1, SettleLooks
    <3>2. CASE Goto(p, "compare") /\ walk' = walk /\ pub[p].pc = "tree"
      <4>1. /\ pub' = [pub EXCEPT ![p] = pub'[p]] /\ walk' = [walk EXCEPT ![p] = walk'[p]]
            /\ pub'[p].pc = "compare" /\ pub'[p].result = pub[p].result /\ walk'[p] = walk[p]
        BY <2>0, <3>2 DEF Goto, PubOK, PubRecords
      <4>2. LooksAtOwn(pub[p], walk[p])
        BY <3>2 DEF LooksOK, PubRunning
      <4>3. LooksAtOwn(pub'[p], walk'[p])
        BY <4>1, <4>2 DEF LooksAtOwn
      <4> QED BY <2>0, <4>1, <4>3, OneLook
    <3> QED BY <2>4, <3>1, <3>2
               DEF Commit, memory_commit, postgres_insert, postgres_compare, Validated, PubSettled
  <2>5. ASSUME NEW p \in Publishers, publish_fails(p) \/ insert_unheard(p) PROVE LooksOK'
    <3>1. /\ pub' = [pub EXCEPT ![p] = pub'[p]] /\ walk' = [walk EXCEPT ![p] = walk'[p]]
          /\ pub'[p].pc = "failed"
      BY <2>0, <2>5 DEF publish_fails, insert_unheard, Abandon, PubOK, IdlePub
    <3> QED BY <2>0, <3>1, OneLook DEF PubRunning
  <2>6. ASSUME NEW u \in Uploaders,
               \/ \E n \in Namespaces, d, bytes \in Digests : put_blob(u, n, d, bytes)
               \/ UploadStep(u)
               \/ upload_fails(u) \/ register_unheard(u)
        PROVE  LooksOK'
    BY <2>1, <2>6 DEF put_blob, UploadStep, blobs_put, persist_noclobber, register_blob,
                      upload_fails, register_unheard
  <2>7. ASSUME NEW g \in Readers,
               \/ \E n \in Namespaces, d \in Digests : get_blob(g, n, d)
               \/ ReadStep(g)
               \/ read_fails(g)
        PROVE  LooksOK'
    BY <2>1, <2>7 DEF get_blob, ReadStep, record_blob_access, blobs_get, read_fails
  <2> QED BY <2>1, <2>2, <2>3, <2>4, <2>5, <2>6, <2>7, ValidateLooks
             DEF Next, PublishStep, vars
<1> QED BY <1>1, <1>2, TypeCorrect, Inductive, PTL DEF SafeSpec

(* What the handler refuses of a complete result within the limits: none   *)
(* of the checks of validate_action_result fails on it.                    *)
LEMMA NoRefusal ==
    ASSUME TypeOK, CheckedStaysChecked, LooksOK, NEW p \in Publishers,
           pub[p].pc \in PubRunning, Validate(p), pub'[p].pc = "rejected",
           Complete(pub[p].result, Available(pub[p].ns)), WithinLimits(pub[p].result)
    PROVE  FALSE
<1> DEFINE r == pub[p]
           w == walk[p]
           held == rows[pub[p].ns]
           whole == Available(pub[p].ns)
           root == pub[p].result.root
<1>0. /\ PubOK /\ HandlersOK /\ StorageOK
      /\ r \in PubRecords /\ w \in Walks /\ PubTyped(r, w)
  BY DEF TypeOK, CheckedStaysChecked, PubOK
<1>1. /\ r.ns \in Namespaces /\ r.result \in Results
      /\ HandlerOK(r, w, held) /\ LooksAtOwn(r, w)
  BY <1>0 DEF PubTyped, HandlersOK, LooksOK
<1>2. \A d \in whole : d \in held /\ objects[d] = d /\ d \in Digests
  BY <1>1 DEF Available, TypeOK, StoresOK
<1>3. /\ r.result.action \in whole /\ IsDescriptor(r.result.action)
      /\ HasShape(r.result, Content[r.result.action].kind)
      /\ r.result.action \notin Oversized /\ r.result.metadata \notin Oversized
      /\ r.result.metadata # None =>
            MetadataComplete(r.result.metadata, Content[r.result.action].kind, whole)
  BY DEF Complete, WithinLimits
<1>4. \A d \in whole : d # None
  BY <1>2, NoneAssumption
<1>5. ASSUME root # None, NEW d, d \in Known(w)
      PROVE  d \in whole /\ IsDirectory(d) /\ Items(Content[d].blobs) \subseteq whole
  <2>1. PICK dirs \in SUBSET Digests : root \in dirs /\ ClosedTree(dirs, whole)
    BY <1>5 DEF Complete, TreeComplete
  <2>2. ClosedFrom(root, dirs)
    BY <2>1 DEF ClosedTree, ClosedFrom
  <2>3. d \in dirs
    BY <1>1, <1>5, <2>2 DEF LooksAtOwn, StaysWithin
  <2> QED BY <2>1, <2>3 DEF ClosedTree
<1>6. w.current # None => root # None
  BY <1>1 DEF HandlerOK, NoWalk
<1>7. /\ ~Goto(p, "descriptorGet") /\ ~Goto(p, "metadataGet")
      /\ ~Goto(p, "tree") /\ ~Goto(p, "directoryGet")
  BY <1>0 DEF Goto, PubOK, PubRecords
<1>8. ~descriptor_visible(p)
  <2>1. r.result.action \in held
    BY <1>2, <1>3
  <2> QED BY <1>3, <1>7, <2>1 DEF descriptor_visible, LookUp, Visible
<1>9. ~descriptor_get(p)
  <2> SUFFICES ASSUME descriptor_get(p) PROVE FALSE
    OBVIOUS
  <2>1. objects[r.result.action] = r.result.action /\ r.result.action # None
    BY <1>2, <1>3, <1>4
  <2>2. pub' = [pub EXCEPT ![p].pc = IF r.result.metadata = None THEN "tree" ELSE "metadata",
                           ![p].kind = Content[r.result.action].kind]
    BY <1>3, <2>1 DEF descriptor_get
  <2>3. pub'[p].pc \in {"tree", "metadata"}
    BY <1>0, <2>2 DEF PubOK, PubRecords
  <2> QED BY <2>3
<1>10. ~metadata_visible(p)
  <2> SUFFICES ASSUME metadata_visible(p) PROVE FALSE
    OBVIOUS
  <2>1. r.result.metadata # None
    BY <1>0 DEF metadata_visible, LookUp, PubTyped
  <2>2. r.result.metadata \in held
    BY <1>2, <1>3, <2>1 DEF MetadataComplete
  <2> QED BY <1>3, <1>7, <2>2 DEF metadata_visible, LookUp, Visible
<1>11. ~metadata_get(p)
  <2> SUFFICES ASSUME metadata_get(p) PROVE FALSE
    OBVIOUS
  <2>1. r.pc = "metadataGet" /\ r.result.metadata # None
    BY <1>0 DEF metadata_get, PubTyped
  <2>2. r.result.metadata \in whole /\ IsMetadataOf(r.result.metadata, r.kind)
    BY <1>1, <1>3, <2>1 DEF MetadataComplete, HandlerOK
  <2>3. objects[r.result.metadata] = r.result.metadata
    BY <1>2, <2>2
  <2>4. pub' = [pub EXCEPT ![p].pc = "outputs", ![p].need = Content[r.result.metadata].blobs]
    BY <2>1, <2>2, <2>3 DEF metadata_get
  <2>5. pub'[p].pc = "outputs"
    BY <1>0, <2>4 DEF PubOK, PubRecords
  <2> QED BY <2>5
<1>12. ~require_blob(p)
  <2> SUFFICES ASSUME require_blob(p) PROVE FALSE
    OBVIOUS
  <2>1. r.need # <<>> /\ r.need \in Seq(Digests) /\ r.pc \in {"outputs", "files"}
    BY <1>0 DEF require_blob, PubRecords
  <2>2. Head(r.need) \in Items(r.need)
    BY <2>1, TakeHead
  <2>3. Head(r.need) \in whole
    <3>1. CASE r.pc = "outputs"
      <4>1. Items(Content[r.result.metadata].blobs) \subseteq whole
        BY <1>1, <1>3, <3>1 DEF HandlerOK, MetadataComplete
      <4> QED BY <1>1, <2>2, <3>1, <4>1 DEF LooksAtOwn
    <3>2. CASE r.pc = "files"
      <4>1. w.current \in Known(w) /\ w.current # None
        BY <1>0, <1>1, <3>2 DEF HandlerOK, Known, PubTyped
      <4>2. Items(Content[w.current].blobs) \subseteq whole
        BY <1>5, <1>6, <4>1
      <4> QED BY <1>1, <2>2, <3>2, <4>2 DEF LooksAtOwn
    <3> QED BY <2>1, <3>1, <3>2
  <2>4. pub' = [pub EXCEPT ![p].need = Tail(@)]
    BY <1>2, <2>3 DEF require_blob, Visible
  <2>5. pub'[p].pc = r.pc
    BY <1>0, <2>4 DEF PubOK, PubRecords
  <2> QED BY <2>1, <2>5
<1>13. ~outputs_present(p)
  BY <1>7 DEF outputs_present
<1>14. ~skip_visit(p)
  BY DEF skip_visit
<1>15. ~enter_directory(p)
  <2> SUFFICES ASSUME enter_directory(p) PROVE FALSE
    OBVIOUS
  <2>1. r.pc = "tree" /\ w.pending # <<>> /\ ~SkipsTop(w)
    BY DEF enter_directory
  <2>2. w.current = None /\ root # None /\ WalkOK(w, root, held)
    BY <1>1, <2>1 DEF HandlerOK, NoWalk
  <2>3. PICK dirs \in SUBSET Digests :
            /\ root \in dirs
            /\ \A d \in dirs : Items(Content[d].dirs) \subseteq dirs
            /\ dirs \cap Oversized = {}
            /\ Cardinality(dirs) <= MaxDirectories
            /\ Acyclic(dirs)
    BY <2>2 DEF WithinLimits
  <2>4. ClosedFrom(root, dirs)
    BY <2>3 DEF ClosedFrom
  <2>5. StaysWithin(w, root) /\ w.seen \cap w.visiting = {} /\ Descends(w)
    BY <1>1, <2>2 DEF LooksAtOwn
  <2>6. ~RefusesTop(w)
    BY <1>0, <2>1, <2>2, <2>3, <2>4, <2>5, NoneRefused
  <2>7. Top(w.pending).dir \in Known(w)
    BY <1>0, <2>1, TopPending DEF SkipsTop, Known
  <2>8. Top(w.pending).dir \in held
    BY <1>2, <1>5, <2>2, <2>7
  <2> QED BY <1>7, <2>6, <2>8 DEF enter_directory, Visible
<1>16. ~directory_get(p)
  <2> SUFFICES ASSUME directory_get(p) PROVE FALSE
    OBVIOUS
  <2>1. w.current \in Known(w) /\ w.current # None
    BY <1>0, <1>1 DEF directory_get, HandlerOK, Known, PubTyped
  <2>2. w.current \in whole /\ IsDirectory(w.current)
    BY <1>5, <1>6, <2>1
  <2>3. objects[w.current] = w.current
    BY <1>2, <2>2
  <2>4. pub' = [pub EXCEPT ![p].pc = "files", ![p].need = Content[w.current].blobs]
    BY <2>1, <2>2, <2>3 DEF directory_get
  <2>5. pub'[p].pc = "files"
    BY <1>0, <2>4 DEF PubOK, PubRecords
  <2> QED BY <2>5
<1>17. ~leave_directory(p)
  BY <1>7 DEF leave_directory
<1> QED BY <1>8, <1>9, <1>10, <1>11, <1>12, <1>13, <1>14, <1>15, <1>16, <1>17 DEF Validate

(* A 422 is deserved: put_action_result refuses no submission that is      *)
(* complete in its namespace and within the limits, whatever the directory *)
(* graph looks like and however the other handlers interleave.             *)
THEOREM RefusalsDeserved == SafeSpec => RejectionDeserved
<1> DEFINE Deserved ==
        \A p \in Publishers :
            pub[p].pc \in PubRunning /\ pub'[p].pc = "rejected" =>
                ~ (Complete(pub[p].result, Available(pub[p].ns))
                     /\ WithinLimits(pub[p].result))
<1>1. TypeOK /\ CheckedStaysChecked /\ LooksOK /\ [Next]_vars => [Deserved]_vars
  <2> SUFFICES ASSUME TypeOK, CheckedStaysChecked, LooksOK, Next,
                      NEW p \in Publishers, pub[p].pc \in PubRunning,
                      pub'[p].pc = "rejected",
                      Complete(pub[p].result, Available(pub[p].ns)),
                      WithinLimits(pub[p].result)
               PROVE  FALSE
    OBVIOUS
  <2>0. PubOK /\ pub[p].pc # "rejected"
    BY DEF TypeOK, PubRunning
  <2>1. ~UNCHANGED pub
    BY <2>0
  <2>2. ~restart
    BY DEF restart, IdlePub
  <2>3. ASSUME NEW q \in Publishers, pub' = [pub EXCEPT ![q] = pub'[q]] PROVE q = p
    BY <2>0, <2>3 DEF PubOK
  <2>4. ASSUME NEW q \in Publishers, NEW n \in Namespaces, NEW result \in Submissions,
               put_action_result(q, n, result)
        PROVE  FALSE
    <3>1. pub' = [pub EXCEPT ![q] = pub'[q]] /\ pub'[q].pc = "descriptor"
      BY <2>0, <2>4 DEF put_action_result, PubOK, IdlePub
    <3> QED BY <2>3, <3>1
  <2>5. ASSUME NEW q \in Publishers, publish_fails(q) \/ insert_unheard(q) PROVE FALSE
    <3>1. pub' = [pub EXCEPT ![q] = pub'[q]] /\ pub'[q].pc = "failed"
      BY <2>0, <2>5 DEF publish_fails, insert_unheard, Abandon, PubOK, IdlePub
    <3> QED BY <2>3, <3>1
  <2>6. ASSUME NEW q \in Publishers, Commit(q) PROVE FALSE
    <3>1. ASSUME NEW outcome \in PubSettled \ {"rejected"}, Settle(q, outcome) PROVE FALSE
      <4>1. pub' = [pub EXCEPT ![q] = pub'[q]] /\ pub'[q].pc = outcome
        BY <2>0, <3>1 DEF Settle, PubOK, PubRecords
      <4> QED BY <2>3, <3>1, <4>1
    <3>2. ASSUME Goto(q, "compare") PROVE FALSE
      <4>1. pub' = [pub EXCEPT ![q] = pub'[q]] /\ pub'[q].pc = "compare"
        BY <2>0, <3>2 DEF Goto, PubOK, PubRecords
      <4> QED BY <2>3, <4>1
    <3> QED BY <2>6, <3>1, <3>2
               DEF Commit, memory_commit, postgres_insert, postgres_compare, PubSettled
  <2>7. ASSUME NEW q \in Publishers, Validate(q) PROVE FALSE
    <3>1. pub' = [pub EXCEPT ![q] = pub'[q]]
      BY <2>0, <2>1, <2>7
         DEF Validate, descriptor_visible, descriptor_get, metadata_visible, metadata_get,
             require_blob, outputs_present, skip_visit, enter_directory, directory_get,
             leave_directory, LookUp, Reject, Settle, Goto, PubOK
    <3> QED BY <2>3, <2>7, <3>1, NoRefusal
  <2>8. ASSUME NEW u \in Uploaders,
               \/ \E n \in Namespaces, d, bytes \in Digests : put_blob(u, n, d, bytes)
               \/ UploadStep(u)
               \/ upload_fails(u) \/ register_unheard(u)
        PROVE  FALSE
    BY <2>1, <2>8 DEF put_blob, UploadStep, blobs_put, persist_noclobber, register_blob,
                      upload_fails, register_unheard
  <2>9. ASSUME NEW g \in Readers,
               \/ \E n \in Namespaces, d \in Digests : get_blob(g, n, d)
               \/ ReadStep(g)
               \/ read_fails(g)
        PROVE  FALSE
    BY <2>1, <2>9 DEF get_blob, ReadStep, record_blob_access, blobs_get, read_fails
  <2> QED BY <2>2, <2>4, <2>5, <2>6, <2>7, <2>8, <2>9 DEF Next, PublishStep
<1> QED BY <1>1, TypeCorrect, Inductive, LooksInductive, PTL
           DEF SafeSpec, RejectionDeserved

-----------------------------------------------------------------------------
(* Type correctness while things expire. *)

(* Ages are naturals up to MaxAge, and grow up to it. *)
LEMMA Ages ==
    /\ MaxAge \in Nat /\ 0 \in 0 .. MaxAge
    /\ SweepAge < MaxAge
    /\ \A age \in 0 .. MaxAge : Older(age) \in 0 .. MaxAge /\ age <= Older(age)
<1>1. MaxAge \in Nat /\ 0 \in 0 .. MaxAge /\ SweepAge < MaxAge
  BY RetentionAssumption DEF MaxAge
<1>2. ASSUME NEW age \in 0 .. MaxAge
      PROVE  Older(age) \in 0 .. MaxAge /\ age <= Older(age)
  BY <1>1 DEF Older
<1> QED BY <1>1, <1>2

(* A step of a handler that is quiet for the sweep is a step of one of the *)
(* three kinds of handlers.                                                *)
LEMMA QuietSteps ==
    ASSUME quiet_step
    PROVE  \/ \E p \in Publishers :
                \/ \E n \in Namespaces, result \in Submissions : put_action_result(p, n, result)
                \/ PublishStep(p)
                \/ publish_fails(p) \/ insert_unheard(p)
           \/ \E u \in Uploaders :
                \/ \E n \in Namespaces, d, bytes \in Digests : put_blob(u, n, d, bytes)
                \/ UploadStep(u)
                \/ upload_fails(u) \/ register_unheard(u)
           \/ \E g \in Readers :
                \/ \E n \in Namespaces, d \in Digests : get_blob(g, n, d)
                \/ ReadStep(g)
                \/ read_fails(g)
BY DEF quiet_step, PublishStep, UploadStep, Commit, ReadStep

(* The steps of the UPDATE behind a pack download, and of the sweep before *)
(* it commits.                                                             *)
TouchStep(g) ==
    \/ \E n \in Namespaces, digests \in SUBSET Digests : touch_blobs(g, n, digests)
    \/ touch_next(g) \/ touch_commit(g) \/ touch_fails(g)

SweepStep == sweep_blobs \/ sweep_row \/ sweep_action_results \/ sweep_fails

(* A touch moves nothing but itself and its reader. *)
LEMMA TouchesNothing ==
    ASSUME NEW g \in Readers, TouchStep(g)
    PROVE  UNCHANGED <<objects, rows, results, pub, walk, up, objectAge, rowAge, sweep>>
BY DEF TouchStep, touch_blobs, touch_next, touch_commit, touch_fails, stores, vars

(* The steps of RNext, by whose they are. *)
LEMMA Steps ==
    ASSUME [RNext]_rvars
    PROVE  \/ quiet_step
           \/ \E u \in Uploaders : put_object(u) \/ upsert_row(u) \/ upsert_unheard(u)
           \/ \E p \in Publishers : insert_result(p) \/ insert_result_unheard(p)
           \/ \E g \in Readers : touch_row(g) \/ TouchStep(g)
           \/ tick
           \/ \E d \in Digests : expire(d)
           \/ SweepStep
           \/ sweep_commit
           \/ UNCHANGED rvars
BY DEF RNext, TouchStep, SweepStep

(* The shapes of TypeOK hold while rows, objects and results disappear. *)
LEMMA ServiceTypes ==
    ASSUME TypeOK, [RNext]_rvars
    PROVE  TypeOK'
<1>1. CASE quiet_step
  BY <1>1, QuietSteps, PublishType, UploadType, ReadType
<1>2. ASSUME NEW u \in Uploaders, put_object(u) \/ upsert_row(u) \/ upsert_unheard(u)
      PROVE  TypeOK'
  BY <1>2, UploadType DEF put_object, upsert_row, upsert_unheard, UploadStep
<1>3. ASSUME NEW p \in Publishers, insert_result(p) \/ insert_result_unheard(p)
      PROVE  TypeOK'
  BY <1>3, PublishType DEF insert_result, insert_result_unheard, PublishStep, Commit
<1>4. ASSUME NEW g \in Readers, touch_row(g)
      PROVE  TypeOK'
  BY <1>4, ReadType DEF touch_row, ReadStep
<1>5. ASSUME NEW g \in Readers, TouchStep(g)
      PROVE  TypeOK'
  <2>1. read' = [read EXCEPT ![g] = IdleRead] \/ read' = read
    BY <1>5 DEF TouchStep, touch_blobs, touch_next, touch_commit, touch_fails, vars
  <2>2. ReadOK'
    BY <2>1 DEF TypeOK, ReadOK, IdleRead, ReadSettled, ReadRunning
  <2> QED BY <1>5, <2>2, TouchesNothing DEF TypeOK, StoresOK, PubOK, UpOK
<1>6. ASSUME NEW d \in Digests, expire(d)
      PROVE  TypeOK'
  <2>1. StoresOK'
    BY <1>6 DEF expire, TypeOK, StoresOK
  <2> QED BY <1>6, <2>1 DEF expire, TypeOK, PubOK, UpOK, ReadOK
<1>7. CASE sweep_commit
  <2>1. StoresOK'
    BY <1>7 DEF sweep_commit, TypeOK, StoresOK
  <2> QED BY <1>7, <2>1 DEF sweep_commit, TypeOK, PubOK, UpOK, ReadOK
<1>8. CASE UNCHANGED vars
  BY <1>8 DEF vars, TypeOK, StoresOK, PubOK, UpOK, ReadOK
<1> QED
  BY <1>1, <1>2, <1>3, <1>4, <1>5, <1>6, <1>7, <1>8, Steps
     DEF rvars, tick, SweepStep, sweep_blobs, sweep_row, sweep_action_results, sweep_fails

(* A touch keeps its shape. *)
LEMMA TouchTypes ==
    ASSUME RTypeOK, NEW g \in Readers, TouchStep(g)
    PROVE  touch' \in [Readers -> [pc : {"idle", "rows"}, todo : SUBSET Keys,
                                   next : Keys \cup {None}, held : SUBSET Keys]]
<1> DEFINE Touches == [pc : {"idle", "rows"}, todo : SUBSET Keys,
                       next : Keys \cup {None}, held : SUBSET Keys]
<1>0. touch \in [Readers -> Touches] /\ touch[g] \in Touches /\ NoTouch \in Touches
  BY DEF RTypeOK, NoTouch
<1>1. ASSUME NEW n \in Namespaces, NEW digests \in SUBSET Digests, touch_blobs(g, n, digests)
      PROVE  touch' \in [Readers -> Touches]
  <2>1. PICK next \in {n} \X digests :
            touch' = [touch EXCEPT ![g] = [NoTouch EXCEPT
                          !.pc = "rows", !.todo = {n} \X digests, !.next = next]]
    BY <1>1 DEF touch_blobs
  <2>2. {n} \X digests \in SUBSET Keys /\ next \in Keys
    BY DEF Keys
  <2> QED BY <1>0, <2>1, <2>2 DEF NoTouch
<1>2. CASE touch_next(g)
  <2> DEFINE todo == touch[g].todo \ {touch[g].next}
             held == touch[g].held \cup ({touch[g].next} \cap RowKeys)
  <2>1. todo \in SUBSET Keys /\ held \in SUBSET Keys /\ Nexts(todo) \subseteq Keys \cup {None}
    BY <1>0 DEF RowKeys, Nexts
  <2>2. PICK next \in Nexts(todo) :
            touch' = [touch EXCEPT ![g].todo = todo, ![g].next = next, ![g].held = held]
    BY <1>0, <1>2 DEF touch_next
  <2> HIDE DEF todo, held
  <2> QED BY <1>0, <2>1, <2>2
<1>3. CASE touch_commit(g) \/ touch_fails(g)
  BY <1>0, <1>3 DEF touch_commit, touch_fails
<1> QED BY <1>1, <1>2, <1>3 DEF TouchStep

(* The service, the ages, the sweep's transaction and the touches keep     *)
(* their shapes.                                                           *)
THEOREM RetentionTypes == RSafeSpec => []RTypeOK
<1>1. RInit => RTypeOK
  <2> SUFFICES ASSUME RInit PROVE RTypeOK
    OBVIOUS
  <2>1. TypeOK
    BY InitialTypes DEF RInit
  <2> QED BY <2>1, Ages DEF RInit, RTypeOK, NoSweep, NoTouch
<1>2. RTypeOK /\ [RNext]_rvars => RTypeOK'
  <2> SUFFICES ASSUME RTypeOK, [RNext]_rvars PROVE RTypeOK'
    OBVIOUS
  <2> DEFINE Sweeps == [pc : {"idle", "blobs", "commit"}, todo : SUBSET Keys,
                        next : Keys \cup {None}, blobs : SUBSET Keys,
                        results : SUBSET Keys, checked : SUBSET Keys]
  <2>0. sweep \in Sweeps /\ NoSweep \in Sweeps
    BY DEF RTypeOK, NoSweep
  <2>1. TypeOK'
    BY ServiceTypes DEF RTypeOK
  <2>2. ASSUME UNCHANGED aging PROVE RTypeOK'
    BY <2>1, <2>2 DEF RTypeOK, aging
  <2>3. ASSUME sweep' \in Sweeps, UNCHANGED <<objectAge, rowAge, touch>> PROVE RTypeOK'
    BY <2>1, <2>3 DEF RTypeOK
  <2>4. CASE quiet_step
    BY <2>2, <2>4 DEF quiet_step
  <2>5. ASSUME NEW u \in Uploaders, put_object(u) PROVE RTypeOK'
    BY <2>1, <2>5, Ages DEF put_object, RTypeOK
  <2>6. ASSUME NEW u \in Uploaders, upsert_row(u) \/ upsert_unheard(u) PROVE RTypeOK'
    <3>1. Renew(up[u].ns, up[u].digest, up[u].stored) /\ UNCHANGED <<objectAge, touch>>
      BY <2>6 DEF upsert_row, upsert_unheard
    <3>2. rowAge' \in [Namespaces -> [Digests -> 0 .. MaxAge]]
      <4>1. \/ rowAge' = rowAge
            \/ rowAge' = [rowAge EXCEPT ![up[u].ns][up[u].digest] = 0]
        BY <3>1 DEF Renew
      <4>2. rowAge \in [Namespaces -> [Digests -> 0 .. MaxAge]]
        BY DEF RTypeOK
      <4> QED BY <4>1, <4>2, Ages
    <3>3. sweep' \in Sweeps
      BY <2>0, <3>1 DEF Renew
    <3> QED BY <2>1, <3>1, <3>2, <3>3 DEF RTypeOK
  <2>7. ASSUME NEW p \in Publishers, insert_result(p) \/ insert_result_unheard(p) PROVE RTypeOK'
    BY <2>2, <2>7 DEF insert_result, insert_result_unheard
  <2>8. ASSUME NEW g \in Readers, touch_row(g) PROVE RTypeOK'
    BY <2>2, <2>8 DEF touch_row
  <2>9. ASSUME NEW g \in Readers, TouchStep(g) PROVE RTypeOK'
    BY <2>1, <2>9, TouchesNothing, TouchTypes DEF RTypeOK
  <2>10. CASE tick
    BY <2>1, <2>10, Ages DEF tick, RTypeOK
  <2>11. ASSUME NEW d \in Digests, expire(d) PROVE RTypeOK'
    BY <2>1, <2>11, Ages DEF expire, RTypeOK
  <2>12. CASE sweep_blobs
    <3> DEFINE old == {key \in RowKeys : rowAge[key[1]][key[2]] > SweepAge}
    <3>1. old \in SUBSET Keys /\ Nexts(old) \subseteq Keys \cup {None}
      BY DEF RowKeys, Nexts
    <3>2. PICK next \in Nexts(old) :
              sweep' = [NoSweep EXCEPT !.pc = "blobs", !.todo = old, !.next = next]
      BY <2>12 DEF sweep_blobs
    <3> HIDE DEF old
    <3>3. sweep' \in Sweeps
      BY <2>0, <3>1, <3>2
    <3> QED BY <2>3, <2>12, <3>3 DEF sweep_blobs
  <2>13. CASE sweep_row
    <3> DEFINE todo == sweep.todo \ {sweep.next}
               blobs == sweep.blobs \cup ({sweep.next} \cap sweep.todo)
    <3>1. /\ todo \in SUBSET Keys /\ blobs \in SUBSET Keys
          /\ Nexts(todo) \subseteq Keys \cup {None}
      BY <2>0 DEF Nexts
    <3>2. PICK next \in Nexts(todo) :
              sweep' = [sweep EXCEPT !.todo = todo, !.next = next, !.blobs = blobs]
      BY <2>13 DEF sweep_row
    <3> HIDE DEF todo, blobs
    <3>3. sweep' \in Sweeps
      BY <2>0, <3>1, <3>2
    <3> QED BY <2>3, <2>13, <3>3 DEF sweep_row
  <2>14. CASE sweep_action_results
    <3>1. sweep' \in Sweeps
      BY <2>0, <2>14 DEF sweep_action_results
    <3> QED BY <2>3, <2>14, <3>1 DEF sweep_action_results
  <2>15. CASE sweep_commit
    BY <2>0, <2>1, <2>15, Ages DEF sweep_commit, RTypeOK
  <2>16. CASE sweep_fails
    BY <2>0, <2>3, <2>16 DEF sweep_fails
  <2>17. CASE UNCHANGED rvars
    BY <2>2, <2>17 DEF rvars, aging
  <2> QED
    BY <2>4, <2>5, <2>6, <2>7, <2>8, <2>9, <2>10, <2>11, <2>12, <2>13, <2>14, <2>15, <2>16,
       <2>17, Steps DEF SweepStep
<1> QED BY <1>1, <1>2, PTL DEF RSafeSpec

-----------------------------------------------------------------------------
(* The sweep. *)

(* Every row the sweep has deleted is still there for the others until it  *)
(* commits, and is as old as it was when the sweep took its lock; so is    *)
(* every row it has yet to take.                                           *)
SweepHoldsOld ==
    \A key \in sweep.blobs \cup sweep.todo :
        key[2] \in rows[key[1]] /\ rowAge[key[1]][key[2]] > SweepAge

(* Every result the sweep kept is still there, and does not dangle. *)
SweepKeepsWhole ==
    sweep.pc = "commit" =>
        \A key \in sweep.checked \ sweep.results :
            /\ results[key[1]][key[2]] # None
            /\ ~ Dangling(key[1], key[2], sweep.blobs)

(* The inductive invariant of a sweep in progress. *)
SweepOK == SweepHoldsOld /\ SweepKeepsWhole

(* What the service's own steps do to the rows and the results: both only  *)
(* grow, and an entry that is there is not replaced.                       *)
StoresGrow ==
    /\ \A n \in Namespaces : rows[n] \subseteq rows'[n]
    /\ \A n \in Namespaces, a \in Digests :
          results[n][a] # None => results'[n][a] = results[n][a]

(* A quiet step writes neither a row nor a result. *)
LEMMA QuietStores ==
    ASSUME quiet_step
    PROVE  UNCHANGED <<objects, rows, results>>
BY DEF quiet_step, put_action_result, Validate, descriptor_visible, descriptor_get,
       metadata_visible, metadata_get, require_blob, outputs_present, skip_visit,
       enter_directory, directory_get, leave_directory, LookUp, Reject, postgres_compare,
       publish_fails, put_blob, blobs_put, upload_fails, get_blob, blobs_get, read_fails,
       record_blob_access, stores

(* An insert adds at most the entry it found missing. *)
LEMMA InsertGrows ==
    ASSUME TypeOK, NEW p \in Publishers, postgres_insert(p) \/ insert_unheard(p)
    PROVE  /\ UNCHANGED <<objects, rows>>
           /\ \A n \in Namespaces, a \in Digests :
                 results[n][a] # None => results'[n][a] = results[n][a]
<1>1. pub[p].ns \in Namespaces /\ pub[p].result.action \in Digests
  BY DEF postgres_insert, insert_unheard, Validated, TypeOK, PubOK, PubTyped, PubRunning, Results
<1> QED BY <1>1 DEF postgres_insert, insert_unheard, Insert, Stored, TypeOK, StoresOK

(* A sweep in progress is kept by a step that lets the stores grow and     *)
(* restarts no row the sweep holds or is still to take.                    *)
LEMMA GrowthKeepsSweep ==
    ASSUME RTypeOK, SweepOK, StoresGrow,
           NEW todo \in SUBSET sweep.todo, sweep' = [sweep EXCEPT !.todo = todo],
           \A key \in sweep.blobs \cup todo :
                rowAge[key[1]][key[2]] <= rowAge'[key[1]][key[2]],
           rowAge' \in [Namespaces -> [Digests -> 0 .. MaxAge]]
    PROVE  SweepOK'
<1>1. /\ sweep.blobs \subseteq Keys /\ sweep.todo \subseteq Keys /\ sweep.checked \subseteq Keys
      /\ sweep'.blobs = sweep.blobs /\ sweep'.todo = todo /\ sweep'.pc = sweep.pc
      /\ sweep'.checked = sweep.checked /\ sweep'.results = sweep.results
  BY DEF RTypeOK
<1>2. SweepHoldsOld'
  <2> SUFFICES ASSUME NEW key \in sweep.blobs \cup todo
               PROVE  key[2] \in rows'[key[1]] /\ rowAge'[key[1]][key[2]] > SweepAge
    BY <1>1 DEF SweepHoldsOld
  <2>1. key[1] \in Namespaces /\ key[2] \in Digests
    BY <1>1 DEF Keys
  <2>2. key[2] \in rows[key[1]] /\ rowAge[key[1]][key[2]] > SweepAge
    BY DEF SweepOK, SweepHoldsOld
  <2>3. rowAge[key[1]][key[2]] \in Nat /\ rowAge'[key[1]][key[2]] \in Nat /\ SweepAge \in Nat
    BY <2>1, Ages, RetentionAssumption DEF RTypeOK
  <2> QED BY <2>1, <2>2, <2>3 DEF StoresGrow
<1>3. SweepKeepsWhole'
  <2> SUFFICES ASSUME sweep.pc = "commit", NEW key \in sweep.checked \ sweep.results
               PROVE  /\ results'[key[1]][key[2]] # None
                      /\ ~ Dangling(key[1], key[2], sweep.blobs)'
    BY <1>1 DEF SweepKeepsWhole
  <2>1. key[1] \in Namespaces /\ key[2] \in Digests
    BY <1>1 DEF Keys
  <2>2. results[key[1]][key[2]] # None /\ ~ Dangling(key[1], key[2], sweep.blobs)
    BY DEF SweepOK, SweepKeepsWhole
  <2>3. results'[key[1]][key[2]] = results[key[1]][key[2]] /\ rows[key[1]] \subseteq rows'[key[1]]
    BY <2>1, <2>2 DEF StoresGrow
  <2> QED BY <1>1, <2>2, <2>3 DEF Dangling
<1> QED BY <1>2, <1>3 DEF SweepOK

(* The sweep's invariant holds through every interleaving of the service,  *)
(* the passing of time, expiry and the sweep's own failure.                *)
THEOREM SweepInductive == RSafeSpec => []SweepOK
<1>1. RInit => SweepOK
  BY DEF RInit, NoSweep, SweepOK, SweepHoldsOld, SweepKeepsWhole
<1>2. RTypeOK /\ RTypeOK' /\ SweepOK /\ [RNext]_rvars => SweepOK'
  <2> SUFFICES ASSUME RTypeOK, RTypeOK', SweepOK, [RNext]_rvars PROVE SweepOK'
    OBVIOUS
  <2>0. /\ rowAge \in [Namespaces -> [Digests -> 0 .. MaxAge]]
        /\ rowAge' \in [Namespaces -> [Digests -> 0 .. MaxAge]]
        /\ \A key \in sweep.blobs \cup sweep.todo : key[1] \in Namespaces /\ key[2] \in Digests
        /\ TypeOK /\ StoresOK /\ sweep = [sweep EXCEPT !.todo = sweep.todo]
    BY DEF RTypeOK, TypeOK, Keys
  <2>1. \A n \in Namespaces, d \in Digests : rowAge[n][d] <= rowAge[n][d]
    BY <2>0, Ages
  <2>2. ASSUME UNCHANGED <<sweep, rowAge>>, StoresGrow PROVE SweepOK'
    <3>1. sweep' = [sweep EXCEPT !.todo = sweep.todo]
      BY <2>0, <2>2
    <3>2. \A key \in sweep.blobs \cup sweep.todo :
                rowAge[key[1]][key[2]] <= rowAge'[key[1]][key[2]]
      BY <2>0, <2>1, <2>2
    <3> QED BY <2>0, <2>2, <3>1, <3>2, GrowthKeepsSweep
  <2>3. CASE quiet_step
    BY <2>2, <2>3, QuietStores DEF StoresGrow, quiet_step, aging
  <2>4. ASSUME NEW u \in Uploaders, put_object(u) PROVE SweepOK'
    BY <2>2, <2>4 DEF put_object, persist_noclobber, StoresGrow
  <2>5. ASSUME NEW u \in Uploaders, upsert_row(u) \/ upsert_unheard(u) PROVE SweepOK'
    <3> DEFINE n == up[u].ns
               d == up[u].digest
    <3>1. n \in Namespaces /\ d \in Digests
      BY <2>0, <2>5 DEF upsert_row, upsert_unheard, register_blob, register_unheard,
                        TypeOK, UpOK, UpRunning
    <3>2. StoresGrow
      BY <2>0, <2>5, <3>1 DEF upsert_row, upsert_unheard, register_blob, register_unheard,
                              Register, StoresGrow, StoresOK
    <3>3. <<n, d>> \notin sweep.blobs /\ Renew(n, d, up[u].stored)
      BY <2>5 DEF upsert_row, upsert_unheard, Free
    <3> HIDE DEF n, d
    <3>4. CASE UNCHANGED <<rowAge, sweep>>
      BY <2>2, <3>2, <3>4
    <3>5. CASE /\ rowAge' = [rowAge EXCEPT ![n][d] = 0]
               /\ sweep' = [sweep EXCEPT !.todo = sweep.todo \ {<<n, d>>}]
      <4>1. ASSUME NEW key \in sweep.blobs \cup (sweep.todo \ {<<n, d>>})
            PROVE  rowAge[key[1]][key[2]] <= rowAge'[key[1]][key[2]]
        <5>1. key[1] \in Namespaces /\ key[2] \in Digests /\ key = <<key[1], key[2]>>
          BY <2>0 DEF RTypeOK, Keys
        <5>2. key[1] # n \/ key[2] # d
          BY <3>3, <5>1
        <5>3. rowAge'[key[1]][key[2]] = rowAge[key[1]][key[2]]
          BY <2>0, <3>1, <3>5, <5>1, <5>2
        <5> QED BY <2>1, <5>1, <5>3
      <4> QED BY <2>0, <3>2, <3>5, <4>1, GrowthKeepsSweep
    <3> QED BY <3>3, <3>4, <3>5 DEF Renew
  <2>6. ASSUME NEW p \in Publishers, insert_result(p) \/ insert_result_unheard(p) PROVE SweepOK'
    BY <2>0, <2>2, <2>6, InsertGrows DEF insert_result, insert_result_unheard, aging, StoresGrow
  <2>7. ASSUME NEW g \in Readers, touch_row(g) PROVE SweepOK'
    BY <2>2, <2>7 DEF touch_row, record_blob_access, stores, aging, StoresGrow
  <2>8. ASSUME NEW g \in Readers, TouchStep(g) PROVE SweepOK'
    BY <2>2, <2>8, TouchesNothing DEF StoresGrow
  <2>9. CASE tick
    <3>1. StoresGrow /\ sweep' = [sweep EXCEPT !.todo = sweep.todo]
      BY <2>0, <2>9 DEF tick, vars, StoresGrow
    <3>2. ASSUME NEW key \in sweep.blobs \cup sweep.todo
          PROVE  rowAge[key[1]][key[2]] <= rowAge'[key[1]][key[2]]
      <4>1. key[2] \in rows[key[1]] /\ key[1] \in Namespaces /\ key[2] \in Digests
        BY <2>0 DEF SweepOK, SweepHoldsOld
      <4>2. rowAge'[key[1]][key[2]] = Older(rowAge[key[1]][key[2]])
        BY <2>9, <4>1 DEF tick
      <4> QED BY <2>0, <4>1, <4>2, Ages
    <3> QED BY <2>0, <3>1, <3>2, GrowthKeepsSweep
  <2>10. ASSUME NEW d \in Digests, expire(d) PROVE SweepOK'
    BY <2>2, <2>10 DEF expire, StoresGrow
  <2>11. CASE sweep_blobs
    <3> DEFINE old == {key \in RowKeys : rowAge[key[1]][key[2]] > SweepAge}
    <3>1. PICK next : sweep' = [NoSweep EXCEPT !.pc = "blobs", !.todo = old, !.next = next]
      BY <2>11 DEF sweep_blobs
    <3>2. sweep'.pc = "blobs" /\ sweep'.blobs = {} /\ sweep'.todo = old
      BY <3>1 DEF NoSweep
    <3>3. UNCHANGED <<rows, rowAge>>
      BY <2>11 DEF sweep_blobs, vars
    <3> QED BY <3>2, <3>3 DEF SweepOK, SweepHoldsOld, SweepKeepsWhole, RowKeys
  <2>12. CASE sweep_row
    <3>1. PICK next :
            sweep' = [sweep EXCEPT !.todo = sweep.todo \ {sweep.next}, !.next = next,
                                   !.blobs = sweep.blobs \cup ({sweep.next} \cap sweep.todo)]
      BY <2>12 DEF sweep_row
    <3>2. /\ sweep'.blobs \cup sweep'.todo \subseteq sweep.blobs \cup sweep.todo
          /\ sweep'.pc = sweep.pc /\ sweep'.checked = sweep.checked
          /\ sweep'.results = sweep.results
      BY <3>1 DEF RTypeOK
    <3>3. UNCHANGED <<rows, rowAge>>
      BY <2>12 DEF sweep_row, vars
    <3>4. SweepHoldsOld'
      BY <3>2, <3>3 DEF SweepOK, SweepHoldsOld
    <3>5. sweep.pc # "commit"
      BY <2>12 DEF sweep_row
    <3> QED BY <3>2, <3>4, <3>5 DEF SweepOK, SweepKeepsWhole
  <2>13. CASE sweep_action_results
    <3> DEFINE present == {key \in Keys : results[key[1]][key[2]] # None}
    <3>1. /\ sweep'.blobs = sweep.blobs /\ sweep'.todo = sweep.todo
          /\ UNCHANGED <<rows, rowAge, results>>
          /\ sweep'.checked = present
          /\ sweep'.results = {key \in present : Dangling(key[1], key[2], sweep.blobs)}
      BY <2>13 DEF sweep_action_results, RTypeOK, vars
    <3>2. SweepHoldsOld'
      BY <3>1 DEF SweepOK, SweepHoldsOld
    <3>3. \A n, a : Dangling(n, a, sweep.blobs)' = Dangling(n, a, sweep.blobs)
      BY <3>1 DEF Dangling
    <3>4. SweepKeepsWhole'
      BY <3>1, <3>3 DEF SweepKeepsWhole
    <3> QED BY <3>2, <3>4 DEF SweepOK
  <2>14. ASSUME sweep' = NoSweep PROVE SweepOK'
    BY <2>14 DEF NoSweep, SweepOK, SweepHoldsOld, SweepKeepsWhole
  <2>15. CASE UNCHANGED rvars
    BY <2>2, <2>15 DEF rvars, vars, StoresGrow
  <2> QED
    BY <2>3, <2>4, <2>5, <2>6, <2>7, <2>8, <2>9, <2>10, <2>11, <2>12, <2>13, <2>14, <2>15,
       Steps DEF SweepStep, sweep_commit, sweep_fails
<1> QED BY <1>1, <1>2, RetentionTypes, PTL DEF RSafeSpec

(* A result the sweep looked at and kept does not dangle when it commits,  *)
(* whatever was uploaded or published while it ran.                        *)
THEOREM SweptResultsWhole == RSafeSpec => []SweepLeavesNoDangling
<1>1. SweepOK => SweepLeavesNoDangling
  BY DEF SweepOK, SweepKeepsWhole, SweepLeavesNoDangling
<1> QED BY <1>1, SweepInductive, PTL

(* Only the sweep's commit removes a row, and only one that is old at that *)
(* very moment: an upload acknowledged while the sweep ran is not undone.  *)
THEOREM SweepSparesYoung == RSafeSpec => SweptRowsOld
<1> DEFINE Old == \A n \in Namespaces, d \in Digests :
                    d \in rows[n] /\ d \notin rows'[n] => rowAge[n][d] > SweepAge
<1>1. RTypeOK /\ SweepOK /\ [RNext]_rvars => [Old]_rvars
  <2> SUFFICES ASSUME RTypeOK, SweepOK, RNext PROVE Old
    OBVIOUS
  <2>1. ASSUME \A n \in Namespaces : rows[n] \subseteq rows'[n] PROVE Old
    BY <2>1
  <2>2. CASE quiet_step
    BY <2>1, <2>2, QuietStores
  <2>3. ASSUME NEW u \in Uploaders, put_object(u) \/ upsert_row(u) \/ upsert_unheard(u) PROVE Old
    BY <2>1, <2>3 DEF put_object, upsert_row, upsert_unheard, persist_noclobber, register_blob,
                      register_unheard, Register, RTypeOK, TypeOK, StoresOK
  <2>4. ASSUME NEW p \in Publishers, insert_result(p) \/ insert_result_unheard(p) PROVE Old
    BY <2>1, <2>4, InsertGrows DEF insert_result, insert_result_unheard, RTypeOK
  <2>5. ASSUME NEW g \in Readers, touch_row(g) \/ TouchStep(g) PROVE Old
    BY <2>1, <2>5, TouchesNothing DEF touch_row, record_blob_access, stores
  <2>6. CASE tick \/ SweepStep
    BY <2>1, <2>6 DEF tick, SweepStep, sweep_blobs, sweep_row, sweep_action_results,
                      sweep_fails, vars
  <2>7. ASSUME NEW d \in Digests, expire(d) PROVE Old
    BY <2>1, <2>7 DEF expire
  <2>8. CASE sweep_commit
    <3> SUFFICES ASSUME NEW n \in Namespaces, NEW d \in Digests,
                        d \in rows[n], d \notin rows'[n]
                 PROVE  rowAge[n][d] > SweepAge
      OBVIOUS
    <3>1. <<n, d>> \in sweep.blobs
      BY <2>8 DEF sweep_commit
    <3> QED BY <3>1 DEF SweepOK, SweepHoldsOld
  <2> QED BY <2>2, <2>3, <2>4, <2>5, <2>6, <2>7, <2>8 DEF RNext, TouchStep, SweepStep
<1> QED BY <1>1, RetentionTypes, SweepInductive, PTL DEF RSafeSpec, SweptRowsOld

-----------------------------------------------------------------------------
(* What is committed while things expire. *)

(* A result can be committed after its blobs have gone, never one that is  *)
(* over the limits: what put_action_result checked of the shape of a tree  *)
(* does not expire.                                                        *)
THEOREM CommittedBoundedWhileExpiring == RSafeSpec => []ResultsBounded
<1>1. RInit => LimitsKept
  BY InitialLimits DEF RInit
<1>2. RTypeOK /\ LimitsKept /\ [RNext]_rvars => LimitsKept'
  <2> SUFFICES ASSUME TypeOK, LimitsKept, [RNext]_rvars PROVE LimitsKept'
    BY DEF RTypeOK
  <2>1. CASE quiet_step
    BY <2>1, QuietSteps, PublishLimits, TransferLimits
  <2>2. ASSUME NEW u \in Uploaders, put_object(u) \/ upsert_row(u) \/ upsert_unheard(u)
        PROVE  LimitsKept'
    BY <2>2, TransferLimits DEF put_object, upsert_row, upsert_unheard, UploadStep
  <2>3. ASSUME NEW p \in Publishers, insert_result(p) \/ insert_result_unheard(p)
        PROVE  LimitsKept'
    BY <2>3, PublishLimits DEF insert_result, insert_result_unheard, PublishStep, Commit
  <2>4. ASSUME NEW g \in Readers, touch_row(g) PROVE LimitsKept'
    BY <2>4, TransferLimits DEF touch_row, ReadStep
  <2>5. ASSUME UNCHANGED <<results, pub, walk>> PROVE LimitsKept'
    BY <2>5 DEF LimitsKept, HandlersBounded, ResultsBounded
  <2>6. ASSUME NEW d \in Digests, expire(d) PROVE LimitsKept'
    BY <2>5, <2>6 DEF expire
  <2>7. CASE sweep_commit
    <3>1. HandlersBounded'
      BY <2>7 DEF sweep_commit, LimitsKept, HandlersBounded
    <3>2. ResultsBounded'
      BY <2>7 DEF sweep_commit, LimitsKept, ResultsBounded
    <3> QED BY <3>1, <3>2 DEF LimitsKept
  <2>8. CASE tick \/ SweepStep \/ UNCHANGED rvars
    BY <2>5, <2>8 DEF tick, SweepStep, sweep_blobs, sweep_row, sweep_action_results,
                      sweep_fails, rvars, vars
  <2>9. ASSUME NEW g \in Readers, TouchStep(g) PROVE LimitsKept'
    BY <2>5, <2>9, TouchesNothing
  <2> QED BY <2>1, <2>2, <2>3, <2>4, <2>6, <2>7, <2>8, <2>9, Steps
<1>3. LimitsKept => ResultsBounded
  BY DEF LimitsKept
<1> QED BY <1>1, <1>2, <1>3, RetentionTypes, PTL DEF RSafeSpec

-----------------------------------------------------------------------------
(* The promise that is left when entries may disappear. *)

(* A step that changes neither results nor publications is not seen. *)
LEMMA NotSeen ==
    ASSUME UNCHANGED <<results, pub>>
    PROVE  UNCHANGED Promise!cvars
BY DEF Promise!cvars

(* Expiry and sweeping leave a write-once cache: an entry can disappear    *)
(* and be published again, it never turns into another.  A 500 may hide a  *)
(* publication, a 201, 204 or 409 is what was decided.                     *)
THEOREM WriteOnceWhileSweeping == RSafeSpec => KeepsWriteOnce
<1>1. RInit => Promise!Start
  BY DEF RInit, Init, IdlePub, PubRunning, Promise!Start, Promise!Empty
<1>2. RTypeOK /\ [RNext]_rvars => [Promise!EvictingNext]_(Promise!cvars)
  <2> SUFFICES ASSUME TypeOK, [RNext]_rvars
               PROVE  Promise!EvictingNext \/ UNCHANGED Promise!cvars
    BY DEF RTypeOK
  <2>1. ASSUME UNCHANGED Promise!avars PROVE UNCHANGED Promise!cvars
    BY <2>1 DEF Promise!avars, Promise!cvars
  <2>2. ASSUME NEW p \in Publishers,
               \/ \E n \in Namespaces, result \in Submissions : put_action_result(p, n, result)
               \/ PublishStep(p)
               \/ publish_fails(p) \/ insert_unheard(p)
        PROVE  Promise!EvictingNext \/ UNCHANGED Promise!cvars
    <3>1. ASSUME NEW n \in Namespaces, NEW result \in Submissions,
                 put_action_result(p, n, result)
          PROVE  Promise!EvictingNext
      BY <3>1, Asks DEF Promise!EvictingNext
    <3>2. CASE Validate(p)
      BY <2>1, <3>2, Validates DEF Promise!EvictingNext
    <3>3. CASE Commit(p) \/ insert_unheard(p)
      BY <2>1, <3>3, Decides DEF Promise!EvictingNext
    <3>4. CASE publish_fails(p)
      <4>1. /\ pub' = [pub EXCEPT ![p] = pub'[p]] /\ pub'[p].pc = "failed"
            /\ UNCHANGED results /\ pub[p].pc \in PubRunning
        BY <3>4 DEF publish_fails, Abandon, TypeOK, PubOK, IdlePub, stores
      <4> QED BY <4>1, Declines DEF Promise!EvictingNext
    <3> QED BY <2>2, <3>1, <3>2, <3>3, <3>4 DEF PublishStep
  <2>3. ASSUME NEW u \in Uploaders,
               \/ \E n \in Namespaces, d, bytes \in Digests : put_blob(u, n, d, bytes)
               \/ UploadStep(u)
               \/ upload_fails(u) \/ register_unheard(u)
        PROVE  UNCHANGED Promise!cvars
    BY <2>3, NotSeen DEF put_blob, UploadStep, blobs_put, persist_noclobber, register_blob,
                         upload_fails, register_unheard, stores
  <2>4. ASSUME NEW g \in Readers,
               \/ \E n \in Namespaces, d \in Digests : get_blob(g, n, d)
               \/ ReadStep(g)
               \/ read_fails(g)
        PROVE  UNCHANGED Promise!cvars
    BY <2>4, NotSeen DEF get_blob, ReadStep, record_blob_access, blobs_get, read_fails, stores
  <2>5. CASE quiet_step
    BY <2>2, <2>3, <2>4, <2>5, QuietSteps
  <2>6. CASE sweep_commit
    <3>1. UNCHANGED pub /\ results' = [n \in Namespaces |-> [a \in Digests |->
                IF <<n, a>> \in sweep.results \cap Keys THEN None ELSE results[n][a]]]
      BY <2>6 DEF sweep_commit, Keys
    <3>2. sweep.results \cap Keys \in SUBSET (Namespaces \X Digests)
      BY DEF Keys
    <3>3. Promise!Evict
      BY <3>1, <3>2 DEF Promise!Evict
    <3> QED BY <3>3 DEF Promise!EvictingNext
  <2>7. ASSUME NEW d \in Digests, expire(d) PROVE UNCHANGED Promise!cvars
    BY <2>7, NotSeen DEF expire
  <2>8. CASE tick \/ SweepStep \/ UNCHANGED rvars
    BY <2>8, NotSeen DEF tick, SweepStep, sweep_blobs, sweep_row, sweep_action_results,
                         sweep_fails, rvars, vars
  <2>9. ASSUME NEW g \in Readers, TouchStep(g) PROVE UNCHANGED Promise!cvars
    BY <2>9, NotSeen, TouchesNothing
  <2> QED BY <2>2, <2>3, <2>4, <2>5, <2>6, <2>7, <2>8, <2>9, Steps
             DEF put_object, upsert_row, upsert_unheard, insert_result, insert_result_unheard,
                 touch_row, UploadStep, PublishStep, Commit, ReadStep
<1> QED
  BY <1>1, <1>2, RetentionTypes, PTL DEF RSafeSpec, KeepsWriteOnce, Promise!EvictingSpec
=============================================================================
