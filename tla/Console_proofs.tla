--------------------------- MODULE Console_proofs ---------------------------
(***************************************************************************)
(* What the console and the chat are given of the user's own, for any      *)
(* keys, documents, rows, statements and faults: the copies of the schemas *)
(* behind a datasource's consent, the uploaded documents, a result page by *)
(* page, and a result without the values that agents may not see.          *)
(***************************************************************************)
EXTENDS UserKnowledge, Paging, QueryMasking, FiniteSetTheorems, SequenceTheorems,
        WellFoundedInduction, TLAPS

(* The schema cache.  One copy at a time works for a key, and what it      *)
(* carries is at least as new as anything on disk; the temporary file is   *)
(* always that of a copy that waits to rename.  A copy that has read the   *)
(* entry while consent stands has noticed it.                              *)
ScEntry == [list : BOOLEAN, kinds : BOOLEAN, detail : BOOLEAN, recent : BOOLEAN, stamp : Nat]
ScCopy == [pc : {"read", "tmp", "rename", "consent", "send"}, key : ScKeys,
           queued : BOOLEAN, given : BOOLEAN, stamp : Nat]
ScSnapshot == [key : ScKeys, stamp : Nat]

SchemaTypeOK ==
    /\ scSource \in [consent : BOOLEAN, exists : BOOLEAN, changes : Nat]
    /\ scCache \in [ScKeys -> ScEntry]
    /\ scCall \in [ScCalls -> {NoScCall} \cup
         [pc : {"list", "kinds", "clear", "mark", "describe"}, key : ScKeys, force : BOOLEAN, consent : BOOLEAN]]
    /\ scRefresh \in [ScKeys -> {NoScCall} \cup [pc : {"fetch"}, consent : BOOLEAN]]
    /\ scSync \in [ScWorkers -> {NoSync} \cup ScCopy]
    /\ scFile \in [schema : {NoFile} \cup ScSnapshot, tmp : {NoFile} \cup ScSnapshot, er : BOOLEAN]
    /\ scWrote \in [ScKeys -> Nat]
    /\ scSent \subseteq [given : BOOLEAN, gone : BOOLEAN]

OneCopyPerKey == \A v, w \in ScWorkers :
    scSync[v] # NoSync /\ scSync[w] # NoSync /\ scSync[v].key = scSync[w].key => v = w
TmpIsCopys == scFile.tmp # NoFile => \E w \in ScWorkers :
    scSync[w].pc = "rename" /\ scSync[w].key = scFile.tmp.key /\ scSync[w].stamp = scFile.tmp.stamp
CopiesNew ==
    /\ \A k \in ScKeys : scWrote[k] <= scCache[k].stamp
    /\ \A w \in ScWorkers : scSync[w].pc \in {"tmp", "rename"} =>
         scWrote[scSync[w].key] <= scSync[w].stamp /\ scSync[w].stamp <= scCache[scSync[w].key].stamp
ConsentNoticed == \A w \in ScWorkers :
    /\ scSync[w].pc \in {"tmp", "rename", "consent"} /\ scSource.exists /\ scSource.consent => scSync[w].given
    /\ scSync[w].pc = "send" => scSync[w].given \/ ~scSource.exists
SchemaInv ==
    /\ SchemaTypeOK /\ OneCopyPerKey /\ TmpIsCopys /\ CopiesNew /\ ConsentNoticed
    /\ SchemaSafe

(* The window's calls and the refreshes: the cache only grows, and at most *)
(* one copy starts, for a key that has none.                               *)
CacheGrows == scCache' \in [ScKeys -> ScEntry] /\ \A k \in ScKeys : scCache[k].stamp <= scCache'[k].stamp
CallsTyped ==
    /\ scCall' \in [ScCalls -> {NoScCall} \cup
         [pc : {"list", "kinds", "clear", "mark", "describe"}, key : ScKeys, force : BOOLEAN, consent : BOOLEAN]]
    /\ scRefresh' \in [ScKeys -> {NoScCall} \cup [pc : {"fetch"}, consent : BOOLEAN]]
CopyMayStart ==
    \/ UNCHANGED scSync
    \/ \E k \in ScKeys, w \in ScWorkers, q \in BOOLEAN :
         /\ TryBegin(k) /\ scSync[w] = NoSync
         /\ scSync' = [scSync EXCEPT ![w] = [pc |-> "read", key |-> k, queued |-> q, given |-> FALSE, stamp |-> 0]]

LEMMA IdleIsNoSync ==
  ASSUME SchemaTypeOK, NEW w \in ScWorkers
  PROVE  scSync[w].pc = "idle" <=> scSync[w] = NoSync
<1>1. scSync[w] \in {NoSync} \cup ScCopy
  BY DEF SchemaTypeOK
<1>2. \A r \in ScCopy : r.pc # "idle"
  BY DEF ScCopy
<1>3. NoSync.pc = "idle"
  BY DEF NoSync
<1>4. QED  BY <1>1, <1>2, <1>3

LEMMA EntryStoredGrows ==
  ASSUME SchemaTypeOK, NEW k \in ScKeys, NEW e \in ScEntry, NEW consent \in BOOLEAN,
         scCache[k].stamp <= e.stamp, EntryStored(k, e, consent)
  PROVE  CacheGrows /\ CopyMayStart
<1>1. scCache' = [scCache EXCEPT ![k] = e] /\ SyncSchemaKnowledgeAsync(k, consent)
  BY DEF EntryStored
<1>2. CacheGrows
  BY <1>1 DEF CacheGrows, SchemaTypeOK, ScEntry
<1>3. CopyMayStart
  <2>1. CASE UNCHANGED scSync
    BY <2>1 DEF CopyMayStart
  <2>2. ASSUME NEW w \in IdleWorkers, TryBegin(k),
               scSync' = [scSync EXCEPT ![w] = [pc |-> "read", key |-> k, queued |-> consent, given |-> FALSE, stamp |-> 0]]
        PROVE  CopyMayStart
    <3>1. w \in ScWorkers /\ scSync[w] = NoSync
      BY IdleIsNoSync DEF IdleWorkers
    <3>2. QED  BY <2>2, <3>1 DEF CopyMayStart
  <2>3. QED  BY <1>1, <2>1, <2>2 DEF SyncSchemaKnowledgeAsync
<1>4. QED  BY <1>2, <1>3

LEMMA WindowKeeps ==
  ASSUME SchemaInv, CacheGrows, CallsTyped, CopyMayStart, UNCHANGED <<scSource, scFile, scWrote, scSent>>
  PROVE  SchemaInv'
<1> USE DEF SchemaInv
<1>1. SchemaSafe'
  BY DEF SchemaSafe, DiagramConsented, KnowledgeForward
<1>2. CASE UNCHANGED scSync
  <2>1. SchemaTypeOK'
    BY <1>2 DEF SchemaTypeOK, CacheGrows, CallsTyped
  <2>2. OneCopyPerKey' /\ TmpIsCopys' /\ ConsentNoticed'
    BY <1>2 DEF OneCopyPerKey, TmpIsCopys, ConsentNoticed
  <2>3. \A k \in ScKeys : scWrote'[k] <= scCache'[k].stamp
    BY DEF CacheGrows, CopiesNew, SchemaTypeOK, ScEntry
  <2>4. ASSUME NEW w \in ScWorkers, scSync'[w].pc \in {"tmp", "rename"}
        PROVE  scWrote'[scSync'[w].key] <= scSync'[w].stamp /\ scSync'[w].stamp <= scCache'[scSync'[w].key].stamp
    <3>1. scSync[w] \in ScCopy
      BY <1>2, <2>4 DEF SchemaTypeOK, NoSync
    <3>2. QED  BY <1>2, <2>4, <3>1 DEF CacheGrows, CopiesNew, SchemaTypeOK, ScEntry, ScCopy
  <2>5. QED  BY <1>1, <2>1, <2>2, <2>3, <2>4 DEF CopiesNew
<1>3. ASSUME NEW k \in ScKeys, NEW w \in ScWorkers, NEW q \in BOOLEAN, TryBegin(k), scSync[w] = NoSync,
             scSync' = [scSync EXCEPT ![w] = [pc |-> "read", key |-> k, queued |-> q, given |-> FALSE, stamp |-> 0]]
      PROVE  SchemaInv'
  <2> DEFINE r == [pc |-> "read", key |-> k, queued |-> q, given |-> FALSE, stamp |-> 0]
  <2>1. r \in ScCopy /\ r.pc = "read" /\ r.key = k
    BY DEF ScCopy
  <2>2. scSync' = [scSync EXCEPT ![w] = r] /\ scSync \in [ScWorkers -> {NoSync} \cup ScCopy]
    BY <1>3 DEF SchemaTypeOK
  <2> HIDE DEF r
  <2>3. scSync' \in [ScWorkers -> {NoSync} \cup ScCopy] /\ scSync'[w] = r
        /\ \A v \in ScWorkers : v # w => scSync'[v] = scSync[v]
    BY <2>1, <2>2
  <2>4. SchemaTypeOK'
    BY <2>3 DEF SchemaTypeOK, CacheGrows, CallsTyped
  <2>5. \A v \in ScWorkers : scSync[v] # NoSync => scSync[v].key # k
    BY <1>3, IdleIsNoSync DEF TryBegin
  <2>6. OneCopyPerKey'
    BY <2>1, <2>3, <2>5 DEF OneCopyPerKey
  <2>7. TmpIsCopys'
    BY <1>3, <2>3 DEF TmpIsCopys, NoSync
  <2>8. ConsentNoticed'
    BY <2>1, <2>3 DEF ConsentNoticed
  <2>9. \A i \in ScKeys : scWrote'[i] <= scCache'[i].stamp
    BY DEF CacheGrows, CopiesNew, SchemaTypeOK, ScEntry
  <2>10. ASSUME NEW v \in ScWorkers, scSync'[v].pc \in {"tmp", "rename"}
         PROVE  scWrote'[scSync'[v].key] <= scSync'[v].stamp /\ scSync'[v].stamp <= scCache'[scSync'[v].key].stamp
    <3>1. v # w /\ scSync'[v] = scSync[v]
      BY <2>1, <2>3, <2>10
    <3>2. scSync[v] \in ScCopy
      BY <3>1, <2>10 DEF SchemaTypeOK, NoSync
    <3>3. QED  BY <2>10, <3>1, <3>2 DEF CacheGrows, CopiesNew, SchemaTypeOK, ScEntry, ScCopy
  <2>11. QED  BY <1>1, <2>4, <2>6, <2>7, <2>8, <2>9, <2>10 DEF CopiesNew
<1>4. QED  BY <1>2, <1>3 DEF CopyMayStart

LEMMA UpsertStores ==
  ASSUME NEW e \in ScEntry, NEW kinds \in BOOLEAN
  PROVE  /\ UpsertEntitiesWithKinds(e, kinds) \in ScEntry
         /\ UpsertEntitiesWithKinds(e, kinds).stamp = e.stamp + 1
         /\ UpsertDescribe(e) \in ScEntry
         /\ UpsertDescribe(e).stamp = e.stamp + 1
         /\ e.stamp <= e.stamp + 1
<1>1. e.stamp + 1 \in Nat /\ e.stamp <= e.stamp + 1 /\ e.stamp \in Nat
  BY DEF ScEntry
<1>2. UpsertEntitiesWithKinds(e, kinds) \in ScEntry
  BY <1>1 DEF UpsertEntitiesWithKinds, ScEntry
<1>3. UpsertDescribe(e) \in ScEntry
  BY <1>1 DEF UpsertDescribe, ScEntry
<1>4. UpsertEntitiesWithKinds(e, kinds).stamp = e.stamp + 1
  BY <1>1 DEF UpsertEntitiesWithKinds, ScEntry
<1>5. UpsertDescribe(e).stamp = e.stamp + 1
  BY <1>1 DEF UpsertDescribe, ScEntry
<1>6. QED  BY <1>1, <1>2, <1>3, <1>4, <1>5

LEMMA EntryGrows ==
  ASSUME SchemaTypeOK, NEW k \in ScKeys, NEW e \in ScEntry, e.stamp = scCache[k].stamp,
         scCache'[k] = e, \A i \in ScKeys \ {k} : scCache'[i] = scCache[i], scCache' = [i \in ScKeys |-> scCache'[i]]
  PROVE  CacheGrows
<1>1. \A i \in ScKeys : scCache[i] \in ScEntry /\ scCache[i].stamp \in Nat
  BY DEF SchemaTypeOK, ScEntry
<1>2. QED  BY <1>1 DEF CacheGrows

LEMMA MarkedGrows ==
  ASSUME SchemaTypeOK, NEW k \in ScKeys, NEW detail \in BOOLEAN, NEW recent \in BOOLEAN,
         scCache' = [scCache EXCEPT ![k].detail = detail, ![k].recent = recent]
  PROVE  CacheGrows
<1>1. scCache \in [ScKeys -> ScEntry] /\ scCache[k] \in ScEntry
  BY DEF SchemaTypeOK
<1>2. scCache'[k] = [scCache[k] EXCEPT !.detail = detail, !.recent = recent]
      /\ \A i \in ScKeys \ {k} : scCache'[i] = scCache[i]
  BY <1>1 DEF ScEntry
<1>3. scCache'[k] \in ScEntry /\ scCache'[k].stamp = scCache[k].stamp
  BY <1>1, <1>2 DEF ScEntry
<1>4. scCache' = [i \in ScKeys |-> scCache'[i]]
  BY <1>1
<1>5. QED  BY <1>2, <1>3, <1>4, EntryGrows

LEMMA StaleGrows ==
  ASSUME SchemaTypeOK, NEW k \in ScKeys, scCache' = [scCache EXCEPT ![k].recent = FALSE]
  PROVE  CacheGrows
<1>1. scCache \in [ScKeys -> ScEntry] /\ scCache[k] \in ScEntry
  BY DEF SchemaTypeOK
<1>2. scCache'[k] = [scCache[k] EXCEPT !.recent = FALSE]
      /\ \A i \in ScKeys \ {k} : scCache'[i] = scCache[i]
  BY <1>1 DEF ScEntry
<1>3. scCache'[k] \in ScEntry /\ scCache'[k].stamp = scCache[k].stamp
  BY <1>1, <1>2 DEF ScEntry
<1>4. scCache' = [i \in ScKeys |-> scCache'[i]]
  BY <1>1
<1>5. QED  BY <1>2, <1>3, <1>4, EntryGrows

LEMMA CallStepKeeps ==
  ASSUME SchemaInv, NEW c \in ScCalls,
         \/ \E k \in ScKeys : \/ \E force \in BOOLEAN : ListEntities(c, k, force)
                              \/ ListEntitiesPageCached(c, k) \/ DescribeEntity(c, k)
         \/ ListFails(c) \/ ListStored(c) \/ KindsStored(c)
         \/ ClearDescribe(c) \/ MarkStale(c) \/ DescribeStored(c)
  PROVE  SchemaInv'
<1> DEFINE Calling == [pc : {"list", "kinds", "clear", "mark", "describe"}, key : ScKeys, force : BOOLEAN, consent : BOOLEAN]
<1> DEFINE call == scCall[c]
<1>0. SchemaTypeOK
  BY DEF SchemaInv
<1>1. call \in {NoScCall} \cup Calling
  BY <1>0 DEF SchemaTypeOK
<1>2. call.pc # "idle" => call \in Calling
  BY <1>1 DEF NoScCall
<1>3. scSource.consent \in BOOLEAN /\ \A k \in ScKeys : scCache[k] \in ScEntry
  BY <1>0 DEF SchemaTypeOK
<1>5. CacheGrows \/ ~UNCHANGED scCache
  BY <1>0 DEF CacheGrows, SchemaTypeOK, ScEntry
<1>6. CopyMayStart \/ ~UNCHANGED scSync
  BY DEF CopyMayStart
<1>7. scCall \in [ScCalls -> {NoScCall} \cup Calling] /\ scRefresh \in [ScKeys -> {NoScCall} \cup [pc : {"fetch"}, consent : BOOLEAN]]
  BY <1>0 DEF SchemaTypeOK
<1>8. \A k \in ScKeys, pc \in {"list", "kinds", "describe"}, force \in BOOLEAN :
        Call(c, pc, k, force) => scCall' \in [ScCalls -> {NoScCall} \cup Calling]
  BY <1>3, <1>7 DEF Call
<1>9. Answers(c) => scCall' \in [ScCalls -> {NoScCall} \cup Calling]
  BY <1>7 DEF Answers
<1>10. call \in Calling /\ (Moves(c, "clear") \/ Moves(c, "mark")) => scCall' \in [ScCalls -> {NoScCall} \cup Calling]
  BY <1>7 DEF Moves
<1>11. \A k \in ScKeys : RefreshEntitySchemaCacheAsync(k) => scRefresh' \in [ScKeys -> {NoScCall} \cup [pc : {"fetch"}, consent : BOOLEAN]]
  BY <1>3, <1>7 DEF RefreshEntitySchemaCacheAsync
<1>12. \A k \in ScKeys, kinds \in BOOLEAN :
          /\ UpsertEntitiesWithKinds(scCache[k], kinds) \in ScEntry
          /\ UpsertEntitiesWithKinds(scCache[k], kinds).stamp = scCache[k].stamp + 1
          /\ UpsertDescribe(scCache[k]) \in ScEntry
          /\ UpsertDescribe(scCache[k]).stamp = scCache[k].stamp + 1
          /\ scCache[k].stamp <= scCache[k].stamp + 1
  BY <1>3, UpsertStores
<1>13. CallsTyped <=> /\ scCall' \in [ScCalls -> {NoScCall} \cup Calling]
                      /\ scRefresh' \in [ScKeys -> {NoScCall} \cup [pc : {"fetch"}, consent : BOOLEAN]]
  BY DEF CallsTyped
<1> HIDE DEF Calling
<1>14. SUFFICES CacheGrows /\ CallsTyped /\ CopyMayStart /\ UNCHANGED <<scSource, scFile, scWrote, scSent>>
  BY WindowKeeps
<1>15. ASSUME NEW k \in ScKeys, NEW force \in BOOLEAN, ListEntities(c, k, force)
       PROVE  CacheGrows /\ CallsTyped /\ CopyMayStart /\ UNCHANGED <<scSource, scFile, scWrote, scSent>>
  BY <1>15, <1>5, <1>6, <1>7, <1>8, <1>11, <1>13 DEF ListEntities, Untouched
<1>16. ASSUME NEW k \in ScKeys, ListEntitiesPageCached(c, k)
       PROVE  CacheGrows /\ CallsTyped /\ CopyMayStart /\ UNCHANGED <<scSource, scFile, scWrote, scSent>>
  BY <1>16, <1>5, <1>6, <1>7, <1>8, <1>11, <1>13 DEF ListEntitiesPageCached, Untouched
<1>17. ASSUME NEW k \in ScKeys, DescribeEntity(c, k)
       PROVE  CacheGrows /\ CallsTyped /\ CopyMayStart /\ UNCHANGED <<scSource, scFile, scWrote, scSent>>
  BY <1>17, <1>5, <1>6, <1>7, <1>8, <1>13 DEF DescribeEntity, Untouched
<1>18. CASE ListFails(c)
  BY <1>18, <1>5, <1>6, <1>7, <1>9, <1>13 DEF ListFails, Untouched
<1>19. CASE ListStored(c)
  <2>1. call \in Calling
    BY <1>19, <1>2 DEF ListStored, Fetching
  <2>2. call.key \in ScKeys /\ call.consent \in BOOLEAN
    BY <2>1 DEF Calling
  <2>3. PICK kinds \in BOOLEAN : EntryStored(call.key, UpsertEntitiesWithKinds(scCache[call.key], kinds), call.consent)
    BY <1>19 DEF ListStored
  <2>4. CacheGrows /\ CopyMayStart
    BY <2>2, <2>3, <1>0, <1>12, EntryStoredGrows
  <2>5. QED  BY <1>19, <2>1, <2>4, <1>7, <1>9, <1>10, <1>13 DEF ListStored, Untouched
<1>20. CASE KindsStored(c)
  <2>1. call \in Calling
    BY <1>20, <1>2 DEF KindsStored, Fetching
  <2>2. call.key \in ScKeys /\ call.consent \in BOOLEAN
    BY <2>1 DEF Calling
  <2>3. EntryStored(call.key, UpsertEntitiesWithKinds(scCache[call.key], TRUE), call.consent)
    BY <1>20 DEF KindsStored
  <2>4. CacheGrows /\ CopyMayStart
    BY <2>2, <2>3, <1>0, <1>12, EntryStoredGrows
  <2>5. QED  BY <1>20, <2>4, <1>7, <1>9, <1>13 DEF KindsStored, Untouched
<1>21. CASE DescribeStored(c)
  <2>1. call \in Calling
    BY <1>21, <1>2 DEF DescribeStored, Fetching
  <2>2. call.key \in ScKeys /\ call.consent \in BOOLEAN
    BY <2>1 DEF Calling
  <2>3. EntryStored(call.key, UpsertDescribe(scCache[call.key]), call.consent)
    BY <1>21 DEF DescribeStored
  <2>4. CacheGrows /\ CopyMayStart
    BY <2>2, <2>3, <1>0, <1>12, EntryStoredGrows
  <2>5. QED  BY <1>21, <2>4, <1>7, <1>9, <1>13 DEF DescribeStored, Untouched
<1>22. CASE ClearDescribe(c)
  <2>1. call \in Calling /\ call.key \in ScKeys
    BY <1>22, <1>2 DEF ClearDescribe, Fetching, Calling
  <2>2. CacheGrows
    <3> DEFINE k == call.key
    <3>1. /\ scCache[k].recent \in BOOLEAN /\ scCache[k].detail \in BOOLEAN
          /\ scCache[k] \in ScEntry
      BY <2>1, <1>3 DEF ScEntry
    <3>2. (scCache[k].recent \/ scCache[k].detail) \in BOOLEAN
      OBVIOUS
    <3>3. scCache' = [scCache EXCEPT ![k].detail = FALSE, ![k].recent = scCache[k].recent \/ scCache[k].detail]
      BY <1>22, <2>1, <1>7, <3>1 DEF ClearDescribe
    <3>4. QED  BY <1>0, <2>1, <3>2, <3>3, MarkedGrows
  <2>3. QED  BY <1>22, <2>1, <2>2, <1>6, <1>7, <1>10, <1>13 DEF ClearDescribe, Untouched
<1>23. CASE MarkStale(c)
  <2>1. call \in Calling /\ call.key \in ScKeys
    BY <1>23, <1>2 DEF MarkStale, Fetching, Calling
  <2>2. CacheGrows
    BY <1>23, <2>1, <1>0, StaleGrows DEF MarkStale
  <2>3. QED  BY <1>23, <2>2, <1>6, <1>7, <1>9, <1>13 DEF MarkStale, Untouched
<1>24. QED
  BY <1>15, <1>16, <1>17, <1>18, <1>19, <1>20, <1>21, <1>22, <1>23

LEMMA RefreshStepKeeps ==
  ASSUME SchemaInv, NEW k \in ScKeys, RefreshStores(k) \/ RefreshFails(k) \/ IntervalPasses(k)
  PROVE  SchemaInv'
<1>0. SchemaTypeOK
  BY DEF SchemaInv
<1>1. scCall \in [ScCalls -> {NoScCall} \cup
        [pc : {"list", "kinds", "clear", "mark", "describe"}, key : ScKeys, force : BOOLEAN, consent : BOOLEAN]]
  BY <1>0 DEF SchemaTypeOK
<1>2. scRefresh \in [ScKeys -> {NoScCall} \cup [pc : {"fetch"}, consent : BOOLEAN]]
  BY <1>0 DEF SchemaTypeOK
<1>3. CASE RefreshStores(k)
  <2>1. scRefresh[k] \in [pc : {"fetch"}, consent : BOOLEAN]
    BY <1>2, <1>3 DEF RefreshStores, NoScCall
  <2>2. scCache[k] \in ScEntry /\ scRefresh[k].consent \in BOOLEAN
    BY <1>0, <2>1 DEF SchemaTypeOK
  <2>3. EntryStored(k, UpsertEntitiesWithKinds(scCache[k], TRUE), scRefresh[k].consent)
    BY <1>3 DEF RefreshStores
  <2>4. CacheGrows /\ CopyMayStart
    BY <1>0, <2>2, <2>3, UpsertStores, EntryStoredGrows
  <2>5. CallsTyped /\ UNCHANGED <<scSource, scFile, scWrote, scSent>>
    BY <1>1, <1>2, <1>3 DEF RefreshStores, CallsTyped
  <2>6. QED  BY <2>4, <2>5, WindowKeeps
<1>4. CASE RefreshFails(k)
  <2>1. CacheGrows /\ CopyMayStart
    BY <1>0, <1>4 DEF RefreshFails, CopyMayStart, CacheGrows, SchemaTypeOK, ScEntry
  <2>2. CallsTyped /\ UNCHANGED <<scSource, scFile, scWrote, scSent>>
    BY <1>1, <1>2, <1>4 DEF RefreshFails, CallsTyped
  <2>3. QED  BY <2>1, <2>2, WindowKeeps
<1>5. CASE IntervalPasses(k)
  <2>1. CacheGrows /\ CopyMayStart
    BY <1>0, <1>5, StaleGrows DEF IntervalPasses, CopyMayStart
  <2>2. CallsTyped /\ UNCHANGED <<scSource, scFile, scWrote, scSent>>
    BY <1>1, <1>2, <1>5 DEF IntervalPasses, CallsTyped
  <2>3. QED  BY <2>1, <2>2, WindowKeeps
<1>6. QED  BY <1>3, <1>4, <1>5

(* A step of one copy, seen from the others.                               *)
LEMMA CopyMoves ==
  ASSUME SchemaInv, NEW w \in ScWorkers, NEW r \in {NoSync} \cup ScCopy,
         scSync[w] # NoSync, r # NoSync => r.key = scSync[w].key, SyncMoves(w, r)
  PROVE  /\ scSync' \in [ScWorkers -> {NoSync} \cup ScCopy]
         /\ scSync'[w] = r /\ \A v \in ScWorkers : v # w => scSync'[v] = scSync[v]
         /\ OneCopyPerKey'
<1>1. scSync \in [ScWorkers -> {NoSync} \cup ScCopy] /\ scSync' = [scSync EXCEPT ![w] = r]
  BY DEF SchemaInv, SchemaTypeOK, SyncMoves
<1>2. /\ scSync' \in [ScWorkers -> {NoSync} \cup ScCopy]
      /\ scSync'[w] = r /\ \A v \in ScWorkers : v # w => scSync'[v] = scSync[v]
  BY <1>1
<1>3. \A u, v \in ScWorkers : scSync'[u] # NoSync /\ scSync'[v] # NoSync /\ scSync'[u].key = scSync'[v].key => u = v
  BY <1>2 DEF SchemaInv, OneCopyPerKey
<1>4. QED  BY <1>2, <1>3 DEF OneCopyPerKey

LEMMA CopyTyped ==
  ASSUME SchemaTypeOK, NEW w \in ScWorkers, scSync[w].pc # "idle"
  PROVE  /\ scSync[w] \in ScCopy /\ scSync[w] # NoSync /\ NoSync \notin ScCopy
         /\ scSync[w].key \in ScKeys /\ scSync[w].stamp \in Nat /\ scSync[w].given \in BOOLEAN
<1>1. scSync[w] \in {NoSync} \cup ScCopy /\ scSync[w] # NoSync
  BY IdleIsNoSync DEF SchemaTypeOK
<1>2. NoSync \notin ScCopy
  <2>1. \A r \in ScCopy : r.pc # "idle"
    BY DEF ScCopy
  <2>2. QED  BY <2>1 DEF NoSync
<1>3. QED  BY <1>1, <1>2 DEF ScCopy

(* The copies that are not at their file keep what their stage promises.   *)
LEMMA CopyStages ==
  ASSUME SchemaInv, NEW w \in ScWorkers, NEW pc \in {"rename", "consent", "send"}, scSync[w].pc # "idle"
  PROVE  /\ [scSync[w] EXCEPT !.pc = pc] \in ScCopy
         /\ [scSync[w] EXCEPT !.pc = pc].pc = pc
         /\ [scSync[w] EXCEPT !.pc = pc].key = scSync[w].key
         /\ [scSync[w] EXCEPT !.pc = pc].stamp = scSync[w].stamp
         /\ [scSync[w] EXCEPT !.pc = pc].given = scSync[w].given
<1>1. scSync[w] \in ScCopy
  BY CopyTyped DEF SchemaInv
<1>2. QED  BY <1>1 DEF ScCopy

LEMMA SyncReadsKeeps ==
  ASSUME SchemaInv, NEW w \in ScWorkers, SyncReads(w)
  PROVE  SchemaInv'
<1> DEFINE k == scSync[w].key
<1> DEFINE e == scCache[k]
<1> DEFINE r == [scSync[w] EXCEPT !.pc = "tmp", !.stamp = e.stamp, !.given = scSource.consent]
<1>1. SchemaTypeOK /\ scSync[w].pc = "read"
  BY DEF SchemaInv, SyncReads, Syncing
<1>2. scSync[w] \in ScCopy /\ scSync[w] # NoSync /\ k \in ScKeys /\ e \in ScEntry /\ scSource.consent \in BOOLEAN
  BY <1>1, CopyTyped DEF SchemaTypeOK
<1>3. /\ r \in ScCopy /\ r.pc = "tmp" /\ r.key = k /\ r.stamp = e.stamp /\ r.given = scSource.consent
      /\ e.stamp \in Nat
  BY <1>2 DEF ScCopy, ScEntry
<1>4. SyncMoves(w, r) \/ SyncMoves(w, NoSync)
  BY DEF SyncReads
<1>5. UNCHANGED <<scSource, scCache, scCall, scRefresh, scFile, scWrote, scSent>>
  BY DEF SyncReads, Beside
<1> HIDE DEF r, e
<1>6. PICK q \in {NoSync, r} : SyncMoves(w, q)
  BY <1>4
<1>7. /\ scSync' \in [ScWorkers -> {NoSync} \cup ScCopy]
      /\ scSync'[w] = q /\ \A v \in ScWorkers : v # w => scSync'[v] = scSync[v]
      /\ OneCopyPerKey'
  BY <1>2, <1>3, <1>6, CopyMoves
<1>8. SchemaTypeOK' /\ SchemaSafe'
  BY <1>1, <1>5, <1>7 DEF SchemaInv, SchemaTypeOK, SchemaSafe, DiagramConsented, KnowledgeForward
<1>9. TmpIsCopys'
  BY <1>1, <1>5, <1>7 DEF SchemaInv, TmpIsCopys
<1>10. NoSync.pc = "idle"
  BY DEF NoSync
<1>11. CopiesNew'
  <2>1. scWrote[k] <= e.stamp /\ e.stamp <= e.stamp
    BY <1>1, <1>2, <1>3 DEF SchemaInv, CopiesNew, SchemaTypeOK, e
  <2>2. \A i \in ScKeys : scWrote'[i] <= scCache'[i].stamp
    BY <1>5 DEF SchemaInv, CopiesNew
  <2>3. ASSUME NEW v \in ScWorkers, scSync'[v].pc \in {"tmp", "rename"}
        PROVE  scWrote'[scSync'[v].key] <= scSync'[v].stamp /\ scSync'[v].stamp <= scCache'[scSync'[v].key].stamp
    <3>1. CASE v = w
      BY <1>3, <1>5, <1>6, <1>7, <1>10, <2>1, <2>3, <3>1 DEF e
    <3>2. CASE v # w
      BY <1>5, <1>7, <2>3, <3>2 DEF SchemaInv, CopiesNew
    <3>3. QED  BY <3>1, <3>2
  <2>4. QED  BY <2>2, <2>3 DEF CopiesNew
<1>12. ConsentNoticed'
  BY <1>3, <1>5, <1>6, <1>7, <1>10 DEF SchemaInv, ConsentNoticed
<1>13. QED  BY <1>7, <1>8, <1>9, <1>11, <1>12 DEF SchemaInv

LEMMA WriteTmpKeeps ==
  ASSUME SchemaInv, NEW w \in ScWorkers, WriteJSONFileTmp(w)
  PROVE  SchemaInv'
<1> DEFINE r == [scSync[w] EXCEPT !.pc = "rename"]
<1> DEFINE s == [key |-> scSync[w].key, stamp |-> scSync[w].stamp]
<1>1. SchemaTypeOK /\ scSync[w].pc = "tmp"
  BY DEF SchemaInv, WriteJSONFileTmp, Syncing
<1>2. /\ scSync[w] \in ScCopy /\ scSync[w] # NoSync
      /\ scSync[w].key \in ScKeys /\ scSync[w].stamp \in Nat
  BY <1>1, CopyTyped
<1>3. r \in ScCopy /\ r.pc = "rename" /\ r.key = scSync[w].key /\ r.stamp = scSync[w].stamp /\ r.given = scSync[w].given
  BY <1>1, CopyStages
<1>4. SyncMoves(w, r) /\ scFile' = [scFile EXCEPT !.tmp = s]
  BY DEF WriteJSONFileTmp, SyncNext, BuildSchemaKnowledgeSnapshot
<1>5. UNCHANGED <<scSource, scCache, scCall, scRefresh, scWrote, scSent>>
  BY DEF WriteJSONFileTmp, Beside
<1>6. s \in ScSnapshot /\ s.key = scSync[w].key /\ s.stamp = scSync[w].stamp
  BY <1>2 DEF ScSnapshot
<1> HIDE DEF r, s
<1>7. /\ scSync' \in [ScWorkers -> {NoSync} \cup ScCopy]
      /\ scSync'[w] = r /\ \A v \in ScWorkers : v # w => scSync'[v] = scSync[v]
      /\ OneCopyPerKey'
  BY <1>2, <1>3, <1>4, CopyMoves
<1>8. scFile' \in [schema : {NoFile} \cup ScSnapshot, tmp : {NoFile} \cup ScSnapshot, er : BOOLEAN]
      /\ scFile'.tmp = s /\ scFile'.schema = scFile.schema
  BY <1>1, <1>4, <1>6 DEF SchemaTypeOK
<1>9. SchemaTypeOK' /\ SchemaSafe'
  BY <1>1, <1>5, <1>7, <1>8 DEF SchemaInv, SchemaTypeOK, SchemaSafe, DiagramConsented, KnowledgeForward
<1>10. TmpIsCopys'
  BY <1>3, <1>6, <1>7, <1>8 DEF TmpIsCopys
<1>11. CopiesNew'
  BY <1>1, <1>3, <1>5, <1>7 DEF SchemaInv, CopiesNew
<1>12. ConsentNoticed'
  BY <1>1, <1>3, <1>5, <1>7 DEF SchemaInv, ConsentNoticed
<1>13. QED  BY <1>7, <1>9, <1>10, <1>11, <1>12 DEF SchemaInv

LEMMA WriteRenameKeeps ==
  ASSUME SchemaInv, NEW w \in ScWorkers, WriteJSONFileRename(w)
  PROVE  SchemaInv'
<1> DEFINE r == [scSync[w] EXCEPT !.pc = "consent"]
<1>1. SchemaTypeOK /\ scSync[w].pc = "rename"
  BY DEF SchemaInv, WriteJSONFileRename, Syncing
<1>2. /\ scSync[w] \in ScCopy /\ scSync[w] # NoSync
      /\ scSync[w].key \in ScKeys /\ scSync[w].stamp \in Nat
  BY <1>1, CopyTyped
<1>3. r \in ScCopy /\ r.pc = "consent" /\ r.key = scSync[w].key /\ r.stamp = scSync[w].stamp /\ r.given = scSync[w].given
  BY <1>1, CopyStages
<1>4. SyncMoves(w, r) \/ SyncMoves(w, NoSync)
  BY DEF WriteJSONFileRename, SyncNext
<1>5. UNCHANGED <<scSource, scCache, scCall, scRefresh, scSent>>
  BY DEF WriteJSONFileRename, Beside
<1>10. NoSync.pc = "idle"
  BY DEF NoSync
<1> HIDE DEF r
<1>6. PICK q \in {NoSync, r} : SyncMoves(w, q)
  BY <1>4
<1>7. /\ scSync' \in [ScWorkers -> {NoSync} \cup ScCopy]
      /\ scSync'[w] = q /\ \A v \in ScWorkers : v # w => scSync'[v] = scSync[v]
      /\ OneCopyPerKey'
  BY <1>2, <1>3, <1>6, CopyMoves
<1>8. ConsentNoticed'
  BY <1>1, <1>3, <1>5, <1>6, <1>7, <1>10 DEF SchemaInv, ConsentNoticed
<1>9. CASE scFile.tmp = NoFile
  <2>1. UNCHANGED <<scFile, scWrote>>
    BY <1>9 DEF WriteJSONFileRename
  <2>2. SchemaTypeOK' /\ SchemaSafe' /\ TmpIsCopys'
    BY <1>1, <1>5, <1>7, <1>9, <2>1 DEF SchemaInv, SchemaTypeOK, SchemaSafe, DiagramConsented, KnowledgeForward, TmpIsCopys
  <2>3. CopiesNew'
    BY <1>1, <1>3, <1>5, <1>6, <1>7, <1>10, <2>1 DEF SchemaInv, CopiesNew
  <2>4. QED  BY <1>7, <1>8, <2>2, <2>3 DEF SchemaInv
<1>11. CASE scFile.tmp # NoFile
  <2> DEFINE s == scFile.tmp
  <2>1. s \in ScSnapshot /\ s.key \in ScKeys /\ s.stamp \in Nat
    BY <1>1, <1>11 DEF SchemaTypeOK, ScSnapshot
  <2>2. /\ scFile' = [scFile EXCEPT !.schema = s, !.tmp = NoFile]
        /\ scWrote' = [scWrote EXCEPT ![s.key] = IF s.stamp > @ THEN s.stamp ELSE @]
    BY <1>11 DEF WriteJSONFileRename
  <2>3. PICK u \in ScWorkers : scSync[u].pc = "rename" /\ scSync[u].key = s.key /\ scSync[u].stamp = s.stamp
    BY <1>11 DEF SchemaInv, TmpIsCopys
  <2>4. scWrote[s.key] <= s.stamp /\ s.stamp <= scCache[s.key].stamp
    BY <2>3 DEF SchemaInv, CopiesNew
  <2>5. scWrote \in [ScKeys -> Nat]
    BY <1>1 DEF SchemaTypeOK
  <2>6. scWrote'[s.key] = s.stamp /\ scWrote' \in [ScKeys -> Nat]
        /\ \A k \in ScKeys : k # s.key => scWrote'[k] = scWrote[k]
    BY <2>1, <2>2, <2>4, <2>5
  <2>7. /\ scFile' \in [schema : {NoFile} \cup ScSnapshot, tmp : {NoFile} \cup ScSnapshot, er : BOOLEAN]
        /\ scFile'.tmp = NoFile /\ scFile'.schema = s
    BY <1>1, <2>1, <2>2 DEF SchemaTypeOK
  <2>8. SchemaTypeOK' /\ SchemaSafe' /\ TmpIsCopys'
    BY <1>1, <1>5, <1>7, <2>6, <2>7 DEF SchemaInv, SchemaTypeOK, SchemaSafe, DiagramConsented, KnowledgeForward, TmpIsCopys
  <2>9. \A k \in ScKeys : scWrote'[k] <= scCache'[k].stamp
    BY <1>5, <2>4, <2>6 DEF SchemaInv, CopiesNew
  <2>10. ASSUME NEW v \in ScWorkers, scSync'[v].pc \in {"tmp", "rename"}
         PROVE  scWrote'[scSync'[v].key] <= scSync'[v].stamp /\ scSync'[v].stamp <= scCache'[scSync'[v].key].stamp
    <3>1. v # w /\ scSync'[v] = scSync[v]
      BY <1>3, <1>6, <1>7, <1>10, <2>10
    <3>2. scSync[v] # NoSync /\ scSync[u] # NoSync /\ scSync[v].key \in ScKeys /\ scSync[v].stamp \in Nat
      BY <1>1, <2>3, <2>10, <3>1, CopyTyped
    <3>3. scSync[v].key = s.key => scSync[v].stamp = s.stamp
      BY <2>3, <3>2 DEF SchemaInv, OneCopyPerKey
    <3>4. QED  BY <1>5, <2>1, <2>6, <2>10, <3>1, <3>2, <3>3 DEF SchemaInv, CopiesNew
  <2>11. QED  BY <1>7, <1>8, <2>8, <2>9, <2>10 DEF SchemaInv, CopiesNew
<1>12. QED  BY <1>9, <1>11

LEMMA DiagramKeeps ==
  ASSUME SchemaInv, NEW w \in ScWorkers, MaybeGenerateER(w) \/ SendER(w)
  PROVE  SchemaInv'
<1> DEFINE r == [scSync[w] EXCEPT !.pc = "send"]
<1>1. SchemaTypeOK /\ scSync[w].pc \in {"consent", "send"}
  BY DEF SchemaInv, MaybeGenerateER, SendER, Syncing
<1>2. /\ scSync[w] \in ScCopy /\ scSync[w] # NoSync /\ scSync[w].given \in BOOLEAN
  BY <1>1, CopyTyped
<1>3. r \in ScCopy /\ r.pc = "send" /\ r.key = scSync[w].key /\ r.given = scSync[w].given
  BY <1>1, CopyStages
<1>4. SyncMoves(w, NoSync) \/ (SyncMoves(w, r) /\ scSync[w].pc = "consent" /\ ConsentOf(w))
  BY DEF MaybeGenerateER, SendER, SyncNext, Syncing
<1>5. UNCHANGED <<scSource, scCache, scCall, scRefresh, scWrote>>
  BY DEF MaybeGenerateER, SendER, Beside
<1>6. scFile' \in [schema : {NoFile} \cup ScSnapshot, tmp : {NoFile} \cup ScSnapshot, er : BOOLEAN]
      /\ scFile'.tmp = scFile.tmp /\ scFile'.schema = scFile.schema
  BY <1>1 DEF MaybeGenerateER, SendER, SchemaTypeOK
<1>7. scSource.exists \in BOOLEAN
  BY <1>1 DEF SchemaTypeOK
<1>8. \/ UNCHANGED scSent
      \/ /\ scSent' = scSent \cup {[given |-> scSync[w].given, gone |-> ~scSource.exists]}
         /\ scSync[w].pc = "send"
  BY DEF MaybeGenerateER, SendER, Syncing
<1>9. scSent' \subseteq [given : BOOLEAN, gone : BOOLEAN]
  <2>1. (~scSource.exists) \in BOOLEAN
    OBVIOUS
  <2>2. [given |-> scSync[w].given, gone |-> ~scSource.exists] \in [given : BOOLEAN, gone : BOOLEAN]
    BY <1>2, <2>1
  <2>3. QED  BY <1>1, <1>8, <2>2 DEF SchemaTypeOK
<1>10. NoSync.pc = "idle"
  BY DEF NoSync
<1>11. DiagramConsented'
  <2>1. \A s \in scSent : s.given \/ s.gone
    BY DEF SchemaInv, SchemaSafe, DiagramConsented
  <2>2. CASE UNCHANGED scSent
    BY <2>1, <2>2 DEF DiagramConsented
  <2>3. CASE /\ scSent' = scSent \cup {[given |-> scSync[w].given, gone |-> ~scSource.exists]}
             /\ scSync[w].pc = "send"
    <3>1. scSync[w].given \/ ~scSource.exists
      BY <2>3 DEF SchemaInv, ConsentNoticed
    <3>2. \A s \in scSent' : s \in scSent \/ (s.given = scSync[w].given /\ s.gone = ~scSource.exists)
      BY <2>3
    <3>3. QED  BY <2>1, <3>1, <3>2 DEF DiagramConsented
  <2>4. QED  BY <1>8, <2>2, <2>3
<1> HIDE DEF r
<1>12. PICK q \in {NoSync, r} : SyncMoves(w, q) /\ (q = r => scSync[w].pc = "consent" /\ ConsentOf(w))
  BY <1>2, <1>3, <1>4, <1>10
<1>13. /\ scSync' \in [ScWorkers -> {NoSync} \cup ScCopy]
       /\ scSync'[w] = q /\ \A v \in ScWorkers : v # w => scSync'[v] = scSync[v]
       /\ OneCopyPerKey'
  BY <1>2, <1>3, <1>12, CopyMoves
<1>14. SchemaTypeOK' /\ KnowledgeForward'
  BY <1>1, <1>5, <1>6, <1>9, <1>13 DEF SchemaInv, SchemaTypeOK, SchemaSafe, KnowledgeForward
<1>15. TmpIsCopys'
  BY <1>1, <1>6, <1>13 DEF SchemaInv, TmpIsCopys
<1>16. CopiesNew'
  BY <1>3, <1>5, <1>10, <1>12, <1>13 DEF SchemaInv, CopiesNew
<1>17. ConsentNoticed'
  BY <1>3, <1>5, <1>10, <1>12, <1>13 DEF SchemaInv, ConsentNoticed, ConsentOf
<1>18. QED  BY <1>11, <1>13, <1>14, <1>15, <1>16, <1>17 DEF SchemaInv, SchemaSafe

LEMMA SourceChangesKeeps ==
  ASSUME SchemaInv, SourceChanges
  PROVE  SchemaInv'
<1>1. SchemaTypeOK
  BY DEF SchemaInv
<1>2. UNCHANGED <<scCache, scCall, scRefresh, scFile, scWrote, scSent>>
  BY DEF SourceChanges
<1>3. scSource \in [consent : BOOLEAN, exists : BOOLEAN, changes : Nat] /\ scSource.changes \in Nat
      /\ scSource.consent \in BOOLEAN
  BY <1>1 DEF SchemaTypeOK
<1>4. SchemaSafe'
  BY <1>2 DEF SchemaInv, SchemaSafe, DiagramConsented, KnowledgeForward
<1>5. CASE scSource' = [scSource EXCEPT !.changes = @ + 1, !.exists = FALSE] /\ UNCHANGED scSync
  <2>1. scSource' \in [consent : BOOLEAN, exists : BOOLEAN, changes : Nat] /\ ~scSource'.exists
    <3>1. scSource.changes + 1 \in Nat
      BY <1>3
    <3>2. QED  BY <1>3, <1>5, <3>1
  <2>2. SchemaTypeOK' /\ OneCopyPerKey' /\ TmpIsCopys' /\ CopiesNew'
    BY <1>1, <1>2, <1>5, <2>1 DEF SchemaInv, SchemaTypeOK, OneCopyPerKey, TmpIsCopys, CopiesNew
  <2>3. ConsentNoticed'
    BY <2>1 DEF ConsentNoticed
  <2>4. QED  BY <1>4, <2>2, <2>3 DEF SchemaInv
<1>6. CASE /\ scSource.exists /\ scSource' = [scSource EXCEPT !.changes = @ + 1, !.consent = ~@]
           /\ scSync' = [w \in ScWorkers |-> IF scSync[w].pc \in {"idle", "read"} THEN scSync[w]
                                             ELSE [scSync[w] EXCEPT !.given = @ \/ scSource'.consent]]
  <2>1. scSource' \in [consent : BOOLEAN, exists : BOOLEAN, changes : Nat] /\ scSource'.exists = scSource.exists
        /\ scSource'.consent \in BOOLEAN
    <3>1. scSource.changes + 1 \in Nat
      BY <1>3
    <3>2. (~scSource.consent) \in BOOLEAN
      OBVIOUS
    <3>3. QED  BY <1>3, <1>6, <3>1, <3>2
  <2>2. ASSUME NEW w \in ScWorkers
        PROVE  /\ scSync'[w] \in {NoSync} \cup ScCopy /\ scSync'[w].pc = scSync[w].pc
               /\ scSync[w].pc \in {"idle", "read"} => scSync'[w] = scSync[w]
               /\ scSync[w] # NoSync => scSync'[w].key = scSync[w].key /\ scSync'[w].stamp = scSync[w].stamp
               /\ scSync[w].pc \notin {"idle", "read"} => (scSync'[w].given <=> scSync[w].given \/ scSource'.consent)
               /\ (scSync'[w] = NoSync <=> scSync[w] = NoSync)
    <3>1. CASE scSync[w].pc \in {"idle", "read"}
      BY <1>1, <1>6, <3>1 DEF SchemaTypeOK
    <3>2. CASE scSync[w].pc \notin {"idle", "read"}
      <4>1. scSync'[w] = [scSync[w] EXCEPT !.given = @ \/ scSource'.consent]
        BY <1>6, <3>2
      <4>2. scSync[w] \in ScCopy /\ scSync[w] # NoSync /\ NoSync \notin ScCopy /\ scSync[w].given \in BOOLEAN
        BY <1>1, <3>2, CopyTyped
      <4>3. PICK g \in BOOLEAN : g = (scSync[w].given \/ scSource'.consent)
        BY <2>1, <4>2
      <4>4. scSync'[w] = [scSync[w] EXCEPT !.given = g]
        BY <4>1, <4>3
      <4>5. /\ scSync'[w] \in ScCopy /\ scSync'[w].pc = scSync[w].pc /\ scSync'[w].key = scSync[w].key
            /\ scSync'[w].stamp = scSync[w].stamp /\ scSync'[w].given = g
        BY <4>2, <4>4 DEF ScCopy
      <4>6. QED  BY <3>2, <4>2, <4>3, <4>5
    <3>3. QED  BY <3>1, <3>2
  <2>3. scSync' \in [ScWorkers -> {NoSync} \cup ScCopy]
    BY <1>6, <2>2
  <2>4. SchemaTypeOK'
    BY <1>1, <1>2, <2>1, <2>3 DEF SchemaTypeOK
  <2>5. OneCopyPerKey'
    BY <2>2 DEF SchemaInv, OneCopyPerKey
  <2>6. \A w \in ScWorkers : scSync[w].pc # "idle" => scSync[w] # NoSync
    BY DEF NoSync
  <2>7. TmpIsCopys'
    BY <1>2, <2>2, <2>6 DEF SchemaInv, TmpIsCopys
  <2>8. CopiesNew'
    BY <1>2, <2>2, <2>6 DEF SchemaInv, CopiesNew
  <2>9. ConsentNoticed'
    BY <2>1, <2>2 DEF SchemaInv, ConsentNoticed
  <2>10. QED  BY <1>4, <2>4, <2>5, <2>7, <2>8, <2>9 DEF SchemaInv
<1>7. QED  BY <1>5, <1>6 DEF SourceChanges

LEMMA SchemaInitially == SchemaInit => SchemaInv
<1> SUFFICES ASSUME SchemaInit PROVE SchemaInv
  OBVIOUS
<1> USE DEF SchemaInit
<1>1. SchemaTypeOK
  <2>1. scSource \in [consent : BOOLEAN, exists : BOOLEAN, changes : Nat]
    <3>1. {TRUE} \subseteq BOOLEAN /\ {0} \subseteq Nat
      OBVIOUS
    <3>2. QED  BY <3>1
  <2>2. NoEntry \in ScEntry
    BY DEF ScEntry, NoEntry
  <2>3. scFile \in [schema : {NoFile} \cup ScSnapshot, tmp : {NoFile} \cup ScSnapshot, er : BOOLEAN]
    OBVIOUS
  <2>4. QED  BY <2>1, <2>2, <2>3 DEF SchemaTypeOK
<1>2. OneCopyPerKey /\ TmpIsCopys /\ ConsentNoticed
  BY DEF OneCopyPerKey, TmpIsCopys, ConsentNoticed, NoSync
<1>3. CopiesNew
  BY DEF CopiesNew, NoSync, NoEntry
<1>4. SchemaSafe
  BY DEF SchemaSafe, DiagramConsented, KnowledgeForward
<1>5. QED  BY <1>1, <1>2, <1>3, <1>4 DEF SchemaInv

LEMMA SchemaStep == SchemaInv /\ [SchemaNext]_scvars => SchemaInv'
<1> SUFFICES ASSUME SchemaInv, [SchemaNext]_scvars PROVE SchemaInv'
  OBVIOUS
<1>1. CASE UNCHANGED scvars
  BY <1>1 DEF scvars, SchemaInv, SchemaTypeOK, OneCopyPerKey, TmpIsCopys, CopiesNew, ConsentNoticed,
              SchemaSafe, DiagramConsented, KnowledgeForward
<1>2. CASE SourceChanges
  BY <1>2, SourceChangesKeeps
<1>3. ASSUME NEW w \in ScWorkers, \/ SyncReads(w) \/ WriteJSONFileTmp(w) \/ WriteJSONFileRename(w)
                                  \/ MaybeGenerateER(w) \/ SendER(w)
      PROVE  SchemaInv'
  BY <1>3, SyncReadsKeeps, WriteTmpKeeps, WriteRenameKeeps, DiagramKeeps
<1>4. QED  BY <1>1, <1>2, <1>3, CallStepKeeps, RefreshStepKeeps DEF SchemaNext

(* For any databases, calls and copies: a schema goes to a model only with *)
(* the consent, and the snapshot on disk is the newest written for its key *)
(* (SchemaSafe, of the copies that cross in one temporary file).           *)
THEOREM SchemaCorrect == SchemaSpec => []SchemaSafe
<1>1. SchemaInv => SchemaSafe
  BY DEF SchemaInv
<1>2. QED  BY <1>1, SchemaInitially, SchemaStep, PTL DEF SchemaSpec

-----------------------------------------------------------------------------

(* The uploaded documents.  An operation that has saved works on what is   *)
(* in store.json; a tree under way and whole so far holds the documents    *)
(* that are no longer to do; the documents an upload has drafted are those *)
(* in memory and the ones it was given ids for; and an id leaves "issued"  *)
(* only by its own operation.                                              *)
Scopes == [scope : {"none", "all", "datasource"}, sources : SUBSET UkSources]
Documents ==
    {NoDocument} \cup [category : UkCategories, parse : {"ok", "failed"}, summary : {"ok", "failed", "skipped", "needs_provider"}]
Stores == [categories : [UkCategories -> Scopes], documents : [UkDocuments -> Documents]]
UploadOps == [pc : {"upload"}, category : UkCategories, ready : BOOLEAN,
              documents : [UkDocuments -> Documents], added : SUBSET UkDocuments]
SaveOps == [pc : {"save", "clear"}, added : SUBSET UkDocuments, gone : SUBSET UkDocuments]
PublishOps == [pc : {"publish"}, todo : SUBSET UkDocuments, added : SUBSET UkDocuments, gone : SUBSET UkDocuments]
Fates == {"unused", "issued", "kept", "dropped", "gone"}

UploadsTypeOK ==
    /\ ukMem \in Stores /\ ukStore \in Stores
    /\ ukOp \in {NoOp, Down} \cup UploadOps \cup SaveOps \cup PublishOps
    /\ ukFresh \in BOOLEAN
    /\ ukFate \in [UkDocuments -> Fates]

TreeSettled == ukStore = ukMem /\ ukTree = Published(ukMem, ukText) /\ ukIndex = IndexLines(ukMem)
TreeFresh ==
    /\ ukOp = NoOp \/ ukOp.pc = "upload" => (ukFresh => TreeSettled)
    /\ ukOp.pc = "save" => ~ukFresh
    /\ ukOp.pc \in {"clear", "publish"} => ukStore = ukMem
    /\ ukOp.pc = "publish" =>
         /\ ukOp.todo \subseteq Parsed(ukMem)
         /\ ukFresh => ukIndex = {} /\ ukTree = Published(ukMem, ukText \ ukOp.todo)

Drafted ==
    /\ ukOp.pc \in {"upload", "save", "clear", "publish"} => \A f \in ukOp.added : ukFate[f] = "issued"
    /\ ukOp.pc = "upload" => \A f \in UkDocuments :
         IF f \in ukOp.added THEN ukOp.documents[f] # NoDocument /\ (ukOp.documents[f].parse = "ok" => f \in ukText)
         ELSE ukOp.documents[f] = ukMem.documents[f]
    /\ ukOp.pc \in {"save", "clear", "publish"} =>
         ukOp.added \subseteq Recorded(ukMem) /\ ukOp.gone \cap Recorded(ukMem) = {}
    /\ ukOp # Down => \A f \in UkDocuments : ukFate[f] = "kept" => f \in Recorded(ukMem)

SearchListed ==
    ukSearch.pc = "listed" => ukSearch.files \subseteq ukSearch.due /\ (ukSearch.fit => ukSearch.files = ukSearch.due)

UploadsInv == UploadsTypeOK /\ TreeFresh /\ Drafted /\ SearchListed /\ RecordsKept /\ SearchSound

LEMMA OpKinds ==
  ASSUME UploadsTypeOK
  PROVE  /\ ukOp.pc = "upload" => ukOp \in UploadOps
         /\ ukOp.pc \in {"save", "clear"} => ukOp \in SaveOps
         /\ ukOp.pc = "publish" => ukOp \in PublishOps
         /\ NoOp.pc = "idle" /\ Down.pc = "down" /\ NoOp # Down
         /\ ukOp.pc \notin {"upload", "save", "clear", "publish"} => ukOp \in {NoOp, Down}
<1>1. NoOp.pc = "idle" /\ Down.pc = "down"
  BY DEF NoOp, Down
<1>2. /\ \A o \in UploadOps : o.pc = "upload"
      /\ \A o \in SaveOps : o.pc \in {"save", "clear"}
      /\ \A o \in PublishOps : o.pc = "publish"
  BY DEF UploadOps, SaveOps, PublishOps
<1>3. QED  BY <1>1, <1>2 DEF UploadsTypeOK

LEMMA CategorySet ==
  ASSUME NEW s \in Stores, NEW c \in UkCategories, NEW category \in Scopes
  PROVE  /\ [s EXCEPT !.categories[c] = category] \in Stores
         /\ [s EXCEPT !.categories[c] = category].documents = s.documents
  BY DEF Stores

LEMMA DocumentsSet ==
  ASSUME NEW s \in Stores, NEW d \in [UkDocuments -> Documents]
  PROVE  /\ [s EXCEPT !.documents = d] \in Stores
         /\ [s EXCEPT !.documents = d].documents = d /\ [s EXCEPT !.documents = d].categories = s.categories
  BY DEF Stores

(* Records depend on the documents only. *)
LEMMA RecordedOf ==
  ASSUME NEW s, NEW t, s.documents = t.documents
  PROVE  Recorded(s) = Recorded(t) /\ Parsed(s) = Parsed(t)
  BY DEF Recorded, Parsed

(* What every operation does that ends in a save: the ids it was given are *)
(* on record, those it takes out are not, and a text goes only with the    *)
(* request to delete its document.                                         *)
LEMMA SavesNext ==
  ASSUME UploadsInv, NEW added \in SUBSET UkDocuments, NEW gone \in SUBSET UkDocuments,
         ToSave(added, gone), ukMem' \in Stores, ukFate' \in [UkDocuments -> Fates],
         added \subseteq Recorded(ukMem'), gone \cap Recorded(ukMem') = {},
         \A f \in added : ukFate'[f] = "issued",
         \A f \in UkDocuments :
           /\ ukFate'[f] = ukFate[f] \/ ukFate'[f] = "dropped"
           /\ ukFate'[f] = "kept" => f \in Recorded(ukMem')
           /\ ukFate'[f] = "gone" => f \notin Recorded(ukMem')
           /\ f \in Parsed(ukStore) \cup Parsed(ukMem') => f \in ukText' \/ ukFate'[f] = "dropped"
  PROVE  UploadsInv'
<1> DEFINE op == [pc |-> "save", added |-> added, gone |-> gone]
<1>1. op \in SaveOps /\ op.pc = "save" /\ op.added = added /\ op.gone = gone
  BY DEF SaveOps
<1>2. ukOp' = op /\ ukFresh' = FALSE /\ UNCHANGED <<ukStore, ukIndex, ukSearch>>
  BY DEF ToSave
<1> HIDE DEF op
<1>3. op # NoOp /\ op # Down
  BY <1>1 DEF NoOp, Down
<1>4. UploadsTypeOK'
  BY <1>1, <1>2 DEF UploadsInv, UploadsTypeOK
<1>5. TreeFresh'
  BY <1>1, <1>2, <1>3 DEF TreeFresh
<1>6. Drafted'
  BY <1>1, <1>2, <1>3 DEF Drafted
<1>7. SearchListed' /\ SearchSound'
  BY <1>2 DEF UploadsInv, SearchListed, SearchSound
<1>8. RecordsKept'
  BY <1>2 DEF UploadsInv, RecordsKept
<1>9. QED  BY <1>4, <1>5, <1>6, <1>7, <1>8 DEF UploadsInv

LEMMA CategoryStep ==
  ASSUME UploadsInv, NEW c \in UkCategories, NEW category \in CategoryInputs,
         CreateCategory(c, category) \/ UpdateCategory(c, category)
  PROVE  UploadsInv'
<1>1. /\ ukMem' = [ukMem EXCEPT !.categories[c] = category] /\ ToSave({}, {}) /\ ukOp = NoOp
      /\ UNCHANGED <<ukText, ukTree, ukFailed, ukFate>>
  BY DEF CreateCategory, UpdateCategory, UkBegin
<1>2. category \in Scopes
  BY DEF CategoryInputs, Scopes
<1>3. ukMem' \in Stores /\ ukMem'.documents = ukMem.documents
  BY <1>1, <1>2, CategorySet DEF UploadsInv, UploadsTypeOK
<1>4. Recorded(ukMem') = Recorded(ukMem) /\ Parsed(ukMem') = Parsed(ukMem)
  BY <1>3, RecordedOf
<1>5. ukOp # Down
  BY <1>1, OpKinds DEF UploadsInv
<1>6. \A f \in UkDocuments :
           /\ ukFate'[f] = ukFate[f]
           /\ ukFate'[f] = "kept" => f \in Recorded(ukMem')
           /\ ukFate'[f] = "gone" => f \notin Recorded(ukMem')
           /\ f \in Parsed(ukStore) \cup Parsed(ukMem') => f \in ukText' \/ ukFate'[f] = "dropped"
  BY <1>1, <1>4, <1>5 DEF UploadsInv, Drafted, RecordsKept
<1>7. QED  BY <1>1, <1>3, <1>6, SavesNext DEF UploadsInv, UploadsTypeOK

LEMMA DeleteStep ==
  ASSUME UploadsInv, NEW gone \in SUBSET Recorded(ukMem), NEW categories \in [UkCategories -> Scopes], NEW packs,
         Delete(gone, categories, packs)
  PROVE  UploadsInv'
<1> DEFINE documents == [f \in UkDocuments |-> IF f \in gone THEN NoDocument ELSE ukMem.documents[f]]
           mem == [categories |-> categories, documents |-> documents]
<1>1. /\ ukMem' = mem /\ ToSave({}, gone) /\ ukOp = NoOp
      /\ ukText' = ukText \ gone \/ ukText' = ukText
      /\ ukFate' = [f \in UkDocuments |-> IF f \in gone THEN "dropped" ELSE ukFate[f]]
  BY DEF Delete, DeleteFileArtifacts, UkBegin, Fated
<1>2. documents \in [UkDocuments -> Documents]
  BY DEF UploadsInv, UploadsTypeOK, Stores, Documents
<1>3. mem \in Stores
  BY <1>2 DEF Stores
<1>4. \A f \in UkDocuments : mem.documents[f] = IF f \in gone THEN NoDocument ELSE ukMem.documents[f]
  OBVIOUS
<1> HIDE DEF mem
<1>5. Recorded(ukMem') = Recorded(ukMem) \ gone /\ Parsed(ukMem') = Parsed(ukMem) \ gone
  BY <1>1, <1>4 DEF Recorded, Parsed
<1>6. ukFate' \in [UkDocuments -> Fates]
  BY <1>1 DEF UploadsInv, UploadsTypeOK, Fates
<1>7. gone \in SUBSET UkDocuments /\ ukOp # Down
  BY <1>1, OpKinds DEF UploadsInv, Recorded
<1>8. \A f \in UkDocuments :
           /\ ukFate'[f] = ukFate[f] \/ ukFate'[f] = "dropped"
           /\ ukFate'[f] = "kept" => f \in Recorded(ukMem')
           /\ ukFate'[f] = "gone" => f \notin Recorded(ukMem')
           /\ f \in Parsed(ukStore) \cup Parsed(ukMem') => f \in ukText' \/ ukFate'[f] = "dropped"
  BY <1>1, <1>5, <1>7 DEF UploadsInv, Drafted, RecordsKept
<1>9. QED  BY <1>1, <1>3, <1>5, <1>6, <1>7, <1>8, SavesNext

LEMMA DeleteCategoryStep == ASSUME UploadsInv, NEW c \in UkCategories, DeleteCategory(c) PROVE UploadsInv'
<1>1. NoCategory \in Scopes
  BY DEF NoCategory, Scopes
<1>2. [ukMem.categories EXCEPT ![c] = NoCategory] \in [UkCategories -> Scopes]
  BY <1>1 DEF UploadsInv, UploadsTypeOK, Stores
<1>3. DocumentsOf(ukMem, c) \in SUBSET Recorded(ukMem)
  BY DEF DocumentsOf
<1>4. QED  BY <1>2, <1>3, DeleteStep DEF DeleteCategory

LEMMA DeleteFileStep == ASSUME UploadsInv, NEW f \in UkDocuments, DeleteFile(f) PROVE UploadsInv'
<1>1. f \in Recorded(ukMem) /\ ukMem.categories \in [UkCategories -> Scopes]
  BY DEF DeleteFile, UploadsInv, UploadsTypeOK, Stores
<1>2. PICK packs : Delete({f}, ukMem.categories, packs)
  BY DEF DeleteFile
<1>3. QED  BY <1>1, <1>2, DeleteStep

LEMMA UploadBegins ==
  ASSUME UploadsInv, NEW c \in UkCategories, NEW ready \in BOOLEAN, UploadFiles(c, ready)
  PROVE  UploadsInv'
<1> DEFINE op == [pc |-> "upload", category |-> c, ready |-> ready, documents |-> ukMem.documents, added |-> {}]
<1>1. op \in UploadOps /\ op.pc = "upload" /\ op.documents = ukMem.documents /\ op.added = {}
  BY DEF UploadsInv, UploadsTypeOK, Stores, UploadOps
<1>2. ukOp' = op /\ ukOp = NoOp /\ UNCHANGED <<ukMem, ukStore, ukText, ukTree, ukIndex, ukSearch, ukFresh, ukFate>>
  BY DEF UploadFiles, UkBegin
<1> HIDE DEF op
<1>3. op # NoOp /\ op # Down /\ ukOp # Down
  BY <1>1, <1>2 DEF NoOp, Down
<1>4. UploadsTypeOK'
  BY <1>1, <1>2 DEF UploadsInv, UploadsTypeOK
<1>5. TreeFresh'
  BY <1>1, <1>2, <1>3 DEF UploadsInv, TreeFresh, TreeSettled
<1>6. Drafted'
  BY <1>1, <1>2, <1>3 DEF UploadsInv, Drafted
<1>7. SearchListed' /\ SearchSound' /\ RecordsKept'
  BY <1>2 DEF UploadsInv, SearchListed, SearchSound, RecordsKept
<1>8. QED  BY <1>4, <1>5, <1>6, <1>7 DEF UploadsInv

(* A document drafted has its text, or none to have; the tree no longer    *)
(* counts as whole when a copy was added to it.                            *)
LEMMA UploadFileStep ==
  ASSUME UploadsInv, NEW f \in UkDocuments, NEW kind,
         NEW parse \in {"ok", "failed"}, NEW summary \in {"ok", "failed", "skipped", "needs_provider"},
         UploadFile(f, kind, parse, summary)
  PROVE  UploadsInv'
<1> DEFINE d == [category |-> ukOp.category, parse |-> parse, summary |-> summary]
           documents == [ukOp.documents EXCEPT ![f] = d]
           op == [ukOp EXCEPT !.documents = documents, !.added = @ \cup {f}]
<1>1. ukOp \in UploadOps /\ ukOp.pc = "upload" /\ ukFate[f] = "unused"
  BY OpKinds DEF UploadFile, NewID, UploadsInv
<1>2. d \in Documents /\ d # NoDocument /\ d.parse = parse
  BY <1>1 DEF UploadOps, Documents, NoDocument
<1>3. /\ ukOp' = op /\ ukFate' = [ukFate EXCEPT ![f] = "issued"]
      /\ UNCHANGED <<ukMem, ukStore, ukIndex, ukSearch>>
  BY DEF UploadFile, Fated, UploadsInv, UploadsTypeOK
<1>4. \/ parse = "ok" /\ ukText' = ukText \cup {f} /\ ukFresh' = FALSE
      \/ parse = "failed" /\ UNCHANGED <<ukText, ukTree, ukFresh>>
  BY DEF UploadFile, Publish
<1> HIDE DEF d
<1>5. documents \in [UkDocuments -> Documents] /\ documents[f] = d
      /\ \A g \in UkDocuments : g # f => documents[g] = ukOp.documents[g]
  BY <1>1, <1>2 DEF UploadOps
<1> HIDE DEF documents
<1>6. op \in UploadOps /\ op.pc = "upload" /\ op.documents = documents /\ op.added = ukOp.added \cup {f}
  BY <1>1, <1>5 DEF UploadOps
<1> HIDE DEF op
<1>7. op # NoOp /\ op # Down /\ ukOp # NoOp /\ ukOp # Down
  BY <1>1, <1>6 DEF NoOp, Down
<1>8. UploadsTypeOK'
  BY <1>3, <1>4, <1>6 DEF UploadsInv, UploadsTypeOK, Fates
<1>9. TreeFresh'
  BY <1>1, <1>3, <1>4, <1>6, <1>7 DEF UploadsInv, TreeFresh, TreeSettled
<1>10. /\ ukFate'[f] = "issued" /\ \A g \in UkDocuments : g # f => ukFate'[g] = ukFate[g]
  BY <1>3 DEF UploadsInv, UploadsTypeOK
<1>11. \A g \in op.added : ukFate'[g] = "issued"
  BY <1>1, <1>6, <1>10 DEF UploadsInv, Drafted, UploadOps
<1>12. ASSUME NEW g \in UkDocuments
       PROVE  IF g \in op.added THEN op.documents[g] # NoDocument /\ (op.documents[g].parse = "ok" => g \in ukText')
              ELSE op.documents[g] = ukMem'.documents[g]
  <2>1. CASE g = f
    BY <1>2, <1>4, <1>5, <1>6, <2>1
  <2>2. CASE g # f
    BY <1>1, <1>3, <1>4, <1>5, <1>6, <2>2 DEF UploadsInv, Drafted
  <2>3. QED  BY <2>1, <2>2
<1>13. \A g \in UkDocuments : ukFate'[g] = "kept" => g \in Recorded(ukMem')
  BY <1>3, <1>7, <1>10 DEF UploadsInv, Drafted
<1>14. Drafted'
  BY <1>3, <1>6, <1>11, <1>12, <1>13 DEF Drafted
<1>15. RecordsKept'
  BY <1>1, <1>3, <1>4, <1>10 DEF UploadsInv, RecordsKept
<1>16. SearchListed' /\ SearchSound'
  BY <1>3 DEF UploadsInv, SearchListed, SearchSound
<1>17. QED  BY <1>8, <1>9, <1>14, <1>15, <1>16 DEF UploadsInv

LEMMA UploadEndsStep == ASSUME UploadsInv, UploadEnds PROVE UploadsInv'
<1>1. /\ ukOp \in UploadOps /\ ukOp.pc = "upload" /\ ToSave(ukOp.added, {})
      /\ ukMem' = [ukMem EXCEPT !.documents = ukOp.documents]
      /\ UNCHANGED <<ukText, ukTree, ukFailed, ukBegun, ukFate>>
  BY OpKinds DEF UploadEnds, UploadsInv
<1>2. ukMem' \in Stores /\ ukMem'.documents = ukOp.documents
  BY <1>1, DocumentsSet DEF UploadOps, UploadsInv, UploadsTypeOK
<1>3. ukOp # Down /\ ukOp.added \in SUBSET UkDocuments
  BY <1>1 DEF Down, UploadOps
<1>4. ukOp.added \subseteq Recorded(ukMem') /\ \A f \in ukOp.added : ukFate'[f] = "issued"
  BY <1>1, <1>2, <1>3 DEF UploadsInv, Drafted, Recorded
<1>5. ASSUME NEW f \in UkDocuments
      PROVE  /\ ukFate'[f] = ukFate[f]
             /\ ukFate'[f] = "kept" => f \in Recorded(ukMem')
             /\ ukFate'[f] = "gone" => f \notin Recorded(ukMem')
             /\ f \in Parsed(ukStore) \cup Parsed(ukMem') => f \in ukText' \/ ukFate'[f] = "dropped"
  <2>1. CASE f \in ukOp.added
    BY <1>1, <1>2, <1>4, <2>1 DEF UploadsInv, Drafted, RecordsKept, Parsed
  <2>2. CASE f \notin ukOp.added
    <3>1. f \in Recorded(ukMem') <=> f \in Recorded(ukMem)
      BY <1>1, <1>2, <2>2 DEF UploadsInv, Drafted, Recorded
    <3>2. f \in Parsed(ukMem') <=> f \in Parsed(ukMem)
      BY <1>1, <1>2, <2>2, <3>1 DEF UploadsInv, Drafted, Parsed
    <3>3. QED  BY <1>1, <1>3, <3>1, <3>2 DEF UploadsInv, Drafted, RecordsKept
  <2>3. QED  BY <2>1, <2>2
<1>6. QED  BY <1>1, <1>2, <1>3, <1>4, <1>5, SavesNext DEF UploadsInv, UploadsTypeOK

(* An upload that is refused, a save that fails: what they leave.          *)
LEMMA OperationEnds ==
  ASSUME UploadsInv, ukOp' = NoOp, ukOp # Down,
         UNCHANGED <<ukMem, ukStore, ukText, ukTree, ukIndex, ukSearch, ukFresh, ukFate>>,
         ukOp.pc \in {"upload", "save"}
  PROVE  UploadsInv'
<1>1. UploadsTypeOK'
  BY DEF UploadsInv, UploadsTypeOK
<1>2. NoOp.pc = "idle" /\ NoOp # Down
  BY OpKinds DEF UploadsInv
<1>3. TreeFresh'
  BY <1>2 DEF UploadsInv, TreeFresh, TreeSettled
<1>4. Drafted'
  BY <1>2 DEF UploadsInv, Drafted
<1>5. SearchListed' /\ SearchSound' /\ RecordsKept'
  BY DEF UploadsInv, SearchListed, SearchSound, RecordsKept
<1>6. QED  BY <1>1, <1>3, <1>4, <1>5 DEF UploadsInv

LEMMA SaveStep == ASSUME UploadsInv, Save PROVE UploadsInv'
<1>1. ukOp \in SaveOps /\ ukOp.pc = "save" /\ ukOp # Down
  BY OpKinds DEF Save, UploadsInv
<1>2. UNCHANGED <<ukMem, ukText, ukTree, ukIndex, ukSearch, ukFresh, ukFate>>
  BY DEF Save
<1>3. CASE ukOp' = NoOp /\ UNCHANGED ukStore
  BY <1>1, <1>2, <1>3, OperationEnds
<1>4. CASE ukStore' = ukMem /\ ukOp' = [ukOp EXCEPT !.pc = "clear"]
  <2> DEFINE op == [ukOp EXCEPT !.pc = "clear"]
  <2>1. op \in SaveOps /\ op.pc = "clear" /\ op.added = ukOp.added /\ op.gone = ukOp.gone
    BY <1>1 DEF SaveOps
  <2>2. ukOp' = op
    BY <1>4
  <2> HIDE DEF op
  <2>3. op # NoOp /\ op # Down
    BY <2>1 DEF NoOp, Down
  <2>4. UploadsTypeOK'
    BY <1>2, <1>4, <2>1, <2>2 DEF UploadsInv, UploadsTypeOK
  <2>5. TreeFresh'
    BY <1>2, <1>4, <2>1, <2>2, <2>3 DEF TreeFresh
  <2>6. Drafted'
    BY <1>1, <1>2, <2>1, <2>2, <2>3 DEF UploadsInv, Drafted
  <2>7. \A f \in UkDocuments :
          /\ ukFate[f] = "kept" => f \in Recorded(ukMem)
          /\ ukFate[f] = "gone" => f \notin Recorded(ukMem)
          /\ f \in Parsed(ukMem) => f \in ukText \/ ukFate[f] = "dropped"
    BY <1>1 DEF UploadsInv, Drafted, RecordsKept
  <2>8. RecordsKept'
    BY <1>2, <1>4, <2>7 DEF RecordsKept
  <2>9. SearchListed' /\ SearchSound'
    BY <1>2 DEF UploadsInv, SearchListed, SearchSound
  <2>10. QED  BY <2>4, <2>5, <2>6, <2>8, <2>9 DEF UploadsInv
<1>5. QED  BY <1>3, <1>4 DEF Save

LEMMA PublishOp ==
  ASSUME NEW todo \in SUBSET UkDocuments, ukOp \in SaveOps \cup PublishOps
  PROVE  /\ Rebuilding(todo) \in PublishOps /\ Rebuilding(todo).pc = "publish" /\ Rebuilding(todo).todo = todo
         /\ Rebuilding(todo).added = ukOp.added /\ Rebuilding(todo).gone = ukOp.gone
         /\ Rebuilding(todo) # NoOp /\ Rebuilding(todo) # Down
<1>1. ukOp.added \in SUBSET UkDocuments /\ ukOp.gone \in SUBSET UkDocuments
  BY DEF SaveOps, PublishOps
<1>2. Rebuilding(todo) \in PublishOps /\ Rebuilding(todo).pc = "publish"
  BY <1>1 DEF Rebuilding, PublishOps
<1>3. Rebuilding(todo) # NoOp /\ Rebuilding(todo) # Down
  BY <1>2 DEF NoOp, Down
<1>4. QED  BY <1>2, <1>3 DEF Rebuilding

(* A step of the rebuild leaves the records and the operation's ids alone. *)
LEMMA RebuildsNext ==
  ASSUME UploadsInv, NEW todo \in SUBSET UkDocuments, ukOp.pc \in {"clear", "publish"},
         ukOp' = Rebuilding(todo), UNCHANGED <<ukMem, ukStore, ukText, ukSearch, ukFate>>, ukFresh' \in BOOLEAN,
         todo \subseteq Parsed(ukMem),
         ukFresh' => ukIndex' = {} /\ ukTree' = Published(ukMem, ukText \ todo)
  PROVE  UploadsInv'
<1> DEFINE op == Rebuilding(todo)
<1>1. ukOp \in SaveOps \cup PublishOps
  BY OpKinds DEF UploadsInv
<1>2. /\ op \in PublishOps /\ op.pc = "publish" /\ op.todo = todo /\ op.added = ukOp.added /\ op.gone = ukOp.gone
      /\ op # NoOp /\ op # Down
  BY <1>1, PublishOp
<1>3. ukOp' = op
  OBVIOUS
<1> HIDE DEF op
<1>4. ukOp # Down
  BY OpKinds DEF UploadsInv
<1>5. UploadsTypeOK'
  BY <1>2, <1>3 DEF UploadsInv, UploadsTypeOK
<1>6. ukStore' = ukMem'
  BY DEF UploadsInv, TreeFresh
<1>7. TreeFresh'
  BY <1>2, <1>3, <1>6 DEF TreeFresh
<1>8. Drafted'
  BY <1>2, <1>3, <1>4 DEF UploadsInv, Drafted
<1>9. SearchListed' /\ SearchSound' /\ RecordsKept'
  BY DEF UploadsInv, SearchListed, SearchSound, RecordsKept
<1>10. QED  BY <1>5, <1>7, <1>8, <1>9 DEF UploadsInv

LEMMA RemoveTreeStep == ASSUME UploadsInv, RemoveTree PROVE UploadsInv'
<1>1. ukOp.pc = "clear" /\ UNCHANGED <<ukMem, ukStore, ukText, ukSearch, ukFate>>
  BY DEF RemoveTree
<1>2. Parsed(ukMem) \in SUBSET UkDocuments /\ {} \in SUBSET UkDocuments
  BY DEF Parsed, Recorded
<1>3. CASE ukTree' = Removed(ukTree) /\ ukIndex' = {} /\ ukFresh' = TRUE /\ ukOp' = Rebuilding(Parsed(ukMem))
  <2>1. ukTree' = Published(ukMem, ukText \ Parsed(ukMem))
    BY <1>3 DEF Removed, Published
  <2>2. QED  BY <1>1, <1>2, <1>3, <2>1, RebuildsNext
<1>4. CASE ukFresh' = FALSE /\ ukOp' \in {Rebuilding(Parsed(ukMem)), Rebuilding({})}
  BY <1>1, <1>2, <1>4, RebuildsNext
<1>5. QED  BY <1>3, <1>4 DEF RemoveTree

LEMMA PacksAre ==
  ASSUME UploadsTypeOK, NEW f \in Recorded(ukMem)
  PROVE  PacksOf(ukMem, f) \subseteq UkPacks
<1>1. ukMem.documents[f] \in Documents \ {NoDocument} /\ ukMem.categories \in [UkCategories -> Scopes]
  BY DEF UploadsTypeOK, Stores, Recorded
<1>2. ukMem.documents[f].category \in UkCategories
  BY <1>1 DEF Documents
<1> DEFINE category == ukMem.categories[ukMem.documents[f].category]
<1>3. category \in Scopes
  BY <1>1, <1>2
<1> HIDE DEF category
<1>4. PublishedTo(category) \subseteq UkPacks
  BY <1>3 DEF PublishedTo, Scopes, UkPacks
<1>5. QED  BY <1>4 DEF PacksOf, category

LEMMA PublishAgainStep == ASSUME UploadsInv, NEW f \in UkDocuments, PublishAgain(f) PROVE UploadsInv'
<1> DEFINE todo == ukOp.todo \ {f}
<1>1. ukOp.pc = "publish" /\ f \in ukOp.todo /\ ukOp \in PublishOps
  BY OpKinds DEF PublishAgain, UploadsInv
<1>2. todo \in SUBSET UkDocuments /\ todo \subseteq Parsed(ukMem) /\ f \in Parsed(ukMem)
  BY <1>1 DEF PublishOps, UploadsInv, TreeFresh
<1>3. ukOp' = Rebuilding(todo) /\ UNCHANGED <<ukMem, ukStore, ukText, ukIndex, ukSearch, ukFate>>
  BY DEF PublishAgain
<1>4. ukFresh => ukIndex = {} /\ ukTree = Published(ukMem, ukText \ ukOp.todo)
  BY <1>1 DEF UploadsInv, TreeFresh
<1>5. PacksOf(ukMem, f) \subseteq UkPacks
  BY <1>2, PacksAre DEF UploadsInv, Parsed
<1>6. CASE f \in ukText /\ ukTree' = ukTree \cup CopiesOf(ukMem, f) /\ ukFresh' = ukFresh
  <2>1. Published(ukMem, ukText \ todo) = Published(ukMem, ukText \ ukOp.todo) \cup CopiesOf(ukMem, f)
    BY <1>1, <1>2, <1>5, <1>6, Zenon DEF Published, CopiesOf
  <2>2. QED  BY <1>1, <1>2, <1>3, <1>4, <1>6, <2>1, RebuildsNext DEF UploadsInv, UploadsTypeOK
<1>7. CASE f \in ukText /\ ukFresh' = FALSE
  BY <1>1, <1>2, <1>3, <1>7, RebuildsNext
<1>8. CASE f \notin ukText /\ UNCHANGED <<ukTree, ukFresh>>
  <2>1. ukText \ todo = ukText \ ukOp.todo
    BY <1>8
  <2>2. QED  BY <1>1, <1>2, <1>3, <1>4, <1>8, <2>1, RebuildsNext DEF UploadsInv, UploadsTypeOK
<1>9. QED  BY <1>6, <1>7, <1>8 DEF PublishAgain, Publish

LEMMA WriteIndexesStep == ASSUME UploadsInv, WriteIndexes PROVE UploadsInv'
<1>1. /\ ukOp.pc = "publish" /\ ukOp.todo = {} /\ ukOp \in PublishOps /\ ukOp # Down
      /\ ukOp' = NoOp /\ UNCHANGED <<ukMem, ukStore, ukText, ukTree, ukSearch>>
      /\ ukFresh' = FALSE \/ (ukFresh' = ukFresh /\ ukIndex' = ukIndex \cup IndexLines(ukMem))
  BY OpKinds DEF WriteIndexes, UploadsInv
<1>2. \A f \in UkDocuments : ukFate'[f] = IF f \in ukOp.added THEN "kept" ELSE IF f \in ukOp.gone THEN "gone" ELSE ukFate[f]
  BY DEF WriteIndexes
<1>3. ukFate' \in [UkDocuments -> Fates]
  BY DEF WriteIndexes, UploadsInv, UploadsTypeOK, Fates
<1>4. NoOp.pc = "idle" /\ NoOp # Down
  BY OpKinds DEF UploadsInv
<1>5. UploadsTypeOK'
  BY <1>1, <1>3 DEF UploadsInv, UploadsTypeOK
<1>6. ukStore = ukMem
  BY <1>1 DEF UploadsInv, TreeFresh
<1>7. ASSUME ukFresh' PROVE TreeSettled'
  <2>1. ukFresh /\ ukIndex = {} /\ ukIndex' = IndexLines(ukMem) /\ ukTree = Published(ukMem, ukText \ {})
    BY <1>1, <1>7 DEF UploadsInv, TreeFresh
  <2>2. ukText \ {} = ukText
    OBVIOUS
  <2>3. QED  BY <1>1, <1>6, <2>1, <2>2 DEF TreeSettled
<1>8. TreeFresh'
  BY <1>1, <1>4, <1>7 DEF TreeFresh
<1>9. ukOp.added \subseteq Recorded(ukMem) /\ ukOp.gone \cap Recorded(ukMem) = {}
      /\ \A f \in ukOp.added : ukFate[f] = "issued"
  BY <1>1 DEF UploadsInv, Drafted
<1>10. \A f \in UkDocuments : ukFate'[f] = "kept" => f \in Recorded(ukMem)
  BY <1>1, <1>2, <1>9 DEF UploadsInv, Drafted
<1>11. Drafted'
  BY <1>1, <1>4, <1>10 DEF Drafted
<1>12. ASSUME NEW f \in UkDocuments
       PROVE  /\ ukFate'[f] = "gone" => f \notin Recorded(ukMem)
              /\ f \in Parsed(ukMem) => f \in ukText \/ ukFate'[f] = "dropped"
  BY <1>2, <1>6, <1>9, <1>12 DEF UploadsInv, RecordsKept, Parsed
<1>13. RecordsKept'
  BY <1>1, <1>6, <1>10, <1>12 DEF RecordsKept
<1>14. SearchListed' /\ SearchSound'
  BY <1>1 DEF UploadsInv, SearchListed, SearchSound
<1>15. QED  BY <1>5, <1>8, <1>11, <1>13, <1>14 DEF UploadsInv

LEMMA EmptyIs == EmptyStore \in Stores /\ Recorded(EmptyStore) = {} /\ Parsed(EmptyStore) = {}
<1>1. NoCategory \in Scopes /\ NoDocument \in Documents
  BY DEF NoCategory, Scopes, Documents
<1>2. EmptyStore \in Stores
  BY <1>1 DEF EmptyStore, Stores
<1>3. Recorded(EmptyStore) = {}
  BY DEF EmptyStore, Recorded
<1>4. QED  BY <1>2, <1>3 DEF Parsed

LEMMA ProcessStep == ASSUME UploadsInv, ProcessEnds \/ NewManager PROVE UploadsInv'
<1>1. NoOp.pc = "idle" /\ Down.pc = "down" /\ NoOp # Down
  BY OpKinds DEF UploadsInv
<1>2. CASE ProcessEnds
  <2>1. /\ ukOp' = Down /\ ukMem' = EmptyStore /\ ukSearch' = NoSearch
        /\ UNCHANGED <<ukStore, ukText, ukTree, ukIndex, ukFresh, ukFate>>
    BY <1>2 DEF ProcessEnds
  <2>2. UploadsTypeOK'
    BY <2>1, EmptyIs DEF UploadsInv, UploadsTypeOK
  <2>3. TreeFresh' /\ Drafted'
    BY <1>1, <2>1 DEF TreeFresh, Drafted
  <2>4. SearchListed' /\ SearchSound'
    BY <2>1 DEF NoSearch, SearchListed, SearchSound
  <2>5. RecordsKept'
    BY <2>1, EmptyIs DEF UploadsInv, RecordsKept
  <2>6. QED  BY <2>2, <2>3, <2>4, <2>5 DEF UploadsInv
<1>3. CASE NewManager
  <2> DEFINE op == [pc |-> "clear", added |-> {}, gone |-> {}]
  <2>1. op \in SaveOps /\ op.pc = "clear" /\ op.added = {} /\ op.gone = {}
    BY DEF SaveOps
  <2>2. ukOp' = op /\ ukMem' = ukStore /\ UNCHANGED <<ukStore, ukText, ukTree, ukIndex, ukSearch, ukFresh, ukFate>>
    BY <1>3 DEF NewManager
  <2> HIDE DEF op
  <2>3. op # NoOp /\ op # Down
    BY <2>1 DEF NoOp, Down
  <2>4. UploadsTypeOK'
    BY <2>1, <2>2 DEF UploadsInv, UploadsTypeOK
  <2>5. TreeFresh'
    BY <2>1, <2>2, <2>3 DEF TreeFresh
  <2>6. Drafted'
    BY <2>1, <2>2, <2>3 DEF UploadsInv, Drafted, RecordsKept
  <2>7. SearchListed' /\ SearchSound' /\ RecordsKept'
    BY <2>2 DEF UploadsInv, SearchListed, SearchSound, RecordsKept
  <2>8. QED  BY <2>4, <2>5, <2>6, <2>7 DEF UploadsInv
<1>4. QED  BY <1>2, <1>3

(* What a search opens is what it listed, unless the tree changed under it: *)
(* and then it is not followed.                                             *)
LEMMA SearchStep ==
  ASSUME UploadsInv, (\E packs \in SearchRoots, room \in UkRooms : SearchLists(packs, room)) \/ SearchReads \/ SearchReturns
  PROVE  UploadsInv'
<1>1. UNCHANGED <<ukMem, ukStore, ukText, ukTree, ukIndex, ukOp, ukFresh, ukFate>>
  BY DEF SearchLists, SearchReads, SearchReturns
<1>2. UploadsTypeOK' /\ TreeFresh' /\ Drafted' /\ RecordsKept'
  BY <1>1 DEF UploadsInv, UploadsTypeOK, TreeFresh, TreeSettled, Drafted, RecordsKept
<1>3. Settled => ukTree = Published(ukMem, ukText)
  BY DEF Settled, UploadsInv, TreeFresh, TreeSettled
<1>4. NoSearch.pc = "idle"
  BY DEF NoSearch
<1>5. CASE ukSearch' = NoSearch
  BY <1>2, <1>4, <1>5 DEF UploadsInv, SearchListed, SearchSound
<1>6. ASSUME NEW packs, NEW room, SearchLists(packs, room) PROVE UploadsInv'
  <2> DEFINE entries == InPacks(packs, ukTree)
             fit == Fit(room, entries)
  <2>1. PICK files \in Lists(room, entries) :
          ukSearch' = [pc |-> "listed", packs |-> packs, files |-> files, fit |-> Fit(room, Due(packs)), due |-> Due(packs)]
    BY <1>6 DEF SearchLists
  <2>2. Due(packs) = entries
    BY <1>3, <1>6 DEF SearchLists, Due
  <2>3. files \subseteq entries /\ (fit => files = entries)
    BY DEF Lists
  <2> HIDE DEF entries
  <2>4. ukSearch'.pc = "listed" /\ ukSearch'.files = files /\ ukSearch'.due = entries /\ ukSearch'.fit = fit
    BY <2>1, <2>2
  <2>5. SearchListed' /\ SearchSound'
    BY <2>3, <2>4 DEF SearchListed, SearchSound
  <2>6. QED  BY <1>2, <2>5 DEF UploadsInv
<1>7. CASE SearchReads /\ Settled /\ ukSearch.due = Due(ukSearch.packs)
  <2> DEFINE opened == {e[2] : e \in ukSearch.files \cap ukTree}
             due == {e[2] : e \in ukSearch.due}
             fit == ukSearch.fit
             done == [pc |-> "done", opened |-> opened, read |-> ReadTextLines(opened), fit |-> fit, due |-> due]
  <2>1. ukSearch' = done /\ ukSearch.files \subseteq ukSearch.due /\ (fit => ukSearch.files = ukSearch.due)
    BY <1>7 DEF SearchReads, UploadsInv, SearchListed
  <2>2. ukSearch.due \subseteq ukTree
    BY <1>3, <1>7 DEF Due, InPacks
  <2>3. opened \subseteq due /\ (fit => opened = due)
    BY <2>1, <2>2
  <2> HIDE DEF opened, due, fit
  <2>4. ukSearch'.pc = "done" /\ ukSearch'.opened = opened /\ ukSearch'.due = due /\ ukSearch'.fit = fit
    BY <2>1
  <2>5. SearchListed' /\ SearchSound'
    BY <2>3, <2>4 DEF SearchListed, SearchSound
  <2>6. QED  BY <1>2, <2>5 DEF UploadsInv
<1>8. QED  BY <1>5, <1>6, <1>7 DEF SearchReads, SearchReturns

LEMMA UploadsInitially == UploadsInit => UploadsInv
<1> SUFFICES ASSUME UploadsInit PROVE UploadsInv
  OBVIOUS
<1>1. UploadsTypeOK
  BY EmptyIs DEF UploadsInit, UploadsTypeOK, Fates
<1>2. NoOp.pc = "idle" /\ NoOp # Down /\ NoSearch.pc = "idle"
  BY DEF NoOp, Down, NoSearch
<1>3. TreeSettled
  BY EmptyIs DEF UploadsInit, TreeSettled, Published, IndexLines
<1>4. TreeFresh
  BY <1>2, <1>3 DEF UploadsInit, TreeFresh
<1>5. Drafted /\ SearchListed /\ SearchSound
  BY <1>2 DEF UploadsInit, Drafted, SearchListed, SearchSound
<1>6. RecordsKept
  BY EmptyIs DEF UploadsInit, RecordsKept
<1>7. QED  BY <1>1, <1>4, <1>5, <1>6 DEF UploadsInv

LEMMA UploadsStep == UploadsInv /\ [UploadsNext]_ukvars => UploadsInv'
<1> SUFFICES ASSUME UploadsInv, [UploadsNext]_ukvars PROVE UploadsInv'
  OBVIOUS
<1>1. CASE UNCHANGED ukvars
  BY <1>1 DEF ukvars, UploadsInv, UploadsTypeOK, TreeFresh, TreeSettled, Drafted, SearchListed, RecordsKept, SearchSound
<1>2. ASSUME NEW c \in UkCategories,
             \/ \E category \in CategoryInputs : CreateCategory(c, category) \/ UpdateCategory(c, category)
             \/ DeleteCategory(c)
             \/ \E ready \in ProviderReady : UploadFiles(c, ready)
      PROVE  UploadsInv'
  BY <1>2, CategoryStep, DeleteCategoryStep, UploadBegins DEF ProviderReady
<1>3. ASSUME NEW f \in UkDocuments,
             \/ DeleteFile(f) \/ PublishAgain(f)
             \/ \E kind \in {"text", "office"}, parse \in {"ok", "failed"}, summary \in {"ok", "failed", "skipped", "needs_provider"} :
                  UploadFile(f, kind, parse, summary)
      PROVE  UploadsInv'
  BY <1>3, DeleteFileStep, PublishAgainStep, UploadFileStep
<1>4. CASE UploadRejected
  <2>1. ukOp # Down
    BY <1>4, OpKinds DEF UploadRejected, UploadsInv
  <2>2. QED  BY <1>4, <2>1, OperationEnds DEF UploadRejected
<1>5. QED
  BY <1>1, <1>2, <1>3, <1>4, UploadEndsStep, SaveStep, RemoveTreeStep, WriteIndexesStep, ProcessStep, SearchStep
     DEF UploadsNext

(* For any categories, documents, datasources and faults: after an         *)
(* operation or a start without one the tree and the indexes are those of  *)
(* store.json, a record stays until it is deleted and does not come back,  *)
(* and a search that nothing crosses opens only what is published for its  *)
(* datasource, and all of it when that is within its limit of files        *)
(* (Manager, rebuildScopesLocked, collectKnowledgeFiles).                  *)
THEOREM UploadsCorrect == UploadsSpec => []UploadsSafe
<1>1. UploadsInv => UploadsSafe
  BY DEF UploadsInv, UploadsSafe, TreeFollows, Settled, TreeFresh, TreeSettled
<1>2. QED  BY <1>1, UploadsInitially, UploadsStep, PTL DEF UploadsSpec

(* What the chat's model is given of the user's own: both halves.          *)
THEOREM KnowledgeCorrect == KnowledgeSpec => []KnowledgeSafe
<1>1. SchemaSpec => []SchemaSafe
  BY SchemaCorrect
<1>2. UploadsSpec => []UploadsSafe
  BY UploadsCorrect
<1>3. QED  BY <1>1, <1>2, PTL DEF KnowledgeSpec, KnowledgeSafe

-----------------------------------------------------------------------------

(* A result page by page.  A walk of next pages has shown all that stood   *)
(* before the token it goes on from; as long as the table stands still a   *)
(* page is a stretch of the ordered rows, at an offset that its tokens     *)
(* carry on from; a call of several pages has seen what it took from the   *)
(* service, within its budget; and a node of a scan was seen up to its     *)
(* cursor, or whole.                                                       *)
Total == ResolveTotalLimit(pgQuery.limit)
KeyTokens == [at : {"key"}, text : {1, 2}, size : Nat \ {0}, total : {Total}, offset : Nat, dir : {"next", "prev"},
              start : Nat, end : Nat]
OffsetTokens == [at : {"offset"}, text : {1, 2}, size : Nat \ {0}, offset : Nat]
NameTokens == [at : {"name"}, limit : Nat \ {0}, end : Nat]
ServiceTokens == [at : {"service"}, end : Nat \ {0}]
TokensOf(kind) ==
    {NoToken} \cup CASE kind \in Keyset -> KeyTokens
                     [] kind = "d1" -> OffsetTokens
                     [] kind = "entities" -> NameTokens
                     [] kind \in {"bounded", "tables"} -> ServiceTokens
                     [] OTHER -> {}
Queries == [kind : PgKinds, limit : PgLimits, order : {"unique", "ties"}, window : BOOLEAN, pick : SUBSET PgRows, text : {1, 2}]
Pages == [state : {"none", "failed", "first", "next", "prev"}, rows : Seq(PgRows),
          next : TokensOf(pgQuery.kind), prev : TokensOf(pgQuery.kind)]
Walks == [shown : Seq(PgRows), stable : SUBSET PgRows, still : BOOLEAN, forward : BOOLEAN,
          prior : Seq(PgRows), back : Seq(PgRows)]
Budgets == [rows : Nat \ {0}, pages : Nat \ {0}, items : Nat \ {0}]
BoundedCalls == [pc : {"page", "done"}, size : Nat \ {0}, bounds : Budgets, rows : Seq(PgRows), pages : Nat, spent : Nat,
                 evaluated : Nat, after : Nat, how : {"first", "next"}, since : SUBSET PgRows]
TableCalls == [pc : {"page"}, size : Nat \ {0}, rows : Seq(PgRows), after : Nat, how : {"first", "next"}, since : SUBSET PgRows]
CallsOf(kind) ==
    {NoCall} \cup CASE kind = "bounded" -> BoundedCalls
                    [] kind = "tables" -> TableCalls
                    [] OTHER -> {}
Scans == [at : [PgNodes -> Nat], done : BOOLEAN, keys : SUBSET (PgNodes \X Nat)]

PgTypeOK ==
    /\ pgQuery \in Queries
    /\ pgQuery.order = "ties" => pgQuery.kind \in Keyset
    /\ pgTable \in SUBSET PgRows
    /\ pgPage \in Pages /\ (AtStart => pgPage.next = NoToken /\ pgPage.prev = NoToken)
    /\ pgQuery.kind \in {"entities", "bounded", "tables"} => pgPage.prev = NoToken /\ pgWalk.forward
    /\ pgWalk \in Walks /\ pgWalk.stable \subseteq pgTable
    /\ pgCall \in CallsOf(pgQuery.kind) /\ (pgCall # NoCall => pgCall.since \subseteq pgTable)
    /\ pgScan \in Scans

Increasing(s) == \A i, j \in DOMAIN s : i < j => s[i] < s[j]
\* The rows of a set up to a row are among those shown, and those are not beyond.
SeenTo(shown, set, end) ==
    /\ \A i \in DOMAIN shown : shown[i] <= end
    /\ \A r \in set : r <= end => r \in ToSet(shown)

Through == pgPage.state \in {"first", "next"} /\ pgPage.next = NoToken
WalkForward ==
    Exact /\ pgWalk.forward /\ (pgQuery.kind = "d1" => pgWalk.still) =>
      /\ Increasing(pgWalk.shown)
      /\ pgQuery.kind # "d1" /\ pgPage.next # NoToken => SeenTo(pgWalk.shown, pgWalk.stable \cap Asked, pgPage.next.end)
      /\ Through /\ ~(pgQuery.kind \in Keyset /\ Len(pgWalk.shown) >= Total) /\ ~(pgQuery.kind = "d1" /\ pgQuery.limit > 0)
           => pgWalk.stable \cap Asked \subseteq ToSet(pgWalk.shown)
WalkLimited ==
    pgQuery.kind \in Keyset /\ pgWalk.forward =>
      /\ Len(pgWalk.shown) <= Total
      /\ pgPage.next # NoToken => pgPage.next.offset = Len(pgWalk.shown) /\ pgPage.next.dir = "next"

\* The rows of a page are those of all from an offset on.
Stretch(rows, all, offset) == offset + Len(rows) <= Len(all) /\ \A i \in DOMAIN rows : rows[i] = all[offset + i]
PlacedAt(o) ==
    /\ Stretch(pgPage.rows, Ordered(pgTable), o)
    /\ pgPage.next # NoToken =>
         /\ pgPage.next.offset = o + Len(pgPage.rows) /\ Len(pgPage.rows) > 0
         /\ \/ Len(pgPage.rows) = pgPage.next.size
            \/ pgQuery.kind \in Keyset /\ o = 0 /\ Len(pgPage.rows) < pgPage.next.size
         /\ pgQuery.kind \in Keyset => pgPage.next.dir = "next" /\ pgPage.next.end = pgPage.rows[Len(pgPage.rows)]
    /\ pgPage.prev # NoToken =>
         /\ o > 0 /\ pgPage.prev.offset = PrevOffset(o, pgPage.prev.size)
         /\ pgQuery.kind \in Keyset =>
              /\ pgPage.prev.dir = "prev" /\ o < pgPage.prev.total
              /\ Len(pgPage.rows) > 0 /\ pgPage.prev.start = pgPage.rows[1]
         /\ pgPage.state = "next" =>
              /\ Stretch(pgWalk.prior, Ordered(pgTable), pgPage.prev.offset)
              /\ Len(pgWalk.prior) = o - pgPage.prev.offset
              /\ pgQuery.kind = "d1" => pgPage.prev.size <= o
    /\ pgQuery.kind = "d1" /\ pgWalk.forward =>
         /\ Stretch(pgWalk.shown, Ordered(pgTable), 0) /\ Len(pgWalk.shown) = o + Len(pgPage.rows)
         /\ pgQuery.limit = 0 /\ pgPage.next = NoToken => Len(pgWalk.shown) = Len(Ordered(pgTable))
Placed ==
    Exact /\ pgQuery.kind \in Keyset \cup {"d1"} /\ pgWalk.still /\ pgPage.state \in {"first", "next", "prev"} =>
      \E o \in Nat : PlacedAt(o)
WentBack == pgPage.state = "prev" /\ Exact => pgPage.rows = pgWalk.back

\* What a call and the walk before it have shown, and of what.
Seen == IF pgCall.how = "first" THEN pgCall.rows ELSE pgWalk.shown \o pgCall.rows
SeenOf == IF pgCall.how = "first" THEN pgCall.since ELSE pgWalk.stable
CallSeen ==
    pgCall # NoCall =>
      /\ Increasing(Seen)
      /\ pgCall.pc = "page" => SeenTo(Seen, SeenOf \cap pgQuery.pick, pgCall.after)
      /\ pgCall.pc = "done" => pgCall.after = 0 /\ SeenOf \cap pgQuery.pick \subseteq ToSet(Seen)
CallBounded ==
    /\ pgCall # NoCall /\ pgQuery.kind = "bounded" =>
         /\ Len(pgCall.rows) <= pgCall.bounds.rows /\ pgCall.pages <= pgCall.bounds.pages
         /\ pgCall.spent <= pgCall.bounds.items /\ pgCall.evaluated <= pgCall.spent
         /\ pgCall.pc = "page" /\ pgCall.after = 0 => pgCall.pages = 0 /\ pgCall.rows = <<>> /\ pgCall.spent = 0
    /\ pgCall # NoCall /\ pgQuery.kind = "tables" => Len(pgCall.rows) < pgCall.size

KeysSeen(n) == {k \in Nat : <<n, k>> \in pgScan.keys}
ScanSeen == \A n \in PgNodes :
    /\ pgScan.at[n] < PgSlots[n]
    /\ KeysSeen(n) = 1 .. pgScan.at[n] \/ KeysSeen(n) = 1 .. PgSlots[n]
    /\ pgScan.done => KeysSeen(n) = 1 .. PgSlots[n]

PagingInv == PgTypeOK /\ WalkForward /\ WalkLimited /\ Placed /\ WentBack /\ CallSeen /\ CallBounded /\ ScanSeen

(* The rows of a set in their order: Ordered is increasing, has each row   *)
(* once, and is the only such sequence.                                    *)
Onto(s, S) == \A r \in S : \E i \in DOMAIN s : s[i] = r
FirstOf(B, S, s, n) == \A x \in S : x \in B <=> \E i \in 1 .. n : x = s[i]

LEMMA OrderedIs ==
  ASSUME NEW S, S \subseteq Nat, IsFiniteSet(S)
  PROVE  /\ Ordered(S) \in Seq(S) /\ Len(Ordered(S)) = Cardinality(S) /\ Cardinality(S) \in Nat
         /\ Increasing(Ordered(S)) /\ Onto(Ordered(S), S)
<1> DEFINE N == Cardinality(S)
           Below(r) == {x \in S : x < r}
           Rank(r) == Cardinality(Below(r))
           f == [r \in S |-> Rank(r) + 1]
<1>1. N \in Nat
  BY FS_CardinalityType
<1>2. \A r \in S : Below(r) \in SUBSET S /\ IsFiniteSet(Below(r)) /\ Rank(r) \in Nat /\ Rank(r) < N
  <2>1. ASSUME NEW r \in S PROVE Below(r) \in SUBSET S /\ IsFiniteSet(Below(r)) /\ Rank(r) \in Nat /\ Rank(r) < N
    <3>1. Below(r) \in SUBSET S /\ r \notin Below(r)
      OBVIOUS
    <3>2. IsFiniteSet(Below(r)) /\ Rank(r) <= N /\ Rank(r) # N
      BY <3>1, FS_Subset
    <3>3. Rank(r) \in Nat
      BY <3>2, FS_CardinalityType
    <3>4. QED  BY <1>1, <3>1, <3>2, <3>3
  <2>2. QED  BY <2>1
<1>3. \A q, r \in S : q < r => Rank(q) < Rank(r)
  <2>1. ASSUME NEW q \in S, NEW r \in S, q < r PROVE Rank(q) < Rank(r)
    <3>0. q \in Nat /\ r \in Nat /\ \A x \in S : x \in Nat /\ (x < q => x < r)
      BY <2>1
    <3>1. Below(q) \in SUBSET Below(r) /\ q \in Below(r) /\ q \notin Below(q)
      <4>1. \A x \in Below(q) : x \in S /\ x < r
        BY <3>0
      <4>2. ~(q < q)
        BY <3>0
      <4>3. q \in Below(r) /\ q \notin Below(q)
        BY <2>1, <4>2
      <4>4. QED  BY <4>1, <4>3
    <3>2. Rank(q) <= Rank(r) /\ Rank(q) # Rank(r)
      BY <1>2, <3>1, FS_Subset
    <3>3. QED  BY <1>2, <3>2
  <2>2. QED  BY <2>1
<1> HIDE DEF N, Below
<1>4. f \in [S -> 1 .. N] /\ \A r \in S : f[r] = Rank(r) + 1
  BY <1>1, <1>2
<1> HIDE DEF f, Rank
<1>5. \A q, r \in S : f[q] = f[r] => q = r
  <2>1. \A q, r \in S : f[q] = f[r] => Rank(q) = Rank(r)
    BY <1>2, <1>4
  <2>2. \A q, r \in S : q < r \/ r < q \/ q = r
    OBVIOUS
  <2>3. QED  BY <1>2, <1>3, <2>1, <2>2
<1>6. f \in Injection(S, 1 .. N)
  BY <1>4, <1>5 DEF Injection, IsInjective
<1>7. IsFiniteSet(1 .. N) /\ Cardinality(1 .. N) = N
  BY <1>1, FS_Interval
<1>8. f \in Surjection(S, 1 .. N)
  BY <1>6, <1>7, FS_Injection DEF N
<1>9. \A i \in 1 .. N : \E r \in S : Rank(r) = i - 1
  <2>1. ASSUME NEW i \in 1 .. N PROVE \E r \in S : Rank(r) = i - 1
    <3>1. PICK r \in S : f[r] = i
      BY <1>8 DEF Surjection
    <3>2. Rank(r) + 1 = i /\ Rank(r) \in Nat
      BY <1>2, <1>4, <3>1
    <3>3. QED  BY <3>2
  <2>2. QED  BY <2>1
<1>10. Ordered(S) = [i \in 1 .. N |-> CHOOSE r \in S : Rank(r) = i - 1]
  BY DEF Ordered, N, Rank, Below
<1>11. \A i \in 1 .. N : Ordered(S)[i] \in S /\ Rank(Ordered(S)[i]) = i - 1
  BY <1>9, <1>10
<1>12. Ordered(S) \in Seq(S) /\ Len(Ordered(S)) = N
  BY <1>1, <1>10, <1>11
<1>13. Increasing(Ordered(S))
  <2>1. ASSUME NEW i \in 1 .. N, NEW j \in 1 .. N, i < j PROVE Ordered(S)[i] < Ordered(S)[j]
    <3> DEFINE a == Ordered(S)[i]
               b == Ordered(S)[j]
    <3>2. a \in S /\ b \in S /\ Rank(a) = i - 1 /\ Rank(b) = j - 1
      BY <1>11
    <3>3. ~(Rank(b) < Rank(a)) /\ Rank(b) # Rank(a)
      BY <1>1, <2>1, <3>2
    <3> HIDE DEF a, b
    <3>4. ~(b < a) /\ b # a
      BY <1>3, <3>2, <3>3
    <3>5. a < b
      BY <3>2, <3>4
    <3>6. QED  BY <3>5 DEF a, b
  <2>2. DOMAIN Ordered(S) = 1 .. N
    BY <1>10
  <2>3. QED  BY <2>1, <2>2 DEF Increasing
<1>14. Onto(Ordered(S), S)
  <2>1. ASSUME NEW r \in S PROVE Ordered(S)[f[r]] = r /\ f[r] \in 1 .. N
    <3>1. f[r] \in 1 .. N /\ f[r] - 1 = Rank(r)
      BY <1>1, <1>2, <1>4
    <3>2. Rank(Ordered(S)[f[r]]) = Rank(r) /\ Ordered(S)[f[r]] \in S
      BY <1>11, <3>1
    <3>3. QED  BY <1>4, <1>5, <3>1, <3>2
  <2>2. DOMAIN Ordered(S) = 1 .. N
    BY <1>10
  <2>3. QED  BY <2>1, <2>2 DEF Onto
<1>15. QED  BY <1>1, <1>12, <1>13, <1>14 DEF N

LEMMA RankAt ==
  ASSUME NEW S, S \subseteq Nat, NEW s \in Seq(S), Increasing(s), Onto(s, S), NEW n \in 0 .. Len(s),
         NEW B \in SUBSET S, FirstOf(B, S, s, n)
  PROVE  IsFiniteSet(B) /\ Cardinality(B) = n
<1> DEFINE g == [i \in 1 .. n |-> s[i]]
<1>1. DOMAIN s = 1 .. Len(s) /\ Len(s) \in Nat /\ \A i \in 1 .. Len(s) : s[i] \in S
  OBVIOUS
<1>2. n \in Nat /\ n <= Len(s)
  BY <1>1
<1>3. g \in [1 .. n -> B]
  <2>1. ASSUME NEW i \in 1 .. n PROVE s[i] \in B
    <3>1. i \in 1 .. Len(s)
      BY <1>2
    <3>2. s[i] \in S
      BY <1>1, <3>1
    <3>3. QED  BY <3>2 DEF FirstOf
  <2>2. QED  BY <2>1
<1>4. \A i, j \in 1 .. n : g[i] = g[j] => i = j
  <2>1. \A i, j \in 1 .. n : i < j => g[i] < g[j]
    BY <1>1, <1>2 DEF Increasing
  <2>2. \A i, j \in 1 .. n : i < j \/ j < i \/ i = j
    BY <1>2
  <2>3. \A i \in 1 .. n : g[i] \in Nat
    <3>1. \A i \in 1 .. n : i \in 1 .. Len(s)
      BY <1>2
    <3>2. QED  BY <1>1, <3>1
  <2> HIDE DEF g
  <2>4. QED  BY <2>1, <2>2, <2>3
<1>5. \A x \in B : \E i \in 1 .. n : g[i] = x
  BY DEF FirstOf
<1> HIDE DEF g
<1>6. g \in Bijection(1 .. n, B)
  BY <1>3, <1>4, <1>5 DEF Bijection, Injection, IsInjective, Surjection
<1>7. ExistsBijection(1 .. n, B)
  BY <1>6 DEF ExistsBijection
<1>8. IsFiniteSet(1 .. n) /\ Cardinality(1 .. n) = n
  BY <1>2, FS_Interval
<1>9. QED  BY <1>7, <1>8, FS_Bijection

LEMMA OrderedUnique ==
  ASSUME NEW S, S \subseteq Nat, NEW s \in Seq(S), Increasing(s), Onto(s, S)
  PROVE  s = Ordered(S) /\ IsFiniteSet(S)
<1>1. DOMAIN s = 1 .. Len(s) /\ Len(s) \in Nat /\ \A i \in 1 .. Len(s) : s[i] \in S
  OBVIOUS
<1>2. S \in SUBSET S /\ FirstOf(S, S, s, Len(s))
  BY <1>1 DEF Onto, FirstOf
<1>3. Len(s) \in 0 .. Len(s)
  BY <1>1
<1>4. IsFiniteSet(S) /\ Cardinality(S) = Len(s)
  BY <1>2, <1>3, RankAt
<1>5. \A i \in 1 .. Len(s) : Cardinality({x \in S : x < s[i]}) = i - 1
  <2>1. ASSUME NEW i \in 1 .. Len(s) PROVE Cardinality({x \in S : x < s[i]}) = i - 1
    <3>1. \A j \in 1 .. Len(s) : s[j] < s[i] <=> j < i
      <4>1. ASSUME NEW j \in 1 .. Len(s) PROVE s[j] < s[i] <=> j < i
        <5>1. s[i] \in Nat /\ s[j] \in Nat /\ (j < i => s[j] < s[i]) /\ (i < j => s[i] < s[j])
          BY <1>1 DEF Increasing
        <5>2. j < i \/ i < j \/ i = j
          BY <1>1
        <5>3. QED  BY <5>1, <5>2
      <4>2. QED  BY <4>1
    <3>2. \A x : x \in {y \in S : y < s[i]} <=> x \in S /\ \E j \in 1 .. (i - 1) : x = s[j]
      <4>1. ASSUME NEW x \in S PROVE x < s[i] <=> \E j \in 1 .. (i - 1) : x = s[j]
        <5>1. PICK j \in 1 .. Len(s) : x = s[j]
          BY <1>1 DEF Onto
        <5>2. ASSUME NEW k \in 1 .. (i - 1), x = s[k] PROVE x < s[i]
          <6>1. k \in 1 .. Len(s) /\ k < i
            BY <1>1
          <6>2. QED  BY <3>1, <5>2, <6>1
        <5>3. ASSUME x < s[i] PROVE j \in 1 .. (i - 1)
          <6>1. j < i
            BY <3>1, <5>1, <5>3
          <6>2. QED  BY <6>1, <1>1
        <5>4. QED  BY <5>1, <5>2, <5>3
      <4>2. QED  BY <4>1
    <3>3. PICK n \in 0 .. Len(s) : n = i - 1
      BY <1>1
    <3> DEFINE B == {y \in S : y < s[i]}
    <3>4. B \in SUBSET S /\ FirstOf(B, S, s, n)
      BY <3>2, <3>3 DEF FirstOf
    <3> HIDE DEF B
    <3>5. Cardinality(B) = n
      BY <3>4, RankAt
    <3>6. QED  BY <3>3, <3>5 DEF B
  <2>2. QED  BY <2>1
<1>6. \A i \in 1 .. Len(s) : Ordered(S)[i] = s[i]
  <2>1. ASSUME NEW i \in 1 .. Len(s) PROVE Ordered(S)[i] = s[i]
    <3> DEFINE P(r) == Cardinality({x \in S : x < r}) = i - 1
    <3>1. Ordered(S)[i] = CHOOSE r \in S : P(r)
      BY <1>4 DEF Ordered
    <3>2. s[i] \in S /\ P(s[i])
      BY <1>1, <1>5
    <3>3. ASSUME NEW r \in S, P(r) PROVE r = s[i]
      <4>1. PICK j \in 1 .. Len(s) : r = s[j]
        BY <1>1 DEF Onto
      <4>2. Cardinality({x \in S : x < r}) = j - 1
        BY <1>5, <4>1
      <4>3. j - 1 = i - 1
        BY <3>3, <4>2
      <4>4. j = i
        BY <4>3, <1>1
      <4>5. QED  BY <4>1, <4>4
    <3> HIDE DEF P
    <3>4. QED  BY <3>1, <3>2, <3>3
  <2>2. QED  BY <2>1
<1>7. Ordered(S) \in Seq(S) /\ Len(Ordered(S)) = Len(s)
  BY <1>4, OrderedIs
<1>8. QED  BY <1>4, <1>6, <1>7, SeqEqual

LEMMA LessIs == ASSUME NEW a \in Nat, NEW b \in Nat
                PROVE  Less(a, b) \in Nat /\ Less(a, b) <= a /\ Less(a, b) <= b /\ (Less(a, b) = a \/ Less(a, b) = b)
  BY DEF Less

LEMMA RowsFinite == ASSUME NEW S \in SUBSET PgRows PROVE S \subseteq Nat /\ IsFiniteSet(S) /\ \A r \in S : r > 0
<1>1. PgRows \subseteq Nat \ {0} /\ IsFiniteSet(PgRows)
  BY PagingAssumption
<1>2. IsFiniteSet(S)
  BY <1>1, FS_Subset
<1>3. QED  BY <1>1, <1>2

LEMMA SeqWider == ASSUME NEW S, NEW T, S \subseteq T, NEW s \in Seq(S) PROVE s \in Seq(T)
  BY SeqMonotonic

LEMMA FirstN ==
  ASSUME NEW S, NEW s \in Seq(S), NEW n \in Nat, n <= Len(s)
  PROVE  /\ SubSeq(s, 1, n) \in Seq(S) /\ Len(SubSeq(s, 1, n)) = n /\ DOMAIN SubSeq(s, 1, n) = 1 .. n
         /\ \A i \in 1 .. n : SubSeq(s, 1, n)[i] = s[i]
<1>1. \A i \in 1 .. n : s[i] \in S
  <2>1. ASSUME NEW i \in 1 .. n PROVE s[i] \in S
    <3>1. i \in 1 .. Len(s)
      OBVIOUS
    <3>2. QED  BY <3>1
  <2>2. QED  BY <2>1
<1>2. 1 \in Int /\ n \in Int
  OBVIOUS
<1>3. /\ SubSeq(s, 1, n) \in Seq(S)
      /\ Len(SubSeq(s, 1, n)) = IF 1 <= n THEN n - 1 + 1 ELSE 0
      /\ \A i \in 1 .. n - 1 + 1 : SubSeq(s, 1, n)[i] = s[1 + i - 1]
  BY <1>1, <1>2, SubSeqProperties
<1>4. Len(SubSeq(s, 1, n)) = n
  BY <1>3
<1>5. \A i \in 1 .. n : SubSeq(s, 1, n)[i] = s[i]
  <2>1. ASSUME NEW i \in 1 .. n PROVE SubSeq(s, 1, n)[i] = s[i]
    <3>1. i \in 1 .. n - 1 + 1 /\ 1 + i - 1 = i
      OBVIOUS
    <3>2. QED  BY <1>3, <3>1
  <2>2. QED  BY <2>1
<1>6. QED  BY <1>3, <1>4, <1>5

(* A page of a set: its first rows, all that there are if they are fewer   *)
(* than were asked for.                                                    *)
PageOf(h, S, n) ==
    /\ h \in Seq(S) /\ Increasing(h) /\ Len(h) <= n /\ Len(h) = Less(n, Len(Ordered(S)))
    /\ Len(h) < n => S \subseteq ToSet(h)
    /\ \A r \in S : r \in ToSet(h) \/ \A i \in DOMAIN h : h[i] < r
    /\ Stretch(h, Ordered(S), 0)

LEMMA PageIs ==
  ASSUME NEW S \in SUBSET PgRows, NEW n \in Nat
  PROVE  PageOf(SubSeq(Ordered(S), 1, Less(n, Len(Ordered(S)))), S, n)
<1> DEFINE o == Ordered(S)
           N == Len(o)
           m == Less(n, N)
           h == SubSeq(o, 1, m)
<1>1. S \subseteq Nat /\ IsFiniteSet(S)
  BY RowsFinite
<1>2. o \in Seq(S) /\ N \in Nat /\ Increasing(o) /\ Onto(o, S)
  BY <1>1, OrderedIs
<1>3. DOMAIN o = 1 .. N /\ \A i \in 1 .. N : o[i] \in S
  BY <1>2
<1> HIDE DEF o, N
<1>4. m \in Nat /\ m <= n /\ m <= N /\ (m = n \/ m = N)
  BY <1>2, LessIs
<1> HIDE DEF m
<1>5. h \in Seq(S) /\ Len(h) = m /\ DOMAIN h = 1 .. m /\ \A i \in 1 .. m : h[i] = o[i]
  BY <1>2, <1>4, FirstN DEF N
<1> HIDE DEF h
<1>6. Increasing(h)
  <2>1. ASSUME NEW i \in 1 .. m, NEW j \in 1 .. m, i < j PROVE h[i] < h[j]
    <3>1. i \in 1 .. N /\ j \in 1 .. N
      BY <1>2, <1>4
    <3>2. o[i] < o[j]
      BY <1>2, <1>3, <2>1, <3>1 DEF Increasing
    <3>3. QED  BY <1>5, <3>2
  <2>2. QED  BY <1>5, <2>1 DEF Increasing
<1>7. \A r \in S : r \in ToSet(h) \/ ((\A i \in DOMAIN h : h[i] < r) /\ m < N)
  <2>1. ASSUME NEW r \in S, r \notin ToSet(h) PROVE (\A i \in DOMAIN h : h[i] < r) /\ m < N
    <3>1. PICK k \in 1 .. N : o[k] = r
      BY <1>2, <1>3 DEF Onto
    <3>2. k \notin 1 .. m
      BY <1>5, <2>1, <3>1 DEF ToSet
    <3>3. m < k
      BY <1>2, <1>4, <3>1, <3>2
    <3>4. ASSUME NEW i \in 1 .. m PROVE h[i] < r
      <4>1. i \in 1 .. N /\ i < k
        BY <1>2, <1>4, <3>3
      <4>2. o[i] < o[k]
        BY <1>2, <1>3, <4>1 DEF Increasing
      <4>3. QED  BY <1>5, <3>1, <4>2
    <3>5. m < N
      BY <1>2, <1>4, <3>3
    <3>6. QED  BY <1>5, <3>4, <3>5
  <2>2. QED  BY <2>1
<1>8. Len(h) < n => S \subseteq ToSet(h)
  BY <1>2, <1>4, <1>5, <1>7
<1>9. Stretch(h, Ordered(S), 0)
  <2>1. \A i \in 1 .. m : 0 + i = i
    BY <1>4
  <2>2. 0 + m <= N
    BY <1>2, <1>4
  <2>3. QED  BY <1>5, <2>1, <2>2 DEF Stretch, o, N
<1>10. Len(h) = Less(n, Len(Ordered(S)))
  BY <1>5 DEF m, N, o
<1>11. QED  BY <1>4, <1>5, <1>6, <1>7, <1>8, <1>9, <1>10 DEF PageOf, h, m, N, o

(* A part of a page is a page.                                             *)
LEMMA PageOfPage ==
  ASSUME NEW S \in SUBSET PgRows, NEW n \in Nat, NEW h, PageOf(h, S, n), NEW k \in Nat
  PROVE  /\ PageOf(SubSeq(h, 1, Less(k, Len(h))), S, Less(k, n))
         /\ Len(SubSeq(h, 1, Less(k, Len(h)))) = Less(k, Len(h))
<1> DEFINE L == Len(h)
           m == Less(k, L)
           c == SubSeq(h, 1, m)
<1>1. /\ h \in Seq(S) /\ Increasing(h) /\ L <= n /\ (L < n => S \subseteq ToSet(h)) /\ L \in Nat
      /\ DOMAIN h = 1 .. L /\ Stretch(h, Ordered(S), 0)
  BY DEF PageOf
<1>0. L = Len(h)
  OBVIOUS
<1> HIDE DEF L
<1>2. m \in Nat /\ m <= k /\ m <= L /\ (m = k \/ m = L)
  BY <1>1, LessIs
<1> HIDE DEF m
<1>3. c \in Seq(S) /\ Len(c) = m /\ DOMAIN c = 1 .. m /\ \A i \in 1 .. m : c[i] = h[i]
  BY <1>1, <1>2, <1>0, FirstN
<1> HIDE DEF c
<1>4. \A i \in 1 .. m : i \in 1 .. L
  BY <1>1, <1>2
<1>5. Increasing(c)
  BY <1>1, <1>3, <1>4 DEF Increasing
<1>6. \A r \in S : r \in ToSet(c) \/ \A i \in DOMAIN c : c[i] < r
  <2>1. ASSUME NEW r \in S, r \notin ToSet(c) PROVE \A i \in DOMAIN c : c[i] < r
    <3>1. CASE r \notin ToSet(h)
      <4>1. \A i \in DOMAIN h : h[i] < r
        BY <3>1 DEF PageOf
      <4>2. QED  BY <1>1, <1>3, <1>4, <4>1
    <3>2. CASE r \in ToSet(h)
      <4>1. PICK j \in 1 .. L : h[j] = r
        BY <1>1, <3>2 DEF ToSet
      <4>2. j \notin 1 .. m
        BY <1>3, <2>1, <4>1 DEF ToSet
      <4>3. \A i \in 1 .. m : i < j
        BY <1>1, <1>2, <4>2
      <4>4. QED  BY <1>1, <1>3, <1>4, <4>1, <4>3 DEF Increasing
    <3>3. QED  BY <3>1, <3>2
  <2>2. QED  BY <2>1
<1>7. m <= Less(k, n) /\ (m < Less(k, n) => m = L /\ L < n)
  BY <1>1, <1>2 DEF Less
<1>8. ASSUME m = L PROVE ToSet(c) = ToSet(h)
  BY <1>1, <1>3, <1>8 DEF ToSet
<1>9. m < Less(k, n) => S \subseteq ToSet(c)
  BY <1>1, <1>7, <1>8
<1>10. Stretch(c, Ordered(S), 0)
  <2>1. 0 + m <= Len(Ordered(S))
    <3>1. 0 + L <= Len(Ordered(S)) /\ Len(Ordered(S)) \in Nat
      BY <1>1, <1>0, RowsFinite, OrderedIs DEF Stretch
    <3>2. QED  BY <1>1, <1>2, <3>1
  <2>2. QED  BY <1>1, <1>3, <1>4, <2>1 DEF Stretch
<1>11. Len(c) = Less(Less(k, n), Len(Ordered(S)))
  <2>1. Len(Ordered(S)) \in Nat /\ L = Less(n, Len(Ordered(S)))
    BY <1>0, RowsFinite, OrderedIs DEF PageOf
  <2> DEFINE a == Len(Ordered(S))
  <2> HIDE DEF a
  <2>2. a \in Nat /\ L = Less(n, a)
    BY <2>1 DEF a
  <2>3. m = Less(Less(k, n), a)
    BY <2>2 DEF Less, m
  <2>4. QED  BY <1>3, <2>3 DEF a
<1>12. QED  BY <1>3, <1>5, <1>6, <1>7, <1>9, <1>10, <1>11 DEF PageOf, c, m, L

(* Walks and pages.  A page of the rows after the last one shown carries   *)
(* the walk on: in order, and with no row passed over.                     *)
After(c) == {r \in pgTable : r > c}
Leads(h, S) ==
    h \in Seq(S) /\ Increasing(h) /\ \A r \in S : r \in ToSet(h) \/ \A i \in DOMAIN h : h[i] < r

LEMMA ToSetOfConcat ==
  ASSUME NEW S, NEW s \in Seq(S), NEW t \in Seq(S)
  PROVE  ToSet(s \o t) = ToSet(s) \cup ToSet(t)
<1>1. /\ s \o t \in Seq(S) /\ Len(s \o t) = Len(s) + Len(t)
      /\ \A i \in 1 .. Len(s) + Len(t) : (s \o t)[i] = IF i <= Len(s) THEN s[i] ELSE t[i - Len(s)]
  OBVIOUS
<1>2. DOMAIN (s \o t) = 1 .. Len(s) + Len(t) /\ DOMAIN s = 1 .. Len(s) /\ DOMAIN t = 1 .. Len(t)
      /\ Len(s) \in Nat /\ Len(t) \in Nat
  BY <1>1
<1>3. ASSUME NEW i \in 1 .. Len(s) + Len(t) PROVE (s \o t)[i] \in ToSet(s) \cup ToSet(t)
  <2>1. CASE i <= Len(s)
    BY <1>1, <1>2, <2>1 DEF ToSet
  <2>2. CASE ~(i <= Len(s))
    <3>1. i - Len(s) \in 1 .. Len(t)
      BY <1>2, <2>2
    <3>2. QED  BY <1>1, <1>2, <2>2, <3>1 DEF ToSet
  <2>3. QED  BY <2>1, <2>2
<1>4. ASSUME NEW i \in 1 .. Len(s) PROVE s[i] \in ToSet(s \o t)
  <2>1. i \in 1 .. Len(s) + Len(t) /\ i <= Len(s)
    BY <1>2
  <2>2. QED  BY <1>1, <1>2, <2>1 DEF ToSet
<1>5. ASSUME NEW i \in 1 .. Len(t) PROVE t[i] \in ToSet(s \o t)
  <2>1. Len(s) + i \in 1 .. Len(s) + Len(t) /\ ~(Len(s) + i <= Len(s)) /\ Len(s) + i - Len(s) = i
    BY <1>2
  <2>2. QED  BY <1>1, <1>2, <2>1 DEF ToSet
<1>6. QED  BY <1>2, <1>3, <1>4, <1>5 DEF ToSet

LEMMA ConcatIs ==
  ASSUME NEW S, NEW s \in Seq(S), NEW t \in Seq(S)
  PROVE  /\ s \o t \in Seq(S) /\ Len(s \o t) = Len(s) + Len(t)
         /\ \A i \in DOMAIN (s \o t) :
              IF i <= Len(s) THEN i \in DOMAIN s /\ (s \o t)[i] = s[i]
              ELSE i - Len(s) \in DOMAIN t /\ (s \o t)[i] = t[i - Len(s)]
<1>1. /\ s \o t \in Seq(S) /\ Len(s \o t) = Len(s) + Len(t)
      /\ \A i \in 1 .. Len(s) + Len(t) : (s \o t)[i] = IF i <= Len(s) THEN s[i] ELSE t[i - Len(s)]
  OBVIOUS
<1>2. DOMAIN (s \o t) = 1 .. Len(s) + Len(t) /\ DOMAIN s = 1 .. Len(s) /\ DOMAIN t = 1 .. Len(t)
      /\ Len(s) \in Nat /\ Len(t) \in Nat
  BY <1>1
<1>3. \A i \in 1 .. Len(s) + Len(t) : IF i <= Len(s) THEN i \in 1 .. Len(s) ELSE i - Len(s) \in 1 .. Len(t)
  BY <1>2
<1>4. QED  BY <1>1, <1>2, <1>3

LEMMA IncreasingConcat ==
  ASSUME NEW s \in Seq(Nat), NEW t \in Seq(Nat), Increasing(s), Increasing(t), NEW end \in Nat,
         \A i \in DOMAIN s : s[i] <= end, \A i \in DOMAIN t : t[i] > end
  PROVE  Increasing(s \o t)
<1>1. /\ s \o t \in Seq(Nat)
      /\ \A i \in DOMAIN (s \o t) :
              IF i <= Len(s) THEN i \in DOMAIN s /\ (s \o t)[i] = s[i]
              ELSE i - Len(s) \in DOMAIN t /\ (s \o t)[i] = t[i - Len(s)]
  BY ConcatIs
<1>2. \A i \in DOMAIN s : s[i] \in Nat
  OBVIOUS
<1>3. \A i \in DOMAIN t : t[i] \in Nat
  OBVIOUS
<1>4. DOMAIN (s \o t) \subseteq Nat /\ Len(s) \in Nat
  BY <1>1
<1> DEFINE st == s \o t
<1>5. /\ DOMAIN st \subseteq Nat
      /\ \A i \in DOMAIN st :
              IF i <= Len(s) THEN i \in DOMAIN s /\ st[i] = s[i]
              ELSE i - Len(s) \in DOMAIN t /\ st[i] = t[i - Len(s)]
  BY <1>1, <1>4
<1> HIDE DEF st
<1>6. ASSUME NEW i \in DOMAIN st, NEW j \in DOMAIN st, i < j PROVE st[i] < st[j]
  <2>0. i \in Nat /\ j \in Nat
    BY <1>5
  <2>1. CASE j <= Len(s)
    <3>1. i <= Len(s)
      BY <1>4, <1>6, <2>0, <2>1
    <3>2. QED  BY <1>5, <1>6, <2>1, <3>1 DEF Increasing
  <2>2. CASE i <= Len(s) /\ ~(j <= Len(s))
    <3>1. st[i] \in Nat /\ st[j] \in Nat /\ st[i] <= end /\ st[j] > end
      BY <1>2, <1>3, <1>5, <2>2
    <3>2. QED  BY <3>1
  <2>3. CASE ~(i <= Len(s)) /\ ~(j <= Len(s))
    <3>1. i - Len(s) < j - Len(s)
      BY <1>4, <1>6, <2>0
    <3>2. QED  BY <1>5, <2>3, <3>1 DEF Increasing
  <2>4. QED  BY <1>4, <1>6, <2>0, <2>1, <2>2, <2>3
<1>7. QED  BY <1>6 DEF Increasing, st

LEMMA WalkGrows ==
  ASSUME pgTable \in SUBSET PgRows, NEW shown \in Seq(PgRows), NEW set \in SUBSET pgTable, NEW end \in Nat,
         Increasing(shown), SeenTo(shown, set, end), NEW S \in SUBSET After(end),
         \A r \in set : r > end => r \in S, NEW rows, Leads(rows, S)
  PROVE  /\ shown \o rows \in Seq(PgRows) /\ Increasing(shown \o rows)
         /\ Len(shown \o rows) = Len(shown) + Len(rows)
         /\ S \subseteq ToSet(rows) => set \subseteq ToSet(shown \o rows)
         /\ Len(rows) > 0 => /\ rows[Len(rows)] \in Nat /\ rows[Len(rows)] > end
                             /\ SeenTo(shown \o rows, set, rows[Len(rows)])
<1>1. PgRows \subseteq Nat
  BY PagingAssumption
<1>2. S \in SUBSET PgRows /\ \A r \in S : r > end
  BY DEF After
<1>3. rows \in Seq(S) /\ Increasing(rows)
      /\ \A r \in S : r \in ToSet(rows) \/ \A i \in DOMAIN rows : rows[i] < r
  BY DEF Leads
<1>4. rows \in Seq(PgRows)
  BY <1>2, <1>3, SeqWider
<1>5. shown \in Seq(Nat) /\ rows \in Seq(Nat)
  BY <1>1, <1>4, SeqWider
<1>6. \A i \in DOMAIN rows : rows[i] \in S
  BY <1>3
<1>7. \A i \in DOMAIN rows : rows[i] > end /\ rows[i] \in Nat
  BY <1>1, <1>2, <1>6
<1>8. Increasing(shown \o rows)
  BY <1>3, <1>5, <1>7, IncreasingConcat DEF SeenTo
<1>9. ToSet(shown \o rows) = ToSet(shown) \cup ToSet(rows)
  BY <1>4, ToSetOfConcat
<1>10. shown \o rows \in Seq(PgRows) /\ Len(shown \o rows) = Len(shown) + Len(rows)
  BY <1>4, ConcatIs
<1>11. \A r \in set : r <= end => r \in ToSet(shown)
  BY DEF SeenTo
<1>12. \A r \in set : r \in Nat /\ r \in pgTable /\ (r <= end \/ r > end)
  BY <1>1
<1>13. ASSUME S \subseteq ToSet(rows) PROVE set \subseteq ToSet(shown \o rows)
  BY <1>9, <1>11, <1>12, <1>13
<1>14. ASSUME Len(rows) > 0
       PROVE  /\ rows[Len(rows)] \in Nat /\ rows[Len(rows)] > end
              /\ SeenTo(shown \o rows, set, rows[Len(rows)])
  <2> DEFINE last == rows[Len(rows)]
  <2>1. DOMAIN rows = 1 .. Len(rows) /\ Len(rows) \in Nat
    BY <1>4
  <2>2. Len(rows) \in DOMAIN rows
    BY <1>14, <2>1
  <2>3. last \in Nat /\ last > end
    BY <1>7, <2>2
  <2>4. \A i \in DOMAIN rows : rows[i] <= last
    <3>1. ASSUME NEW i \in DOMAIN rows PROVE rows[i] <= last
      <4>1. i = Len(rows) \/ i < Len(rows)
        BY <2>1
      <4>2. i < Len(rows) => rows[i] < last
        BY <1>3, <2>2 DEF Increasing
      <4>3. rows[i] \in Nat
        BY <1>7
      <4> HIDE DEF last
      <4>4. i = Len(rows) => rows[i] = last
        BY DEF last
      <4>5. QED  BY <2>3, <4>1, <4>2, <4>3, <4>4
    <3>2. QED  BY <3>1
  <2> HIDE DEF last
  <2>5. ASSUME NEW i \in DOMAIN (shown \o rows) PROVE (shown \o rows)[i] <= last
    <3>1. CASE i <= Len(shown)
      <4>1. (shown \o rows)[i] = shown[i] /\ i \in DOMAIN shown
        BY <1>4, <3>1, ConcatIs
      <4>2. shown[i] \in Nat /\ shown[i] <= end
        BY <1>5, <4>1 DEF SeenTo
      <4>3. QED  BY <2>3, <4>1, <4>2
    <3>2. CASE ~(i <= Len(shown))
      <4>1. i - Len(shown) \in DOMAIN rows /\ (shown \o rows)[i] = rows[i - Len(shown)]
        BY <1>4, <3>2, ConcatIs
      <4>2. QED  BY <2>4, <4>1
    <3>3. QED  BY <3>1, <3>2
  <2>6. ASSUME NEW r \in set, r <= last PROVE r \in ToSet(shown \o rows)
    <3>1. CASE r <= end
      BY <1>9, <1>11, <3>1
    <3>2. CASE r > end
      <4>1. r \in S
        BY <3>2
      <4>2. ~(last < r)
        BY <1>12, <2>3, <2>6
      <4>3. ~ \A i \in DOMAIN rows : rows[i] < r
        BY <2>2, <4>2 DEF last
      <4>4. QED  BY <1>3, <1>9, <4>1, <4>3
    <3>3. QED  BY <1>12, <3>1, <3>2
  <2>7. SeenTo(shown \o rows, set, last)
    BY <2>5, <2>6 DEF SeenTo
  <2>8. QED  BY <2>3, <2>7 DEF last
<1>15. QED  BY <1>8, <1>10, <1>13, <1>14

LEMMA ReverseIs ==
  ASSUME NEW S, NEW s \in Seq(S)
  PROVE  /\ Reverse(s) \in Seq(S) /\ Len(Reverse(s)) = Len(s)
         /\ \A i \in 1 .. Len(s) : Reverse(s)[i] = s[Len(s) - i + 1]
<1>1. Len(s) \in Nat /\ DOMAIN s = 1 .. Len(s)
  OBVIOUS
<1>2. \A i \in 1 .. Len(s) : (Len(s) - i) + 1 \in 1 .. Len(s)
  BY <1>1
<1>3. Reverse(s) = [i \in 1 .. Len(s) |-> s[(Len(s) - i) + 1]]
  BY DEF Reverse
<1>4. QED  BY <1>1, <1>2, <1>3

(* The database's answers.                                                 *)
LEMMA TableRows == ASSUME PgTypeOK PROVE pgTable \in SUBSET PgRows /\ \A c : After(c) \in SUBSET PgRows
  BY DEF PgTypeOK, After

LEMMA AnsweredNext ==
  ASSUME PgTypeOK, Exact, NEW cursor \in Nat, NEW n \in Nat
  PROVE  PageOf(Answered(cursor, "next", n), After(cursor), n)
<1>1. pgTable \in SUBSET PgRows /\ After(cursor) \in SUBSET PgRows
  BY TableRows
<1>2. \A r \in pgTable : r \in Nat /\ r > 0
  BY <1>1, RowsFinite
<1>3. ASSUME NEW r \in pgTable PROVE Beyond(r, cursor, "next") <=> r > cursor
  <2>1. Key(r) = r
    BY DEF Key, Exact
  <2>2. ~(pgQuery.kind = "sql" /\ r \in pgQuery.pick)
    BY DEF Exact, Kind
  <2>3. Beyond(r, cursor, "next") <=> (cursor = 0 \/ r > cursor)
    BY <2>1, <2>2 DEF Beyond
  <2>4. QED  BY <1>2, <2>3
<1>4. {r \in pgTable : Beyond(r, cursor, "next")} = After(cursor)
  BY <1>3 DEF After
<1>5. Answered(cursor, "next", n) = SubSeq(Ordered(After(cursor)), 1, Less(n, Len(Ordered(After(cursor)))))
  BY <1>4 DEF Answered
<1>6. QED  BY <1>1, <1>5, PageIs

LEMMA AnsweredAny ==
  ASSUME PgTypeOK, NEW cursor, NEW dir, NEW n \in Nat
  PROVE  Answered(cursor, dir, n) \in Seq(PgRows) /\ Len(Answered(cursor, dir, n)) <= n
<1> DEFINE S == {r \in pgTable : Beyond(r, cursor, dir)}
           all == Ordered(S)
           seq == IF dir = "prev" THEN Reverse(all) ELSE all
<1>1. S \in SUBSET PgRows
  BY TableRows
<1> HIDE DEF S
<1>2. all \in Seq(S)
  BY <1>1, RowsFinite, OrderedIs
<1>3. all \in Seq(PgRows)
  BY <1>1, <1>2, SeqWider
<1> HIDE DEF all
<1>4. seq \in Seq(PgRows)
  BY <1>3, ReverseIs
<1> HIDE DEF seq
<1> DEFINE L == Len(seq)
           m == Less(n, L)
<1>5. L \in Nat
  BY <1>4
<1> HIDE DEF L
<1>9. m \in Nat /\ m <= L /\ m <= n
  BY <1>5, LessIs
<1> HIDE DEF m
<1>6. SubSeq(seq, 1, m) \in Seq(PgRows) /\ Len(SubSeq(seq, 1, m)) = m
  BY <1>4, <1>9, FirstN DEF L
<1>7. Answered(cursor, dir, n) = SubSeq(seq, 1, m)
  BY DEF Answered, seq, all, S, m, L
<1>8. QED  BY <1>9, <1>6, <1>7

LEMMA EvaluatedIs ==
  ASSUME PgTypeOK, NEW after \in Nat, NEW n \in Nat
  PROVE  PageOf(Evaluated(after, n), After(after), n)
<1>1. After(after) \in SUBSET PgRows
  BY TableRows
<1>2. Evaluated(after, n) = SubSeq(Ordered(After(after)), 1, Less(n, Len(Ordered(After(after)))))
  BY DEF Evaluated, After
<1>3. QED  BY <1>1, <1>2, PageIs

(* While the table stands still its rows have their places, and a cursor   *)
(* cuts them in two.                                                       *)
Before(c) == {r \in pgTable : r < c}

LEMMA PlacesOf ==
  ASSUME PgTypeOK, NEW all, all = Ordered(pgTable)
  PROVE  /\ all \in Seq(pgTable) /\ Len(all) \in Nat /\ Increasing(all) /\ Onto(all, pgTable)
         /\ DOMAIN all = 1 .. Len(all)
         /\ \A i \in 1 .. Len(all) : all[i] \in pgTable /\ all[i] \in PgRows /\ all[i] \in Nat /\ all[i] > 0
<1>1. pgTable \in SUBSET PgRows /\ pgTable \subseteq Nat /\ IsFiniteSet(pgTable) /\ \A r \in pgTable : r > 0
  BY TableRows, RowsFinite
<1>2. all \in Seq(pgTable) /\ Len(all) \in Nat /\ Increasing(all) /\ Onto(all, pgTable)
  BY <1>1, OrderedIs
<1>3. DOMAIN all = 1 .. Len(all) /\ \A i \in 1 .. Len(all) : all[i] \in pgTable
  BY <1>2
<1>4. QED  BY <1>1, <1>2, <1>3

LEMMA OrderedAfter ==
  ASSUME PgTypeOK, NEW k \in Nat, k <= Len(Ordered(pgTable)), NEW c \in Nat,
         IF k = 0 THEN c = 0 ELSE c = Ordered(pgTable)[k]
  PROVE  /\ Len(Ordered(After(c))) = Len(Ordered(pgTable)) - k
         /\ \A i \in 1 .. Len(Ordered(pgTable)) - k : Ordered(After(c))[i] = Ordered(pgTable)[k + i]
<1> DEFINE all == Ordered(pgTable)
           N == Len(all)
           s == [i \in 1 .. N - k |-> all[k + i]]
<1>1. pgTable \in SUBSET PgRows /\ After(c) \in SUBSET PgRows
  BY TableRows
<1>2. pgTable \subseteq Nat /\ IsFiniteSet(pgTable) /\ \A r \in pgTable : r > 0
  BY <1>1, RowsFinite
<1>3. all \in Seq(pgTable) /\ N \in Nat /\ Increasing(all) /\ Onto(all, pgTable)
  BY <1>2, OrderedIs
<1>4. DOMAIN all = 1 .. N /\ \A i \in 1 .. N : all[i] \in pgTable /\ all[i] \in Nat /\ all[i] > 0
  BY PlacesOf
<1>5. k <= N /\ N - k \in Nat
  BY <1>3
<1>6. IF k = 0 THEN c = 0 ELSE c = all[k]
  OBVIOUS
<1> HIDE DEF all, N
<1>7. ASSUME NEW j \in 1 .. N PROVE all[j] > c <=> j > k
  <2>1. CASE k = 0
    BY <1>4, <1>6, <2>1
  <2>2. CASE k # 0
    <3>1. k \in 1 .. N /\ c = all[k]
      BY <1>3, <1>5, <1>6, <2>2
    <3>2. (j < k => all[j] < c) /\ (k < j => c < all[j]) /\ (j = k => all[j] = c)
      BY <1>3, <1>4, <3>1 DEF Increasing
    <3>3. all[j] \in Nat /\ (j < k \/ k < j \/ j = k)
      BY <1>4, <3>1
    <3>4. QED  BY <3>2, <3>3
  <2>3. QED  BY <2>1, <2>2
<1>8. \A i \in 1 .. N - k : k + i \in 1 .. N /\ k + i > k
  BY <1>3, <1>5
<1>9. \A i \in 1 .. N - k : s[i] = all[k + i] /\ s[i] \in After(c)
  BY <1>4, <1>7, <1>8 DEF After
<1>10. s \in Seq(After(c)) /\ Len(s) = N - k /\ DOMAIN s = 1 .. N - k
  BY <1>5, <1>9
<1> HIDE DEF s
<1>11. Increasing(s)
  <2>1. ASSUME NEW i \in 1 .. N - k, NEW j \in 1 .. N - k, i < j PROVE s[i] < s[j]
    <3>1. k + i < k + j
      BY <2>1, <1>5
    <3>2. QED  BY <1>3, <1>4, <1>8, <1>9, <3>1 DEF Increasing
  <2>2. QED  BY <1>10, <2>1 DEF Increasing
<1>12. Onto(s, After(c))
  <2>1. ASSUME NEW r \in After(c) PROVE \E i \in DOMAIN s : s[i] = r
    <3>1. PICK j \in 1 .. N : all[j] = r
      BY <1>3, <1>4 DEF After, Onto
    <3>2. j > k
      BY <1>7, <3>1 DEF After
    <3>3. j - k \in 1 .. N - k /\ k + (j - k) = j
      BY <1>3, <1>5, <3>2
    <3>4. QED  BY <1>9, <1>10, <3>1, <3>3
  <2>2. QED  BY <2>1 DEF Onto
<1>13. s = Ordered(After(c))
  BY <1>1, <1>2, <1>10, <1>11, <1>12, OrderedUnique DEF After
<1>14. QED  BY <1>9, <1>10, <1>13 DEF all, N

LEMMA OrderedBefore ==
  ASSUME PgTypeOK, NEW o \in Nat, o < Len(Ordered(pgTable))
  PROVE  /\ Len(Ordered(Before(Ordered(pgTable)[o + 1]))) = o
         /\ Ordered(Before(Ordered(pgTable)[o + 1])) \in Seq(PgRows)
         /\ \A i \in 1 .. o : Ordered(Before(Ordered(pgTable)[o + 1]))[i] = Ordered(pgTable)[i]
<1> DEFINE all == Ordered(pgTable)
           N == Len(all)
           c == all[o + 1]
           s == [i \in 1 .. o |-> all[i]]
<1>1. pgTable \in SUBSET PgRows /\ Before(c) \in SUBSET PgRows
  BY TableRows DEF Before
<1>2. pgTable \subseteq Nat /\ IsFiniteSet(pgTable)
  BY <1>1, RowsFinite
<1>3. all \in Seq(pgTable) /\ N \in Nat /\ Increasing(all) /\ Onto(all, pgTable)
  BY <1>2, OrderedIs
<1>4. DOMAIN all = 1 .. N /\ \A i \in 1 .. N : all[i] \in pgTable /\ all[i] \in Nat
  BY PlacesOf
<1>5. o < N /\ o + 1 \in 1 .. N
  BY <1>3
<1> HIDE DEF all, N
<1>6. ASSUME NEW j \in 1 .. N PROVE all[j] < c <=> j < o + 1
  <2>1. (j < o + 1 => all[j] < c) /\ (o + 1 < j => c < all[j]) /\ (j = o + 1 => all[j] = c)
    BY <1>3, <1>4, <1>5 DEF Increasing
  <2>2. all[j] \in Nat /\ c \in Nat
    BY <1>4, <1>5
  <2>3. j < o + 1 \/ o + 1 < j \/ j = o + 1
    OBVIOUS
  <2> HIDE DEF c
  <2>4. QED  BY <2>1, <2>2, <2>3
<1>7. \A i \in 1 .. o : i \in 1 .. N /\ i < o + 1
  BY <1>3, <1>5
<1> HIDE DEF c
<1>8. \A i \in 1 .. o : s[i] = all[i] /\ s[i] \in Before(c)
  BY <1>4, <1>6, <1>7 DEF Before
<1>9. s \in Seq(Before(c)) /\ Len(s) = o /\ DOMAIN s = 1 .. o
  BY <1>8
<1> HIDE DEF s
<1>10. Increasing(s)
  BY <1>3, <1>4, <1>7, <1>8, <1>9 DEF Increasing
<1>11. Onto(s, Before(c))
  <2>1. ASSUME NEW r \in Before(c) PROVE \E i \in DOMAIN s : s[i] = r
    <3>1. PICK j \in 1 .. N : all[j] = r
      BY <1>3, <1>4 DEF Before, Onto
    <3>2. j < o + 1
      BY <1>6, <3>1 DEF Before
    <3>3. j \in 1 .. o
      BY <3>2
    <3>4. QED  BY <1>8, <1>9, <3>1, <3>3
  <2>2. QED  BY <2>1 DEF Onto
<1>12. s = Ordered(Before(c))
  BY <1>1, <1>2, <1>9, <1>10, <1>11, OrderedUnique DEF Before
<1>13. s \in Seq(PgRows)
  BY <1>1, <1>9, SeqWider
<1>14. QED  BY <1>8, <1>9, <1>12, <1>13 DEF all, N, c

(* A page after a cursor lies right behind it.                             *)
LEMMA PagePlaced ==
  ASSUME PgTypeOK, NEW k \in Nat, k <= Len(Ordered(pgTable)), NEW c \in Nat,
         IF k = 0 THEN c = 0 ELSE c = Ordered(pgTable)[k],
         NEW n \in Nat, NEW h, PageOf(h, After(c), n)
  PROVE  Stretch(h, Ordered(pgTable), k) /\ Len(h) = Less(n, Len(Ordered(pgTable)) - k)
<1> DEFINE N == Len(Ordered(pgTable))
<1>1. N \in Nat
  BY TableRows, RowsFinite, OrderedIs
<1>2. /\ Len(Ordered(After(c))) = N - k
      /\ \A i \in 1 .. N - k : Ordered(After(c))[i] = Ordered(pgTable)[k + i]
  BY OrderedAfter
<1>3. /\ h \in Seq(After(c)) /\ Len(h) = Less(n, Len(Ordered(After(c))))
      /\ 0 + Len(h) <= Len(Ordered(After(c))) /\ \A i \in DOMAIN h : h[i] = Ordered(After(c))[0 + i]
  BY DEF PageOf, Stretch
<1>4. Len(h) \in Nat /\ DOMAIN h = 1 .. Len(h)
  BY <1>3
<1>5. k <= N
  OBVIOUS
<1> HIDE DEF N
<1>6. Len(h) <= N - k /\ k + Len(h) <= N
  BY <1>1, <1>2, <1>3, <1>4, <1>5
<1>7. ASSUME NEW i \in DOMAIN h PROVE h[i] = Ordered(pgTable)[k + i]
  <2>1. i \in 1 .. N - k /\ 0 + i = i
    BY <1>1, <1>4, <1>5, <1>6
  <2>2. QED  BY <1>2, <1>3, <2>1
<1>8. QED  BY <1>2, <1>3, <1>6, <1>7 DEF Stretch, N

LEMMA PageLeads == ASSUME NEW h, NEW S, NEW n, PageOf(h, S, n) PROVE Leads(h, S)
  BY DEF PageOf, Leads

LEMMA LeadsCut ==
  ASSUME NEW S, NEW h, Leads(h, S), NEW m \in Nat, m <= Len(h)
  PROVE  Leads(SubSeq(h, 1, m), S) /\ Len(SubSeq(h, 1, m)) = m
<1> DEFINE c == SubSeq(h, 1, m)
<1>1. h \in Seq(S) /\ Increasing(h) /\ DOMAIN h = 1 .. Len(h) /\ Len(h) \in Nat
  BY DEF Leads
<1>2. c \in Seq(S) /\ Len(c) = m /\ DOMAIN c = 1 .. m /\ \A i \in 1 .. m : c[i] = h[i]
  BY <1>1, FirstN
<1> HIDE DEF c
<1>3. \A i \in 1 .. m : i \in 1 .. Len(h)
  BY <1>1
<1>4. Increasing(c)
  BY <1>1, <1>2, <1>3 DEF Increasing
<1>5. ASSUME NEW r \in S, r \notin ToSet(c) PROVE \A i \in DOMAIN c : c[i] < r
  <2>1. CASE r \notin ToSet(h)
    <3>1. \A i \in DOMAIN h : h[i] < r
      BY <2>1 DEF Leads
    <3>2. QED  BY <1>1, <1>2, <1>3, <3>1
  <2>2. CASE r \in ToSet(h)
    <3>1. PICK j \in 1 .. Len(h) : h[j] = r
      BY <1>1, <2>2 DEF ToSet
    <3>2. j \notin 1 .. m
      BY <1>2, <1>5, <3>1 DEF ToSet
    <3>3. \A i \in 1 .. m : i < j
      BY <1>1, <3>2
    <3>4. QED  BY <1>1, <1>2, <1>3, <3>1, <3>3 DEF Increasing
  <2>3. QED  BY <2>1, <2>2
<1>6. QED  BY <1>2, <1>4, <1>5 DEF Leads, c

(* The rows of a page cut from an answer that fetched one row more.        *)
IsCut(rows, got, c, k, n) ==
  /\ PageOf(rows, After(c), Less(k, n)) /\ rows \in Seq(PgRows) /\ Leads(rows, After(c))
  /\ Len(rows) = Less(k, Len(got)) /\ Len(got) \in Nat /\ Len(got) <= n
  /\ Len(got) <= k /\ Len(got) < n => After(c) \subseteq ToSet(rows)

LEMMA CutPage ==
  ASSUME PgTypeOK, NEW c \in Nat, NEW n \in Nat, NEW k \in Nat, NEW got, PageOf(got, After(c), n),
         NEW rows, rows = SubSeq(got, 1, Less(k, Len(got)))
  PROVE  IsCut(rows, got, c, k, n)
<1>1. After(c) \in SUBSET PgRows
  BY TableRows
<1>2. PageOf(rows, After(c), Less(k, n)) /\ Len(rows) = Less(k, Len(got))
  BY <1>1, PageOfPage
<1>3. rows \in Seq(After(c)) /\ Leads(rows, After(c))
  BY <1>2 DEF PageOf, Leads
<1>4. rows \in Seq(PgRows)
  BY <1>1, <1>3, SeqWider
<1>5. /\ got \in Seq(After(c)) /\ Len(got) <= n /\ (Len(got) < n => After(c) \subseteq ToSet(got))
  BY DEF PageOf
<1>6. Len(got) \in Nat
  BY <1>5
<1>7. ASSUME Len(got) <= k, Len(got) < n PROVE After(c) \subseteq ToSet(rows)
  <2>1. Less(k, Len(got)) = Len(got)
    BY <1>6, <1>7 DEF Less
  <2>2. /\ DOMAIN rows = 1 .. Len(got) /\ DOMAIN got = 1 .. Len(got)
        /\ \A i \in 1 .. Len(got) : rows[i] = got[i]
    BY <1>5, <1>6, <2>1, FirstN
  <2>3. ToSet(got) = ToSet(rows)
    BY <2>2 DEF ToSet
  <2>4. QED  BY <1>5, <1>7, <2>3
<1>8. QED  BY <1>2, <1>3, <1>4, <1>5, <1>6, <1>7 DEF IsCut

LEMMA FetchIs ==
  ASSUME NEW size \in Nat, NEW total \in Nat, NEW offset \in Nat
  PROVE  /\ FetchLimit(size, total, offset) \in Nat
         /\ FetchLimit(size, total, offset) <= size + 1
         /\ total <= offset => FetchLimit(size, total, offset) = 0
         /\ offset < total => /\ FetchLimit(size, total, offset) <= total - offset
                              /\ \/ FetchLimit(size, total, offset) = size + 1
                                 \/ FetchLimit(size, total, offset) = total - offset
  BY DEF FetchLimit, Less

LEMMA PrevIs ==
  ASSUME NEW size \in Nat, NEW offset \in Nat
  PROVE  /\ PrevOffset(offset, size) \in Nat /\ PrevOffset(offset, size) <= offset
         /\ IF offset < size THEN PrevOffset(offset, size) = 0 ELSE PrevOffset(offset, size) = offset - size
  BY DEF PrevOffset

LEMMA LimitIs ==
  ASSUME PgTypeOK
  PROVE  /\ Total \in Nat \ {0} /\ pgQuery.limit \in Nat /\ PgMax \in Nat \ {0}
         /\ \A s \in PgSizes : s \in Nat /\ ClampPageSize(s) \in Nat \ {0}
<1>1. pgQuery.limit \in PgLimits
  BY DEF PgTypeOK, Queries
<1>2. pgQuery.limit \in Nat /\ PgMax \in Nat \ {0} /\ PgSizes \subseteq Nat
  BY <1>1, PagingAssumption
<1>3. Total \in Nat \ {0}
  BY <1>2 DEF Total, ResolveTotalLimit
<1>4. \A s \in PgSizes : s \in Nat /\ ClampPageSize(s) \in Nat \ {0}
  BY <1>2 DEF ClampPageSize
<1>5. QED  BY <1>2, <1>3, <1>4

(* What the types are of each kind of statement.                           *)
LEMMA TokensAre ==
  /\ \A k \in Keyset : TokensOf(k) = {NoToken} \cup KeyTokens
  /\ TokensOf("d1") = {NoToken} \cup OffsetTokens
  /\ TokensOf("entities") = {NoToken} \cup NameTokens
  /\ TokensOf("bounded") = {NoToken} \cup ServiceTokens
  /\ TokensOf("tables") = {NoToken} \cup ServiceTokens
  /\ TokensOf("keys") = {NoToken}
  BY DEF TokensOf, Keyset

LEMMA CallsAre ==
  /\ \A k \in Keyset \cup {"d1", "entities", "keys"} : CallsOf(k) = {NoCall}
  /\ CallsOf("bounded") = {NoCall} \cup BoundedCalls
  /\ CallsOf("tables") = {NoCall} \cup TableCalls
  BY DEF CallsOf, Keyset

LEMMA TokensTyped ==
  ASSUME PgTypeOK
  PROVE  /\ pgQuery.kind \in PgKinds /\ pgQuery.text \in {1, 2}
         /\ pgPage.next \in TokensOf(pgQuery.kind) /\ pgPage.prev \in TokensOf(pgQuery.kind)
         /\ pgPage.rows \in Seq(PgRows) /\ pgWalk.shown \in Seq(PgRows) /\ pgWalk.prior \in Seq(PgRows)
         /\ pgWalk.stable \in SUBSET PgRows /\ pgWalk.stable \in SUBSET pgTable
         /\ pgPage.state \in {"none", "failed", "first", "next", "prev"}
  BY DEF PgTypeOK, Pages, Walks, Queries

LEMMA NoCallUnderWay ==
  ASSUME PgTypeOK, pgQuery.kind \in Keyset \cup {"d1", "entities", "keys"}
  PROVE  pgCall = NoCall
<1>1. pgCall \in CallsOf(pgQuery.kind)
  BY DEF PgTypeOK
<1>2. QED  BY <1>1, CallsAre

LEMMA KeyIs ==
  ASSUME NEW r \in PgRows
  PROVE  Key(r) \in Nat /\ (Exact => Key(r) = r)
<1>1. r \in Nat
  BY PagingAssumption
<1>2. (r + 1) \div 2 \in Nat
  BY <1>1
<1>3. Key(r) \in Nat
  BY <1>1, <1>2 DEF Key
<1>4. Exact => Key(r) = r
  BY DEF Exact, Key
<1>5. QED  BY <1>3, <1>4

LEMMA TokenTyped ==
  ASSUME PgTypeOK, pgQuery.kind \in Keyset, NEW size \in Nat \ {0}, NEW offset \in Nat, NEW rows \in Seq(PgRows), Len(rows) > 0,
         NEW dir \in {"next", "prev"}
  PROVE  /\ Token(size, Total, offset, rows, dir) \in KeyTokens
         /\ Token(size, Total, offset, rows, dir) # NoToken
         /\ Token(size, Total, offset, rows, dir).size = size /\ Token(size, Total, offset, rows, dir).total = Total
         /\ Token(size, Total, offset, rows, dir).offset = offset /\ Token(size, Total, offset, rows, dir).dir = dir
         /\ Exact => Token(size, Total, offset, rows, dir).start = rows[1]
                     /\ Token(size, Total, offset, rows, dir).end = rows[Len(rows)]
<1>1. 1 \in 1 .. Len(rows) /\ Len(rows) \in 1 .. Len(rows)
  OBVIOUS
<1>2. rows[1] \in PgRows /\ rows[Len(rows)] \in PgRows
  BY <1>1
<1> DEFINE a == Key(rows[1])
           b == Key(rows[Len(rows)])
<1>3. a \in Nat /\ b \in Nat /\ (Exact => a = rows[1] /\ b = rows[Len(rows)])
  BY <1>2, KeyIs
<1>4. pgQuery.text \in {1, 2}
  BY TokensTyped
<1>5. Token(size, Total, offset, rows, dir) =
        [at |-> "key", text |-> pgQuery.text, size |-> size, total |-> Total, offset |-> offset, dir |-> dir,
         start |-> a, end |-> b]
  BY DEF Token
<1> HIDE DEF a, b
<1>6. Token(size, Total, offset, rows, dir) \in KeyTokens
  BY <1>3, <1>4, <1>5 DEF KeyTokens
<1>7. Token(size, Total, offset, rows, dir) # NoToken
  <2>1. Token(size, Total, offset, rows, dir).at = "key" /\ NoToken.at = "none"
    BY <1>5 DEF NoToken
  <2>2. QED  BY <2>1
<1>8. QED  BY <1>3, <1>5, <1>6, <1>7

(* What a page shown does to the page and to the walk.                     *)
LEMMA SameQuery ==
  ASSUME UNCHANGED pgQuery
  PROVE  /\ Pages' = Pages /\ Total' = Total /\ (Exact' <=> Exact) /\ Asked' = Asked
         /\ CallsOf(pgQuery.kind)' = CallsOf(pgQuery.kind) /\ Walks' = Walks
<1>1. pgQuery' = pgQuery
  OBVIOUS
<1>2. Total' = Total
  BY <1>1 DEF Total, ResolveTotalLimit
<1>3. KeyTokens' = KeyTokens
  BY <1>2 DEF KeyTokens
<1>4. TokensOf(pgQuery.kind)' = TokensOf(pgQuery.kind)
  BY <1>1, <1>3 DEF TokensOf, OffsetTokens, NameTokens, ServiceTokens
<1>5. Pages' = Pages
  BY <1>4 DEF Pages
<1>6. (Exact' <=> Exact) /\ Asked' = Asked
  BY <1>1 DEF Exact, Asked, Kind
<1>7. CallsOf(pgQuery.kind)' = CallsOf(pgQuery.kind)
  BY <1>1 DEF CallsOf, BoundedCalls, TableCalls, Budgets
<1>8. QED  BY <1>2, <1>5, <1>6, <1>7 DEF Walks

LEMMA ShowsIs ==
  ASSUME PgTypeOK, NEW how \in {"first", "next", "prev"}, NEW rows \in Seq(PgRows), NEW next \in TokensOf(pgQuery.kind),
         NEW prev \in TokensOf(pgQuery.kind), Shows(how, rows, next, prev)
  PROVE  /\ pgPage' \in Pages /\ pgPage'.state = how /\ pgPage'.rows = rows /\ pgPage'.next = next /\ pgPage'.prev = prev
         /\ pgWalk' \in Walks /\ pgWalk'.stable \subseteq pgTable
         /\ how = "first" => /\ pgWalk'.shown = rows /\ pgWalk'.forward = TRUE
                             /\ pgWalk'.stable = IF pgCall = NoCall THEN pgTable ELSE pgCall.since
         /\ how = "next" => /\ pgWalk'.shown = IF pgWalk.forward THEN pgWalk.shown \o rows ELSE <<>>
                            /\ pgWalk'.stable = pgWalk.stable /\ pgWalk'.prior = pgPage.rows
                            /\ pgWalk'.forward = pgWalk.forward /\ pgWalk'.still = pgWalk.still
         /\ how = "prev" => /\ pgWalk'.forward = FALSE /\ pgWalk'.still = pgWalk.still
                            /\ pgWalk'.back = IF pgPage.state = "next" /\ pgWalk.still THEN pgWalk.prior ELSE rows
<1>1. pgPage' = [state |-> how, rows |-> rows, next |-> next, prev |-> prev]
  BY DEF Shows
<1>2. pgPage' \in Pages /\ pgPage'.state = how /\ pgPage'.rows = rows /\ pgPage'.next = next /\ pgPage'.prev = prev
  BY <1>1 DEF Pages
<1>3. /\ pgTable \in SUBSET PgRows /\ pgWalk \in Walks /\ pgWalk.stable \subseteq pgTable /\ pgPage.rows \in Seq(PgRows)
      /\ pgCall # NoCall => pgCall.since \subseteq pgTable
  BY DEF PgTypeOK, Pages
<1>4. CASE how = "first"
  <2> DEFINE stable == IF pgCall = NoCall THEN pgTable ELSE pgCall.since
  <2>1. stable \subseteq pgTable /\ stable \in SUBSET PgRows
    BY <1>3
  <2>2. pgWalk' = [shown |-> rows, stable |-> stable, still |-> TRUE, forward |-> TRUE, prior |-> <<>>, back |-> rows]
    BY <1>4 DEF Shows
  <2> HIDE DEF stable
  <2>3. <<>> \in Seq(PgRows)
    OBVIOUS
  <2>4. pgWalk' \in Walks
    BY <2>1, <2>2, <2>3 DEF Walks
  <2>5. pgWalk'.shown = rows /\ pgWalk'.forward = TRUE /\ pgWalk'.stable = stable
    BY <2>2
  <2>6. QED  BY <1>2, <1>4, <2>1, <2>4, <2>5 DEF stable
<1>5. CASE how = "next"
  <2> DEFINE shown == IF pgWalk.forward THEN pgWalk.shown \o rows ELSE <<>>
  <2>1. shown \in Seq(PgRows)
    <3>1. pgWalk.shown \in Seq(PgRows) /\ <<>> \in Seq(PgRows)
      BY <1>3 DEF Walks
    <3>2. pgWalk.shown \o rows \in Seq(PgRows)
      BY <3>1, ConcatIs
    <3>3. QED  BY <3>1, <3>2
  <2>2. pgWalk' = [pgWalk EXCEPT !.shown = shown, !.prior = pgPage.rows, !.back = rows]
    BY <1>3, <1>5 DEF Shows, Walks
  <2> HIDE DEF shown
  <2>3. pgWalk' \in Walks
    BY <1>3, <2>1, <2>2 DEF Walks
  <2>4. /\ pgWalk'.shown = shown /\ pgWalk'.stable = pgWalk.stable /\ pgWalk'.prior = pgPage.rows
        /\ pgWalk'.forward = pgWalk.forward /\ pgWalk'.still = pgWalk.still
    BY <1>3, <2>2 DEF Walks
  <2>5. QED  BY <1>2, <1>3, <1>5, <2>3, <2>4 DEF shown
<1>6. CASE how = "prev"
  <2> DEFINE back == IF pgPage.state = "next" /\ pgWalk.still THEN pgWalk.prior ELSE rows
  <2>1. back \in Seq(PgRows) /\ <<>> \in Seq(PgRows)
    BY <1>3 DEF Walks
  <2>2. pgWalk' = [pgWalk EXCEPT !.forward = FALSE, !.shown = <<>>, !.stable = {}, !.prior = <<>>, !.back = back]
    BY <1>6 DEF Shows
  <2> HIDE DEF back
  <2>3. pgWalk' \in Walks
    BY <1>3, <2>1, <2>2 DEF Walks
  <2>4. /\ pgWalk'.forward = FALSE /\ pgWalk'.still = pgWalk.still /\ pgWalk'.stable = {} /\ pgWalk'.back = back
    BY <1>3, <2>2 DEF Walks
  <2>5. QED  BY <1>2, <1>6, <2>3, <2>4 DEF back
<1>7. QED  BY <1>4, <1>5, <1>6

(* The kinds whose steps are one page each.                                *)
OnePage == Keyset \cup {"d1", "entities"}

LEMMA PageTyped ==
  ASSUME PgTypeOK, NEW how \in {"first", "next", "prev"}, NEW rows \in Seq(PgRows), NEW next \in TokensOf(pgQuery.kind),
         NEW prev \in TokensOf(pgQuery.kind), Shows(how, rows, next, prev), UNCHANGED <<pgQuery, pgTable, pgScan>>, pgCall' = NoCall,
         pgQuery.kind \in {"entities", "bounded", "tables"} => prev = NoToken /\ how # "prev"
  PROVE  PgTypeOK'
<1>1. /\ pgPage' \in Pages /\ pgPage'.state = how /\ pgPage'.prev = prev
      /\ pgWalk' \in Walks /\ pgWalk'.stable \subseteq pgTable
  BY ZenonT(40), ShowsIs
<1>2. pgPage' \in Pages' /\ pgCall' \in CallsOf(pgQuery.kind)' /\ pgWalk' \in Walks'
  BY <1>1, SameQuery DEF CallsOf
<1>3. pgQuery.kind \in {"entities", "bounded", "tables"} => pgWalk'.forward
  <2>1. pgQuery.kind \in {"entities", "bounded", "tables"} => pgWalk.forward
    BY DEF PgTypeOK
  <2>2. /\ how = "first" => pgWalk'.forward = TRUE
        /\ how = "next" => pgWalk'.forward = pgWalk.forward
    BY ShowsIs
  <2>3. QED  BY <2>1, <2>2
<1>4. ~AtStart'
  BY <1>1 DEF AtStart
<1>5. pgQuery' \in Queries' /\ (pgQuery'.order = "ties" => pgQuery'.kind \in Keyset) /\ pgTable' \in SUBSET PgRows /\ pgScan' \in Scans'
  BY DEF PgTypeOK, Queries, Scans, Keyset
<1>6. pgQuery'.kind \in {"entities", "bounded", "tables"} => pgPage'.prev = NoToken /\ pgWalk'.forward
  BY <1>1, <1>3
<1>7. pgWalk'.stable \subseteq pgTable'
  BY <1>1
<1>8. QED  BY <1>2, <1>4, <1>5, <1>6, <1>7 DEF PgTypeOK

LEMMA PageStep ==
  ASSUME PagingInv, Rest, pgQuery.kind \in OnePage, PgTypeOK', WalkForward', WalkLimited', Placed', WentBack'
  PROVE  PagingInv'
<1>1. pgCall = NoCall
  BY NoCallUnderWay DEF PagingInv, OnePage
<1>2. pgCall' = NoCall /\ pgScan' = pgScan /\ pgQuery' = pgQuery
  BY <1>1 DEF Rest
<1>3. CallSeen' /\ CallBounded'
  BY <1>2 DEF CallSeen, CallBounded
<1>4. ScanSeen'
  BY <1>2 DEF PagingInv, ScanSeen, KeysSeen
<1>5. QED  BY <1>3, <1>4 DEF PagingInv

LEMMA FailsStep ==
  ASSUME PagingInv, Rest, Fails, pgQuery.kind \in OnePage
  PROVE  PagingInv'
<1>1. /\ pgPage' = [NoPage EXCEPT !.state = "failed"]
      /\ UNCHANGED <<pgQuery, pgTable, pgCall, pgScan, pgWalk>>
  BY DEF Fails, Rest
<1>2. pgPage'.state = "failed" /\ pgPage'.rows = <<>> /\ pgPage'.next = NoToken /\ pgPage'.prev = NoToken
  BY <1>1 DEF NoPage
<1>3. pgPage' \in Pages
  <2>1. pgPage' = [state |-> "failed", rows |-> <<>>, next |-> NoToken, prev |-> NoToken]
    BY <1>1 DEF NoPage
  <2>2. NoToken \in TokensOf(pgQuery.kind) /\ <<>> \in Seq(PgRows)
    BY DEF TokensOf
  <2>3. QED  BY <2>1, <2>2 DEF Pages
<1>4. PgTypeOK'
  <2>1. pgPage' \in Pages' /\ pgCall' \in CallsOf(pgQuery.kind)' /\ pgWalk' \in Walks'
    <3>1. pgCall \in CallsOf(pgQuery.kind) /\ pgWalk \in Walks
      BY DEF PagingInv, PgTypeOK
    <3>2. QED  BY <1>1, <1>3, <3>1, SameQuery
  <2>2. /\ pgQuery' \in Queries' /\ (pgQuery'.order = "ties" => pgQuery'.kind \in Keyset) /\ pgTable' \in SUBSET PgRows
        /\ pgScan' \in Scans' /\ pgWalk'.stable \subseteq pgTable' /\ (pgCall' # NoCall => pgCall'.since \subseteq pgTable')
    BY <1>1 DEF PagingInv, PgTypeOK, Queries, Scans, Keyset
  <2>3. pgQuery'.kind \in {"entities", "bounded", "tables"} => pgPage'.prev = NoToken /\ pgWalk'.forward
    BY <1>1, <1>2 DEF PagingInv, PgTypeOK
  <2>4. AtStart' => pgPage'.next = NoToken /\ pgPage'.prev = NoToken
    BY <1>2
  <2>5. QED  BY <2>1, <2>2, <2>3, <2>4 DEF PgTypeOK
<1>5. WalkForward'
  <2>1. (Exact' <=> Exact) /\ pgWalk' = pgWalk /\ pgQuery' = pgQuery
    BY <1>1, SameQuery
  <2>2. ~Through'
    BY <1>2 DEF Through
  <2>3. Exact /\ pgWalk.forward /\ (pgQuery.kind = "d1" => pgWalk.still) => Increasing(pgWalk.shown)
    BY DEF PagingInv, WalkForward
  <2>4. QED  BY <1>2, <2>1, <2>2, <2>3 DEF WalkForward
<1>6. WalkLimited'
  <2>1. pgWalk' = pgWalk /\ pgQuery' = pgQuery /\ Total' = Total
    BY <1>1, SameQuery
  <2>2. pgQuery.kind \in Keyset /\ pgWalk.forward => Len(pgWalk.shown) <= Total
    BY DEF PagingInv, WalkLimited
  <2>3. QED  BY <1>2, <2>1, <2>2 DEF WalkLimited
<1>7. Placed' /\ WentBack'
  BY <1>2 DEF Placed, WentBack
<1>8. QED  BY <1>4, <1>5, <1>6, <1>7, PageStep

(* The first page of a walk.                                               *)
LEMMA FirstShown ==
  ASSUME PagingInv, Rest, pgQuery.kind \in OnePage, NEW rows \in Seq(PgRows), NEW next \in TokensOf(pgQuery.kind),
         Shows("first", rows, next, NoToken),
         Exact =>
           /\ Increasing(rows)
           /\ pgQuery.kind # "d1" /\ next # NoToken => SeenTo(rows, pgTable, next.end)
           /\ next = NoToken /\ ~(pgQuery.kind \in Keyset /\ Len(rows) >= Total) /\ ~(pgQuery.kind = "d1" /\ pgQuery.limit > 0)
                => pgTable \subseteq ToSet(rows),
         pgQuery.kind \in Keyset => Len(rows) <= Total /\ (next # NoToken => next.offset = Len(rows) /\ next.dir = "next"),
         Exact /\ pgQuery.kind \in Keyset \cup {"d1"} =>
           /\ Stretch(rows, Ordered(pgTable), 0)
           /\ next # NoToken => /\ next.offset = Len(rows) /\ Len(rows) > 0 /\ Len(rows) = next.size
                                /\ pgQuery.kind \in Keyset => next.end = rows[Len(rows)]
           /\ pgQuery.kind = "d1" /\ pgQuery.limit = 0 /\ next = NoToken => Len(rows) = Len(Ordered(pgTable))
  PROVE  PagingInv'
<1>1. PgTypeOK /\ NoToken \in TokensOf(pgQuery.kind) /\ UNCHANGED <<pgQuery, pgTable, pgScan>>
  BY DEF PagingInv, TokensOf, Rest
<1>2. pgCall = NoCall /\ pgCall' = NoCall
  BY <1>1, NoCallUnderWay DEF OnePage, Rest
<1>3. /\ pgPage'.state = "first" /\ pgPage'.rows = rows /\ pgPage'.next = next /\ pgPage'.prev = NoToken
      /\ pgWalk'.shown = rows /\ pgWalk'.stable = pgTable
  BY <1>1, <1>2, ShowsIs
<1>4. PgTypeOK'
  BY <1>1, <1>2, PageTyped
<1>5. pgQuery' = pgQuery /\ pgTable' = pgTable /\ (Exact' <=> Exact) /\ Asked' = Asked /\ Total' = Total
  BY <1>1, SameQuery
<1>6. pgTable \cap Asked = pgTable
  <2>1. pgTable \in SUBSET PgRows
    BY <1>1, TableRows
  <2>2. Asked = PgRows
    BY DEF Asked, OnePage, Keyset
  <2>3. QED  BY <2>1, <2>2
<1>7. WalkForward'
  BY <1>3, <1>5, <1>6 DEF WalkForward, Through
<1>8. WalkLimited'
  BY <1>3, <1>5 DEF WalkLimited
<1>9. Placed'
  <2>1. ASSUME Exact, pgQuery.kind \in Keyset \cup {"d1"} PROVE PlacedAt(0)'
    <3>1. /\ Stretch(rows, Ordered(pgTable), 0)
          /\ next # NoToken => /\ next.offset = Len(rows) /\ Len(rows) > 0 /\ Len(rows) = next.size
                               /\ pgQuery.kind \in Keyset => next.end = rows[Len(rows)] /\ next.dir = "next"
          /\ pgQuery.kind = "d1" /\ pgQuery.limit = 0 /\ next = NoToken => Len(rows) = Len(Ordered(pgTable))
      BY <2>1
    <3>2. Len(rows) \in Nat
      OBVIOUS
    <3>3. Ordered(pgTable)' = Ordered(pgTable)
      BY <1>5
    <3>4. 0 + Len(rows) = Len(rows)
      BY <3>2
    <3>5. QED  BY <1>3, <1>5, <3>1, <3>3, <3>4 DEF PlacedAt
  <2>2. Exact' /\ pgQuery'.kind \in Keyset \cup {"d1"} => \E o \in Nat : PlacedAt(o)'
    BY <1>5, <2>1
  <2>3. QED  BY <2>2 DEF Placed
<1>10. WentBack'
  BY <1>3 DEF WentBack
<1>11. QED  BY <1>4, <1>7, <1>8, <1>9, <1>10, PageStep

LEMMA FirstRows ==
  ASSUME PgTypeOK, NEW n \in Nat, NEW rows, PageOf(rows, After(0), n)
  PROVE  /\ rows \in Seq(PgRows) /\ Increasing(rows) /\ Len(rows) \in Nat /\ Len(rows) <= n
         /\ Len(rows) < n => pgTable \subseteq ToSet(rows)
         /\ After(0) \subseteq ToSet(rows) => pgTable \subseteq ToSet(rows)
         /\ Len(rows) > 0 => rows[Len(rows)] \in Nat /\ SeenTo(rows, pgTable, rows[Len(rows)])
         /\ Stretch(rows, Ordered(pgTable), 0)
<1>1. pgTable \in SUBSET PgRows /\ After(0) \in SUBSET PgRows /\ After(0) = pgTable
  <2>1. \A r \in pgTable : r \in Nat /\ r > 0
    BY TableRows, RowsFinite
  <2>2. QED  BY <2>1, TableRows DEF After
<1>2. Leads(rows, After(0)) /\ rows \in Seq(After(0)) /\ Increasing(rows) /\ Len(rows) <= n
      /\ (Len(rows) < n => After(0) \subseteq ToSet(rows)) /\ Stretch(rows, Ordered(After(0)), 0)
  BY DEF PageOf, Leads
<1>3. rows \in Seq(PgRows)
  BY <1>1, <1>2, SeqWider
<1> DEFINE none == <<>>
<1>4. none \in Seq(PgRows) /\ Increasing(none) /\ SeenTo(none, pgTable, 0) /\ none \o rows = rows
  <2>1. \A r \in pgTable : ~(r <= 0)
    BY <1>1, RowsFinite
  <2>2. none \in Seq(PgRows) /\ DOMAIN none = {}
    OBVIOUS
  <2>3. none \o rows = rows
    BY <1>3
  <2>4. QED  BY <2>1, <2>2, <2>3 DEF Increasing, SeenTo
<1> HIDE DEF none
<1>5. Len(rows) > 0 => rows[Len(rows)] \in Nat /\ SeenTo(none \o rows, pgTable, rows[Len(rows)])
  <2>1. pgTable \in SUBSET pgTable /\ After(0) \in SUBSET After(0) /\ \A r \in pgTable : r > 0 => r \in After(0)
    BY <1>1
  <2>2. QED  BY <1>1, <1>2, <1>4, <2>1, WalkGrows
<1>6. Len(rows) \in Nat
  BY <1>3
<1>7. QED  BY <1>1, <1>2, <1>3, <1>4, <1>5, <1>6

LEMMA OneWindowStep == ASSUME PagingInv, Rest, pgQuery.kind \in Keyset, OneWindow PROVE PagingInv'
<1> DEFINE rows == Answered(0, "next", Total)
<1>1. PgTypeOK /\ NoToken \in TokensOf(pgQuery.kind) /\ pgQuery.kind \in OnePage /\ Total \in Nat
  BY LimitIs DEF PagingInv, TokensOf, OnePage
<1>2. Shows("first", rows, NoToken, NoToken)
  BY DEF OneWindow, Total
<1>3. rows \in Seq(PgRows) /\ Len(rows) <= Total
  BY <1>1, AnsweredAny
<1>4. Exact => PageOf(rows, After(0), Total)
  BY <1>1, AnsweredNext
<1> HIDE DEF rows
<1>5. Len(rows) \in Nat
  BY <1>3
<1>6. Exact => Increasing(rows) /\ Stretch(rows, Ordered(pgTable), 0) /\ (Len(rows) < Total => pgTable \subseteq ToSet(rows))
  BY <1>1, <1>4, FirstRows
<1>7. pgQuery.kind # "d1"
  BY DEF Keyset
<1>8. ~(pgQuery.kind \in Keyset /\ Len(rows) >= Total) => Len(rows) < Total
  BY <1>1, <1>5
<1>9. QED  BY <1>1, <1>2, <1>3, <1>6, <1>7, <1>8, FirstShown

LEMMA FirstByKeyStep ==
  ASSUME PagingInv, Rest, pgQuery.kind \in Keyset, NEW s \in PgSizes, FirstByKey(s)
  PROVE  PagingInv'
<1> DEFINE size == ClampPageSize(s)
           n == FetchLimit(size, Total, 0)
           got == Answered(0, "next", n)
           rows == SubSeq(got, 1, Less(size, Len(got)))
           more == Len(got) > size /\ Len(rows) < Total
           next == IF more THEN Token(size, Total, Len(rows), rows, "next") ELSE NoToken
<1>1. PgTypeOK /\ NoToken \in TokensOf(pgQuery.kind) /\ pgQuery.kind \in OnePage /\ pgQuery.kind # "d1"
  BY DEF PagingInv, TokensOf, OnePage, Keyset
<1>2. size \in Nat \ {0} /\ Total \in Nat \ {0}
  BY <1>1, LimitIs
<1>3. Shows("first", rows, next, NoToken)
  BY DEF FirstByKey, Total
<1> HIDE DEF size
<1>4. n \in Nat /\ n <= size + 1 /\ n <= Total /\ (n = size + 1 \/ n = Total)
  BY <1>2, FetchIs
<1> HIDE DEF n
<1>5. got \in Seq(PgRows) /\ Len(got) <= n
  BY <1>1, <1>4, AnsweredAny
<1>6. Exact => PageOf(got, After(0), n)
  BY <1>1, <1>4, AnsweredNext
<1> HIDE DEF got
<1> DEFINE L == Len(got)
<1>7. L \in Nat /\ L <= n
  BY <1>5
<1>8. Less(size, L) \in Nat /\ Less(size, L) <= size /\ Less(size, L) <= L /\ (Less(size, L) = size \/ Less(size, L) = L)
  BY <1>2, <1>7, LessIs
<1>9. rows \in Seq(PgRows) /\ Len(rows) = Less(size, L)
  BY <1>5, <1>8, FirstN
<1>10. /\ Exact => PageOf(rows, After(0), Less(size, n))
       /\ Exact /\ L <= size /\ L < n => After(0) \subseteq ToSet(rows)
  BY ZenonT(40), <1>1, <1>2, <1>4, <1>6, CutPage DEF IsCut
<1> HIDE DEF rows, L
<1> DEFINE m == Len(rows)
<1>11. m \in Nat /\ m <= size /\ m <= L /\ (m = size \/ m = L) /\ Less(size, n) \in Nat
  BY <1>2, <1>4, <1>8, <1>9, LessIs
<1>12. Exact => /\ Increasing(rows) /\ Stretch(rows, Ordered(pgTable), 0)
                /\ After(0) \subseteq ToSet(rows) => pgTable \subseteq ToSet(rows)
                /\ m > 0 => SeenTo(rows, pgTable, rows[m])
  BY <1>1, <1>10, <1>11, FirstRows
<1>13. more <=> L > size /\ m < Total
  BY DEF L
<1> HIDE DEF more, m
<1>14. more => /\ next \in TokensOf(pgQuery.kind) /\ next # NoToken /\ next.offset = m /\ next.dir = "next" /\ next.size = size
               /\ Exact => next.end = rows[m]
  <2>1. ASSUME more PROVE m \in Nat /\ m > 0
    BY <1>2, <1>7, <1>11, <1>13, <2>1
  <2>2. ASSUME more
        PROVE  /\ Token(size, Total, m, rows, "next") \in KeyTokens
               /\ Token(size, Total, m, rows, "next") # NoToken
               /\ Token(size, Total, m, rows, "next").size = size
               /\ Token(size, Total, m, rows, "next").offset = m /\ Token(size, Total, m, rows, "next").dir = "next"
               /\ Exact => Token(size, Total, m, rows, "next").end = rows[m]
    <3>1. rows \in Seq(PgRows) /\ Len(rows) > 0 /\ m \in Nat /\ m = Len(rows)
      BY <1>9, <2>1, <2>2 DEF m
    <3>2. PgTypeOK /\ pgQuery.kind \in Keyset /\ size \in Nat \ {0}
      BY <1>1, <1>2
    <3>3. /\ Token(size, Total, m, rows, "next") \in KeyTokens
          /\ Token(size, Total, m, rows, "next") # NoToken
          /\ Token(size, Total, m, rows, "next").size = size /\ Token(size, Total, m, rows, "next").total = Total
          /\ Token(size, Total, m, rows, "next").offset = m /\ Token(size, Total, m, rows, "next").dir = "next"
          /\ Exact => Token(size, Total, m, rows, "next").start = rows[1]
                      /\ Token(size, Total, m, rows, "next").end = rows[Len(rows)]
      BY <3>1, <3>2, TokenTyped
    <3>4. QED  BY <3>1, <3>3
  <2>3. more => next = Token(size, Total, m, rows, "next")
    BY DEF m
  <2> HIDE DEF next
  <2>4. KeyTokens \subseteq TokensOf(pgQuery.kind)
    BY TokensAre
  <2>5. QED  BY <2>2, <2>3, <2>4
<1>15. ~more => next = NoToken
  OBVIOUS
<1> HIDE DEF next
<1>16. next \in TokensOf(pgQuery.kind) /\ (next # NoToken => more)
  BY <1>1, <1>14, <1>15
<1>17. m <= Total
  BY <1>2, <1>4, <1>7, <1>11
<1>18. more => m = size /\ m > 0
  BY <1>2, <1>7, <1>11, <1>13
<1>19. ASSUME next = NoToken, ~(m >= Total), Exact PROVE pgTable \subseteq ToSet(rows)
  <2>1. m < Total /\ ~more
    BY <1>2, <1>11, <1>14, <1>19
  <2>2. L <= size
    BY <1>2, <1>7, <1>13, <2>1
  <2>3. m = L
    BY <1>2, <1>7, <1>11, <2>2
  <2>4. L < n
    BY <1>2, <1>4, <1>7, <2>1, <2>2, <2>3
  <2>5. QED  BY <1>10, <1>12, <1>19, <2>2, <2>4
<1>20. /\ Exact =>
           /\ Increasing(rows)
           /\ pgQuery.kind # "d1" /\ next # NoToken => SeenTo(rows, pgTable, next.end)
           /\ next = NoToken /\ ~(pgQuery.kind \in Keyset /\ m >= Total) /\ ~(pgQuery.kind = "d1" /\ pgQuery.limit > 0)
                => pgTable \subseteq ToSet(rows)
       /\ pgQuery.kind \in Keyset => m <= Total /\ (next # NoToken => next.offset = m /\ next.dir = "next")
       /\ Exact /\ pgQuery.kind \in Keyset \cup {"d1"} =>
           /\ Stretch(rows, Ordered(pgTable), 0)
           /\ next # NoToken => /\ next.offset = m /\ m > 0 /\ m = next.size
                                /\ pgQuery.kind \in Keyset => next.end = rows[m]
           /\ pgQuery.kind = "d1" /\ pgQuery.limit = 0 /\ next = NoToken => m = Len(Ordered(pgTable))
  BY <1>1, <1>12, <1>14, <1>16, <1>17, <1>18, <1>19
<1>21. rows \in Seq(PgRows) /\ Shows("first", rows, next, NoToken)
  BY <1>3, <1>9 DEF rows, next, more, m, L, got, n, size
<1>22. QED  BY <1>1, <1>16, <1>20, <1>21, FirstShown DEF m

(* The next page of a walk.                                                *)
LEMMA NextShown ==
  ASSUME PagingInv, Rest, pgQuery.kind \in OnePage, NEW rows \in Seq(PgRows), NEW next \in TokensOf(pgQuery.kind),
         NEW prev \in TokensOf(pgQuery.kind), Shows("next", rows, next, prev), pgQuery.kind = "entities" => prev = NoToken,
         Exact /\ pgWalk.forward /\ (pgQuery.kind = "d1" => pgWalk.still) =>
           /\ Increasing(pgWalk.shown \o rows)
           /\ pgQuery.kind # "d1" /\ next # NoToken => SeenTo(pgWalk.shown \o rows, pgWalk.stable, next.end)
           /\ next = NoToken /\ ~(pgQuery.kind \in Keyset /\ Len(pgWalk.shown \o rows) >= Total)
                /\ ~(pgQuery.kind = "d1" /\ pgQuery.limit > 0) => pgWalk.stable \subseteq ToSet(pgWalk.shown \o rows),
         pgQuery.kind \in Keyset /\ pgWalk.forward =>
           /\ Len(pgWalk.shown \o rows) <= Total
           /\ next # NoToken => next.offset = Len(pgWalk.shown \o rows) /\ next.dir = "next",
         Exact /\ pgQuery.kind \in Keyset \cup {"d1"} /\ pgWalk.still =>
           \E o \in Nat :
             /\ Stretch(rows, Ordered(pgTable), o)
             /\ next # NoToken => /\ next.offset = o + Len(rows) /\ Len(rows) > 0 /\ Len(rows) = next.size
                                  /\ pgQuery.kind \in Keyset => next.dir = "next" /\ next.end = rows[Len(rows)]
             /\ prev # NoToken =>
                  /\ o > 0 /\ prev.offset = PrevOffset(o, prev.size)
                  /\ pgQuery.kind \in Keyset =>
                       prev.dir = "prev" /\ o < prev.total /\ Len(rows) > 0 /\ prev.start = rows[1]
                  /\ Stretch(pgPage.rows, Ordered(pgTable), prev.offset)
                  /\ Len(pgPage.rows) = o - prev.offset
                  /\ pgQuery.kind = "d1" => prev.size <= o
             /\ pgQuery.kind = "d1" /\ pgWalk.forward =>
                  /\ Stretch(pgWalk.shown \o rows, Ordered(pgTable), 0) /\ Len(pgWalk.shown \o rows) = o + Len(rows)
                  /\ pgQuery.limit = 0 /\ next = NoToken => Len(pgWalk.shown \o rows) = Len(Ordered(pgTable))
  PROVE  PagingInv'
<1> DEFINE shown == pgWalk.shown \o rows
<1>1. PgTypeOK /\ UNCHANGED <<pgQuery, pgTable, pgScan>>
  BY DEF PagingInv, Rest
<1>2. pgCall = NoCall /\ pgCall' = NoCall
  BY <1>1, NoCallUnderWay DEF OnePage, Rest
<1>3. /\ pgPage'.state = "next" /\ pgPage'.rows = rows /\ pgPage'.next = next /\ pgPage'.prev = prev
      /\ pgWalk.forward => pgWalk'.shown = shown
      /\ pgWalk'.stable = pgWalk.stable /\ pgWalk'.prior = pgPage.rows
      /\ pgWalk'.forward = pgWalk.forward /\ pgWalk'.still = pgWalk.still
  BY ZenonT(40), <1>1, <1>2, ShowsIs
<1>4. PgTypeOK'
  <2>1. ~(pgQuery.kind \in {"bounded", "tables"})
    BY DEF OnePage, Keyset
  <2>2. QED  BY <1>1, <1>2, <2>1, PageTyped
<1>5. pgQuery' = pgQuery /\ pgTable' = pgTable /\ (Exact' <=> Exact) /\ Asked' = Asked /\ Total' = Total
  BY <1>1, SameQuery
<1>6. pgWalk.stable \cap Asked = pgWalk.stable
  <2>1. pgWalk.stable \in SUBSET PgRows
    BY <1>1, TokensTyped
  <2>2. Asked = PgRows
    BY DEF Asked, OnePage, Keyset
  <2>3. QED  BY <2>1, <2>2
<1>7. (pgWalk'.forward <=> pgWalk.forward) /\ (pgWalk'.still <=> pgWalk.still)
  BY <1>3
<1>8. WalkForward'
  <2>1. ASSUME Exact, pgWalk.forward, pgQuery.kind = "d1" => pgWalk.still
        PROVE  /\ Increasing(shown)
               /\ pgQuery.kind # "d1" /\ next # NoToken => SeenTo(shown, pgWalk.stable, next.end)
               /\ next = NoToken /\ ~(pgQuery.kind \in Keyset /\ Len(shown) >= Total)
                    /\ ~(pgQuery.kind = "d1" /\ pgQuery.limit > 0) => pgWalk.stable \subseteq ToSet(shown)
    BY <2>1
  <2> HIDE DEF shown
  <2>2. QED  BY <1>3, <1>5, <1>6, <1>7, <2>1 DEF WalkForward, Through
<1>9. WalkLimited'
  BY <1>3, <1>5, <1>7 DEF WalkLimited
<1>10. Placed'
  <2>1. ASSUME Exact, pgQuery.kind \in Keyset \cup {"d1"}, pgWalk.still PROVE \E o \in Nat : PlacedAt(o)'
    <3>1. PICK o \in Nat :
             /\ Stretch(rows, Ordered(pgTable), o)
             /\ next # NoToken => /\ next.offset = o + Len(rows) /\ Len(rows) > 0 /\ Len(rows) = next.size
                                  /\ pgQuery.kind \in Keyset => next.dir = "next" /\ next.end = rows[Len(rows)]
             /\ prev # NoToken =>
                  /\ o > 0 /\ prev.offset = PrevOffset(o, prev.size)
                  /\ pgQuery.kind \in Keyset =>
                       prev.dir = "prev" /\ o < prev.total /\ Len(rows) > 0 /\ prev.start = rows[1]
                  /\ Stretch(pgPage.rows, Ordered(pgTable), prev.offset)
                  /\ Len(pgPage.rows) = o - prev.offset
                  /\ pgQuery.kind = "d1" => prev.size <= o
             /\ pgQuery.kind = "d1" /\ pgWalk.forward =>
                  /\ Stretch(shown, Ordered(pgTable), 0) /\ Len(shown) = o + Len(rows)
                  /\ pgQuery.limit = 0 /\ next = NoToken => Len(shown) = Len(Ordered(pgTable))
      BY <2>1
    <3>2. Ordered(pgTable)' = Ordered(pgTable)
      BY <1>5
    <3> HIDE DEF shown
    <3>3. PlacedAt(o)'
      BY <1>3, <1>5, <1>7, <3>1, <3>2 DEF PlacedAt
    <3>4. QED  BY <3>3
  <2>2. Exact' /\ pgQuery'.kind \in Keyset \cup {"d1"} /\ pgWalk'.still => \E o \in Nat : PlacedAt(o)'
    BY <1>5, <1>7, <2>1
  <2>3. QED  BY <2>2 DEF Placed
<1>11. WentBack'
  BY <1>3 DEF WentBack
<1>12. QED  BY <1>4, <1>8, <1>9, <1>10, <1>11, PageStep

(* The page before.                                                        *)
LEMMA PrevShown ==
  ASSUME PagingInv, Rest, pgQuery.kind \in Keyset \cup {"d1"}, NEW rows \in Seq(PgRows), NEW next \in TokensOf(pgQuery.kind),
         NEW prev \in TokensOf(pgQuery.kind), Shows("prev", rows, next, prev),
         Exact /\ pgWalk.still =>
           /\ \E o \in Nat :
             /\ Stretch(rows, Ordered(pgTable), o)
             /\ next # NoToken => /\ next.offset = o + Len(rows) /\ Len(rows) > 0
                                  /\ \/ Len(rows) = next.size
                                     \/ pgQuery.kind \in Keyset /\ o = 0 /\ Len(rows) < next.size
                                  /\ pgQuery.kind \in Keyset => next.dir = "next" /\ next.end = rows[Len(rows)]
             /\ prev # NoToken =>
                  /\ o > 0 /\ prev.offset = PrevOffset(o, prev.size)
                  /\ pgQuery.kind \in Keyset =>
                       prev.dir = "prev" /\ o < prev.total /\ Len(rows) > 0 /\ prev.start = rows[1]
           /\ pgPage.state = "next" => pgWalk.prior = rows
  PROVE  PagingInv'
<1>1. PgTypeOK /\ UNCHANGED <<pgQuery, pgTable, pgScan>> /\ pgQuery.kind \in OnePage
  BY DEF PagingInv, Rest, OnePage
<1>2. pgCall = NoCall /\ pgCall' = NoCall
  BY <1>1, NoCallUnderWay DEF OnePage, Rest
<1>3. /\ pgPage'.state = "prev" /\ pgPage'.rows = rows /\ pgPage'.next = next /\ pgPage'.prev = prev
      /\ pgWalk'.forward = FALSE /\ pgWalk'.still = pgWalk.still
      /\ pgWalk'.back = IF pgPage.state = "next" /\ pgWalk.still THEN pgWalk.prior ELSE rows
  BY <1>1, <1>2, ShowsIs
<1>4. PgTypeOK'
  <2>1. ~(pgQuery.kind \in {"entities", "bounded", "tables"})
    BY DEF Keyset
  <2>2. QED  BY <1>1, <1>2, <2>1, PageTyped
<1>5. pgQuery' = pgQuery /\ pgTable' = pgTable /\ (Exact' <=> Exact)
  BY <1>1, SameQuery
<1>7. ~pgWalk'.forward /\ (pgWalk'.still <=> pgWalk.still)
  BY <1>3
<1>8. WalkForward' /\ WalkLimited'
  BY <1>7 DEF WalkForward, WalkLimited
<1>9. Placed'
  <2>1. ASSUME Exact, pgWalk.still PROVE \E o \in Nat : PlacedAt(o)'
    <3>1. PICK o \in Nat :
             /\ Stretch(rows, Ordered(pgTable), o)
             /\ next # NoToken => /\ next.offset = o + Len(rows) /\ Len(rows) > 0
                                  /\ \/ Len(rows) = next.size
                                     \/ pgQuery.kind \in Keyset /\ o = 0 /\ Len(rows) < next.size
                                  /\ pgQuery.kind \in Keyset => next.dir = "next" /\ next.end = rows[Len(rows)]
             /\ prev # NoToken =>
                  /\ o > 0 /\ prev.offset = PrevOffset(o, prev.size)
                  /\ pgQuery.kind \in Keyset =>
                       prev.dir = "prev" /\ o < prev.total /\ Len(rows) > 0 /\ prev.start = rows[1]
      BY <2>1
    <3>2. Ordered(pgTable)' = Ordered(pgTable)
      BY <1>5
    <3>3. PlacedAt(o)'
      BY <1>3, <1>5, <1>7, <3>1, <3>2 DEF PlacedAt
    <3>4. QED  BY <3>3
  <2>2. Exact' /\ pgWalk'.still => \E o \in Nat : PlacedAt(o)'
    BY <1>5, <1>7, <2>1
  <2>3. QED  BY <2>2 DEF Placed
<1>10. WentBack'
  <2>1. Exact => pgWalk'.back = rows
    <3>1. CASE pgPage.state = "next" /\ pgWalk.still
      BY <1>3, <3>1
    <3>2. CASE ~(pgPage.state = "next" /\ pgWalk.still)
      BY <1>3, <3>2
    <3>3. QED  BY <3>1, <3>2
  <2>2. QED  BY <1>3, <1>5, <2>1 DEF WentBack
<1>11. QED  BY <1>1, <1>4, <1>8, <1>9, <1>10, PageStep

(* The page of a token by key: its rows, and the tokens that go with it.   *)
TurnedTo(token, how, got, rows, next, prev, n) ==
  /\ Shows(how, rows, next, prev)
  /\ n = FetchLimit(token.size, Total, token.offset)
  /\ got = Answered(Cursor(token), token.dir, n) /\ Len(got) <= n
  /\ rows = IF token.dir = "prev" THEN Reverse(SubSeq(got, 1, Less(token.size, Len(got))))
            ELSE SubSeq(got, 1, Less(token.size, Len(got)))
  /\ Len(rows) = Less(token.size, Len(got))
  /\ next # NoToken <=> token.offset + Len(rows) < Total /\ (token.dir = "prev" \/ Len(got) > token.size) /\ Len(rows) > 0
  /\ next # NoToken => /\ next.size = token.size /\ next.offset = token.offset + Len(rows) /\ next.dir = "next"
                       /\ Exact => next.end = rows[Len(rows)]
  /\ prev # NoToken <=> token.offset > 0 /\ (token.dir = "next" \/ Len(got) > token.size) /\ Len(rows) > 0
  /\ prev # NoToken => /\ prev.size = token.size /\ prev.offset = PrevOffset(token.offset, token.size) /\ prev.dir = "prev"
                       /\ prev.total = Total /\ (Exact => prev.start = rows[1])

LEMMA ByKeyIs ==
  ASSUME PgTypeOK, pgQuery.kind \in Keyset, NEW token \in KeyTokens, NEW how, token.text = pgQuery.text, ByKey(token, how)
  PROVE  \E got \in Seq(PgRows), rows \in Seq(PgRows), next \in TokensOf(pgQuery.kind), prev \in TokensOf(pgQuery.kind), n \in Nat :
           TurnedTo(token, how, got, rows, next, prev, n)
<1> DEFINE size == token.size
           offset == token.offset
           n == FetchLimit(size, Total, offset)
           got == Answered(Cursor(token), token.dir, n)
           L == Len(got)
           cut == SubSeq(got, 1, Less(size, L))
           rows == IF token.dir = "prev" THEN Reverse(cut) ELSE cut
           m == Len(rows)
           forward == offset + m < Total /\ (token.dir = "prev" \/ L > size)
           backward == offset > 0 /\ (token.dir = "next" \/ L > size)
           back == PrevOffset(offset, size)
           next == IF forward /\ rows # <<>> THEN Token(size, Total, offset + m, rows, "next") ELSE NoToken
           prev == IF backward /\ rows # <<>> THEN Token(size, Total, back, rows, "prev") ELSE NoToken
<1>1. size \in Nat \ {0} /\ offset \in Nat /\ token.total = Total /\ Total \in Nat /\ token.dir \in {"next", "prev"}
  BY LimitIs DEF KeyTokens
<1>2. Shows(how, rows, next, prev)
  BY <1>1 DEF ByKey
<1> HIDE DEF size, offset
<1>3. n \in Nat
  BY <1>1, FetchIs
<1>4. back \in Nat
  BY <1>1, PrevIs
<1> HIDE DEF n, back
<1>5. got \in Seq(PgRows) /\ Len(got) <= n
  BY <1>3, AnsweredAny
<1> HIDE DEF got
<1>6. L \in Nat /\ L <= n
  BY <1>5
<1>7. Less(size, L) \in Nat /\ Less(size, L) <= L
  BY <1>1, <1>6, LessIs
<1>8. cut \in Seq(PgRows) /\ Len(cut) = Less(size, L)
  BY <1>5, <1>7, FirstN
<1> HIDE DEF cut
<1>9. rows \in Seq(PgRows) /\ Len(rows) = Less(size, L)
  BY <1>8, ReverseIs
<1> HIDE DEF rows
<1>10. m \in Nat /\ m = Less(size, L) /\ (rows # <<>> <=> m > 0)
  BY <1>7, <1>9
<1> HIDE DEF L
<1>11. NoToken \in TokensOf(pgQuery.kind) /\ KeyTokens \subseteq TokensOf(pgQuery.kind)
  BY TokensAre
<1>12. /\ next \in TokensOf(pgQuery.kind)
       /\ next # NoToken <=> forward /\ m > 0
       /\ next # NoToken => /\ next.size = size /\ next.offset = offset + m /\ next.dir = "next"
                            /\ Exact => next.end = rows[Len(rows)]
  <2>1. CASE forward /\ m > 0
    <3>1. Len(rows) > 0 /\ offset + m \in Nat
      BY <1>1, <1>10, <2>1
    <3>2. next = Token(size, Total, offset + m, rows, "next")
      BY <1>10, <2>1
    <3>3. PICK after \in Nat : after = offset + m
      BY <3>1
    <3>4. /\ Token(size, Total, after, rows, "next") \in KeyTokens
          /\ Token(size, Total, after, rows, "next") # NoToken
          /\ Token(size, Total, after, rows, "next").size = size
          /\ Token(size, Total, after, rows, "next").offset = after
          /\ Token(size, Total, after, rows, "next").dir = "next"
          /\ Exact => Token(size, Total, after, rows, "next").end = rows[Len(rows)]
      BY <1>1, <1>9, <3>1, TokenTyped
    <3> HIDE DEF next, forward, m
    <3>5. QED  BY <1>11, <2>1, <3>2, <3>3, <3>4
  <2>2. CASE ~(forward /\ m > 0)
    <3>1. next = NoToken
      BY <1>10, <2>2
    <3> HIDE DEF next, forward, m
    <3>2. QED  BY <1>11, <2>2, <3>1
  <2>3. QED  BY <2>1, <2>2
<1>13. /\ prev \in TokensOf(pgQuery.kind)
       /\ prev # NoToken <=> backward /\ m > 0
       /\ prev # NoToken => /\ prev.size = size /\ prev.offset = back /\ prev.dir = "prev" /\ prev.total = Total
                            /\ Exact => prev.start = rows[1]
  <2>1. CASE backward /\ m > 0
    <3>1. Len(rows) > 0
      BY <1>10, <2>1
    <3>2. prev = Token(size, Total, back, rows, "prev")
      BY <1>10, <2>1
    <3>4. /\ Token(size, Total, back, rows, "prev") \in KeyTokens
          /\ Token(size, Total, back, rows, "prev") # NoToken
          /\ Token(size, Total, back, rows, "prev").size = size
          /\ Token(size, Total, back, rows, "prev").total = Total
          /\ Token(size, Total, back, rows, "prev").offset = back
          /\ Token(size, Total, back, rows, "prev").dir = "prev"
          /\ Exact => Token(size, Total, back, rows, "prev").start = rows[1]
      BY <1>1, <1>4, <1>9, <3>1, TokenTyped
    <3> HIDE DEF prev, backward, m
    <3>5. QED  BY <1>11, <2>1, <3>2, <3>4
  <2>2. CASE ~(backward /\ m > 0)
    <3>1. prev = NoToken
      BY <1>10, <2>2
    <3> HIDE DEF prev, backward, m
    <3>2. QED  BY <1>11, <2>2, <3>1
  <2>3. QED  BY <2>1, <2>2
<1> HIDE DEF next, prev
<1>14. TurnedTo(token, how, got, rows, next, prev, n)
  BY <1>2, <1>5, <1>9, <1>12, <1>13 DEF TurnedTo, forward, backward, m, L, rows, cut, got, n, back, size, offset
<1>15. QED  BY <1>3, <1>5, <1>9, <1>12, <1>13, <1>14

LEMMA NextOf ==
  ASSUME PgTypeOK, pgPage.next # NoToken \/ pgPage.prev # NoToken
  PROVE  pgPage.state \in {"first", "next", "prev"}
  BY DEF PgTypeOK, Pages, AtStart

(* What the invariant says of the offset of a token of the next page.      *)
LEMMA NextPlace ==
  ASSUME PagingInv, pgPage.next # NoToken, Exact, pgQuery.kind \in Keyset \cup {"d1"}, pgWalk.still,
         NEW off \in Nat, off = pgPage.next.offset, NEW size \in Nat \ {0}, size = pgPage.next.size
  PROVE  \E o \in Nat :
           /\ PlacedAt(o) /\ off = o + Len(pgPage.rows) /\ off > 0 /\ off <= Len(Ordered(pgTable))
           /\ PrevOffset(off, size) = o /\ (pgQuery.kind = "d1" => size <= off)
           /\ pgQuery.kind \in Keyset => pgPage.next.dir = "next" /\ pgPage.next.end = Ordered(pgTable)[off]
<1>1. pgPage.state \in {"first", "next", "prev"} /\ pgPage.rows \in Seq(PgRows)
  BY NextOf, TokensTyped DEF PagingInv
<1>2. PICK o \in Nat : PlacedAt(o)
  BY <1>1 DEF PagingInv, Placed
<1> DEFINE m == Len(pgPage.rows)
           N == Len(Ordered(pgTable))
<1>3. m \in Nat /\ DOMAIN pgPage.rows = 1 .. m
  BY <1>1
<1>4. /\ off = o + m /\ m > 0
      /\ m = size \/ (pgQuery.kind \in Keyset /\ o = 0 /\ m < size)
      /\ pgQuery.kind \in Keyset => pgPage.next.dir = "next" /\ pgPage.next.end = pgPage.rows[m]
      /\ o + m <= N /\ \A i \in DOMAIN pgPage.rows : pgPage.rows[i] = Ordered(pgTable)[o + i]
  BY <1>2 DEF PlacedAt, Stretch
<1>5. m \in DOMAIN pgPage.rows
  BY <1>3, <1>4
<1>6. pgPage.rows[m] = Ordered(pgTable)[off]
  BY <1>4, <1>5
<1>8. "d1" \notin Keyset
  BY DEF Keyset
<1> HIDE DEF m
<1>7. PrevOffset(off, size) = o
  BY <1>3, <1>4 DEF PrevOffset
<1>9. pgQuery.kind = "d1" => size <= off
  BY <1>3, <1>4, <1>8
<1>10. QED  BY <1>2, <1>3, <1>4, <1>6, <1>7, <1>9 DEF m

LEMMA ByKeyNextStep ==
  ASSUME PagingInv, Rest, pgQuery.kind \in Keyset, pgPage.next # NoToken, ByKey(pgPage.next, "next")
  PROVE  PagingInv'
<1> DEFINE token == pgPage.next
<1>1. PgTypeOK /\ pgQuery.kind \in OnePage /\ pgQuery.kind # "d1" /\ pgQuery.kind # "entities"
  BY DEF PagingInv, OnePage, Keyset
<1>2. token \in KeyTokens /\ pgWalk.shown \in Seq(PgRows) /\ pgWalk.stable \in SUBSET pgTable /\ pgTable \in SUBSET PgRows
  BY <1>1, TokensTyped, TokensAre, TableRows
<1>3. CASE token.text # pgQuery.text
  BY <1>1, <1>3, FailsStep DEF ByKey
<1>4. CASE token.text = pgQuery.text
  <2>1. PICK got \in Seq(PgRows), rows \in Seq(PgRows), next \in TokensOf(pgQuery.kind), prev \in TokensOf(pgQuery.kind), n \in Nat :
           TurnedTo(token, "next", got, rows, next, prev, n)
    BY <1>1, <1>2, <1>4, ByKeyIs
  <2>2. PICK size \in Nat \ {0}, off \in Nat, end \in Nat : size = token.size /\ off = token.offset /\ end = token.end
    BY <1>2 DEF KeyTokens
  <2> DEFINE L == Len(got)
             m == Len(rows)
             T == Total
             shown == pgWalk.shown
  <2>3. /\ Shows("next", rows, next, prev) /\ n = FetchLimit(size, T, off) /\ L <= n /\ m = Less(size, L)
        /\ token.dir = "next" => got = Answered(end, "next", n) /\ rows = SubSeq(got, 1, Less(size, L))
        /\ next # NoToken => off + m < T /\ (token.dir = "prev" \/ L > size) /\ m > 0
        /\ off + m < T /\ L > size /\ m > 0 => next # NoToken
        /\ next # NoToken => next.size = size /\ next.offset = off + m /\ next.dir = "next" /\ (Exact => next.end = rows[m])
        /\ prev # NoToken => off > 0 /\ m > 0
        /\ prev # NoToken => prev.size = size /\ prev.offset = PrevOffset(off, size) /\ prev.dir = "prev"
                             /\ prev.total = T /\ (Exact => prev.start = rows[1])
    BY <2>1, <2>2 DEF TurnedTo, Cursor
  <2>4. L \in Nat /\ m \in Nat /\ T \in Nat \ {0} /\ Len(shown) \in Nat
    BY <1>1, <1>2, LimitIs
  <2> HIDE DEF L, m, T
  <2>5. m <= size /\ m <= L /\ (m = size \/ m = L)
    BY <2>2, <2>3, <2>4, LessIs
  <2>6. /\ n <= size + 1 /\ (T <= off => n = 0)
        /\ off < T => n <= T - off /\ (n = size + 1 \/ n = T - off)
    <3>1. size \in Nat /\ off \in Nat /\ T \in Nat /\ n = FetchLimit(size, T, off)
      BY <2>2, <2>3, <2>4
    <3>2. QED  BY ZenonT(40), <3>1, FetchIs
  <2>7. ASSUME Exact, token.dir = "next"
        PROVE  /\ PageOf(rows, After(end), Less(size, n)) /\ Leads(rows, After(end))
               /\ L <= size /\ L < n => After(end) \subseteq ToSet(rows)
    <3>1. PageOf(got, After(end), n)
      BY <1>1, <2>3, <2>7, AnsweredNext
    <3>2. rows = SubSeq(got, 1, Less(size, Len(got))) /\ size \in Nat
      BY <2>2, <2>3, <2>7 DEF L
    <3>3. IsCut(rows, got, end, size, n)
      BY <1>1, <3>1, <3>2, CutPage
    <3>4. QED  BY <3>3 DEF IsCut, L
  <2>8. Len(shown \o rows) = Len(shown) + m
    BY <1>2, ConcatIs DEF m
  <2>9. ASSUME pgWalk.forward
        PROVE  off = Len(shown) /\ token.dir = "next" /\ off <= T
    BY <2>2, <2>9 DEF PagingInv, WalkLimited, T
  <2>10. ASSUME Exact, pgWalk.forward
         PROVE  /\ Increasing(shown \o rows)
                /\ next # NoToken => SeenTo(shown \o rows, pgWalk.stable, next.end)
                /\ next = NoToken /\ ~(Len(shown \o rows) >= T) => pgWalk.stable \subseteq ToSet(shown \o rows)
    <3>1. Increasing(shown) /\ SeenTo(shown, pgWalk.stable \cap Asked, end)
      BY <1>1, <2>2, <2>10 DEF PagingInv, WalkForward
    <3>2. pgWalk.stable \cap Asked = pgWalk.stable
      BY <1>1, <1>2 DEF Asked, OnePage, Keyset
    <3>3. Leads(rows, After(end)) /\ (L <= size /\ L < n => After(end) \subseteq ToSet(rows))
      BY <2>7, <2>9, <2>10
    <3>4. After(end) \in SUBSET After(end) /\ \A r \in pgWalk.stable : r > end => r \in After(end)
      BY <1>2 DEF After
    <3>5. /\ Increasing(shown \o rows)
          /\ After(end) \subseteq ToSet(rows) => pgWalk.stable \subseteq ToSet(shown \o rows)
          /\ m > 0 => SeenTo(shown \o rows, pgWalk.stable, rows[m])
      BY <1>2, <2>2, <3>1, <3>2, <3>3, <3>4, WalkGrows DEF m
    <3>6. ASSUME next = NoToken, ~(Len(shown \o rows) >= T) PROVE L <= size /\ L < n
      <4>1. off + m < T /\ off = Len(shown)
        BY <2>4, <2>8, <2>9, <2>10, <3>6
      <4>2. ~(L > size)
        BY <2>2, <2>3, <2>4, <2>5, <3>6, <4>1
      <4>3. QED  BY <2>2, <2>4, <2>5, <2>6, <4>1, <4>2
    <3>7. QED  BY <2>3, <2>10, <3>3, <3>5, <3>6
  <2>11. ASSUME pgWalk.forward
         PROVE  /\ Len(shown \o rows) <= T
                /\ next # NoToken => next.offset = Len(shown \o rows) /\ next.dir = "next"
    <3>1. off + m <= T
      BY <2>2, <2>3, <2>4, <2>5, <2>6, <2>9, <2>11
    <3>2. QED  BY <2>3, <2>8, <2>9, <2>11, <3>1
  <2>12. ASSUME Exact, pgWalk.still
         PROVE  \E o \in Nat :
             /\ Stretch(rows, Ordered(pgTable), o)
             /\ next # NoToken => next.offset = o + m /\ m > 0 /\ m = next.size /\ next.dir = "next" /\ next.end = rows[m]
             /\ prev # NoToken =>
                  /\ o > 0 /\ prev.offset = PrevOffset(o, prev.size)
                  /\ prev.dir = "prev" /\ o < prev.total /\ m > 0 /\ prev.start = rows[1]
                  /\ Stretch(pgPage.rows, Ordered(pgTable), prev.offset)
                  /\ Len(pgPage.rows) = o - prev.offset
    <3>1. PICK p \in Nat :
           /\ PlacedAt(p) /\ off = p + Len(pgPage.rows) /\ off > 0 /\ off <= Len(Ordered(pgTable))
           /\ PrevOffset(off, size) = p /\ token.dir = "next" /\ token.end = Ordered(pgTable)[off]
      BY ZenonT(40), <1>1, <2>2, <2>12, NextPlace
    <3>2. PageOf(rows, After(end), Less(size, n))
      BY <2>7, <2>12, <3>1
    <3>3. Less(size, n) \in Nat
      BY <2>2, LessIs
    <3>4. Stretch(rows, Ordered(pgTable), off)
      <4>1. /\ off \in Nat /\ off <= Len(Ordered(pgTable)) /\ off # 0
            /\ end \in Nat /\ end = Ordered(pgTable)[off]
        BY <2>2, <3>1
      <4>2. PgTypeOK
        BY <1>1
      <4>3. QED  BY <3>2, <3>3, <4>1, <4>2, PagePlaced
    <3>5. next # NoToken => m = size
      BY SMTT(40), <2>2, <2>3, <2>4, <2>5, <3>1
    <3>6. prev # NoToken => off < T
      BY <2>2, <2>3, <2>4, <2>5, <2>6
    <3>7. Stretch(pgPage.rows, Ordered(pgTable), p)
      BY <3>1 DEF PlacedAt
    <3>8. Len(pgPage.rows) \in Nat
      BY <1>1, TokensTyped
    <3>9. Len(pgPage.rows) = off - p
      BY <3>1, <3>8
    <3>10. QED  BY <2>3, <2>12, <3>1, <3>4, <3>5, <3>6, <3>7, <3>9
  <2>13. Shows("next", rows, next, prev)
    BY <2>3
  <2> HIDE DEF shown
  <2>14. QED  BY <1>1, <2>10, <2>11, <2>12, <2>13, NextShown DEF T, m, shown
<1>5. QED  BY <1>3, <1>4

LEMMA SameStretch ==
  ASSUME NEW S, NEW s \in Seq(S), NEW t \in Seq(S), NEW all, NEW o, Stretch(s, all, o), Stretch(t, all, o), Len(s) = Len(t)
  PROVE  s = t
<1>1. DOMAIN s = 1 .. Len(s) /\ DOMAIN t = 1 .. Len(t)
  OBVIOUS
<1>2. \A i \in 1 .. Len(s) : s[i] = t[i]
  BY <1>1 DEF Stretch
<1>3. QED  BY <1>2, SeqEqual

(* What the invariant says of the offset of a token of the page before.    *)
LEMMA PrevPlace ==
  ASSUME PagingInv, pgPage.prev # NoToken, Exact, pgQuery.kind \in Keyset \cup {"d1"}, pgWalk.still,
         NEW off \in Nat, off = pgPage.prev.offset, NEW size \in Nat \ {0}, size = pgPage.prev.size
  PROVE  \E o \in Nat :
           /\ o > 0 /\ o <= Len(Ordered(pgTable)) /\ off = PrevOffset(o, size)
           /\ pgQuery.kind \in Keyset => /\ o < Len(Ordered(pgTable)) /\ pgPage.prev.start = Ordered(pgTable)[o + 1]
                                         /\ pgPage.prev.dir = "prev" /\ o < pgPage.prev.total
           /\ pgPage.state = "next" => /\ Stretch(pgWalk.prior, Ordered(pgTable), off) /\ Len(pgWalk.prior) = o - off
                                       /\ pgQuery.kind = "d1" => size <= o
<1>1. pgPage.state \in {"first", "next", "prev"} /\ pgPage.rows \in Seq(PgRows)
  BY NextOf, TokensTyped DEF PagingInv
<1>2. PICK o \in Nat : PlacedAt(o)
  BY <1>1 DEF PagingInv, Placed
<1> DEFINE m == Len(pgPage.rows)
           N == Len(Ordered(pgTable))
<1>3. m \in Nat /\ DOMAIN pgPage.rows = 1 .. m /\ N \in Nat
  BY <1>1, PlacesOf DEF PagingInv
<1>4. /\ o > 0 /\ off = PrevOffset(o, size) /\ o + m <= N
      /\ pgQuery.kind \in Keyset => pgPage.prev.dir = "prev" /\ o < pgPage.prev.total /\ m > 0 /\ pgPage.prev.start = pgPage.rows[1]
      /\ pgPage.state = "next" => /\ Stretch(pgWalk.prior, Ordered(pgTable), off) /\ Len(pgWalk.prior) = o - off
                                  /\ pgQuery.kind = "d1" => size <= o
      /\ \A i \in DOMAIN pgPage.rows : pgPage.rows[i] = Ordered(pgTable)[o + i]
  BY <1>2 DEF PlacedAt, Stretch
<1>5. m > 0 => pgPage.rows[1] = Ordered(pgTable)[o + 1]
  BY <1>3, <1>4
<1> HIDE DEF m, N
<1>6. o <= N /\ (m > 0 => o < N)
  BY <1>3, <1>4
<1>7. QED  BY <1>4, <1>5, <1>6 DEF N

GoesBack(got, n, o) ==
  Len(got) = Less(n, o) /\ DOMAIN got = 1 .. Less(n, o) /\ \A i \in 1 .. Less(n, o) : got[i] = Ordered(pgTable)[o - i + 1]

LEMMA AnsweredPrev ==
  ASSUME PgTypeOK, Exact, NEW o \in Nat, o < Len(Ordered(pgTable)), NEW c, c = Ordered(pgTable)[o + 1], NEW n \in Nat,
         NEW got, got = Answered(c, "prev", n)
  PROVE  GoesBack(got, n, o)
<1> DEFINE all == Ordered(pgTable)
           before == Ordered(Before(c))
           seq == Reverse(before)
           k == Less(n, o)
<1>1. \A r \in pgTable : r \in PgRows /\ r \in Nat /\ r > 0
  BY TableRows, RowsFinite
<1>2. c \in PgRows /\ c \in Nat /\ c > 0
  <2>1. Len(all) \in Nat /\ \A i \in 1 .. Len(all) : all[i] \in PgRows /\ all[i] \in Nat /\ all[i] > 0
    BY PlacesOf
  <2>2. o + 1 \in 1 .. Len(all)
    BY <2>1
  <2>3. QED  BY <2>1, <2>2
<1>3. ASSUME NEW r \in pgTable PROVE Beyond(r, c, "prev") <=> r < c
  <2>1. Key(r) = r
    BY DEF Key, Exact
  <2>2. ~(pgQuery.kind = "sql" /\ r \in pgQuery.pick)
    BY DEF Exact, Kind
  <2>3. QED  BY <1>2, <2>1, <2>2 DEF Beyond
<1>4. {r \in pgTable : Beyond(r, c, "prev")} = Before(c)
  BY <1>3 DEF Before
<1>5. got = SubSeq(seq, 1, Less(n, Len(seq)))
  BY <1>4 DEF Answered
<1>6. Len(before) = o /\ before \in Seq(PgRows) /\ \A i \in 1 .. o : before[i] = all[i]
  BY OrderedBefore
<1> HIDE DEF before, all
<1>7. seq \in Seq(PgRows) /\ Len(seq) = o /\ \A i \in 1 .. o : seq[i] = before[o - i + 1]
  BY <1>6, ReverseIs
<1> HIDE DEF seq
<1>8. k \in Nat /\ k <= o
  BY LessIs
<1> HIDE DEF k
<1>9. got = SubSeq(seq, 1, k)
  BY <1>5, <1>7 DEF k
<1>10. Len(got) = k /\ DOMAIN got = 1 .. k /\ \A i \in 1 .. k : got[i] = seq[i]
  BY <1>7, <1>8, <1>9, FirstN
<1>11. \A i \in 1 .. k : i \in 1 .. o /\ o - i + 1 \in 1 .. o
  BY <1>8
<1>12. \A i \in 1 .. k : got[i] = all[o - i + 1]
  BY <1>6, <1>7, <1>10, <1>11
<1>13. QED  BY <1>10, <1>12 DEF k, all, GoesBack

LEMMA ByKeyPrevStep ==
  ASSUME PagingInv, Rest, pgQuery.kind \in Keyset, pgPage.prev # NoToken, ByKey(pgPage.prev, "prev")
  PROVE  PagingInv'
<1> DEFINE token == pgPage.prev
           all == Ordered(pgTable)
<1>1. PgTypeOK /\ pgQuery.kind \in OnePage /\ pgQuery.kind # "d1"
  BY DEF PagingInv, OnePage, Keyset
<1>2. token \in KeyTokens /\ pgWalk.prior \in Seq(PgRows)
  BY <1>1, TokensTyped, TokensAre
<1>3. CASE token.text # pgQuery.text
  BY <1>1, <1>3, FailsStep DEF ByKey
<1>4. CASE token.text = pgQuery.text
  <2>1. PICK got \in Seq(PgRows), rows \in Seq(PgRows), next \in TokensOf(pgQuery.kind), prev \in TokensOf(pgQuery.kind), n \in Nat :
           TurnedTo(token, "prev", got, rows, next, prev, n)
    BY <1>1, <1>2, <1>4, ByKeyIs
  <2>2. PICK size \in Nat \ {0}, off \in Nat : size = token.size /\ off = token.offset
    BY <1>2 DEF KeyTokens
  <2> DEFINE L == Len(got)
             m == Len(rows)
             T == Total
             cut == SubSeq(got, 1, Less(size, L))
  <2>3. /\ Shows("prev", rows, next, prev) /\ n = FetchLimit(size, T, off) /\ L <= n /\ m = Less(size, L) /\ token.total = T
        /\ token.dir = "prev" => got = Answered(token.start, "prev", n) /\ rows = Reverse(cut)
        /\ next # NoToken => next.size = size /\ next.offset = off + m /\ next.dir = "next" /\ m > 0 /\ (Exact => next.end = rows[m])
        /\ prev # NoToken => off > 0 /\ m > 0
        /\ prev # NoToken => prev.size = size /\ prev.offset = PrevOffset(off, size) /\ prev.dir = "prev"
                             /\ prev.total = T /\ (Exact => prev.start = rows[1])
    BY <1>2, <2>1, <2>2 DEF TurnedTo, Cursor, KeyTokens
  <2>4. L \in Nat /\ m \in Nat /\ T \in Nat
    BY <1>1, <1>2, LimitIs
  <2>5. size \in Nat /\ m <= size /\ m <= L /\ (m = size \/ m = L)
    <3> HIDE DEF L, m
    <3>1. QED  BY <2>2, <2>3, <2>4, LessIs
  <2>6. ASSUME Exact, pgWalk.still
        PROVE  \E p \in Nat :
             /\ Stretch(rows, Ordered(pgTable), p)
             /\ next # NoToken => /\ next.offset = p + m /\ m > 0 /\ (m = next.size \/ (p = 0 /\ m < next.size))
                                  /\ next.dir = "next" /\ next.end = rows[m]
             /\ prev # NoToken =>
                  /\ p > 0 /\ prev.offset = PrevOffset(p, prev.size)
                  /\ prev.dir = "prev" /\ p < prev.total /\ m > 0 /\ prev.start = rows[1]
             /\ pgPage.state = "next" => pgWalk.prior = rows
    <3>1. PICK o \in Nat :
           /\ o > 0 /\ o <= Len(all) /\ off = PrevOffset(o, size)
           /\ o < Len(all) /\ token.start = all[o + 1] /\ token.dir = "prev" /\ o < T
           /\ pgPage.state = "next" => Stretch(pgWalk.prior, all, off) /\ Len(pgWalk.prior) = o - off
      BY ZenonT(40), <1>1, <2>2, <2>3, <2>6, PrevPlace
    <3>2. got = Answered(token.start, "prev", n) /\ rows = Reverse(cut)
      BY <2>3, <3>1
    <3>3. L = Less(n, o) /\ \A i \in 1 .. Less(n, o) : got[i] = all[o - i + 1]
      <4>1. o < Len(Ordered(pgTable)) /\ token.start = Ordered(pgTable)[o + 1] /\ got = Answered(token.start, "prev", n)
        BY <3>1, <3>2
      <4>2. GoesBack(got, n, o)
        BY <1>1, <2>6, <4>1, AnsweredPrev
      <4>3. QED  BY <4>2 DEF GoesBack
    <3> HIDE DEF all
    <3>4. cut \in Seq(PgRows) /\ Len(cut) = m /\ \A i \in 1 .. m : cut[i] = got[i]
      <4>1. PICK k \in Nat : k = m
        BY <2>4
      <4>2. k <= Len(got) /\ cut = SubSeq(got, 1, k)
        BY <2>3, <2>5, <4>1
      <4> HIDE DEF m, cut
      <4>3. cut \in Seq(PgRows) /\ Len(cut) = k /\ \A i \in 1 .. k : cut[i] = got[i]
        BY <4>2, FirstN
      <4>4. QED  BY <4>1, <4>3
    <3> HIDE DEF cut, L
    <3>5. \A i \in 1 .. m : rows[i] = cut[m - i + 1]
      <4>1. \A i \in 1 .. Len(cut) : Reverse(cut)[i] = cut[Len(cut) - i + 1]
        BY <3>4, ReverseIs
      <4>2. QED  BY <3>2, <3>4, <4>1
    <3>6. DOMAIN rows = 1 .. m
      OBVIOUS
    <3> HIDE DEF m, T
    <3>7. IF o < size THEN off = 0 ELSE off = o - size
      BY <2>5, <3>1, PrevIs
    <3>8. off + m = o /\ (m = size \/ (off = 0 /\ m < size))
      <4>1. off < T /\ n <= size + 1 /\ (n = size + 1 \/ n = T - off)
        <5>1. off < T
          BY <2>2, <2>4, <3>1, <3>7
        <5>2. n = FetchLimit(size, T, off) /\ size \in Nat /\ T \in Nat /\ off \in Nat
          BY <2>3, <2>4, <2>5
        <5>3. QED  BY SMTT(40), <5>1, <5>2, FetchIs
      <4>2. L <= o /\ (L = n \/ L = o)
        BY <3>3, LessIs
      <4>3. CASE o < size
        <5>1. off = 0 /\ (n = size + 1 \/ n = T)
          BY <2>4, <3>7, <4>1, <4>3
        <5>2. L = o
          BY <2>2, <2>4, <3>1, <4>2, <4>3, <5>1
        <5>3. m = o
          BY <2>4, <2>5, <4>3, <5>2
        <5>4. QED  BY <4>3, <5>1, <5>3
      <4>4. CASE ~(o < size)
        <5>1. off = o - size /\ n > size
          BY SMTT(40), <2>2, <2>4, <2>5, <3>1, <3>7, <4>1, <4>4
        <5>2. m = size
          BY <2>4, <2>5, <4>2, <4>4, <5>1
        <5>3. QED  BY <2>5, <4>4, <5>1, <5>2
      <4>5. QED  BY <4>3, <4>4
    <3>9. Stretch(rows, all, off)
      <4>1. ASSUME NEW i \in 1 .. m PROVE rows[i] = all[off + i]
        <5>1. m - i + 1 \in 1 .. m /\ m - i + 1 \in 1 .. L /\ o - (m - i + 1) + 1 = off + i
          BY SMTT(40), <2>2, <2>4, <2>5, <3>8
        <5>2. PICK j \in 1 .. m : j = m - i + 1
          BY <5>1
        <5>3. rows[i] = cut[j] /\ cut[j] = got[j] /\ got[j] = all[o - j + 1]
          BY <3>3, <3>4, <3>5, <5>1, <5>2
        <5>4. o - j + 1 = off + i
          BY <5>1, <5>2
        <5>5. QED  BY <5>3, <5>4
      <4>2. off + m <= Len(all)
        BY <3>1, <3>8
      <4> HIDE DEF all
      <4>3. QED  BY <3>6, <4>1, <4>2 DEF Stretch, m
    <3>10. pgPage.state = "next" => pgWalk.prior = rows
      <4>1. ASSUME pgPage.state = "next" PROVE pgWalk.prior = rows
        <5>0. Len(pgWalk.prior) = o - off /\ Stretch(pgWalk.prior, all, off)
          BY <3>1, <4>1
        <5>1. Len(pgWalk.prior) = m
          BY <2>2, <2>4, <3>8, <5>0
        <5>2. QED  BY <1>2, <3>9, <5>0, <5>1, SameStretch DEF m
      <4>2. QED  BY <4>1
    <3>11. off < T
      BY <2>2, <2>4, <3>1, <3>7
    <3>12. /\ Stretch(rows, Ordered(pgTable), off)
           /\ next # NoToken => /\ next.offset = off + m /\ m > 0 /\ (m = next.size \/ (off = 0 /\ m < next.size))
                                /\ next.dir = "next" /\ next.end = rows[m]
           /\ prev # NoToken =>
                  /\ off > 0 /\ prev.offset = PrevOffset(off, prev.size)
                  /\ prev.dir = "prev" /\ off < prev.total /\ m > 0 /\ prev.start = rows[1]
           /\ pgPage.state = "next" => pgWalk.prior = rows
      BY <2>3, <2>6, <3>8, <3>9, <3>10, <3>11 DEF all
    <3>13. QED  BY <3>12
  <2>7. Shows("prev", rows, next, prev)
    BY <2>3
  <2>8. QED  BY <1>1, <2>6, <2>7, PrevShown
<1>5. QED  BY <1>3, <1>4

(* The pages of D1.                                                        *)
LEMMA StretchIs ==
  ASSUME PgTypeOK, NEW s \in Seq(PgRows), Stretch(s, Ordered(pgTable), 0)
  PROVE  Increasing(s) /\ (Len(s) = Len(Ordered(pgTable)) => pgTable \subseteq ToSet(s))
<1> DEFINE all == Ordered(pgTable)
           N == Len(all)
<1>1. /\ N \in Nat /\ Increasing(all) /\ Onto(all, pgTable) /\ DOMAIN all = 1 .. N
      /\ \A i \in 1 .. N : all[i] \in Nat
  BY PlacesOf
<1>2. DOMAIN s = 1 .. Len(s) /\ Len(s) \in Nat
  OBVIOUS
<1>3. Len(s) <= N /\ \A i \in 1 .. Len(s) : s[i] = all[i] /\ i \in 1 .. N
  <2>1. 0 + Len(s) <= N /\ \A i \in DOMAIN s : s[i] = all[0 + i]
    BY DEF Stretch
  <2> HIDE DEF N, all
  <2>2. \A i \in 1 .. Len(s) : 0 + i = i
    BY <1>2
  <2>3. QED  BY <1>1, <1>2, <2>1, <2>2
<1> HIDE DEF N, all
<1>4. Increasing(s)
  BY <1>1, <1>2, <1>3 DEF Increasing
<1>5. ASSUME Len(s) = N PROVE pgTable \subseteq ToSet(s)
  <2>1. ASSUME NEW r \in pgTable PROVE r \in ToSet(s)
    <3>1. PICK i \in 1 .. N : all[i] = r
      BY <1>1 DEF Onto
    <3>2. i \in DOMAIN s /\ s[i] = r
      BY <1>2, <1>3, <1>5, <3>1
    <3>3. QED  BY <3>2 DEF ToSet
  <2>2. QED  BY <2>1
<1>6. QED  BY <1>4, <1>5 DEF N, all

LEMMA StretchConcat ==
  ASSUME NEW S, NEW s \in Seq(S), NEW t \in Seq(S), NEW all, NEW N \in Nat, N = Len(all), NEW o \in Nat, Len(s) = o,
         Stretch(s, all, 0), Stretch(t, all, o)
  PROVE  Stretch(s \o t, all, 0)
<1> DEFINE st == s \o t
<1>1. Len(st) = Len(s) + Len(t) /\ Len(t) \in Nat /\ o + Len(t) <= N
  <2>1. Len(st) = Len(s) + Len(t)
    BY ConcatIs
  <2>2. o + Len(t) <= N /\ Len(t) \in Nat
    BY DEF Stretch
  <2>3. QED  BY <2>1, <2>2
<1>2. \A i \in DOMAIN st : i \in Nat /\
        IF i <= Len(s) THEN i \in DOMAIN s /\ st[i] = s[i]
        ELSE i - Len(s) \in DOMAIN t /\ st[i] = t[i - Len(s)]
  <2>1. DOMAIN st \subseteq Nat
    BY ConcatIs
  <2>2. QED  BY <2>1, ConcatIs
<1> HIDE DEF st
<1>3. ASSUME NEW i \in DOMAIN st PROVE st[i] = all[0 + i]
  <2>1. i \in Nat
    BY <1>2
  <2>2. CASE i <= o
    <3>1. i \in DOMAIN s /\ st[i] = s[i]
      BY <1>2, <2>2
    <3>2. QED  BY <3>1 DEF Stretch
  <2>3. CASE ~(i <= o)
    <3>1. i - o \in DOMAIN t /\ st[i] = t[i - o]
      BY <1>2, <2>3
    <3>2. t[i - o] = all[o + (i - o)]
      BY <3>1 DEF Stretch
    <3>3. o + (i - o) = 0 + i
      BY <2>1
    <3>4. QED  BY <3>1, <3>2, <3>3
  <2>4. QED  BY <2>2, <2>3
<1>4. 0 + Len(st) <= N
  BY <1>1
<1>5. QED  BY <1>3, <1>4 DEF Stretch, st

Window(size, offset) ==
  LET all == Ordered(pgTable) IN SubSeq(all, Less(offset + 1, Len(all) + 1), Less(offset + size + 1, Len(all)))

LEMMA RowsFrom ==
  ASSUME PgTypeOK, NEW size \in Nat, NEW offset \in Nat
  PROVE  /\ Window(size, offset) \in Seq(PgRows)
         /\ offset <= Len(Ordered(pgTable)) =>
              /\ Len(Window(size, offset)) = Less(size + 1, Len(Ordered(pgTable)) - offset)
              /\ \A i \in 1 .. Len(Window(size, offset)) : Window(size, offset)[i] = Ordered(pgTable)[offset + i]
<1> DEFINE all == Ordered(pgTable)
           got == Window(size, offset)
           N == Len(all)
           a == Less(offset + 1, N + 1)
           b == Less(offset + size + 1, N)
<1>1. all \in Seq(pgTable) /\ N \in Nat /\ \A i \in 1 .. N : all[i] \in PgRows
  BY PlacesOf
<1>2. all \in Seq(PgRows)
  BY <1>1, TableRows, SeqWider
<1> HIDE DEF N, all
<1>3. /\ a \in Int /\ b \in Int /\ 1 <= a /\ b <= N
      /\ offset <= N => a = offset + 1 /\ b - a + 1 = Less(size + 1, N - offset)
  BY <1>1 DEF Less
<1> HIDE DEF a, b
<1>4. \A i \in a .. b : all[i] \in PgRows
  <2>1. \A i \in a .. b : i \in 1 .. N
    BY <1>1, <1>3
  <2>2. QED  BY <1>1, <2>1
<1>5. /\ SubSeq(all, a, b) \in Seq(PgRows)
      /\ Len(SubSeq(all, a, b)) = IF a <= b THEN b - a + 1 ELSE 0
      /\ \A i \in 1 .. b - a + 1 : SubSeq(all, a, b)[i] = all[a + i - 1]
  BY <1>2, <1>3, <1>4, SubSeqProperties
<1>6. got = SubSeq(all, a, b)
  BY DEF a, b, N, Window, all
<1> HIDE DEF got
<1>7. ASSUME offset <= N
      PROVE  Len(got) = Less(size + 1, N - offset) /\ \A i \in 1 .. Len(got) : got[i] = all[offset + i]
  <2>1. N - offset \in Nat
    BY <1>1, <1>7
  <2>2. PICK k \in Nat : k = Less(size + 1, N - offset)
    BY <2>1, LessIs
  <2>3. a = offset + 1 /\ b - a + 1 = k
    BY <1>3, <1>7, <2>2
  <2>7. Len(got) = IF a <= b THEN k ELSE 0
    BY <1>5, <1>6, <2>3
  <2>8. a > b => k = 0
    BY <1>3, <2>3
  <2>4. Len(got) = k
    BY <1>3, <2>7, <2>8
  <2>5. ASSUME NEW i \in 1 .. k PROVE got[i] = all[offset + i]
    <3>1. got[i] = all[a + i - 1]
      BY <1>5, <1>6, <2>3
    <3>2. a + i - 1 = offset + i
      BY <2>3
    <3>3. QED  BY <3>1, <3>2
  <2>6. QED  BY <2>2, <2>4, <2>5
<1>8. QED  BY <1>5, <1>6, <1>7 DEF N, got, all

ShownFrom(size, offset, how, rows, next, prev, L) ==
  /\ Shows(how, rows, next, prev) /\ Len(rows) = Less(size, L)
  /\ next # NoToken <=> L > size
  /\ next # NoToken => next.size = size /\ next.offset = offset + Len(rows)
  /\ prev # NoToken <=> offset > 0
  /\ prev # NoToken => prev.size = size /\ prev.offset = PrevOffset(offset, size)
  /\ offset <= Len(Ordered(pgTable)) =>
       L = Less(size + 1, Len(Ordered(pgTable)) - offset) /\ Stretch(rows, Ordered(pgTable), offset)

LEMMA AtOffsetIs ==
  ASSUME PgTypeOK, pgQuery.kind = "d1", NEW size \in Nat \ {0}, NEW offset \in Nat, NEW how, AtOffset(size, offset, how)
  PROVE  \E rows \in Seq(PgRows), next \in TokensOf(pgQuery.kind), prev \in TokensOf(pgQuery.kind), L \in Nat :
           ShownFrom(size, offset, how, rows, next, prev, L)
<1> DEFINE all == Ordered(pgTable)
           N == Len(all)
           got == Window(size, offset)
           L == Len(got)
           rows == SubSeq(got, 1, Less(size, L))
           m == Len(rows)
           T(o) == [at |-> "offset", text |-> pgQuery.text, size |-> size, offset |-> o]
           back == PrevOffset(offset, size)
           next == IF L > size THEN T(offset + m) ELSE NoToken
           prev == IF offset > 0 THEN T(back) ELSE NoToken
<1>1. Shows(how, rows, next, prev)
  BY DEF AtOffset, Window
<1>2. /\ got \in Seq(PgRows)
      /\ offset <= N => /\ Len(got) = Less(size + 1, N - offset)
                        /\ \A i \in 1 .. Len(got) : got[i] = all[offset + i]
  <2>1. size \in Nat
    OBVIOUS
  <2>2. QED  BY <2>1, RowsFrom
<1>3. N \in Nat
  BY PlacesOf
<1> HIDE DEF got, N
<1>4. L \in Nat
  BY <1>2
<1> HIDE DEF L
<1>5. Less(size, L) \in Nat /\ Less(size, L) <= L /\ Less(size, L) <= size
  BY <1>4, LessIs
<1>6. rows \in Seq(PgRows) /\ m = Less(size, L) /\ DOMAIN rows = 1 .. m /\ \A i \in 1 .. m : rows[i] = got[i]
  BY <1>2, <1>5, FirstN DEF L
<1> HIDE DEF rows, m
<1>7. \A o \in Nat : T(o) \in TokensOf(pgQuery.kind) /\ T(o) # NoToken
  <2>1. ASSUME NEW o \in Nat PROVE T(o) \in OffsetTokens /\ T(o) # NoToken
    <3>1. pgQuery.text \in {1, 2}
      BY TokensTyped
    <3>2. T(o).at = "offset" /\ NoToken.at = "none"
      BY DEF NoToken
    <3>3. QED  BY <3>1, <3>2 DEF OffsetTokens
  <2>2. QED  BY <2>1, TokensAre
<1>8. \A o : T(o).size = size /\ T(o).offset = o
  OBVIOUS
<1>9. NoToken \in TokensOf(pgQuery.kind) /\ offset + m \in Nat /\ back \in Nat
  BY <1>5, <1>6, PrevIs DEF TokensOf
<1> HIDE DEF T
<1>10. /\ next \in TokensOf(pgQuery.kind) /\ (next # NoToken <=> L > size)
       /\ next # NoToken => next.size = size /\ next.offset = offset + m
  BY <1>7, <1>8, <1>9
<1>11. /\ prev \in TokensOf(pgQuery.kind) /\ (prev # NoToken <=> offset > 0)
       /\ prev # NoToken => prev.size = size /\ prev.offset = back
  BY <1>7, <1>8, <1>9
<1> HIDE DEF next, prev, back
<1>12. ASSUME offset <= N PROVE L = Less(size + 1, N - offset) /\ Stretch(rows, all, offset)
  <2>1. N - offset \in Nat /\ size + 1 \in Nat
    BY <1>3, <1>12
  <2>2. L = Less(size + 1, N - offset) /\ \A i \in 1 .. L : got[i] = all[offset + i]
    BY <1>2, <1>12 DEF L
  <2>3. L <= N - offset
    BY <2>1, <2>2, LessIs
  <2>4. offset + m <= N
    BY <1>3, <1>4, <1>5, <1>6, <1>12, <2>3
  <2>5. \A i \in 1 .. m : i \in 1 .. L
    BY <1>4, <1>5, <1>6
  <2> HIDE DEF all
  <2>6. \A i \in 1 .. m : rows[i] = all[offset + i]
    BY <1>6, <2>2, <2>5
  <2>7. QED  BY <1>6, <2>2, <2>4, <2>6 DEF Stretch, N, m
<1>13. ShownFrom(size, offset, how, rows, next, prev, L)
  <2>1. Shows(how, rows, next, prev)
    BY <1>1 DEF next, prev, T, rows, L, m, got, back
  <2>2. QED  BY <1>6, <1>10, <1>11, <1>12, <2>1 DEF ShownFrom, m, N, back
<1>14. QED  BY <1>4, <1>6, <1>10, <1>11, <1>13

LEMMA D1FirstStep ==
  ASSUME PagingInv, Rest, pgQuery.kind = "d1", pgQuery.limit = 0, NEW s \in PgSizes, AtOffset(ClampPageSize(s), 0, "first")
  PROVE  PagingInv'
<1>1. PgTypeOK /\ pgQuery.kind \in OnePage /\ pgQuery.kind \notin Keyset /\ NoToken \in TokensOf(pgQuery.kind)
  BY DEF PagingInv, OnePage, Keyset, TokensOf
<1>2. PICK size \in Nat \ {0} : size = ClampPageSize(s)
  BY <1>1, LimitIs
<1>3. PICK rows \in Seq(PgRows), next \in TokensOf(pgQuery.kind), prev \in TokensOf(pgQuery.kind), L \in Nat :
        ShownFrom(size, 0, "first", rows, next, prev, L)
  BY <1>1, <1>2, AtOffsetIs
<1> DEFINE m == Len(rows)
           N == Len(Ordered(pgTable))
<1>4. N \in Nat /\ m \in Nat
  BY <1>1, PlacesOf
<1>5. /\ Shows("first", rows, next, prev) /\ m = Less(size, L)
      /\ next # NoToken <=> L > size
      /\ next # NoToken => next.size = size /\ next.offset = 0 + m
      /\ prev # NoToken <=> 0 > 0
      /\ 0 <= N => L = Less(size + 1, N - 0) /\ Stretch(rows, Ordered(pgTable), 0)
  BY <1>3 DEF ShownFrom
<1>6. size \in Nat /\ prev = NoToken /\ Stretch(rows, Ordered(pgTable), 0)
  BY <1>4, <1>5
<1>7. Increasing(rows) /\ (m = N => pgTable \subseteq ToSet(rows))
  BY <1>1, <1>6, StretchIs
<1> HIDE DEF m, N
<1>8. m <= size /\ m <= L /\ (m = size \/ m = L)
  BY <1>5, <1>6, LessIs
<1>9. L = Less(size + 1, N) /\ N - 0 = N
  BY <1>4, <1>5
<1>10. L <= N /\ (L = size + 1 \/ L = N)
  BY <1>4, <1>6, <1>9, LessIs
<1>11. next = NoToken => m = N
  BY <1>2, <1>4, <1>5, <1>8, <1>10
<1>12. next # NoToken => next.offset = m /\ m > 0 /\ m = next.size
  BY <1>2, <1>4, <1>5, <1>8
<1>13. Shows("first", rows, next, NoToken)
  BY <1>5, <1>6
<1>14. QED  BY <1>1, <1>6, <1>7, <1>11, <1>12, <1>13, FirstShown DEF m, N

LEMMA D1LimitStep ==
  ASSUME PagingInv, Rest, pgQuery.kind = "d1", pgQuery.limit > 0,
         Shows("first", SubSeq(Ordered(pgTable), 1, Less(pgQuery.limit, Len(Ordered(pgTable)))), NoToken, NoToken)
  PROVE  PagingInv'
<1> DEFINE rows == SubSeq(Ordered(pgTable), 1, Less(pgQuery.limit, Len(Ordered(pgTable))))
<1>1. PgTypeOK /\ pgQuery.kind \in OnePage /\ pgQuery.kind \notin Keyset /\ NoToken \in TokensOf(pgQuery.kind)
      /\ pgTable \in SUBSET PgRows
  BY TableRows DEF PagingInv, OnePage, Keyset, TokensOf
<1>2. pgQuery.limit \in Nat
  BY <1>1, LimitIs
<1>3. PageOf(rows, pgTable, pgQuery.limit)
  BY <1>1, <1>2, PageIs
<1>4. Shows("first", rows, NoToken, NoToken)
  OBVIOUS
<1> HIDE DEF rows
<1>5. rows \in Seq(pgTable) /\ Increasing(rows) /\ Stretch(rows, Ordered(pgTable), 0)
  BY <1>3 DEF PageOf
<1>6. rows \in Seq(PgRows)
  BY <1>1, <1>5, SeqWider
<1>7. pgQuery.limit # 0
  BY <1>2
<1>8. QED  BY <1>1, <1>4, <1>5, <1>6, <1>7, FirstShown

LEMMA D1NextStep ==
  ASSUME PagingInv, Rest, pgQuery.kind = "d1", pgPage.next # NoToken, OffsetToken(pgPage.next, "next")
  PROVE  PagingInv'
<1> DEFINE token == pgPage.next
           all == Ordered(pgTable)
           N == Len(all)
           shown == pgWalk.shown
<1>1. PgTypeOK /\ pgQuery.kind \in OnePage /\ pgQuery.kind \notin Keyset /\ pgQuery.kind # "entities"
  BY DEF PagingInv, OnePage, Keyset
<1>2. token \in OffsetTokens /\ shown \in Seq(PgRows) /\ pgWalk.stable \in SUBSET pgTable /\ N \in Nat
  BY <1>1, TokensTyped, TokensAre, PlacesOf
<1>3. CASE token.text # pgQuery.text
  BY <1>1, <1>3, FailsStep DEF OffsetToken
<1>4. CASE token.text = pgQuery.text
  <2>1. PICK size \in Nat \ {0}, off \in Nat : size = token.size /\ off = token.offset
    BY <1>2 DEF OffsetTokens
  <2>2. AtOffset(size, off, "next")
    BY <1>4, <2>1 DEF OffsetToken
  <2>3. PICK rows \in Seq(PgRows), next \in TokensOf(pgQuery.kind), prev \in TokensOf(pgQuery.kind), L \in Nat :
          ShownFrom(size, off, "next", rows, next, prev, L)
    BY <1>1, <2>1, <2>2, AtOffsetIs
  <2> DEFINE m == Len(rows)
  <2>4. /\ Shows("next", rows, next, prev) /\ m = Less(size, L)
        /\ next # NoToken <=> L > size
        /\ next # NoToken => next.size = size /\ next.offset = off + m
        /\ prev # NoToken <=> off > 0
        /\ prev # NoToken => prev.size = size /\ prev.offset = PrevOffset(off, size)
        /\ off <= N => L = Less(size + 1, N - off) /\ Stretch(rows, all, off)
    BY <2>3 DEF ShownFrom
  <2>5. m \in Nat /\ size \in Nat /\ Len(shown \o rows) = Len(shown) + m /\ shown \o rows \in Seq(PgRows)
    BY <1>2, ConcatIs
  <2> HIDE DEF m
  <2>6. m <= size /\ m <= L /\ (m = size \/ m = L)
    BY <2>4, <2>5, LessIs
  <2> HIDE DEF N
  <2>7. ASSUME Exact, pgWalk.still
        PROVE  /\ off <= N /\ off > 0 /\ Stretch(rows, all, off)
               /\ prev # NoToken =>
                  /\ Stretch(pgPage.rows, all, prev.offset)
                  /\ Len(pgPage.rows) = off - prev.offset /\ size <= off
               /\ pgWalk.forward =>
                  /\ Stretch(shown \o rows, all, 0) /\ Len(shown \o rows) = off + m
                  /\ pgQuery.limit = 0 /\ next = NoToken => Len(shown \o rows) = N
               /\ next = NoToken => off + m = N
    <3>1. PICK p \in Nat :
           /\ PlacedAt(p) /\ off = p + Len(pgPage.rows) /\ off > 0 /\ off <= N
           /\ PrevOffset(off, size) = p /\ size <= off
      BY <1>1, <2>1, <2>7, NextPlace DEF N
    <3>2. Stretch(rows, all, off) /\ L = Less(size + 1, N - off)
      BY <2>4, <3>1
    <3>3. N - off \in Nat /\ size + 1 \in Nat
      BY SMTT(60), <1>2, <2>1, <2>5, <3>1
    <3>4. L <= N - off /\ (L = size + 1 \/ L = N - off)
      BY <3>2, <3>3, LessIs
    <3>11. N \in Nat /\ off \in Nat /\ size \in Nat /\ L \in Nat /\ m \in Nat /\ off <= N
      BY <1>2, <2>1, <2>5, <3>1
    <3>12. ASSUME L <= size PROVE off + m = N
      <4>1. L = N - off /\ m = L
        BY ONLY <3>11, <3>4, <2>6, <3>12
      <4>2. QED  BY ONLY <3>11, <4>1
    <3>5. next = NoToken => off + m = N
      <4>1. next = NoToken => ~(L > size)
        BY <2>4
      <4>2. ~(L > size) => L <= size
        BY <3>11
      <4>3. QED  BY <3>12, <4>1, <4>2
    <3>6. Stretch(pgPage.rows, all, p) /\ Len(pgPage.rows) \in Nat
      BY <1>1, <3>1, TokensTyped DEF PlacedAt
    <3>7. Len(pgPage.rows) = off - p
      BY <3>1, <3>6
    <3>8. ASSUME pgWalk.forward PROVE Stretch(shown \o rows, all, 0) /\ Len(shown \o rows) = off + m
      <4>1. Stretch(shown, all, 0) /\ Len(shown) = off
        BY <1>1, <3>1, <3>8 DEF PlacedAt
      <4> HIDE DEF all, shown
      <4>2. Stretch(shown \o rows, all, 0)
        BY <1>2, <2>1, <3>2, <4>1, StretchConcat DEF N
      <4>3. QED  BY <2>5, <4>1, <4>2
    <3>9. prev # NoToken => prev.offset = p
      BY <2>4, <3>1
    <3>10. QED  BY <3>1, <3>2, <3>5, <3>6, <3>7, <3>8, <3>9
  <2>8. ASSUME Exact, pgWalk.forward, pgWalk.still
        PROVE  /\ Increasing(shown \o rows)
               /\ next = NoToken => pgWalk.stable \subseteq ToSet(shown \o rows)
    <3>1. Stretch(shown \o rows, all, 0) /\ Len(shown \o rows) = off + m /\ (next = NoToken => off + m = N)
      BY <2>7, <2>8
    <3>2. Increasing(shown \o rows) /\ (Len(shown \o rows) = N => pgTable \subseteq ToSet(shown \o rows))
      BY <1>1, <2>5, <3>1, StretchIs DEF N
    <3>3. QED  BY <1>2, <3>1, <3>2
  <2>9. ASSUME Exact, pgWalk.still
        PROVE  \E o \in Nat :
             /\ Stretch(rows, Ordered(pgTable), o)
             /\ next # NoToken => next.offset = o + m /\ m > 0 /\ m = next.size
             /\ prev # NoToken =>
                  /\ o > 0 /\ prev.offset = PrevOffset(o, prev.size)
                  /\ Stretch(pgPage.rows, Ordered(pgTable), prev.offset)
                  /\ Len(pgPage.rows) = o - prev.offset
                  /\ prev.size <= o
             /\ pgWalk.forward =>
                  /\ Stretch(shown \o rows, Ordered(pgTable), 0) /\ Len(shown \o rows) = o + m
                  /\ pgQuery.limit = 0 /\ next = NoToken => Len(shown \o rows) = Len(Ordered(pgTable))
    <3>1. next # NoToken => next.offset = off + m /\ m > 0 /\ m = next.size
      BY <2>1, <2>4, <2>5, <2>6
    <3> HIDE DEF shown
    <3>2. /\ Stretch(rows, Ordered(pgTable), off)
          /\ next # NoToken => next.offset = off + m /\ m > 0 /\ m = next.size
          /\ prev # NoToken =>
                  /\ off > 0 /\ prev.offset = PrevOffset(off, prev.size)
                  /\ Stretch(pgPage.rows, Ordered(pgTable), prev.offset)
                  /\ Len(pgPage.rows) = off - prev.offset
                  /\ prev.size <= off
          /\ pgWalk.forward =>
                  /\ Stretch(shown \o rows, Ordered(pgTable), 0) /\ Len(shown \o rows) = off + m
                  /\ pgQuery.limit = 0 /\ next = NoToken => Len(shown \o rows) = Len(Ordered(pgTable))
      BY <2>4, <2>7, <2>9, <3>1 DEF N
    <3>3. QED  BY <3>2
  <2>10. Shows("next", rows, next, prev)
    BY <2>4
  <2>11. QED  BY <1>1, <2>8, <2>9, <2>10, NextShown DEF m
<1>5. QED  BY <1>3, <1>4

LEMMA D1PrevStep ==
  ASSUME PagingInv, Rest, pgQuery.kind = "d1", pgPage.prev # NoToken, OffsetToken(pgPage.prev, "prev")
  PROVE  PagingInv'
<1> DEFINE token == pgPage.prev
           all == Ordered(pgTable)
           N == Len(all)
<1>1. PgTypeOK /\ pgQuery.kind \in OnePage /\ pgQuery.kind \notin Keyset
  BY DEF PagingInv, OnePage, Keyset
<1>2. token \in OffsetTokens /\ pgWalk.prior \in Seq(PgRows) /\ N \in Nat
  BY <1>1, TokensTyped, TokensAre, PlacesOf
<1>3. CASE token.text # pgQuery.text
  BY <1>1, <1>3, FailsStep DEF OffsetToken
<1>4. CASE token.text = pgQuery.text
  <2>1. PICK size \in Nat \ {0}, off \in Nat : size = token.size /\ off = token.offset
    BY <1>2 DEF OffsetTokens
  <2>2. AtOffset(size, off, "prev")
    BY <1>4, <2>1 DEF OffsetToken
  <2>3. PICK rows \in Seq(PgRows), next \in TokensOf(pgQuery.kind), prev \in TokensOf(pgQuery.kind), L \in Nat :
          ShownFrom(size, off, "prev", rows, next, prev, L)
    BY <1>1, <2>1, <2>2, AtOffsetIs
  <2> DEFINE m == Len(rows)
  <2>4. /\ Shows("prev", rows, next, prev) /\ m = Less(size, L)
        /\ next # NoToken <=> L > size
        /\ next # NoToken => next.size = size /\ next.offset = off + m
        /\ prev # NoToken <=> off > 0
        /\ prev # NoToken => prev.size = size /\ prev.offset = PrevOffset(off, size)
        /\ off <= N => L = Less(size + 1, N - off) /\ Stretch(rows, all, off)
    BY <2>3 DEF ShownFrom
  <2>5. m \in Nat /\ size \in Nat
    OBVIOUS
  <2> HIDE DEF m
  <2>6. m <= size /\ m <= L /\ (m = size \/ m = L)
    BY <2>4, <2>5, LessIs
  <2> HIDE DEF N, all
  <2>7. ASSUME Exact, pgWalk.still
        PROVE  Stretch(rows, all, off) /\ (pgPage.state = "next" => pgWalk.prior = rows)
    <3>1. PICK o \in Nat :
           /\ o > 0 /\ o <= N /\ off = PrevOffset(o, size)
           /\ pgPage.state = "next" => Stretch(pgWalk.prior, all, off) /\ Len(pgWalk.prior) = o - off /\ size <= o
      BY <1>1, <2>1, <2>7, PrevPlace DEF N, all
    <3>2. off <= o /\ (size <= o => off = o - size)
      BY <2>5, <3>1 DEF PrevOffset
    <3>3. off <= N
      BY <1>2, <2>1, <3>1, <3>2
    <3>4. Stretch(rows, all, off) /\ L = Less(size + 1, N - off)
      BY <2>4, <3>3
    <3>5. ASSUME pgPage.state = "next" PROVE pgWalk.prior = rows
      <4>1. off = o - size /\ Len(pgWalk.prior) = o - off /\ Stretch(pgWalk.prior, all, off)
        BY <3>1, <3>2, <3>5
      <4>0. N \in Nat /\ o \in Nat /\ size \in Nat /\ off \in Nat /\ o <= N /\ off = o - size
        BY <1>2, <2>1, <2>5, <3>1, <4>1
      <4>2. N - off \in Nat /\ size + 1 \in Nat /\ N - off >= size
        BY ONLY <4>0
      <4>3. L = size + 1 \/ L = N - off
        BY <3>4, <4>2, LessIs
      <4>4. m = size
        BY <2>5, <2>6, <4>2, <4>3
      <4>5. Len(pgWalk.prior) = m
        BY <2>1, <2>5, <3>1, <4>1, <4>4
      <4>6. QED  BY <1>2, <3>4, <4>1, <4>5, SameStretch DEF m
    <3>6. QED  BY <3>4, <3>5
  <2>8. ASSUME Exact, pgWalk.still
        PROVE  \E o \in Nat :
             /\ Stretch(rows, Ordered(pgTable), o)
             /\ next # NoToken => next.offset = o + m /\ m > 0 /\ m = next.size
             /\ prev # NoToken => o > 0 /\ prev.offset = PrevOffset(o, prev.size)
    <3>1. next # NoToken => m > 0 /\ m = next.size
      BY <2>1, <2>4, <2>5, <2>6
    <3>2. /\ Stretch(rows, Ordered(pgTable), off)
          /\ next # NoToken => next.offset = off + m /\ m > 0 /\ m = next.size
          /\ prev # NoToken => off > 0 /\ prev.offset = PrevOffset(off, prev.size)
      BY <2>4, <2>7, <2>8, <3>1 DEF all
    <3>3. QED  BY <3>2
  <2>9. Shows("prev", rows, next, prev)
    BY <2>4
  <2>10. QED  BY <1>1, <2>7, <2>8, <2>9, PrevShown DEF m
<1>5. QED  BY <1>3, <1>4

(* The list of tables and views.                                           *)
LEMMA ListIs ==
  ASSUME PgTypeOK, pgQuery.kind = "entities", NEW limit \in Nat \ {0}, NEW cursor \in Nat, NEW how, ListPage(limit, cursor, how)
  PROVE  \E rows \in Seq(PgRows), next \in TokensOf(pgQuery.kind) :
           /\ Shows(how, rows, next, NoToken)
           /\ Leads(rows, After(cursor)) /\ \E n \in Nat : PageOf(rows, After(cursor), n)
           /\ next # NoToken => Len(rows) > 0 /\ next.end = rows[Len(rows)]
           /\ next = NoToken => After(cursor) \subseteq ToSet(rows)
<1> DEFINE n == limit + 1
           got == Answered(cursor, "next", n)
           L == Len(got)
           rows == SubSeq(got, 1, Less(limit, L))
           m == Len(rows)
           next == IF L > limit THEN [at |-> "name", limit |-> limit, end |-> rows[limit]] ELSE NoToken
<1>1. Exact /\ n \in Nat /\ limit \in Nat
  <2>1. pgQuery.order \in {"unique", "ties"} /\ "entities" \notin Keyset
    BY DEF PgTypeOK, Queries, Keyset
  <2>2. QED  BY <2>1 DEF Exact, Kind, PgTypeOK
<1>2. Shows(how, rows, next, NoToken)
  BY DEF ListPage
<1>3. n = limit + 1
  OBVIOUS
<1> HIDE DEF n
<1>4. PageOf(got, After(cursor), n)
  BY <1>1, AnsweredNext
<1> HIDE DEF got
<1>12. rows = SubSeq(got, 1, Less(limit, Len(got)))
  OBVIOUS
<1> HIDE DEF rows
<1>13. IsCut(rows, got, cursor, limit, n)
  BY <1>1, <1>4, <1>12, CutPage
<1>5. /\ PageOf(rows, After(cursor), Less(limit, n)) /\ rows \in Seq(PgRows) /\ Leads(rows, After(cursor))
      /\ m = Less(limit, L) /\ L \in Nat /\ L <= n
      /\ L <= limit /\ L < n => After(cursor) \subseteq ToSet(rows)
  BY <1>13 DEF IsCut
<1> HIDE DEF L
<1>6. m \in Nat /\ Less(limit, n) \in Nat
  BY <1>1, <1>5, LessIs
<1> HIDE DEF m
<1>7. m <= limit /\ m <= L /\ (m = limit \/ m = L)
  BY <1>1, <1>5, LessIs
<1>8. L > limit => m = limit
  BY <1>5, <1>6, <1>7
<1>9. CASE L > limit
  <2>1. m = limit /\ m > 0 /\ m \in 1 .. m
    BY <1>6, <1>8, <1>9
  <2>2. rows[m] \in PgRows
    BY <1>5, <2>1 DEF m
  <2>3. rows[limit] = rows[m] /\ rows[limit] \in Nat
    BY <2>1, <2>2, PagingAssumption
  <2>4. next = [at |-> "name", limit |-> limit, end |-> rows[limit]]
    BY <1>9
  <2>5. next \in NameTokens /\ next.at = "name" /\ next.end = rows[limit]
    BY <2>3, <2>4 DEF NameTokens
  <2>6. next # NoToken
    BY <2>5 DEF NoToken
  <2>7. next \in TokensOf(pgQuery.kind)
    BY <2>5, TokensAre
  <2> HIDE DEF next
  <2>8. QED  BY <1>2, <1>5, <1>6, <2>1, <2>3, <2>5, <2>6, <2>7 DEF m
<1>10. CASE ~(L > limit)
  <2>1. next = NoToken /\ NoToken \in TokensOf(pgQuery.kind)
    BY <1>10 DEF TokensOf
  <2>2. L <= limit /\ L < n
    BY <1>1, <1>3, <1>5, <1>10
  <2> HIDE DEF next
  <2>3. QED  BY <1>2, <1>5, <1>6, <2>1, <2>2
<1>11. QED  BY <1>9, <1>10

LEMMA ListFirstStep ==
  ASSUME PagingInv, Rest, pgQuery.kind = "entities", NEW s \in PgSizes \ {0}, ListPage(s, 0, "first")
  PROVE  PagingInv'
<1>1. PgTypeOK /\ pgQuery.kind \in OnePage /\ pgQuery.kind \notin Keyset /\ s \in Nat \ {0}
  BY PagingAssumption DEF PagingInv, OnePage, Keyset
<1>2. PICK rows \in Seq(PgRows), next \in TokensOf(pgQuery.kind) :
           /\ Shows("first", rows, next, NoToken)
           /\ Leads(rows, After(0)) /\ \E n \in Nat : PageOf(rows, After(0), n)
           /\ next # NoToken => Len(rows) > 0 /\ next.end = rows[Len(rows)]
           /\ next = NoToken => After(0) \subseteq ToSet(rows)
  BY <1>1, ListIs
<1>3. PICK n \in Nat : PageOf(rows, After(0), n)
  BY <1>2
<1>4. /\ Increasing(rows) /\ (After(0) \subseteq ToSet(rows) => pgTable \subseteq ToSet(rows))
      /\ Len(rows) > 0 => SeenTo(rows, pgTable, rows[Len(rows)])
  BY <1>1, <1>3, FirstRows
<1>5. QED  BY <1>1, <1>2, <1>4, FirstShown

LEMMA ListNextStep ==
  ASSUME PagingInv, Rest, pgQuery.kind = "entities", pgPage.next # NoToken, ListPage(pgPage.next.limit, pgPage.next.end, "next")
  PROVE  PagingInv'
<1> DEFINE shown == pgWalk.shown
<1>1. PgTypeOK /\ pgQuery.kind \in OnePage /\ pgQuery.kind \notin Keyset /\ NoToken \in TokensOf(pgQuery.kind) /\ pgQuery.kind # "d1"
  BY DEF PagingInv, OnePage, Keyset, TokensOf
<1>2. pgPage.next \in NameTokens /\ shown \in Seq(PgRows) /\ pgWalk.stable \in SUBSET pgTable /\ pgTable \in SUBSET PgRows
  BY <1>1, TokensTyped, TokensAre, TableRows
<1>3. PICK limit \in Nat \ {0}, end \in Nat : limit = pgPage.next.limit /\ end = pgPage.next.end
  BY <1>2 DEF NameTokens
<1>4. PICK rows \in Seq(PgRows), next \in TokensOf(pgQuery.kind) :
           /\ Shows("next", rows, next, NoToken)
           /\ Leads(rows, After(end)) /\ \E n \in Nat : PageOf(rows, After(end), n)
           /\ next # NoToken => Len(rows) > 0 /\ next.end = rows[Len(rows)]
           /\ next = NoToken => After(end) \subseteq ToSet(rows)
  BY <1>1, <1>3, ListIs
<1>5. ASSUME Exact, pgWalk.forward
      PROVE  /\ Increasing(shown \o rows)
             /\ next # NoToken => SeenTo(shown \o rows, pgWalk.stable, next.end)
             /\ next = NoToken => pgWalk.stable \subseteq ToSet(shown \o rows)
  <2>1. Increasing(shown) /\ SeenTo(shown, pgWalk.stable \cap Asked, end)
    BY <1>1, <1>3, <1>5 DEF PagingInv, WalkForward
  <2>2. pgWalk.stable \cap Asked = pgWalk.stable
    BY <1>2 DEF Asked
  <2>3. After(end) \in SUBSET After(end) /\ \A r \in pgWalk.stable : r > end => r \in After(end)
    BY <1>2 DEF After
  <2>4. /\ Increasing(shown \o rows)
        /\ After(end) \subseteq ToSet(rows) => pgWalk.stable \subseteq ToSet(shown \o rows)
        /\ Len(rows) > 0 => SeenTo(shown \o rows, pgWalk.stable, rows[Len(rows)])
    BY <1>2, <1>4, <2>1, <2>2, <2>3, WalkGrows
  <2>5. QED  BY <1>4, <2>4
<1>6. Shows("next", rows, next, NoToken)
  BY <1>4
<1> HIDE DEF shown
<1>7. QED  BY <1>1, <1>5, <1>6, NextShown DEF shown

(* The cursors of a scan.                                                  *)
LEMMA ScanStep == ASSUME PagingInv, ScanKeys PROVE PagingInv'
<1>1. /\ pgQuery.kind = "keys" /\ ~pgScan.done /\ PgTypeOK
      /\ UNCHANGED <<pgQuery, pgTable, pgPage, pgWalk, pgCall, pgChanged>>
  BY DEF ScanKeys, PagingInv, Kind
<1>2. PICK loops \in {1, 2} :
         LET From(n) == pgScan.at[n]
             To(n) == Less(From(n) + loops, PgSlots[n])
             at == [n \in PgNodes |-> To(n) % PgSlots[n]]
         IN  pgScan' = [at |-> at, done |-> \A n \in PgNodes : at[n] = 0,
                        keys |-> pgScan.keys \cup UNION {{<<n, k>> : k \in From(n) + 1 .. To(n)} : n \in PgNodes}]
  BY DEF ScanKeys
<1> DEFINE From(n) == pgScan.at[n]
           To(n) == Less(From(n) + loops, PgSlots[n])
           at == [n \in PgNodes |-> To(n) % PgSlots[n]]
           new == UNION {{<<n, k>> : k \in From(n) + 1 .. To(n)} : n \in PgNodes}
<1>3. pgScan'.at = at /\ (pgScan'.done <=> \A n \in PgNodes : at[n] = 0) /\ pgScan'.keys = pgScan.keys \cup new
      /\ pgScan' = [at |-> at, done |-> \A n \in PgNodes : at[n] = 0, keys |-> pgScan.keys \cup new]
  BY <1>2
<1>4. pgScan \in Scans
  BY <1>1 DEF PgTypeOK
<1>5. ASSUME NEW n \in PgNodes
      PROVE  /\ PgSlots[n] \in Nat \ {0} /\ From(n) \in Nat /\ From(n) < PgSlots[n] /\ To(n) \in Nat
             /\ From(n) < To(n) /\ To(n) <= PgSlots[n]
             /\ at[n] \in Nat /\ at[n] < PgSlots[n]
             /\ IF To(n) = PgSlots[n] THEN at[n] = 0 ELSE at[n] = To(n)
  <2>1. PgSlots[n] \in Nat \ {0} /\ From(n) \in Nat /\ From(n) < PgSlots[n]
    BY <1>4, PagingAssumption DEF Scans, PagingInv, ScanSeen
  <2>2. PICK f \in Nat, z \in Nat \ {0} : f = From(n) /\ z = PgSlots[n] /\ f < z
    BY <2>1
  <2> DEFINE t == Less(f + loops, z)
  <2>3. t \in Nat /\ f < t /\ t <= z
    BY <2>1, <2>2 DEF Less
  <2>4. IF t = z THEN t % z = 0 ELSE t % z = t
    BY <2>2, <2>3
  <2>5. at[n] = t % z /\ t = To(n)
    BY <2>2
  <2> HIDE DEF t
  <2>6. QED  BY <2>1, <2>2, <2>3, <2>4, <2>5
<1>6. ASSUME NEW n \in PgNodes PROVE \A k \in Nat : <<n, k>> \in new <=> k \in From(n) + 1 .. To(n)
  BY <1>6
<1>7. new \in SUBSET (PgNodes \X Nat)
  <2>1. ASSUME NEW n \in PgNodes, NEW k \in From(n) + 1 .. To(n) PROVE k \in Nat
    BY <1>5
  <2>2. QED  BY <2>1
<1>8. at \in [PgNodes -> Nat]
  BY <1>5
<1> HIDE DEF new, at, From, To
<1>9. pgScan' \in Scans
  BY <1>3, <1>4, <1>7, <1>8 DEF Scans
<1>10. ASSUME NEW n \in PgNodes PROVE KeysSeen(n)' = KeysSeen(n) \cup (From(n) + 1 .. To(n))
  <2>1. ASSUME NEW k \in Nat PROVE <<n, k>> \in pgScan'.keys <=> <<n, k>> \in pgScan.keys \/ k \in From(n) + 1 .. To(n)
    BY <1>3, <1>6
  <2>2. \A k \in From(n) + 1 .. To(n) : k \in Nat
    BY <1>5
  <2>3. QED  BY <2>1, <2>2 DEF KeysSeen
<1>11. ScanSeen'
  <2>1. ASSUME NEW n \in PgNodes
        PROVE  /\ pgScan'.at[n] < PgSlots[n]
               /\ KeysSeen(n)' = 1 .. pgScan'.at[n] \/ KeysSeen(n)' = 1 .. PgSlots[n]
               /\ pgScan'.done => KeysSeen(n)' = 1 .. PgSlots[n]
    <3>1. KeysSeen(n) = 1 .. From(n) \/ KeysSeen(n) = 1 .. PgSlots[n]
      BY DEF PagingInv, ScanSeen, From
    <3>9. PICK f \in Nat, t \in Nat, z \in Nat : f = From(n) /\ t = To(n) /\ z = PgSlots[n] /\ f < t /\ t <= z
      BY <1>5
    <3>10. (1 .. f) \cup (f + 1 .. t) = 1 .. t /\ (1 .. z) \cup (f + 1 .. t) = 1 .. z
      BY <3>9
    <3>2. KeysSeen(n) = 1 .. From(n) => KeysSeen(n)' = 1 .. To(n)
      BY <1>10, <3>9, <3>10
    <3>3. KeysSeen(n) = 1 .. PgSlots[n] => KeysSeen(n)' = 1 .. PgSlots[n]
      BY <1>10, <3>9, <3>10
    <3>4. KeysSeen(n)' = 1 .. To(n) \/ KeysSeen(n)' = 1 .. PgSlots[n]
      BY <3>1, <3>2, <3>3
    <3>5. pgScan'.at[n] = at[n] /\ (pgScan'.done => at[n] = 0)
      BY <1>3
    <3>6. at[n] = 0 => To(n) = PgSlots[n]
      BY <1>5
    <3>7. To(n) = PgSlots[n] \/ To(n) = at[n]
      BY <1>5
    <3>8. QED  BY <1>5, <3>4, <3>5, <3>6, <3>7
  <2>2. QED  BY <2>1 DEF ScanSeen
<1>12. pgQuery' = pgQuery /\ pgTable' = pgTable /\ pgPage' = pgPage /\ pgWalk' = pgWalk /\ pgCall' = pgCall
  BY <1>1
<1>13. PgTypeOK'
  <2>1. pgPage' \in Pages' /\ pgCall' \in CallsOf(pgQuery.kind)' /\ pgWalk' \in Walks'
    BY <1>1, <1>12, SameQuery DEF PgTypeOK
  <2>2. pgScan' \in Scans'
    BY <1>9 DEF Scans
  <2>3. QED  BY <1>1, <1>12, <2>1, <2>2 DEF PgTypeOK, Queries, Keyset, AtStart
<1>14. (Exact' <=> Exact) /\ Asked' = Asked /\ Total' = Total
  BY <1>1, SameQuery
<1>15. WalkForward'
  BY <1>12, <1>14 DEF PagingInv, WalkForward, Through
<1>16. WalkLimited' /\ WentBack'
  BY <1>12, <1>14 DEF PagingInv, WalkLimited, WentBack
<1>17. Placed'
  BY <1>1, <1>12 DEF Placed, Keyset
<1>18. pgCall' = NoCall
  BY <1>1, <1>12, NoCallUnderWay
<1>19. CallSeen' /\ CallBounded'
  BY <1>18 DEF CallSeen, CallBounded
<1>20. QED  BY <1>11, <1>13, <1>15, <1>16, <1>17, <1>19 DEF PagingInv

(* Calls of several pages of the service.                                  *)
Multi == {"bounded", "tables"}
SeenIn(c) == IF c.how = "first" THEN c.rows ELSE pgWalk.shown \o c.rows
OfIn(c) == IF c.how = "first" THEN c.since ELSE pgWalk.stable

LEMMA CallTyped ==
  ASSUME PgTypeOK, pgQuery.kind \in Multi, pgCall # NoCall
  PROVE  /\ pgCall.how \in {"first", "next"} /\ pgCall.rows \in Seq(PgRows) /\ pgCall.after \in Nat /\ pgCall.size \in Nat \ {0}
         /\ pgCall.since \in SUBSET pgTable /\ pgWalk.stable \in SUBSET pgTable /\ pgWalk.shown \in Seq(PgRows)
         /\ pgWalk.forward /\ pgCall.pc \in {"page", "done"} /\ pgTable \in SUBSET PgRows
         /\ pgQuery.kind = "bounded" => pgCall \in BoundedCalls
         /\ pgQuery.kind = "tables" => pgCall \in TableCalls
<1>1. pgCall \in CallsOf(pgQuery.kind) /\ pgCall.since \subseteq pgTable
  BY DEF PgTypeOK
<1>2. (pgQuery.kind = "bounded" => pgCall \in BoundedCalls) /\ (pgQuery.kind = "tables" => pgCall \in TableCalls)
  BY <1>1, CallsAre
<1>3. /\ pgCall.how \in {"first", "next"} /\ pgCall.rows \in Seq(PgRows) /\ pgCall.after \in Nat /\ pgCall.size \in Nat \ {0}
      /\ pgCall.pc \in {"page", "done"}
  BY <1>2 DEF BoundedCalls, TableCalls, Multi
<1>4. pgWalk.stable \in SUBSET pgTable /\ pgWalk.shown \in Seq(PgRows) /\ pgTable \in SUBSET PgRows
  BY TokensTyped, TableRows
<1>5. pgWalk.forward
  BY DEF PgTypeOK, Multi
<1>6. QED  BY <1>1, <1>2, <1>3, <1>4, <1>5

LEMMA MultiExact == ASSUME PgTypeOK, pgQuery.kind \in Multi
                    PROVE  Exact /\ Asked = pgQuery.pick /\ pgQuery.kind \notin Keyset /\ pgQuery.kind # "d1"
<1>1. pgQuery.kind \notin Keyset /\ pgQuery.kind # "d1" /\ pgQuery.kind # "sql" /\ pgQuery.order \in {"unique", "ties"}
  BY DEF PgTypeOK, Queries, Multi, Keyset
<1>2. QED  BY <1>1 DEF Exact, Asked, Kind, Multi, PgTypeOK

LEMMA CallEndsStep ==
  ASSUME PagingInv, pgQuery.kind \in Multi, pgCall # NoCall, NEW c, c.how = pgCall.how, c.since = pgCall.since,
         c.rows \in Seq(PgRows), Increasing(SeenIn(c)), NEW end \in Nat, CallEnds(c, end),
         end = 0 => OfIn(c) \cap pgQuery.pick \subseteq ToSet(SeenIn(c)),
         end # 0 => SeenTo(SeenIn(c), OfIn(c) \cap pgQuery.pick, end)
  PROVE  PagingInv'
<1> DEFINE next == IF end = 0 THEN NoToken ELSE [at |-> "service", end |-> end]
<1>1. /\ Shows(c.how, c.rows, next, NoToken) /\ pgCall' = NoCall /\ UNCHANGED <<pgQuery, pgTable, pgScan>> /\ PgTypeOK
  BY DEF CallEnds, PagingInv
<1>2. NoToken \in TokensOf(pgQuery.kind) /\ next \in TokensOf(pgQuery.kind)
      /\ (next # NoToken <=> end # 0) /\ (end # 0 => next.end = end)
  <2>1. NoToken \in TokensOf(pgQuery.kind) /\ ServiceTokens \subseteq TokensOf(pgQuery.kind)
    BY TokensAre DEF Multi, TokensOf
  <2>2. ASSUME end # 0 PROVE next \in ServiceTokens /\ next.at = "service" /\ next.end = end
    BY <2>2 DEF ServiceTokens
  <2>3. end = 0 => next = NoToken
    OBVIOUS
  <2>4. NoToken.at = "none"
    BY DEF NoToken
  <2> HIDE DEF next
  <2>5. QED  BY <2>1, <2>2, <2>3, <2>4
<1> HIDE DEF next
<1>3. /\ c.how \in {"first", "next"} /\ pgWalk.forward
  BY <1>1, CallTyped
<1>4. /\ pgPage' \in Pages /\ pgPage'.state = c.how /\ pgPage'.next = next /\ pgPage'.prev = NoToken
      /\ c.how = "first" => pgWalk'.shown = c.rows /\ pgWalk'.stable = pgCall.since
      /\ c.how = "next" => pgWalk'.shown = pgWalk.shown \o c.rows /\ pgWalk'.stable = pgWalk.stable
  BY ZenonT(40), <1>1, <1>2, <1>3, ShowsIs
<1>5. pgWalk'.shown = SeenIn(c) /\ pgWalk'.stable = OfIn(c)
  BY <1>3, <1>4 DEF SeenIn, OfIn
<1>6. PgTypeOK'
  BY <1>1, <1>2, <1>3, PageTyped
<1>7. pgQuery' = pgQuery /\ Asked' = Asked /\ Asked = pgQuery.pick /\ pgQuery.kind \notin Keyset /\ pgQuery.kind # "d1"
  BY <1>1, MultiExact, SameQuery
<1>8. WalkForward'
  BY <1>2, <1>4, <1>5, <1>7 DEF WalkForward, Through
<1>9. WalkLimited' /\ Placed' /\ WentBack'
  BY <1>3, <1>4, <1>7 DEF WalkLimited, Placed, WentBack
<1>10. CallSeen' /\ CallBounded'
  BY <1>1 DEF CallSeen, CallBounded
<1>11. ScanSeen'
  BY <1>1 DEF PagingInv, ScanSeen, KeysSeen
<1>12. QED  BY <1>6, <1>8, <1>9, <1>10, <1>11 DEF PagingInv

LEMMA CallStep ==
  ASSUME PagingInv, pgQuery.kind \in Multi, UNCHANGED <<pgQuery, pgTable, pgPage, pgWalk, pgScan>>,
         pgCall' \in CallsOf(pgQuery.kind), pgCall'.since \subseteq pgTable, CallSeen', CallBounded'
  PROVE  PagingInv'
<1>1. PgTypeOK /\ pgQuery' = pgQuery /\ pgTable' = pgTable /\ pgPage' = pgPage /\ pgWalk' = pgWalk /\ pgScan' = pgScan
  BY DEF PagingInv
<1>2. PgTypeOK'
  <2>1. pgPage' \in Pages' /\ pgCall' \in CallsOf(pgQuery.kind)' /\ pgWalk' \in Walks'
    BY <1>1, SameQuery DEF PgTypeOK
  <2>2. QED  BY <1>1, <2>1 DEF PgTypeOK, Queries, Keyset, AtStart, Scans
<1>3. (Exact' <=> Exact) /\ Asked' = Asked /\ Total' = Total
  BY <1>1, SameQuery
<1>4. WalkForward' /\ WentBack'
  BY <1>1, <1>3 DEF PagingInv, WalkForward, Through, WentBack
<1>5. WalkLimited' /\ Placed'
  BY <1>1, MultiExact DEF WalkLimited, Placed
<1>6. ScanSeen'
  BY <1>1 DEF PagingInv, ScanSeen, KeysSeen
<1>7. QED  BY <1>2, <1>4, <1>5, <1>6 DEF PagingInv

(* A page of the service, and where it stopped.                            *)
ServiceGot(after, hits, stop) ==
  /\ Leads(hits, After(after) \cap pgQuery.pick) /\ stop \in Nat
  /\ stop = 0 => After(after) \cap pgQuery.pick \subseteq ToSet(hits)
  /\ stop # 0 => /\ stop > after /\ \A i \in DOMAIN hits : hits[i] <= stop
                 /\ \A r \in After(after) \cap pgQuery.pick : r <= stop => r \in ToSet(hits)

HitsOf(hits, got) == hits = Ordered(ToSet(got) \cap pgQuery.pick)

LEMMA GotIs ==
  ASSUME PgTypeOK, NEW after \in Nat, NEW n \in Nat \ {0}, NEW got, got = Evaluated(after, n),
         NEW hits, HitsOf(hits, got), NEW stop \in Stopped(after, n)
  PROVE  ServiceGot(after, hits, stop) /\ Len(got) \in Nat /\ Len(got) <= n /\ Len(hits) \in Nat /\ Len(hits) <= Len(got)
<1> DEFINE W == After(after) \cap pgQuery.pick
           H == ToSet(got) \cap pgQuery.pick
           last == got[Len(got)]
<1>1. After(after) \in SUBSET PgRows /\ \A r \in After(after) : r \in Nat /\ r > after /\ r > 0
  <2>1. After(after) \in SUBSET PgRows
    BY TableRows
  <2>2. QED  BY <2>1, RowsFinite DEF After
<1>2. PageOf(got, After(after), n)
  BY EvaluatedIs
<1>3. /\ got \in Seq(After(after)) /\ Increasing(got) /\ Len(got) <= n
      /\ Len(got) < n => After(after) \subseteq ToSet(got)
      /\ \A r \in After(after) : r \in ToSet(got) \/ \A i \in DOMAIN got : got[i] < r
  BY <1>2 DEF PageOf
<1>4. Len(got) \in Nat /\ DOMAIN got = 1 .. Len(got) /\ \A i \in DOMAIN got : got[i] \in After(after)
  BY <1>3
<1>5. ToSet(got) \subseteq After(after) /\ ToSet(got) \in SUBSET Nat /\ IsFiniteSet(ToSet(got)) /\ Cardinality(ToSet(got)) = Len(got)
  <2>1. ToSet(got) \subseteq After(after)
    BY <1>4 DEF ToSet
  <2>2. got \in Seq(ToSet(got)) /\ Onto(got, ToSet(got)) /\ ToSet(got) \subseteq Nat
    <3>1. \A i \in 1 .. Len(got) : got[i] \in ToSet(got)
      BY <1>4 DEF ToSet
    <3>2. got \in Seq(ToSet(got))
      BY <1>3, <1>4, <3>1
    <3>3. QED  BY <1>1, <2>1, <3>2 DEF Onto, ToSet
  <2>3. got = Ordered(ToSet(got)) /\ IsFiniteSet(ToSet(got))
    BY <1>3, <2>2, OrderedUnique
  <2>4. Len(Ordered(ToSet(got))) = Cardinality(ToSet(got))
    BY <2>2, <2>3, OrderedIs
  <2>5. QED  BY <2>1, <2>2, <2>3, <2>4
<1>6. H \subseteq Nat /\ IsFiniteSet(H) /\ Cardinality(H) <= Len(got) /\ H \subseteq W
  <2>1. H \in SUBSET ToSet(got)
    OBVIOUS
  <2>2. QED  BY <1>5, <2>1, FS_Subset
<1>23. hits = Ordered(H)
  BY DEF HitsOf
<1> HIDE DEF H
<1>7. hits \in Seq(H) /\ Len(hits) = Cardinality(H) /\ Len(hits) \in Nat /\ Increasing(hits) /\ Onto(hits, H)
  BY <1>6, <1>23, OrderedIs
<1>8. DOMAIN hits = 1 .. Len(hits) /\ \A i \in DOMAIN hits : hits[i] \in H
  BY <1>7
<1>9. \A r : r \in ToSet(hits) <=> r \in ToSet(got) /\ r \in pgQuery.pick
  <2>1. ASSUME NEW r \in H PROVE r \in ToSet(hits)
    <3>1. PICK i \in DOMAIN hits : hits[i] = r
      BY <1>7 DEF Onto
    <3>2. QED  BY <3>1 DEF ToSet
  <2>2. ASSUME NEW r \in ToSet(hits) PROVE r \in H
    BY <1>8 DEF ToSet
  <2>3. QED  BY <2>1, <2>2 DEF H
<1>10. hits \in Seq(W)
  BY <1>6, <1>7, SeqWider
<1>11. ASSUME NEW i \in DOMAIN hits PROVE \E j \in DOMAIN got : got[j] = hits[i]
  BY <1>8 DEF ToSet, H
<1>12. ASSUME NEW r \in W, r \notin ToSet(hits) PROVE \A i \in DOMAIN hits : hits[i] < r
  <2>1. r \notin ToSet(got)
    BY <1>9, <1>12
  <2>2. \A j \in DOMAIN got : got[j] < r
    BY <1>3, <1>12, <2>1
  <2>3. QED  BY <1>11, <2>2
<1>13. Leads(hits, W)
  BY <1>7, <1>10, <1>12 DEF Leads
<1>14. ASSUME Len(got) > 0
       PROVE  /\ last \in After(after) /\ last \in Nat /\ last > after /\ last # 0
              /\ \A i \in DOMAIN got : got[i] <= last
              /\ \A r \in After(after) : r <= last => r \in ToSet(got)
  <2>1. Len(got) \in DOMAIN got
    BY <1>4, <1>14
  <2>2. last \in After(after) /\ last \in Nat /\ last > after /\ last # 0
    BY <1>1, <1>4, <2>1
  <2>3. ASSUME NEW i \in DOMAIN got PROVE got[i] <= last
    <3>1. i = Len(got) \/ i < Len(got)
      BY <1>4
    <3>2. got[i] \in Nat
      BY <1>1, <1>4
    <3>3. i < Len(got) => got[i] < last
      BY <1>3, <2>1 DEF Increasing
    <3>4. i = Len(got) => got[i] = last
      OBVIOUS
    <3> HIDE DEF last
    <3>5. QED  BY <2>2, <3>1, <3>2, <3>3, <3>4
  <2>4. ASSUME NEW r \in After(after), r <= last PROVE r \in ToSet(got)
    <3>1. r \in Nat /\ ~(last < r)
      BY <1>1, <2>2, <2>4
    <3>2. QED  BY <1>3, <2>1, <3>1
  <2>5. QED  BY <2>2, <2>3, <2>4
<1>15. (\E r \in pgTable : r > after /\ r \notin ToSet(got)) <=> ~(After(after) \subseteq ToSet(got))
  BY DEF After
<1>16. \/ Len(got) > 0 /\ stop = last
       \/ stop = 0 /\ After(after) \subseteq ToSet(got)
  <2>1. CASE ~(After(after) \subseteq ToSet(got))
    <3>1. stop \in {got[Len(got)]}
      BY <1>15, <2>1 DEF Stopped
    <3>2. ~(Len(got) < n)
      BY <1>3, <2>1
    <3>3. Len(got) > 0
      BY <1>4, <3>2
    <3>4. QED  BY <3>1, <3>3
  <2>2. CASE After(after) \subseteq ToSet(got)
    <3>1. stop \in {0} \cup {got[k] : k \in {Len(got)} \ {0}}
      BY <1>15, <2>2 DEF Stopped
    <3>2. stop = 0 \/ (Len(got) # 0 /\ stop = last)
      BY <3>1
    <3>3. QED  BY <1>4, <2>2, <3>2
  <2>3. QED  BY <2>1, <2>2
<1> HIDE DEF last
<1>17. stop \in Nat /\ (stop = 0 => After(after) \subseteq ToSet(got)) /\ (stop # 0 => Len(got) > 0 /\ stop = last)
  BY <1>14, <1>16
<1>18. stop = 0 => W \subseteq ToSet(hits)
  BY <1>9, <1>17
<1>19. stop # 0 => stop > after /\ \A i \in DOMAIN hits : hits[i] <= stop
  BY <1>11, <1>14, <1>17
<1>20. stop # 0 => \A r \in W : r <= stop => r \in ToSet(hits)
  BY <1>9, <1>14, <1>17
<1>21. Len(hits) <= Len(got)
  BY <1>6, <1>7
<1>22. QED  BY <1>3, <1>4, <1>7, <1>13, <1>17, <1>18, <1>19, <1>20, <1>21 DEF ServiceGot

LEMMA StopGrows ==
  ASSUME pgTable \in SUBSET PgRows, NEW shown \in Seq(PgRows), NEW set \in SUBSET (pgTable \cap pgQuery.pick), NEW after \in Nat,
         Increasing(shown), SeenTo(shown, set, after), NEW hits, NEW stop, ServiceGot(after, hits, stop)
  PROVE  /\ Increasing(shown \o hits)
         /\ stop = 0 => set \subseteq ToSet(shown \o hits)
         /\ stop # 0 => SeenTo(shown \o hits, set, stop)
<1> DEFINE W == After(after) \cap pgQuery.pick
<1>1. W \in SUBSET After(after) /\ (\A r \in set : r > after => r \in W) /\ set \in SUBSET pgTable
  BY DEF After
<1>2. Leads(hits, W) /\ stop \in Nat
  BY DEF ServiceGot
<1>3. Increasing(shown \o hits) /\ (W \subseteq ToSet(hits) => set \subseteq ToSet(shown \o hits))
  BY <1>1, <1>2, WalkGrows
<1>4. hits \in Seq(PgRows) /\ PgRows \subseteq Nat
  <2>1. hits \in Seq(W) /\ W \subseteq PgRows
    BY <1>2 DEF Leads, After
  <2>2. QED  BY <2>1, SeqWider, PagingAssumption
<1>5. ASSUME stop # 0 PROVE SeenTo(shown \o hits, set, stop)
  <2>1. stop > after /\ (\A i \in DOMAIN hits : hits[i] <= stop) /\ \A r \in W : r <= stop => r \in ToSet(hits)
    BY <1>5 DEF ServiceGot
  <2>2. ASSUME NEW i \in DOMAIN (shown \o hits) PROVE (shown \o hits)[i] <= stop
    <3>1. CASE i <= Len(shown)
      <4>1. (shown \o hits)[i] = shown[i] /\ i \in DOMAIN shown
        BY <1>4, <3>1, ConcatIs
      <4>0. shown[i] \in PgRows
        BY <4>1
      <4>2. shown[i] \in Nat /\ shown[i] <= after
        BY <1>4, <4>0, <4>1 DEF SeenTo
      <4>3. QED  BY <1>2, <2>1, <4>1, <4>2
    <3>2. CASE ~(i <= Len(shown))
      <4>1. i - Len(shown) \in DOMAIN hits /\ (shown \o hits)[i] = hits[i - Len(shown)]
        BY <1>4, <3>2, ConcatIs
      <4>2. QED  BY <2>1, <4>1
    <3>3. QED  BY <3>1, <3>2
  <2>3. ASSUME NEW r \in set, r <= stop PROVE r \in ToSet(shown \o hits)
    <3>1. ToSet(shown \o hits) = ToSet(shown) \cup ToSet(hits)
      BY <1>4, ToSetOfConcat
    <3>2. r \in Nat
      BY <1>4
    <3>3. CASE r <= after
      BY <3>1, <3>3 DEF SeenTo
    <3>4. CASE r > after
      BY <1>1, <2>1, <2>3, <3>1, <3>4
    <3>5. QED  BY <3>2, <3>3, <3>4
  <2>4. QED  BY <2>2, <2>3 DEF SeenTo
<1>6. stop = 0 => W \subseteq ToSet(hits)
  BY DEF ServiceGot
<1>7. QED  BY <1>3, <1>5, <1>6

(* Where a call begins: at the start, or at the token of the page shown.   *)
BeginAt == IF AtStart THEN 0 ELSE pgPage.next.end
BeginHow == IF AtStart THEN "first" ELSE "next"
BeginsAt(after, how) ==
  /\ after \in Nat /\ how \in {"first", "next"}
  /\ Increasing(IF how = "first" THEN <<>> ELSE pgWalk.shown \o <<>>)
  /\ SeenTo(IF how = "first" THEN <<>> ELSE pgWalk.shown \o <<>>,
            (IF how = "first" THEN pgTable ELSE pgWalk.stable) \cap pgQuery.pick, after)

LEMMA BeginSeen ==
  ASSUME PagingInv, pgQuery.kind \in Multi, AtStart \/ pgPage.next # NoToken
  PROVE  BeginsAt(BeginAt, BeginHow)
<1> DEFINE after == BeginAt
           how == BeginHow
<1>1. PgTypeOK /\ Exact /\ Asked = pgQuery.pick /\ pgQuery.kind # "d1"
  BY MultiExact DEF PagingInv
<1>2. CASE AtStart
  <2>1. after = 0 /\ how = "first"
    BY <1>2 DEF BeginAt, BeginHow
  <2>2. \A r \in pgTable : ~(r <= 0)
    BY <1>1, TableRows, RowsFinite
  <2>3. DOMAIN <<>> = {}
    OBVIOUS
  <2> HIDE DEF after, how
  <2>4. BeginsAt(after, how)
    BY <2>1, <2>2, <2>3 DEF Increasing, SeenTo, BeginsAt
  <2>5. QED  BY <2>4 DEF after, how
<1>3. CASE ~AtStart
  <2>1. after = pgPage.next.end /\ how = "next" /\ pgPage.next # NoToken
    BY <1>3 DEF BeginAt, BeginHow
  <2>2. pgPage.next \in ServiceTokens
    BY <1>1, <2>1, TokensTyped, TokensAre DEF Multi
  <2>3. after \in Nat
    BY <2>1, <2>2 DEF ServiceTokens
  <2>4. pgWalk.shown \in Seq(PgRows) /\ pgWalk.forward
    BY <1>1, TokensTyped DEF PgTypeOK, Multi
  <2>5. pgWalk.shown \o <<>> = pgWalk.shown
    BY <2>4
  <2>6. Increasing(pgWalk.shown) /\ SeenTo(pgWalk.shown, pgWalk.stable \cap pgQuery.pick, after)
    BY <1>1, <2>1, <2>4 DEF PagingInv, WalkForward
  <2> HIDE DEF after, how
  <2>7. BeginsAt(after, how)
    BY <2>1, <2>3, <2>5, <2>6 DEF BeginsAt
  <2>8. QED  BY <2>7 DEF after, how
<1>4. QED  BY <1>2, <1>3

LEMMA TablesBeginStep == ASSUME PagingInv, TablesBegin PROVE PagingInv'
<1> DEFINE after == BeginAt
           how == BeginHow
           none == <<>>
<1>1. /\ pgQuery.kind = "tables" /\ pgQuery.kind \in Multi /\ (AtStart \/ pgPage.next # NoToken)
      /\ UNCHANGED <<pgQuery, pgTable, pgPage, pgWalk, pgScan>> /\ PgTypeOK /\ pgTable \in SUBSET PgRows
  BY TableRows DEF TablesBegin, PagingInv, Kind, Multi
<1>2. PICK limit \in PgSizes \ {0} :
        pgCall' = [pc |-> "page", size |-> limit, rows |-> none, after |-> after, how |-> how, since |-> pgTable]
  BY DEF TablesBegin, BeginAt, BeginHow
<1>3. /\ after \in Nat /\ how \in {"first", "next"}
      /\ Increasing(IF how = "first" THEN none ELSE pgWalk.shown \o none)
      /\ SeenTo(IF how = "first" THEN none ELSE pgWalk.shown \o none,
                (IF how = "first" THEN pgTable ELSE pgWalk.stable) \cap pgQuery.pick, after)
  BY <1>1, BeginSeen DEF PagingInv, BeginsAt
<1>4. limit \in Nat \ {0} /\ none \in Seq(PgRows) /\ Len(none) = 0
  BY PagingAssumption
<1> HIDE DEF after, how, none
<1>5. /\ pgCall'.pc = "page" /\ pgCall'.size = limit /\ pgCall'.rows = none /\ pgCall'.after = after
      /\ pgCall'.how = how /\ pgCall'.since = pgTable
  BY <1>2
<1>6. pgCall' \in TableCalls
  BY <1>1, <1>2, <1>3, <1>4 DEF TableCalls
<1>7. pgCall' \in CallsOf(pgQuery.kind)
  BY <1>1, <1>6, CallsAre
<1>8. CallSeen'
  <2>1. Seen' = IF how = "first" THEN none ELSE pgWalk.shown \o none
    BY <1>1, <1>5 DEF Seen
  <2>2. SeenOf' = IF how = "first" THEN pgTable ELSE pgWalk.stable
    BY <1>1, <1>5 DEF SeenOf
  <2>3. QED  BY <1>1, <1>3, <1>5, <2>1, <2>2 DEF CallSeen
<1>9. CallBounded'
  BY <1>1, <1>4, <1>5 DEF CallBounded
<1>10. QED  BY <1>1, <1>5, <1>7, <1>8, <1>9, CallStep

LEMMA BoundedBeginStep == ASSUME PagingInv, BoundedBegin PROVE PagingInv'
<1> DEFINE after == BeginAt
           how == BeginHow
           none == <<>>
<1>1. /\ pgQuery.kind = "bounded" /\ pgQuery.kind \in Multi /\ (AtStart \/ pgPage.next # NoToken)
      /\ UNCHANGED <<pgQuery, pgTable, pgPage, pgWalk, pgScan>> /\ PgTypeOK /\ pgTable \in SUBSET PgRows
  BY TableRows DEF BoundedBegin, PagingInv, Kind, Multi
<1>2. PICK s \in PgSizes \ {0}, r \in {1, 2}, p \in {1, 2}, i \in {1, 3} :
         pgCall' = [pc |-> "page", size |-> Capped(s), bounds |-> Bounds(Capped(r), p, Capped(i)),
                    rows |-> none, pages |-> 0, spent |-> 0, evaluated |-> 0, after |-> after, how |-> how, since |-> pgTable]
  BY DEF BoundedBegin, BeginAt, BeginHow
<1> DEFINE capped == Bounds(Capped(r), p, Capped(i))
           size == Capped(s)
<1>3. /\ after \in Nat /\ how \in {"first", "next"}
      /\ Increasing(IF how = "first" THEN none ELSE pgWalk.shown \o none)
      /\ SeenTo(IF how = "first" THEN none ELSE pgWalk.shown \o none,
                (IF how = "first" THEN pgTable ELSE pgWalk.stable) \cap pgQuery.pick, after)
  BY <1>1, BeginSeen DEF PagingInv, BeginsAt
<1>4. s \in Nat \ {0} /\ none \in Seq(PgRows) /\ Len(none) = 0 /\ pgQuery.limit \in Nat
  BY <1>1, PagingAssumption, LimitIs
<1>6. Capped(r) \in Nat \ {0} /\ Capped(i) \in Nat \ {0} /\ Capped(s) \in Nat \ {0} /\ p \in Nat \ {0}
  BY <1>4 DEF Less, Capped
<1>7. capped \in Budgets
  BY <1>6 DEF Budgets, Bounds
<1>8. size \in Nat \ {0}
  BY <1>6
<1>9. pgCall' = [pc |-> "page", size |-> size, bounds |-> capped, rows |-> none, pages |-> 0, spent |-> 0, evaluated |-> 0,
                 after |-> after, how |-> how, since |-> pgTable]
  BY <1>2
<1> HIDE DEF after, how, none, capped, size
<1>10. /\ pgCall'.pc = "page" /\ pgCall'.rows = none /\ pgCall'.after = after /\ pgCall'.bounds = capped
       /\ pgCall'.how = how /\ pgCall'.since = pgTable /\ pgCall'.pages = 0 /\ pgCall'.spent = 0 /\ pgCall'.evaluated = 0
  BY <1>9
<1>11. pgCall' \in BoundedCalls
  BY <1>1, <1>3, <1>4, <1>7, <1>8, <1>9 DEF BoundedCalls
<1>12. pgCall' \in CallsOf(pgQuery.kind)
  BY <1>1, <1>11, CallsAre
<1>13. CallSeen'
  <2>1. Seen' = IF how = "first" THEN none ELSE pgWalk.shown \o none
    BY <1>1, <1>10 DEF Seen
  <2>2. SeenOf' = IF how = "first" THEN pgTable ELSE pgWalk.stable
    BY <1>1, <1>10 DEF SeenOf
  <2>3. QED  BY <1>1, <1>3, <1>10, <2>1, <2>2 DEF CallSeen
<1>14. CallBounded'
  <2>1. capped.rows \in Nat /\ capped.pages \in Nat /\ capped.items \in Nat
    BY <1>7 DEF Budgets
  <2>2. QED  BY <1>1, <1>4, <1>10, <2>1 DEF CallBounded, none
<1>15. QED  BY <1>1, <1>10, <1>12, <1>13, <1>14, CallStep

(* What a page of the service adds to what was seen.                       *)
LEMMA SeenGrows ==
  ASSUME PagingInv, pgQuery.kind \in Multi, pgCall # NoCall, pgCall.pc = "page",
         NEW hits, NEW stop, ServiceGot(pgCall.after, hits, stop), NEW c, c.how = pgCall.how, c.since = pgCall.since,
         c.rows = pgCall.rows \o hits
  PROVE  /\ c.rows \in Seq(PgRows) /\ hits \in Seq(PgRows) /\ Increasing(SeenIn(c))
         /\ stop = 0 => OfIn(c) \cap pgQuery.pick \subseteq ToSet(SeenIn(c))
         /\ stop # 0 => SeenTo(SeenIn(c), OfIn(c) \cap pgQuery.pick, stop)
<1>1. /\ PgTypeOK /\ pgCall.how \in {"first", "next"} /\ pgCall.rows \in Seq(PgRows) /\ pgCall.after \in Nat
      /\ pgCall.since \in SUBSET pgTable /\ pgWalk.stable \in SUBSET pgTable /\ pgWalk.shown \in Seq(PgRows)
      /\ pgTable \in SUBSET PgRows
  BY CallTyped DEF PagingInv
<1>2. hits \in Seq(PgRows)
  <2>1. hits \in Seq(After(pgCall.after) \cap pgQuery.pick)
    BY DEF ServiceGot, Leads
  <2>2. After(pgCall.after) \cap pgQuery.pick \subseteq PgRows
    BY <1>1 DEF After
  <2>3. QED  BY <2>1, <2>2, SeqWider
<1>3. c.rows \in Seq(PgRows)
  BY <1>1, <1>2, ConcatIs
<1>4. Seen \in Seq(PgRows) /\ SeenIn(c) = Seen \o hits
  <2>1. CASE c.how = "first"
    BY <1>1, <2>1 DEF Seen, SeenIn
  <2>2. CASE c.how # "first"
    <3>1. pgWalk.shown \o pgCall.rows \in Seq(PgRows)
      BY <1>1, ConcatIs
    <3>2. (pgWalk.shown \o pgCall.rows) \o hits = pgWalk.shown \o (pgCall.rows \o hits)
      <4>1. ASSUME NEW s \in Seq(PgRows), NEW t \in Seq(PgRows), NEW u \in Seq(PgRows)
            PROVE  (s \o t) \o u = s \o (t \o u)
        BY SMTT(20)
      <4>2. QED  BY <1>1, <1>2, <4>1
    <3>3. QED  BY <2>2, <3>1, <3>2 DEF Seen, SeenIn
  <2>3. QED  BY <2>1, <2>2
<1>5. OfIn(c) = SeenOf /\ SeenOf \cap pgQuery.pick \in SUBSET (pgTable \cap pgQuery.pick)
  BY <1>1 DEF OfIn, SeenOf
<1>6. Increasing(Seen) /\ SeenTo(Seen, SeenOf \cap pgQuery.pick, pgCall.after)
  BY DEF PagingInv, CallSeen
<1>7. QED  BY ZenonT(40), <1>1, <1>2, <1>3, <1>4, <1>5, <1>6, StopGrows

LEMMA WholeSeq == ASSUME NEW S, NEW s \in Seq(S) PROVE SubSeq(s, 1, Len(s)) = s
<1>1. Len(s) \in Nat
  OBVIOUS
<1>2. /\ SubSeq(s, 1, Len(s)) \in Seq(S) /\ Len(SubSeq(s, 1, Len(s))) = Len(s)
      /\ \A i \in 1 .. Len(s) : SubSeq(s, 1, Len(s))[i] = s[i]
  BY <1>1, FirstN
<1>3. QED  BY <1>2, SeqEqual

LEMMA BoundedPageStep == ASSUME PagingInv, BoundedPage PROVE PagingInv'
<1> DEFINE c == pgCall
           n == RequestLimit(c)
           got == Evaluated(c.after, n)
           hits == Ordered(ToSet(got) \cap pgQuery.pick)
           room == SubSeq(hits, 1, Less(Len(hits), c.bounds.rows - Len(c.rows)))
<1>1. /\ pgQuery.kind = "bounded" /\ pgQuery.kind \in Multi /\ pgCall.pc = "page" /\ ~Exhausted(pgCall)
      /\ UNCHANGED <<pgQuery, pgTable, pgPage, pgWalk, pgScan>> /\ PgTypeOK
  BY DEF BoundedPage, PagingInv, Kind, Multi
<1>2. c # NoCall
  BY <1>1 DEF NoCall
<1>3. c \in BoundedCalls /\ c.after \in Nat /\ c.since \in SUBSET pgTable /\ c.rows \in Seq(PgRows) /\ c.how \in {"first", "next"}
  BY <1>1, <1>2, CallTyped
<1>4. PICK stop \in Stopped(c.after, n) :
             pgCall' = [c EXCEPT !.rows = @ \o room, !.pages = @ + 1, !.spent = @ + n,
                                 !.evaluated = @ + Len(got), !.after = stop, !.pc = IF stop = 0 THEN "done" ELSE "page"]
  BY DEF BoundedPage
<1>5. /\ c.bounds.rows \in Nat /\ c.bounds.pages \in Nat /\ c.bounds.items \in Nat /\ c.spent \in Nat /\ c.pages \in Nat
       /\ c.evaluated \in Nat /\ Len(c.rows) \in Nat /\ c.size \in Nat \ {0}
  <2>1. c.bounds \in Budgets /\ c.spent \in Nat /\ c.pages \in Nat /\ c.evaluated \in Nat /\ c.size \in Nat \ {0}
    BY <1>3 DEF BoundedCalls
  <2>2. QED  BY <1>3, <2>1 DEF Budgets
<1> HIDE DEF c
<1>6. PICK br \in Nat, bp \in Nat, bi \in Nat, sp \in Nat, pg \in Nat, ev \in Nat, L \in Nat, sz \in Nat \ {0} :
        /\ br = c.bounds.rows /\ bp = c.bounds.pages /\ bi = c.bounds.items /\ sp = c.spent /\ pg = c.pages /\ ev = c.evaluated
        /\ L = Len(c.rows) /\ sz = c.size
  BY <1>5
<1> USE DEF c
<1>7. pg < bp /\ L < br /\ sp < bi /\ ev <= sp
  <2>1. ev <= sp
    BY <1>1, <1>2, <1>6 DEF PagingInv, CallBounded
  <2>2. ~(pg >= bp) /\ ~(L >= br) /\ ~(sp >= bi)
    BY <1>1, <1>6 DEF Exhausted
  <2>3. QED  BY <2>1, <2>2
<1>8. n \in Nat \ {0} /\ sp + n <= bi /\ L + n <= br
  <2>1. n = Less(sz, Less(bi - sp, br - L))
    BY <1>6 DEF RequestLimit
  <2>2. QED  BY <1>7, <2>1 DEF Less
<1>9. HitsOf(hits, got)
  BY DEF HitsOf
<1> HIDE DEF n, hits
<1>10. ServiceGot(c.after, hits, stop) /\ Len(got) \in Nat /\ Len(got) <= n /\ Len(hits) \in Nat /\ Len(hits) <= Len(got)
  BY <1>1, <1>3, <1>4, <1>8, <1>9, GotIs
<1> HIDE DEF got
<1>11. hits \in Seq(After(c.after) \cap pgQuery.pick) /\ stop \in Nat
  BY <1>10 DEF ServiceGot, Leads
<1>12. room = hits
  <2>1. Less(Len(hits), br - L) = Len(hits)
    BY <1>7, <1>8, <1>10 DEF Less
  <2>2. SubSeq(hits, 1, Len(hits)) = hits
    BY <1>11, WholeSeq
  <2>3. QED  BY <1>6, <2>1, <2>2
<1> DEFINE rows == c.rows \o hits
           pc == IF stop = 0 THEN "done" ELSE "page"
<1>13. pgCall' = [c EXCEPT !.rows = rows, !.pages = pg + 1, !.spent = sp + n, !.evaluated = ev + Len(got), !.after = stop,
                           !.pc = pc]
  BY <1>3, <1>4, <1>6, <1>12
<1>14. pc \in {"page", "done"} /\ (pc = "page" <=> stop # 0) /\ (pc = "done" <=> stop = 0)
  OBVIOUS
<1> HIDE DEF rows, room, pc
<1>15. /\ pgCall'.rows = rows /\ pgCall'.pages = pg + 1 /\ pgCall'.spent = sp + n /\ pgCall'.evaluated = ev + Len(got)
       /\ pgCall'.after = stop /\ pgCall'.pc = pc
       /\ pgCall'.how = c.how /\ pgCall'.since = c.since /\ pgCall'.bounds = c.bounds
  BY <1>3, <1>13 DEF BoundedCalls
<1>16. /\ rows \in Seq(PgRows) /\ hits \in Seq(PgRows) /\ Increasing(SeenIn(pgCall'))
       /\ stop = 0 => OfIn(pgCall') \cap pgQuery.pick \subseteq ToSet(SeenIn(pgCall'))
       /\ stop # 0 => SeenTo(SeenIn(pgCall'), OfIn(pgCall') \cap pgQuery.pick, stop)
  BY <1>1, <1>2, <1>10, <1>15, SeenGrows DEF rows
<1>17. pg + 1 \in Nat /\ sp + n \in Nat /\ ev + Len(got) \in Nat
  BY <1>8, <1>10
<1>18. pgCall' \in BoundedCalls
  BY <1>3, <1>11, <1>13, <1>14, <1>16, <1>17 DEF BoundedCalls
<1>19. pgCall' \in CallsOf(pgQuery.kind)
  BY <1>1, <1>18, CallsAre
<1>20. CallSeen'
  <2>1. Seen' = SeenIn(pgCall') /\ SeenOf' = OfIn(pgCall')
    BY <1>1 DEF Seen, SeenOf, SeenIn, OfIn
  <2>2. pgQuery' = pgQuery
    BY <1>1
  <2>3. QED  BY <1>14, <1>15, <1>16, <2>1, <2>2 DEF CallSeen
<1>21. CallBounded'
  <2>1. Len(rows) = L + Len(hits)
    BY <1>3, <1>6, <1>16, ConcatIs DEF rows
  <2>2. Len(rows) <= br /\ pg + 1 <= bp /\ sp + n <= bi /\ ev + Len(got) <= sp + n
    BY <1>7, <1>8, <1>10, <2>1
  <2>3. ~(pc = "page" /\ stop = 0)
    BY <1>14
  <2>4. QED  BY <1>1, <1>6, <1>15, <2>2, <2>3 DEF CallBounded
<1>22. pgCall'.since \subseteq pgTable
  BY <1>3, <1>15
<1>23. QED  BY <1>1, <1>19, <1>20, <1>21, <1>22, CallStep

LEMMA BoundedEndStep == ASSUME PagingInv, BoundedEnd PROVE PagingInv'
<1>1. /\ pgQuery.kind = "bounded" /\ pgQuery.kind \in Multi /\ pgCall # NoCall /\ (pgCall.pc = "done" \/ Exhausted(pgCall))
      /\ CallEnds(pgCall, pgCall.after) /\ PgTypeOK
  BY DEF BoundedEnd, PagingInv, Kind, Multi
<1>2. pgCall \in BoundedCalls /\ pgCall.after \in Nat /\ pgCall.rows \in Seq(PgRows) /\ pgCall.pc \in {"page", "done"}
  BY <1>1, CallTyped
<1>3. Seen = SeenIn(pgCall) /\ SeenOf = OfIn(pgCall)
  BY DEF Seen, SeenOf, SeenIn, OfIn
<1>4. /\ Increasing(Seen) /\ (pgCall.pc = "page" => SeenTo(Seen, SeenOf \cap pgQuery.pick, pgCall.after))
      /\ pgCall.pc = "done" => pgCall.after = 0 /\ SeenOf \cap pgQuery.pick \subseteq ToSet(Seen)
  BY <1>1 DEF PagingInv, CallSeen
<1>5. pgCall.pc = "page" => pgCall.after # 0
  <2>1. ASSUME pgCall.pc = "page", pgCall.after = 0 PROVE FALSE
    <3>1. pgCall.pages = 0 /\ pgCall.rows = <<>> /\ pgCall.spent = 0
      BY <1>1, <2>1 DEF PagingInv, CallBounded
    <3>2. Exhausted(pgCall)
      BY <1>1, <2>1
    <3>3. pgCall.bounds.rows \in Nat \ {0} /\ pgCall.bounds.pages \in Nat \ {0} /\ pgCall.bounds.items \in Nat \ {0}
      BY <1>2 DEF BoundedCalls, Budgets
    <3>4. Len(pgCall.rows) = 0
      BY <3>1
    <3>5. QED  BY <3>1, <3>2, <3>3, <3>4 DEF Exhausted
  <2>2. QED  BY <2>1
<1>6. QED  BY <1>1, <1>2, <1>3, <1>4, <1>5, CallEndsStep

(* The table list with a pattern: a page of the service that is cut.       *)
LEMMA RoomGrows ==
  ASSUME PagingInv, pgQuery.kind \in Multi, pgCall # NoCall, pgCall.pc = "page",
         NEW room, Leads(room, After(pgCall.after) \cap pgQuery.pick), Len(room) > 0,
         NEW c, c.how = pgCall.how, c.since = pgCall.since, c.rows = pgCall.rows \o room
  PROVE  /\ c.rows \in Seq(PgRows) /\ Increasing(SeenIn(c)) /\ room[Len(room)] \in Nat \ {0}
         /\ SeenTo(SeenIn(c), OfIn(c) \cap pgQuery.pick, room[Len(room)])
<1> DEFINE W == After(pgCall.after) \cap pgQuery.pick
           set == SeenOf \cap pgQuery.pick
<1>1. /\ PgTypeOK /\ pgCall.how \in {"first", "next"} /\ pgCall.rows \in Seq(PgRows) /\ pgCall.after \in Nat
      /\ pgCall.since \in SUBSET pgTable /\ pgWalk.stable \in SUBSET pgTable /\ pgWalk.shown \in Seq(PgRows)
      /\ pgTable \in SUBSET PgRows
  BY CallTyped DEF PagingInv
<1>2. W \in SUBSET After(pgCall.after) /\ W \subseteq PgRows
  BY <1>1 DEF After
<1>3. room \in Seq(PgRows)
  <2>1. room \in Seq(W)
    BY DEF Leads
  <2>2. QED  BY <1>2, <2>1, SeqWider
<1>4. c.rows \in Seq(PgRows)
  BY <1>1, <1>3, ConcatIs
<1>5. Seen \in Seq(PgRows) /\ SeenIn(c) = Seen \o room
  <2>1. CASE c.how = "first"
    BY <1>1, <2>1 DEF Seen, SeenIn
  <2>2. CASE c.how # "first"
    <3>1. pgWalk.shown \o pgCall.rows \in Seq(PgRows)
      BY <1>1, ConcatIs
    <3>2. (pgWalk.shown \o pgCall.rows) \o room = pgWalk.shown \o (pgCall.rows \o room)
      <4>1. ASSUME NEW s \in Seq(PgRows), NEW t \in Seq(PgRows), NEW u \in Seq(PgRows)
            PROVE  (s \o t) \o u = s \o (t \o u)
        BY SMTT(20)
      <4>2. QED  BY <1>1, <1>3, <4>1
    <3>3. QED  BY <2>2, <3>1, <3>2 DEF Seen, SeenIn
  <2>3. QED  BY <2>1, <2>2
<1>6. OfIn(c) = SeenOf /\ set \in SUBSET pgTable
  BY <1>1 DEF OfIn, SeenOf
<1>7. Increasing(Seen) /\ SeenTo(Seen, set, pgCall.after)
  BY DEF PagingInv, CallSeen
<1>8. \A r \in set : r > pgCall.after => r \in W
  BY <1>6 DEF After
<1> HIDE DEF W, set
<1>9. Leads(room, W)
  BY DEF W
<1>10. PICK end \in Nat : end = pgCall.after
  BY <1>1
<1>11. W \in SUBSET After(end) /\ SeenTo(Seen, set, end) /\ \A r \in set : r > end => r \in W
  BY <1>2, <1>7, <1>8, <1>10
<1>12. Increasing(Seen)
  BY <1>7
<1>13. pgTable \in SUBSET PgRows /\ Seen \in Seq(PgRows) /\ set \in SUBSET pgTable
  BY <1>1, <1>5, <1>6
<1>14. /\ Increasing(Seen \o room) /\ room[Len(room)] \in Nat /\ room[Len(room)] > end
       /\ SeenTo(Seen \o room, set, room[Len(room)])
  BY ZenonT(40), <1>9, <1>11, <1>12, <1>13, WalkGrows
<1>15. room[Len(room)] # 0
  BY <1>14
<1>16. QED  BY <1>4, <1>5, <1>6, <1>14, <1>15 DEF set

\* A cut leaves a rest, and no rest means that nothing was cut.
LEMMA RestIs ==
  ASSUME NEW S, S \subseteq Nat, NEW s \in Seq(S), Increasing(s), NEW m \in Nat, m < Len(s)
  PROVE  ToSet(s) \ ToSet(SubSeq(s, 1, m)) # {}
<1>1. Len(s) \in Nat /\ DOMAIN s = 1 .. Len(s) /\ m + 1 \in 1 .. Len(s)
  OBVIOUS
<1>2. DOMAIN SubSeq(s, 1, m) = 1 .. m /\ \A i \in 1 .. m : SubSeq(s, 1, m)[i] = s[i]
  BY <1>1, FirstN
<1>3. s[m + 1] \in ToSet(s)
  BY <1>1 DEF ToSet
<1>4. ASSUME NEW i \in 1 .. m PROVE SubSeq(s, 1, m)[i] # s[m + 1]
  <2>1. i \in DOMAIN s /\ m + 1 \in DOMAIN s /\ i < m + 1
    BY <1>1
  <2>2. \A a, b \in DOMAIN s : a < b => s[a] < s[b]
    BY DEF Increasing
  <2>3. \A a \in 1 .. Len(s) : s[a] \in Nat
    <3>1. s \in Seq(Nat)
      BY SeqWider
    <3>2. ASSUME NEW t \in Seq(Nat) PROVE \A a \in 1 .. Len(t) : t[a] \in Nat
      BY ONLY <3>2
    <3>3. QED  BY <3>1, <3>2
  <2> DEFINE j == m + 1
  <2>4. j \in DOMAIN s /\ i < j
    BY <2>1
  <2> HIDE DEF j
  <2>5. s[i] < s[j] /\ s[i] \in Nat /\ s[j] \in Nat
    BY <1>1, <2>1, <2>2, <2>3, <2>4
  <2>6. s[i] < s[m + 1] /\ s[i] \in Nat /\ s[m + 1] \in Nat
    BY <2>5 DEF j
  <2>7. QED  BY <1>2, <2>6
<1>5. s[m + 1] \notin ToSet(SubSeq(s, 1, m))
  BY <1>2, <1>4 DEF ToSet
<1>6. QED  BY <1>3, <1>5

LEMMA TablesPageStep == ASSUME PagingInv, TablesPage PROVE PagingInv'
<1> DEFINE c == pgCall
           got == Evaluated(c.after, c.size)
           hits == Ordered(ToSet(got) \cap pgQuery.pick)
           m == Less(Len(hits), c.size - Len(c.rows))
           room == SubSeq(hits, 1, m)
           rest == ToSet(hits) \ ToSet(room)
           next == [c EXCEPT !.rows = @ \o room]
<1>1. /\ pgQuery.kind = "tables" /\ pgQuery.kind \in Multi /\ pgCall.pc = "page" /\ PgTypeOK
  BY DEF TablesPage, PagingInv, Kind, Multi
<1>2. c # NoCall
  BY <1>1 DEF NoCall
<1>3. /\ c \in TableCalls /\ c.after \in Nat /\ c.since \in SUBSET pgTable /\ c.rows \in Seq(PgRows) /\ c.how \in {"first", "next"}
      /\ c.size \in Nat \ {0}
  BY <1>1, <1>2, CallTyped
<1>4. PICK stop \in Stopped(c.after, c.size) :
             IF Len(next.rows) = c.size THEN CallEnds(next, ResumeAt(room, rest, stop))
             ELSE IF stop = 0 THEN CallEnds(next, 0)
             ELSE /\ pgCall' = [next EXCEPT !.after = stop]
                  /\ UNCHANGED <<pgQuery, pgTable, pgPage, pgWalk, pgScan, pgChanged>>
  BY DEF TablesPage
<1>5. HitsOf(hits, got)
  BY DEF HitsOf
<1> HIDE DEF hits
<1>6. ServiceGot(c.after, hits, stop) /\ Len(hits) \in Nat
  BY <1>1, <1>3, <1>4, <1>5, GotIs
<1> HIDE DEF got
<1>7. hits \in Seq(After(c.after) \cap pgQuery.pick) /\ stop \in Nat /\ Leads(hits, After(c.after) \cap pgQuery.pick)
  BY <1>6 DEF ServiceGot, Leads
<1>8. PICK L \in Nat, sz \in Nat \ {0} : L = Len(c.rows) /\ sz = c.size /\ L < sz
  <2>1. Len(c.rows) \in Nat /\ Len(c.rows) < c.size
    BY <1>1, <1>2, <1>3 DEF PagingInv, CallBounded
  <2>2. QED  BY <1>3, <2>1
<1>9. m \in Nat /\ m <= Len(hits) /\ m <= sz - L /\ (m = Len(hits) \/ m = sz - L)
  BY <1>6, <1>8 DEF Less
<1> HIDE DEF m
<1>10. Leads(room, After(c.after) \cap pgQuery.pick) /\ Len(room) = m
  BY <1>6, <1>7, <1>9, LeadsCut
<1>11. m = Len(hits) => room = hits
  BY <1>7, WholeSeq
<1>12. After(c.after) \in SUBSET PgRows /\ PgRows \subseteq Nat
  BY <1>1, TableRows, PagingAssumption
<1>13. m < Len(hits) => rest # {}
  <2>1. After(c.after) \cap pgQuery.pick \subseteq Nat
    BY <1>12
  <2>2. Increasing(hits)
    BY <1>7 DEF Leads
  <2>3. QED  BY <1>7, <1>9, <2>1, <2>2, RestIs
<1>14. room \in Seq(PgRows)
  <2>1. room \in Seq(After(c.after) \cap pgQuery.pick)
    BY <1>10 DEF Leads
  <2>2. QED  BY <1>12, <2>1, SeqWider
<1> HIDE DEF rest, room
<1> DEFINE rows == c.rows \o room
<1>15. rows \in Seq(PgRows) /\ Len(rows) = L + m
  BY <1>3, <1>8, <1>10, <1>14, ConcatIs
<1>16. /\ next \in TableCalls /\ next.rows = rows /\ next.how = c.how /\ next.since = c.since /\ next.pc = c.pc
       /\ next.size = c.size /\ next.after = c.after
  <2>1. rows \in Seq(PgRows)
    BY <1>15
  <2> HIDE DEF rows
  <2>2. next = [c EXCEPT !.rows = rows]
    BY DEF rows
  <2>3. QED  BY <1>3, <2>1, <2>2 DEF TableCalls
<1> HIDE DEF rows, next
<1>17. ASSUME room = hits
       PROVE  /\ Increasing(SeenIn(next))
              /\ stop = 0 => OfIn(next) \cap pgQuery.pick \subseteq ToSet(SeenIn(next))
              /\ stop # 0 => SeenTo(SeenIn(next), OfIn(next) \cap pgQuery.pick, stop)
  <2>1. next.rows = pgCall.rows \o hits
    BY <1>16, <1>17 DEF rows
  <2>2. QED  BY <1>1, <1>2, <1>6, <1>16, <2>1, SeenGrows
<1>18. CASE Len(next.rows) = c.size /\ rest # {}
  <2>1. m > 0
    BY <1>8, <1>9, <1>15, <1>16, <1>18
  <2>2. next.rows = pgCall.rows \o room
    BY <1>16 DEF rows
  <2>3. /\ Increasing(SeenIn(next)) /\ room[Len(room)] \in Nat \ {0}
        /\ SeenTo(SeenIn(next), OfIn(next) \cap pgQuery.pick, room[Len(room)])
    BY <1>1, <1>2, <1>10, <1>16, <2>1, <2>2, RoomGrows
  <2>4. CallEnds(next, room[Len(room)])
    BY <1>4, <1>18 DEF ResumeAt
  <2> DEFINE end == room[Len(room)]
  <2>5. end \in Nat /\ end # 0 /\ CallEnds(next, end) /\ SeenTo(SeenIn(next), OfIn(next) \cap pgQuery.pick, end)
    BY <2>3, <2>4
  <2> HIDE DEF end
  <2>6. QED  BY <1>1, <1>2, <1>15, <1>16, <2>3, <2>5, CallEndsStep
<1>19. CASE Len(next.rows) = c.size /\ rest = {}
  <2>1. CallEnds(next, stop)
    BY <1>4, <1>19 DEF ResumeAt
  <2>2. room = hits
    BY <1>6, <1>9, <1>11, <1>13, <1>19
  <2>3. QED  BY <1>1, <1>2, <1>7, <1>15, <1>16, <1>17, <2>1, <2>2, CallEndsStep
<1>20. CASE Len(next.rows) # c.size
  <2>1. room = hits /\ L + m < sz
    BY <1>6, <1>8, <1>9, <1>11, <1>15, <1>16, <1>20
  <2>2. CASE stop = 0
    <3>1. CallEnds(next, stop)
      BY <1>4, <1>20, <2>2
    <3>2. QED  BY <1>1, <1>2, <1>7, <1>15, <1>16, <1>17, <2>1, <2>2, <3>1, CallEndsStep
  <2>3. CASE stop # 0
    <3>1. pgCall' = [next EXCEPT !.after = stop] /\ UNCHANGED <<pgQuery, pgTable, pgPage, pgWalk, pgScan>>
      BY <1>4, <1>20, <2>3
    <3>2. /\ pgCall' \in TableCalls /\ pgCall'.rows = rows /\ pgCall'.how = c.how /\ pgCall'.since = c.since
          /\ pgCall'.pc = c.pc /\ pgCall'.size = c.size /\ pgCall'.after = stop
      BY <1>7, <1>16, <3>1 DEF TableCalls
    <3>3. pgCall' \in CallsOf(pgQuery.kind)
      BY <1>1, <3>2, CallsAre
    <3>4. CallSeen'
      <4>1. Seen' = SeenIn(next) /\ SeenOf' = OfIn(next) /\ pgQuery' = pgQuery
        BY <1>16, <3>1, <3>2 DEF Seen, SeenOf, SeenIn, OfIn
      <4>2. QED  BY <1>1, <1>17, <2>1, <2>3, <3>2, <4>1 DEF CallSeen
    <3>5. CallBounded'
      <4>1. Len(rows) < c.size
        BY <1>8, <1>15, <2>1
      <4>2. QED  BY <1>1, <3>1, <3>2, <4>1 DEF CallBounded
    <3>6. pgCall'.since \subseteq pgTable
      BY <1>3, <3>2
    <3>7. QED  BY <1>1, <3>1, <3>3, <3>4, <3>5, <3>6, CallStep
  <2>4. QED  BY <2>2, <2>3
<1>21. QED  BY <1>18, <1>19, <1>20

(* Another client's change, and the user's edit of the statement.          *)
LEMMA SeenFewer == ASSUME NEW shown, NEW set, NEW less, less \subseteq set, NEW end, SeenTo(shown, set, end)
                   PROVE  SeenTo(shown, less, end)
  BY DEF SeenTo

LEMMA ChangeStep == ASSUME PagingInv, PgChange PROVE PagingInv'
<1>1. PICK r \in PgRows :
        /\ pgTable' = IF r \in pgTable THEN pgTable \ {r} ELSE pgTable \cup {r}
        /\ pgWalk' = [pgWalk EXCEPT !.stable = @ \ {r}, !.still = FALSE]
        /\ pgCall' = IF pgCall = NoCall THEN NoCall ELSE [pgCall EXCEPT !.since = @ \ {r}]
  BY DEF PgChange
<1>2. PgTypeOK /\ pgQuery' = pgQuery /\ pgPage' = pgPage /\ pgScan' = pgScan
  BY DEF PgChange, PagingInv
<1>3. (Exact' <=> Exact) /\ Asked' = Asked /\ Total' = Total
  BY <1>2, SameQuery
<1>4. pgTable \in SUBSET PgRows /\ pgWalk \in Walks /\ pgWalk.stable \subseteq pgTable
  BY <1>2 DEF PgTypeOK
<1>5. /\ pgWalk' \in Walks /\ pgWalk'.shown = pgWalk.shown /\ pgWalk'.stable = pgWalk.stable \ {r} /\ pgWalk'.still = FALSE
      /\ pgWalk'.forward = pgWalk.forward /\ pgWalk'.prior = pgWalk.prior /\ pgWalk'.back = pgWalk.back
  <2>1. pgWalk.stable \ {r} \in SUBSET PgRows
    BY <1>4 DEF Walks
  <2>2. QED  BY <1>1, <1>4, <2>1 DEF Walks
<1>6. pgTable' \in SUBSET PgRows /\ pgTable \ {r} \subseteq pgTable'
  BY <1>1, <1>4
<1>7. /\ pgCall' \in CallsOf(pgQuery.kind) /\ (pgCall' # NoCall <=> pgCall # NoCall)
      /\ pgCall # NoCall =>
           /\ pgCall'.since = pgCall.since \ {r} /\ pgCall'.since \subseteq pgTable' /\ pgQuery.kind \in Multi
           /\ pgCall'.how = pgCall.how /\ pgCall'.rows = pgCall.rows /\ pgCall'.pc = pgCall.pc /\ pgCall'.after = pgCall.after
           /\ pgCall'.size = pgCall.size
           /\ pgQuery.kind = "bounded" => /\ pgCall'.bounds = pgCall.bounds /\ pgCall'.pages = pgCall.pages
                                          /\ pgCall'.spent = pgCall.spent /\ pgCall'.evaluated = pgCall.evaluated
  <2>1. CASE pgCall = NoCall
    BY <1>1, <1>2, <2>1 DEF PgTypeOK
  <2>2. CASE pgCall # NoCall
    <3>1. pgCall \in CallsOf(pgQuery.kind) /\ pgCall.since \subseteq pgTable /\ pgCall' = [pgCall EXCEPT !.since = @ \ {r}]
      BY <1>1, <1>2, <2>2 DEF PgTypeOK
    <3>2. pgQuery.kind \in Multi
      BY <2>2, <3>1 DEF CallsOf, Multi
    <3>3. (pgQuery.kind = "bounded" => pgCall \in BoundedCalls) /\ (pgQuery.kind = "tables" => pgCall \in TableCalls)
      BY <1>2, <2>2, <3>2, CallTyped
    <3>4. pgCall.since \ {r} \in SUBSET PgRows /\ pgCall.since \ {r} \subseteq pgTable'
      BY <1>4, <1>6, <3>1
    <3>5. CASE pgQuery.kind = "bounded"
      <4>1. /\ pgCall' \in BoundedCalls /\ pgCall'.since = pgCall.since \ {r} /\ pgCall'.how = pgCall.how
            /\ pgCall'.rows = pgCall.rows /\ pgCall'.pc = pgCall.pc /\ pgCall'.after = pgCall.after /\ pgCall'.size = pgCall.size
            /\ pgCall'.bounds = pgCall.bounds /\ pgCall'.pages = pgCall.pages
            /\ pgCall'.spent = pgCall.spent /\ pgCall'.evaluated = pgCall.evaluated
        BY <3>1, <3>3, <3>4, <3>5 DEF BoundedCalls
      <4>2. pgCall' \in CallsOf(pgQuery.kind) /\ pgCall' # NoCall
        <5>1. pgCall'.pc # "idle"
          BY <4>1 DEF BoundedCalls
        <5>2. QED  BY <3>5, <4>1, <5>1, CallsAre DEF NoCall
      <4>3. QED  BY <2>2, <3>2, <3>4, <4>1, <4>2
    <3>6. CASE pgQuery.kind = "tables"
      <4>1. /\ pgCall' \in TableCalls /\ pgCall'.since = pgCall.since \ {r} /\ pgCall'.how = pgCall.how
            /\ pgCall'.rows = pgCall.rows /\ pgCall'.pc = pgCall.pc /\ pgCall'.after = pgCall.after /\ pgCall'.size = pgCall.size
        BY <3>1, <3>3, <3>4, <3>6 DEF TableCalls
      <4>2. pgCall' \in CallsOf(pgQuery.kind) /\ pgCall' # NoCall
        <5>1. pgCall'.pc # "idle"
          BY <4>1 DEF TableCalls
        <5>2. QED  BY <3>6, <4>1, <5>1, CallsAre DEF NoCall
      <4>3. QED  BY <2>2, <3>2, <3>4, <3>6, <4>1, <4>2
    <3>7. QED  BY <3>2, <3>5, <3>6 DEF Multi
  <2>3. QED  BY <2>1, <2>2
<1>8. PgTypeOK'
  <2>1. pgPage' \in Pages' /\ pgCall' \in CallsOf(pgQuery.kind)' /\ pgWalk' \in Walks'
    BY <1>2, <1>5, <1>7, SameQuery DEF PgTypeOK
  <2>2. pgWalk'.stable \subseteq pgTable'
    BY <1>4, <1>5, <1>6
  <2>3. QED  BY <1>2, <1>5, <1>6, <1>7, <2>1, <2>2 DEF PgTypeOK, Queries, Keyset, AtStart, Scans
<1>9. pgWalk'.stable \cap Asked' \subseteq pgWalk.stable \cap Asked
  BY <1>3, <1>5
<1>10. WalkForward'
  <2>1. ASSUME Exact, pgWalk.forward, pgQuery.kind # "d1"
        PROVE  /\ Increasing(pgWalk'.shown)
               /\ pgPage.next # NoToken => SeenTo(pgWalk'.shown, pgWalk'.stable \cap Asked', pgPage.next.end)
               /\ Through /\ ~(pgQuery.kind \in Keyset /\ Len(pgWalk'.shown) >= Total)
                    => pgWalk'.stable \cap Asked' \subseteq ToSet(pgWalk'.shown)
    <3>1. /\ Increasing(pgWalk.shown)
          /\ pgPage.next # NoToken => SeenTo(pgWalk.shown, pgWalk.stable \cap Asked, pgPage.next.end)
          /\ Through /\ ~(pgQuery.kind \in Keyset /\ Len(pgWalk.shown) >= Total)
               => pgWalk.stable \cap Asked \subseteq ToSet(pgWalk.shown)
      BY <2>1 DEF PagingInv, WalkForward
    <3>2. QED  BY <1>5, <1>9, <3>1, SeenFewer
  <2>2. Through' = Through
    BY <1>2 DEF Through
  <2>3. QED  BY <1>2, <1>3, <1>5, <2>1, <2>2 DEF WalkForward
<1>11. WalkLimited' /\ WentBack' /\ Placed'
  BY <1>2, <1>3, <1>5 DEF PagingInv, WalkLimited, WentBack, Placed
<1>12. CallSeen'
  <2>1. ASSUME pgCall # NoCall
        PROVE  /\ Increasing(Seen')
               /\ pgCall'.pc = "page" => SeenTo(Seen', SeenOf' \cap pgQuery.pick, pgCall'.after)
               /\ pgCall'.pc = "done" => pgCall'.after = 0 /\ SeenOf' \cap pgQuery.pick \subseteq ToSet(Seen')
    <3>1. Seen' = Seen /\ SeenOf' \subseteq SeenOf
      BY <1>5, <1>7, <2>1 DEF Seen, SeenOf
    <3>2. /\ Increasing(Seen) /\ (pgCall.pc = "page" => SeenTo(Seen, SeenOf \cap pgQuery.pick, pgCall.after))
          /\ pgCall.pc = "done" => pgCall.after = 0 /\ SeenOf \cap pgQuery.pick \subseteq ToSet(Seen)
      BY <2>1 DEF PagingInv, CallSeen
    <3>3. SeenOf' \cap pgQuery.pick \subseteq SeenOf \cap pgQuery.pick
      BY <3>1
    <3>4. QED  BY <1>7, <2>1, <3>1, <3>2, <3>3, SeenFewer
  <2>2. QED  BY <1>2, <1>7, <2>1 DEF CallSeen
<1>13. CallBounded'
  BY <1>2, <1>7 DEF PagingInv, CallBounded
<1>14. ScanSeen'
  BY <1>2 DEF PagingInv, ScanSeen, KeysSeen
<1>15. QED  BY <1>8, <1>10, <1>11, <1>12, <1>13, <1>14 DEF PagingInv

LEMMA EditStep == ASSUME PagingInv, EditStatement PROVE PagingInv'
<1>1. /\ pgQuery' = [pgQuery EXCEPT !.text = 2]
      /\ pgTable' = pgTable /\ pgPage' = pgPage /\ pgWalk' = pgWalk /\ pgCall' = pgCall /\ pgScan' = pgScan
  BY DEF EditStatement
<1>2. PgTypeOK
  BY DEF PagingInv
<1>3. /\ pgQuery' \in Queries /\ pgQuery'.kind = pgQuery.kind /\ pgQuery'.limit = pgQuery.limit
      /\ pgQuery'.order = pgQuery.order /\ pgQuery'.pick = pgQuery.pick
  BY <1>1, <1>2 DEF PgTypeOK, Queries
<1>4. Exact' = Exact /\ Asked' = Asked /\ Total' = Total
  BY <1>3 DEF Exact, Asked, Total, Kind
<1>5. TokensOf(pgQuery.kind)' = TokensOf(pgQuery.kind) /\ CallsOf(pgQuery.kind)' = CallsOf(pgQuery.kind)
  <2>1. KeyTokens' = KeyTokens
    BY <1>4 DEF KeyTokens
  <2>2. QED  BY <1>3, <2>1 DEF TokensOf, CallsOf
<1>6. PgTypeOK'
  <2>1. pgPage' \in Pages' /\ pgWalk' \in Walks' /\ pgCall' \in CallsOf(pgQuery.kind)'
    BY <1>1, <1>2, <1>5 DEF PgTypeOK, Pages, Walks
  <2>2. QED  BY <1>1, <1>2, <1>3, <2>1 DEF PgTypeOK, Keyset, AtStart, Scans
<1>7. WalkForward' /\ WalkLimited' /\ WentBack'
  BY <1>1, <1>3, <1>4 DEF PagingInv, WalkForward, WalkLimited, WentBack, Through
<1>8. Placed'
  <2>1. ASSUME NEW o PROVE PlacedAt(o)' = PlacedAt(o)
    BY <1>1, <1>3 DEF PlacedAt
  <2>2. QED  BY <1>1, <1>3, <1>4, <2>1 DEF PagingInv, Placed
<1>9. CallSeen' /\ CallBounded' /\ ScanSeen'
  BY <1>1, <1>3 DEF PagingInv, CallSeen, CallBounded, ScanSeen, KeysSeen, Seen, SeenOf
<1>10. QED  BY <1>6, <1>7, <1>8, <1>9 DEF PagingInv

(* The whole of the proof.                                                 *)
LEMMA PagingInit == ASSUME PgInit PROVE PagingInv
<1>1. /\ pgQuery \in PgQueries /\ pgTable \in {PgRows, {r \in PgRows : r > 1}} /\ pgPage = NoPage
      /\ pgWalk = [shown |-> <<>>, stable |-> {}, still |-> TRUE, forward |-> TRUE, prior |-> <<>>, back |-> <<>>]
      /\ pgCall = NoCall /\ pgScan = [at |-> [n \in PgNodes |-> 0], done |-> FALSE, keys |-> {}]
  BY DEF PgInit
<1>2. /\ pgQuery \in Queries /\ (pgQuery.order = "ties" => pgQuery.kind \in Keyset)
  <2>1. {{}, PgRows, {r \in PgRows : r % 4 # 1}} \subseteq SUBSET PgRows
    OBVIOUS
  <2>2. pgQuery \in [kind : PgKinds, limit : PgLimits, order : {"unique", "ties"}, window : BOOLEAN,
                     pick : {{}, PgRows, {r \in PgRows : r % 4 # 1}}, text : {1}]
        /\ (pgQuery.order = "ties" => pgQuery.kind \in Keyset)
    BY <1>1 DEF PgQueries
  <2>3. QED  BY <2>1, <2>2 DEF Queries
<1>3. NoToken \in TokensOf(pgQuery.kind) /\ NoCall \in CallsOf(pgQuery.kind)
  BY DEF TokensOf, CallsOf
<1>4. /\ pgPage.state = "none" /\ pgPage.rows = <<>> /\ pgPage.next = NoToken /\ pgPage.prev = NoToken /\ pgPage \in Pages
  BY <1>1, <1>3 DEF NoPage, Pages
<1>5. /\ pgWalk.shown = <<>> /\ pgWalk.stable = {} /\ pgWalk.forward /\ pgWalk \in Walks
  BY <1>1 DEF Walks
<1>6. pgScan \in Scans /\ pgScan.at = [n \in PgNodes |-> 0] /\ pgScan.done = FALSE /\ pgScan.keys = {}
  BY <1>1 DEF Scans
<1>7. PgTypeOK
  BY <1>1, <1>2, <1>3, <1>4, <1>5, <1>6 DEF PgTypeOK
<1>8. WalkForward
  <2>1. DOMAIN <<>> = {}
    OBVIOUS
  <2>2. Increasing(pgWalk.shown) /\ ~Through
    BY <1>4, <1>5, <2>1 DEF Increasing, Through
  <2>3. QED  BY <1>4, <2>2 DEF WalkForward
<1>9. WalkLimited
  <2>1. Total \in Nat \ {0}
    BY <1>7, LimitIs
  <2>2. Len(pgWalk.shown) = 0
    BY <1>5
  <2>3. QED  BY <1>4, <2>1, <2>2 DEF WalkLimited
<1>10. Placed /\ WentBack
  BY <1>4 DEF Placed, WentBack
<1>11. CallSeen /\ CallBounded
  BY <1>1 DEF CallSeen, CallBounded
<1>12. ScanSeen
  <2>1. ASSUME NEW n \in PgNodes PROVE pgScan.at[n] = 0 /\ KeysSeen(n) = {} /\ PgSlots[n] \in Nat \ {0}
    BY <1>6, PagingAssumption DEF KeysSeen
  <2>2. ASSUME NEW k \in Nat, k = 0 PROVE {} = 1 .. k
    BY ONLY <2>2
  <2>3. ASSUME NEW n \in PgNodes
        PROVE  pgScan.at[n] < PgSlots[n] /\ KeysSeen(n) = 1 .. pgScan.at[n]
    <3>1. pgScan.at[n] < PgSlots[n]
      BY <2>1
    <3>2. pgScan.at[n] \in Nat
      BY <2>1
    <3>3. QED  BY <2>1, <2>2, <3>1, <3>2
  <2>4. QED  BY <1>6, <2>3 DEF ScanSeen
<1>13. QED  BY <1>7, <1>8, <1>9, <1>10, <1>11, <1>12 DEF PagingInv

LEMMA ByKeyTurns ==
  ASSUME PagingInv, Rest, pgQuery.kind \in Keyset, Turns(ByKey)
  PROVE  PagingInv'
<1>1. \/ pgPage.next # NoToken /\ ByKey(pgPage.next, "next")
      \/ pgPage.prev # NoToken /\ ByKey(pgPage.prev, "prev")
  BY DEF Turns
<1>2. QED  BY <1>1, ByKeyNextStep, ByKeyPrevStep

LEMMA D1Step == ASSUME PagingInv, D1Query PROVE PagingInv'
<1>1. pgQuery.kind = "d1" /\ Rest
  BY DEF D1Query, Kind
<1>2. CASE AtStart /\ pgQuery.limit > 0
             /\ LET all == Ordered(pgTable) IN Shows("first", SubSeq(all, 1, Less(pgQuery.limit, Len(all))), NoToken, NoToken)
  BY <1>1, <1>2, D1LimitStep
<1>3. CASE AtStart /\ pgQuery.limit = 0 /\ \E s \in PgSizes : AtOffset(ClampPageSize(s), 0, "first")
  BY <1>1, <1>3, D1FirstStep
<1>4. CASE Turns(OffsetToken)
  <2>1. \/ pgPage.next # NoToken /\ OffsetToken(pgPage.next, "next")
        \/ pgPage.prev # NoToken /\ OffsetToken(pgPage.prev, "prev")
    BY <1>4 DEF Turns
  <2>2. QED  BY <1>1, <2>1, D1NextStep, D1PrevStep
<1>5. QED  BY <1>2, <1>3, <1>4 DEF D1Query

LEMMA SameStep == ASSUME PagingInv, UNCHANGED pgvars PROVE PagingInv'
<1>1. /\ pgQuery' = pgQuery /\ pgTable' = pgTable /\ pgPage' = pgPage /\ pgWalk' = pgWalk /\ pgCall' = pgCall
      /\ pgScan' = pgScan
  BY DEF pgvars
<1>2. Exact' = Exact /\ Asked' = Asked /\ Total' = Total /\ TokensOf(pgQuery.kind)' = TokensOf(pgQuery.kind)
      /\ CallsOf(pgQuery.kind)' = CallsOf(pgQuery.kind)
  BY <1>1 DEF Exact, Asked, Total, Kind, TokensOf, CallsOf, KeyTokens
<1>3. PgTypeOK'
  BY <1>1, <1>2 DEF PagingInv, PgTypeOK, Pages, Walks, Keyset, AtStart, Scans
<1>4. Placed'
  <2>1. ASSUME NEW o PROVE PlacedAt(o)' = PlacedAt(o)
    BY <1>1 DEF PlacedAt
  <2>2. QED  BY <1>1, <1>2, <2>1 DEF PagingInv, Placed
<1>5. QED  BY <1>1, <1>2, <1>3, <1>4 DEF PagingInv, WalkForward, WalkLimited, WentBack, Through, CallSeen, CallBounded,
     ScanSeen, KeysSeen, Seen, SeenOf

LEMMA PagingNext == ASSUME PagingInv, [PgNext]_pgvars PROVE PagingInv'
<1>1. ASSUME SqlFirst \/ FindFirst \/ AggregateFirst PROVE PagingInv'
  <2>1. pgQuery.kind \in Keyset /\ Rest /\ (OneWindow \/ \E s \in PgSizes : FirstByKey(s))
    BY <1>1 DEF SqlFirst, FindFirst, AggregateFirst, Kind, Keyset
  <2>2. QED  BY <2>1, OneWindowStep, FirstByKeyStep
<1>2. ASSUME SqlToken \/ FindToken \/ AggregateToken PROVE PagingInv'
  <2>1. pgQuery.kind \in Keyset /\ Rest /\ Turns(ByKey)
    BY <1>2 DEF SqlToken, FindToken, AggregateToken, Kind, Keyset
  <2>2. QED  BY <2>1, ByKeyTurns
<1>3. ASSUME ListEntitiesPage PROVE PagingInv'
  <2>1. pgQuery.kind = "entities" /\ Rest
    BY <1>3 DEF ListEntitiesPage, Kind
  <2>2. \/ \E s \in PgSizes \ {0} : ListPage(s, 0, "first")
        \/ pgPage.next # NoToken /\ ListPage(pgPage.next.limit, pgPage.next.end, "next")
    BY <1>3 DEF ListEntitiesPage
  <2>3. QED  BY <2>1, <2>2, ListFirstStep, ListNextStep
<1>4. QED  BY <1>1, <1>2, <1>3, D1Step, BoundedBeginStep, BoundedPageStep, BoundedEndStep, TablesBeginStep, TablesPageStep,
               ScanStep, ChangeStep, EditStep, SameStep DEF PgNext

LEMMA PagingHolds == ASSUME PagingInv PROVE PagingSafe
<1>1. WalkCovers
  <2>1. Total = ResolveTotalLimit(pgQuery.limit) /\ (Kind("d1") <=> pgQuery.kind = "d1")
    BY DEF Total, Kind
  <2>2. pgQuery.kind \in Keyset /\ pgWalk.forward => Len(pgWalk.shown) <= Total
    BY DEF PagingInv, WalkLimited
  <2>3. pgPage.state = "prev" /\ Exact => pgPage.rows = pgWalk.back
    BY DEF PagingInv, WentBack
  <2>4. Exact /\ pgWalk.forward /\ (pgQuery.kind = "d1" => pgWalk.still) =>
          /\ \A i, j \in DOMAIN pgWalk.shown : i < j => pgWalk.shown[i] < pgWalk.shown[j]
          /\ Through /\ ~(pgQuery.kind \in Keyset /\ Len(pgWalk.shown) >= Total) /\ ~(pgQuery.kind = "d1" /\ pgQuery.limit > 0)
               => pgWalk.stable \cap Asked \subseteq ToSet(pgWalk.shown)
    BY DEF PagingInv, WalkForward, Increasing
  <2>5. QED  BY <2>1, <2>2, <2>3, <2>4 DEF WalkCovers, Through
<1>2. BudgetsKept
  <2>1. ASSUME pgCall.pc = "page", pgQuery.kind = "bounded"
        PROVE  /\ Len(pgCall.rows) <= pgCall.bounds.rows /\ pgCall.evaluated <= pgCall.bounds.items
               /\ pgCall.pages <= pgCall.bounds.pages
    <3>1. PgTypeOK /\ pgCall # NoCall
      BY <2>1 DEF PagingInv, NoCall
    <3>2. pgCall \in BoundedCalls
      BY <2>1, <3>1, CallTyped DEF Multi
    <3>3. pgCall.bounds \in Budgets /\ pgCall.spent \in Nat /\ pgCall.evaluated \in Nat
      BY <3>2 DEF BoundedCalls
    <3>4. pgCall.bounds.items \in Nat
      BY <3>3 DEF Budgets
    <3>5. /\ Len(pgCall.rows) <= pgCall.bounds.rows /\ pgCall.pages <= pgCall.bounds.pages
          /\ pgCall.spent <= pgCall.bounds.items /\ pgCall.evaluated <= pgCall.spent
      BY <2>1, <3>1 DEF PagingInv, CallBounded
    <3>6. QED  BY <3>3, <3>4, <3>5
  <2>2. ASSUME pgScan.done PROVE pgScan.keys = UNION {{<<n, k>> : k \in 1 .. PgSlots[n]} : n \in PgNodes}
    <3>1. pgScan.keys \in SUBSET (PgNodes \X Nat)
      BY DEF PagingInv, PgTypeOK, Scans
    <3>2. \A n \in PgNodes : KeysSeen(n) = 1 .. PgSlots[n]
      BY <2>2 DEF PagingInv, ScanSeen
    <3>3. ASSUME NEW n \in PgNodes, NEW k PROVE <<n, k>> \in pgScan.keys <=> k \in 1 .. PgSlots[n]
      <4>1. <<n, k>> \in pgScan.keys => k \in Nat
        BY <3>1
      <4>2. k \in KeysSeen(n) <=> k \in 1 .. PgSlots[n]
        BY <3>2
      <4>3. k \in 1 .. PgSlots[n] => k \in Nat
        OBVIOUS
      <4>4. QED  BY <4>1, <4>2, <4>3 DEF KeysSeen
    <3>4. ASSUME NEW x \in pgScan.keys PROVE x \in UNION {{<<n, k>> : k \in 1 .. PgSlots[n]} : n \in PgNodes}
      <4>1. PICK n \in PgNodes, k \in Nat : x = <<n, k>>
        BY <3>1
      <4>2. QED  BY <3>3, <4>1
    <3>5. ASSUME NEW x \in UNION {{<<n, k>> : k \in 1 .. PgSlots[n]} : n \in PgNodes} PROVE x \in pgScan.keys
      <4>1. PICK n \in PgNodes : x \in {<<n, k>> : k \in 1 .. PgSlots[n]}
        OBVIOUS
      <4>2. PICK k \in 1 .. PgSlots[n] : x = <<n, k>>
        BY <4>1
      <4>3. QED  BY <3>3, <4>2
    <3>6. QED  BY <3>4, <3>5
  <2>3. QED  BY <2>1, <2>2 DEF BudgetsKept, Kind
<1>3. QED  BY <1>1, <1>2 DEF PagingSafe

(* Pages read while others change the table: a walk of next pages that has *)
(* come to its end has shown every row that was there all along, once and  *)
(* in order, up to the LIMIT; a page back from the second shows the first  *)
(* again; a bounded call stays within its budget; and a scan of a cluster  *)
(* that is through has seen every node whole.                              *)
THEOREM PagingCorrect == PgSpec => []PagingSafe
<1>1. PgInit => PagingInv
  BY PagingInit
<1>2. PagingInv /\ [PgNext]_pgvars => PagingInv'
  BY PagingNext
<1>3. PagingInv => PagingSafe
  BY PagingHolds
<1>4. QED  BY <1>1, <1>2, <1>3, PTL DEF PgSpec

-----------------------------------------------------------------------------
(* The masking.  What an expression of the statement is traced to is set   *)
(* beside what the database computes it from, column by column, and both   *)
(* run through the expressions of the list in the same order: so it is     *)
(* that two lists of lists of which none of the first is longer than its   *)
(* partner in the second, flattened, are equally long only if all of them  *)
(* are, and then pair as they did.                                         *)

LEMMA LeastNumber ==
  ASSUME NEW T \in SUBSET Nat, T # {}
  PROVE  \E m \in T : \A k \in T : m <= k
<1>1. IsWellFoundedOn(OpToRel(<, Nat), Nat)
  BY NatLessThanWellFounded
<1>2. \E x \in T : \A y \in T : ~ (<<y, x>> \in OpToRel(<, Nat))
  BY <1>1, WFMin
<1>3. \A x, y \in Nat : <<y, x>> \in OpToRel(<, Nat) <=> y < x
  BY DEF OpToRel
<1> DEFINE R == OpToRel(<, Nat)
<1> HIDE DEF R
<1>4. \E x \in T : \A y \in T : ~ (<<y, x>> \in R)
  BY <1>2 DEF R
<1>5. \A x, y \in Nat : <<y, x>> \in R <=> y < x
  BY <1>3 DEF R
<1>6. PICK m \in T : \A y \in T : ~ (<<y, m>> \in R)
  BY <1>4
<1>7. \A y \in T : ~ (y < m)
  BY <1>5, <1>6
<1>8. QED  BY <1>7

\* What is so at 1 and passes from each number to the next is so up to n.
LEMMA UpTo ==
  ASSUME NEW n \in Nat, NEW good \in SUBSET Nat, 1 \in good,
         \A k \in 1..n : k - 1 \in good /\ k > 1 => k \in good
  PROVE  1..n \subseteq good
<1> DEFINE T == {k \in 1..n : k \notin good}
<1>1. T \in SUBSET Nat
  OBVIOUS
<1>2. SUFFICES ASSUME T # {} PROVE FALSE
  OBVIOUS
<1>3. PICK m \in T : \A k \in T : m <= k
  BY <1>1, <1>2, LeastNumber
<1>4. m \in 1..n /\ m \notin good /\ m > 1
  BY <1>3
<1>5. m - 1 \notin T
  BY <1>3, <1>4
<1>6. QED  BY <1>4, <1>5

\* One list of lists, added up from the left.
Runs(s, h) == h = [i \in 1..Len(s) |-> IF i = 1 THEN s[i] ELSE h[i-1] \o s[i]]
RunsTo(s, k, h) == h = [i \in 1..k |-> IF i = 1 THEN s[i] ELSE h[i-1] \o s[i]]

LEMMA RunsExist ==
  ASSUME NEW s, Len(s) \in Nat, Len(s) # 0
  PROVE  \E h : Runs(s, h)
<1> DEFINE good == {k \in Nat : \E h : RunsTo(s, k, h)}
<1>1. 1 \in good
  <2>1. RunsTo(s, 1, [i \in 1..1 |-> s[i]])
    BY DEF RunsTo
  <2>2. QED  BY <2>1
<1>2. ASSUME NEW k \in 1..Len(s), k - 1 \in good, k > 1
      PROVE  k \in good
  <2>1. PICK h : RunsTo(s, k - 1, h)
    BY <1>2
  <2> DEFINE g == [i \in 1..k |-> IF i = k THEN h[k-1] \o s[k] ELSE h[i]]
  <2>2. \A i \in 1..(k-1) : h[i] = IF i = 1 THEN s[i] ELSE h[i-1] \o s[i]
    BY <2>1, Zenon DEF RunsTo
  <2>3. \A i \in 1..k : g[i] = IF i = 1 THEN s[i] ELSE g[i-1] \o s[i]
    <3>1. TAKE i \in 1..k
    <3>2. CASE i = k
      <4>1. i # 1 /\ i \in 1..k /\ i - 1 \in 1..k /\ i - 1 # k /\ k \in Int
        BY <1>2, <3>2
      <4>2. g[i] = h[k-1] \o s[k] /\ g[i-1] = h[i-1]
        BY <3>2, <4>1
      <4>3. QED  BY <3>2, <4>1, <4>2
    <3>3. CASE i # k
      <4>1. i \in 1..(k-1) /\ g[i] = h[i]
        BY <1>2, <3>3
      <4>2. i # 1 => g[i-1] = h[i-1]
        BY <1>2, <3>3
      <4>3. QED  BY <2>2, <4>1, <4>2
    <3>4. QED  BY <3>2, <3>3
  <2> DEFINE g2 == [i \in 1..k |-> IF i = 1 THEN s[i] ELSE g[i-1] \o s[i]]
  <2>4. g = g2
    <3>1. \A i \in 1..k : g[i] = g2[i]
      BY <2>3
    <3>2. g = [i \in 1..k |-> g[i]] /\ g2 = [i \in 1..k |-> g2[i]]
      OBVIOUS
    <3> HIDE DEF g, g2
    <3>3. QED  BY <3>1, <3>2
  <2>5. RunsTo(s, k, g)
    BY <2>4 DEF RunsTo
  <2> HIDE DEF g
  <2>6. QED  BY <2>5
<1> HIDE DEF good
<1>3. 1..Len(s) \subseteq good
  <2>1. good \in SUBSET Nat
    BY DEF good
  <2>2. \A k \in 1..Len(s) : k - 1 \in good /\ k > 1 => k \in good
    BY <1>2
  <2>3. QED  BY <1>1, <2>1, <2>2, UpTo
<1>4. Len(s) \in good
  BY <1>3
<1>5. PICK h : RunsTo(s, Len(s), h)
  BY <1>4 DEF good
<1>6. Runs(s, h)
  BY <1>5 DEF Runs, RunsTo
<1>7. QED  BY <1>6

LEMMA FlatRuns ==
  ASSUME NEW s, Len(s) \in Nat, Len(s) # 0
  PROVE  \E h : Runs(s, h) /\ FlattenSeq(s) = h[Len(s)]
<1> DEFINE F == CHOOSE h : h = [i \in 1..Len(s) |-> IF i = 1 THEN s[i] ELSE h[i-1] \o s[i]]
<1>1. F = [i \in 1..Len(s) |-> IF i = 1 THEN s[i] ELSE F[i-1] \o s[i]]
  <2>1. PICK g : g = [i \in 1..Len(s) |-> IF i = 1 THEN s[i] ELSE g[i-1] \o s[i]]
    BY RunsExist DEF Runs
  <2>2. QED  BY <2>1, Zenon
<1>2. FlattenSeq(s) = F[Len(s)]
  BY Zenon DEF FlattenSeq
<1>3. Runs(s, F)
  BY <1>1, Zenon DEF Runs
<1> HIDE DEF F
<1>4. QED  BY <1>2, <1>3

\* Two lists joined behind two as long: what stood side by side still does.
StillPaired(a, b, c, d, k) ==
  \/ k \in 1..Len(a) /\ (a \o c)[k] = a[k] /\ (b \o d)[k] = b[k]
  \/ \E j \in 1..Len(c) : (a \o c)[k] = c[j] /\ (b \o d)[k] = d[j]

LEMMA JoinedPairs ==
  ASSUME NEW S, NEW T, NEW a \in Seq(S), NEW b \in Seq(T), NEW c \in Seq(S), NEW d \in Seq(T),
         Len(a) = Len(b), Len(c) = Len(d), NEW k \in 1..Len(a \o c)
  PROVE  StillPaired(a, b, c, d, k)
<1>1. Len(a \o c) = Len(a) + Len(c) /\ Len(b \o d) = Len(b) + Len(d)
  OBVIOUS
<1>2. Len(a) \in Nat /\ Len(b) \in Nat /\ Len(c) \in Nat
  OBVIOUS
<1>3. CASE k <= Len(a)
  <2>1. k \in 1..Len(a) /\ (a \o c)[k] = a[k]
    BY <1>1, <1>3
  <2>2. (b \o d)[k] = b[k]
    BY <1>1, <1>3
  <2>3. QED  BY <2>1, <2>2, Zenon DEF StillPaired
<1>4. CASE k > Len(a)
  <2>1. (a \o c)[k] = c[k - Len(a)] /\ (b \o d)[k] = d[k - Len(a)]
    BY <1>1, <1>4
  <2>2. k - Len(a) \in 1..Len(c)
    BY <1>1, <1>2, <1>4
  <2>3. QED  BY <2>1, <2>2, Zenon DEF StillPaired
<1>5. QED  BY <1>2, <1>3, <1>4

AsLong(A, B) == \A i \in 1..Len(A) : Len(B[i]) = Len(A[i])
Aside(A, B, x, y) == \E i \in 1..Len(A) : \E j \in 1..Len(A[i]) : x = A[i][j] /\ y = B[i][j]
RunsBeside(A, B, k, a, b, S, T) ==
  /\ a \in Seq(S) /\ b \in Seq(T) /\ Len(b) <= Len(a)
  /\ Len(b) = Len(a) => \A i \in 1..k : Len(B[i]) = Len(A[i])
  /\ AsLong(A, B) => Len(b) = Len(a) /\ \A m \in 1..Len(a) : Aside(A, B, a[m], b[m])

LEMMA RunsOn ==
  ASSUME NEW S, NEW T, NEW A \in Seq(Seq(S)), NEW B \in Seq(Seq(T)), Len(A) = Len(B),
         \A i \in 1..Len(A) : Len(B[i]) <= Len(A[i]),
         NEW k \in 1..Len(A), k > 1, NEW a, NEW b, RunsBeside(A, B, k - 1, a, b, S, T)
  PROVE  RunsBeside(A, B, k, a \o A[k], b \o B[k], S, T)
<1>1. a \in Seq(S) /\ b \in Seq(T) /\ A[k] \in Seq(S) /\ B[k] \in Seq(T)
  BY DEF RunsBeside
<1>2. /\ Len(a \o A[k]) = Len(a) + Len(A[k]) /\ Len(b \o B[k]) = Len(b) + Len(B[k])
      /\ a \o A[k] \in Seq(S) /\ b \o B[k] \in Seq(T)
      /\ Len(a) \in Nat /\ Len(b) \in Nat /\ Len(A[k]) \in Nat /\ Len(B[k]) \in Nat
  BY <1>1
<1>3. Len(b) <= Len(a) /\ Len(B[k]) <= Len(A[k])
  BY DEF RunsBeside
<1>4. Len(b \o B[k]) = Len(a \o A[k]) => \A i \in 1..k : Len(B[i]) = Len(A[i])
  <2>1. SUFFICES ASSUME Len(b \o B[k]) = Len(a \o A[k]), NEW i \in 1..k PROVE Len(B[i]) = Len(A[i])
    OBVIOUS
  <2>2. Len(b) = Len(a) /\ Len(B[k]) = Len(A[k])
    BY <1>2, <1>3, <2>1
  <2>3. i # k => i \in 1..(k-1)
    OBVIOUS
  <2>4. QED  BY <2>2, <2>3 DEF RunsBeside
<1>5. ASSUME AsLong(A, B)
      PROVE  /\ Len(b \o B[k]) = Len(a \o A[k])
             /\ \A m \in 1..Len(a \o A[k]) : Aside(A, B, (a \o A[k])[m], (b \o B[k])[m])
  <2>1. Len(b) = Len(a) /\ Len(B[k]) = Len(A[k]) /\ \A m \in 1..Len(a) : Aside(A, B, a[m], b[m])
    BY <1>5 DEF RunsBeside, AsLong
  <2>2. ASSUME NEW m \in 1..Len(a \o A[k]) PROVE Aside(A, B, (a \o A[k])[m], (b \o B[k])[m])
    <3>1. \/ m \in 1..Len(a) /\ (a \o A[k])[m] = a[m] /\ (b \o B[k])[m] = b[m]
          \/ \E j \in 1..Len(A[k]) : (a \o A[k])[m] = A[k][j] /\ (b \o B[k])[m] = B[k][j]
      <4>1. StillPaired(a, b, A[k], B[k], m)
        BY <1>1, <2>1, JoinedPairs
      <4>2. QED  BY <4>1, Zenon DEF StillPaired
    <3>2. CASE m \in 1..Len(a) /\ (a \o A[k])[m] = a[m] /\ (b \o B[k])[m] = b[m]
      BY <2>1, <3>2, Zenon
    <3>3. CASE \E j \in 1..Len(A[k]) : (a \o A[k])[m] = A[k][j] /\ (b \o B[k])[m] = B[k][j]
      BY <3>3, Zenon DEF Aside
    <3>4. QED  BY <3>1, <3>2, <3>3
  <2>3. QED  BY <1>2, <2>1, <2>2
<1>6. QED  BY <1>2, <1>3, <1>4, <1>5 DEF RunsBeside

LEMMA FlatPaired ==
  ASSUME NEW S, NEW T, NEW A \in Seq(Seq(S)), NEW B \in Seq(Seq(T)), Len(A) = Len(B), Len(A) # 0,
         \A i \in 1..Len(A) : Len(B[i]) <= Len(A[i])
  PROVE  RunsBeside(A, B, Len(A), FlattenSeq(A), FlattenSeq(B), S, T)
<1> DEFINE n == Len(A)
<1>1. n \in Nat /\ n >= 1
  OBVIOUS
<1>2. PICK f : Runs(A, f) /\ FlattenSeq(A) = f[n]
  BY <1>1, FlatRuns
<1>3. PICK g : Runs(B, g) /\ FlattenSeq(B) = g[n]
  BY <1>1, FlatRuns
<1>4. /\ f[1] = A[1] /\ g[1] = B[1]
      /\ \A k \in 1..n : k > 1 => f[k] = f[k-1] \o A[k] /\ g[k] = g[k-1] \o B[k]
  <2>1. \A k \in 1..n : f[k] = IF k = 1 THEN A[k] ELSE f[k-1] \o A[k]
    BY <1>2, Zenon DEF Runs
  <2>2. \A k \in 1..n : g[k] = IF k = 1 THEN B[k] ELSE g[k-1] \o B[k]
    BY <1>3, Zenon DEF Runs
  <2>3. 1 \in 1..n
    BY <1>1
  <2>4. \A k \in 1..n : k > 1 => k # 1
    OBVIOUS
  <2>5. QED  BY <2>1, <2>2, <2>3, <2>4
<1> DEFINE good == {k \in Nat : k \in 1..n /\ RunsBeside(A, B, k, f[k], g[k], S, T)}
<1>5. 1 \in good
  <2>1. 1 \in 1..n /\ A[1] \in Seq(S) /\ B[1] \in Seq(T) /\ Len(B[1]) <= Len(A[1])
    BY <1>1
  <2>2. ASSUME AsLong(A, B), NEW m \in 1..Len(A[1]) PROVE Aside(A, B, A[1][m], B[1][m])
    BY <2>1, <2>2, Zenon DEF Aside
  <2>3. AsLong(A, B) => Len(B[1]) = Len(A[1])
    BY <2>1 DEF AsLong
  <2>4. \A i \in 1..1 : i = 1
    OBVIOUS
  <2>5. RunsBeside(A, B, 1, A[1], B[1], S, T)
    BY <2>1, <2>2, <2>3, <2>4 DEF RunsBeside
  <2>6. QED  BY <1>4, <2>1, <2>5
<1>6. ASSUME NEW k \in 1..n, k - 1 \in good, k > 1 PROVE k \in good
  <2>1. RunsBeside(A, B, k - 1, f[k-1], g[k-1], S, T)
    BY <1>6
  <2>2. RunsBeside(A, B, k, f[k-1] \o A[k], g[k-1] \o B[k], S, T)
    BY <1>6, <2>1, RunsOn
  <2>3. RunsBeside(A, B, k, f[k], g[k], S, T)
    BY <1>4, <1>6, <2>2, Zenon
  <2>4. QED  BY <1>6, <2>3
<1>7. good \in SUBSET Nat
  OBVIOUS
<1> HIDE DEF good, n
<1>8. 1..n \subseteq good
  <2>1. \A k \in 1..n : k - 1 \in good /\ k > 1 => k \in good
    BY <1>6
  <2>2. QED  BY <1>1, <1>5, <1>7, <2>1, UpTo
<1>9. n \in good
  BY <1>1, <1>8
<1>10. QED  BY <1>2, <1>3, <1>9, Zenon DEF good, n

(* The statement and its tables.                                           *)

LEMMA AskIs ==
  ASSUME NEW ask \in SqlAsks
  PROVE  /\ ask.sql = TRUE /\ ask.from \in MkFroms /\ ask.list \in MkLists /\ ask.columns \in MkColumns
         /\ ask.describe \in Describes(DOMAIN ask.columns)
         /\ ask.using \in BOOLEAN /\ ask.plain \in BOOLEAN /\ Accepted(ask)
<1> DEFINE With(c) == {SqlAsk(f, l, c, d, u, p) : f \in MkFroms, l \in MkLists, d \in Describes(DOMAIN c), u \in BOOLEAN, p \in BOOLEAN}
<1>5. ask \in UNION {With(c) : c \in MkColumns}
  BY SMT DEF SqlAsks
<1> HIDE DEF With
<1>6. PICK c \in MkColumns : ask \in With(c)
  BY <1>5
<1>1. PICK f \in MkFroms, l \in MkLists, d \in Describes(DOMAIN c), u \in BOOLEAN, p \in BOOLEAN :
        ask = SqlAsk(f, l, c, d, u, p)
  BY <1>6, SMT DEF With
<1>2. ask.sql = TRUE /\ ask.from = f /\ ask.list = l /\ ask.columns = c /\ ask.describe = d /\ ask.using = u /\ ask.plain = p
  BY <1>1 DEF SqlAsk
<1>3. Accepted(ask)
  BY SMT DEF SqlAsks
<1>4. QED  BY <1>2, <1>3, Zenon

Places(ask) == 1..Len(ask.from)

LEMMA FromIs ==
  ASSUME NEW ask \in SqlAsks
  PROVE  /\ Len(ask.from) \in Nat \ {0} /\ DOMAIN ask.from = Places(ask)
         /\ \A i \in Places(ask) : /\ ask.from[i].table # NoAlias /\ ask.from[i].schema \in {"", MkDefault}
                                   /\ ask.from[i].table \in DOMAIN ask.columns /\ ask.from[i] \in Listed(ask)
         /\ \A t \in Listed(ask) : \E i \in Places(ask) : t = ask.from[i]
<1>1. ask.from \in MkFroms /\ ask.columns \in MkColumns
  BY AskIs, Zenon
<1> DEFINE f == ask.from
           Refs == [schema : {"", MkDefault}, table : STRING, alias : STRING]
<1>2. /\ f \in Seq(Refs) /\ f # <<>>
      /\ \A i \in DOMAIN f : f[i].table # NoAlias /\ f[i].table \in DOMAIN ask.columns
  BY <1>1, MaskingAssumption
<1>4. \A x \in Refs : x.schema \in {"", MkDefault}
  OBVIOUS
<1> HIDE DEF f, Refs
<1>3. Len(f) \in Nat \ {0} /\ DOMAIN f = 1..Len(f) /\ \A i \in 1..Len(f) : f[i] \in Refs
  BY <1>2
<1>5. Listed(ask) = {f[i] : i \in 1..Len(f)} /\ Places(ask) = 1..Len(f)
  BY <1>3, Zenon DEF f, Places, Listed, ToSet
<1>6. /\ \A i \in 1..Len(f) : /\ f[i].table # NoAlias /\ f[i].schema \in {"", MkDefault}
                             /\ f[i].table \in DOMAIN ask.columns /\ f[i] \in Listed(ask)
      /\ \A t \in Listed(ask) : \E i \in 1..Len(f) : t = f[i]
  BY <1>2, <1>3, <1>4, <1>5
<1>7. QED  BY <1>3, <1>5, <1>6, Zenon DEF f

LEMMA ColumnsAre ==
  ASSUME NEW ask \in SqlAsks, NEW t \in Listed(ask)
  PROVE  /\ ColumnsOf(ask, t) \in Seq(STRING) /\ ColumnsOf(ask, t) # <<>>
         /\ t.table # NoAlias /\ t.schema \in {"", MkDefault} /\ t.table \in DOMAIN ask.columns
<1>1. t.table # NoAlias /\ t.schema \in {"", MkDefault} /\ t.table \in DOMAIN ask.columns
  <2>1. PICK i \in Places(ask) : t = ask.from[i]
    BY FromIs, Zenon
  <2>2. QED  BY <2>1, FromIs
<1>2. ask.columns \in MkColumns
  BY AskIs, Zenon
<1>3. QED  BY <1>1, <1>2, MaskingAssumption, Zenon DEF ColumnsOf

\* A description that is there begins with the columns that the query saw.
LEMMA ToldIs ==
  ASSUME NEW ask \in SqlAsks, NEW t \in Listed(ask)
  PROVE  /\ Told(ask, t) \in Seq(STRING)
         /\ ask.describe[t.table] = "told" => Told(ask, t) = ColumnsOf(ask, t)
         /\ ask.describe[t.table] \notin {"told", "grown"} => Told(ask, t) = <<>>
         /\ ask.describe[t.table] \in DescribeOutcomes
         /\ ask.describe[t.table] \in {"told", "grown"} =>
              /\ Len(ColumnsOf(ask, t)) <= Len(Told(ask, t))
              /\ \A k \in 1..Len(ColumnsOf(ask, t)) : Told(ask, t)[k] = ColumnsOf(ask, t)[k]
<1> DEFINE c == ColumnsOf(ask, t)
<1>1. c \in Seq(STRING) /\ t.table \in DOMAIN ask.columns
  BY ColumnsAre, Zenon
<1>2. MkExtra \in STRING
  BY MaskingAssumption
<1>3. ask.describe[t.table] \in DescribeOutcomes
  BY <1>1, AskIs DEF Describes
<1>4. /\ ask.describe[t.table] = "told" => Told(ask, t) = c
      /\ ask.describe[t.table] = "grown" => Told(ask, t) = Append(c, MkExtra)
      /\ ask.describe[t.table] \notin {"told", "grown"} => Told(ask, t) = <<>>
  BY DEF Told
<1> HIDE DEF c
<1>5. Append(c, MkExtra) \in Seq(STRING) /\ Len(Append(c, MkExtra)) = Len(c) + 1 /\ \A k \in 1..Len(c) : Append(c, MkExtra)[k] = c[k]
  BY <1>1, <1>2
<1>6. Len(c) \in Nat
  BY <1>1
<1>7. <<>> \in Seq(STRING)
  OBVIOUS
<1>8. CASE ask.describe[t.table] = "told"
  BY <1>1, <1>3, <1>4, <1>6, <1>8 DEF c
<1>9. CASE ask.describe[t.table] = "grown"
  BY <1>1, <1>3, <1>4, <1>5, <1>6, <1>9 DEF c
<1>10. CASE ask.describe[t.table] \notin {"told", "grown"}
  BY <1>3, <1>4, <1>7, <1>10
<1>11. QED  BY <1>8, <1>9, <1>10

\* At most one table is not described as it was.
LEMMA OneAtMost ==
  ASSUME NEW ask \in SqlAsks, NEW t \in DOMAIN ask.columns, NEW u \in DOMAIN ask.columns,
         ask.describe[t] # "told", ask.describe[u] # "told"
  PROVE  t = u
<1> DEFINE odd == {x \in DOMAIN ask.columns : ask.describe[x] # "told"}
<1>1. Cardinality(odd) <= 1
  BY AskIs DEF Describes
<1>2. IsFiniteSet(DOMAIN ask.columns)
  BY AskIs, MaskingAssumption, Zenon
<1>3. IsFiniteSet(odd)
  BY <1>2, FS_Subset
<1>4. SUFFICES ASSUME t # u PROVE FALSE
  OBVIOUS
<1>5. {t, u} \subseteq odd
  OBVIOUS
<1>6. Cardinality({t, u}) = 2
  <2>1. IsFiniteSet({t}) /\ Cardinality({t}) = 1
    BY FS_Singleton
  <2>2. Cardinality({t} \cup {u}) = Cardinality({t}) + 1
    BY <1>4, <2>1, FS_AddElement
  <2>3. {t} \cup {u} = {t, u}
    OBVIOUS
  <2>4. QED  BY <2>1, <2>2, <2>3
<1> HIDE DEF odd
<1>7. Cardinality({t, u}) <= Cardinality(odd)
  BY <1>3, <1>5, FS_Subset
<1>8. Cardinality(odd) \in Nat
  BY <1>3, FS_CardinalityType
<1>9. QED  BY <1>1, <1>6, <1>7, <1>8

(* What a name means: the database and the tracing agree on the table,     *)
(* whichever of its places in the FROM clause they take it from.           *)

LEMMA Apart ==
  ASSUME NEW ask \in SqlAsks, NEW i \in Places(ask), NEW j \in Places(ask), i # j
  PROVE  /\ \A name : ~(name \in Shown(ask.from[i]) /\ name \in Shown(ask.from[j]))
         /\ ask.from[i].alias # ask.from[j].table
<1>1. Accepted(ask) /\ i \in DOMAIN ask.from /\ j \in DOMAIN ask.from
  BY AskIs, FromIs, Zenon
<1>2. Shown(ask.from[i]) \cap Shown(ask.from[j]) = {} /\ ask.from[i].alias # ask.from[j].table
  BY <1>1, Zenon DEF Accepted
<1>3. QED  BY <1>2, Zenon

LEMMA NameTable ==
  ASSUME NEW ask \in SqlAsks, NEW i \in Places(ask), NEW j \in Places(ask), NEW name,
         name \in Shown(ask.from[j]),
         <<ask.from[i].alias>> = name \/ FullName(ask.from[i]) = name \/ <<ask.from[i].table>> = name
  PROVE  ask.from[i].table = ask.from[j].table
<1> DEFINE a == ask.from[i]
           b == ask.from[j]
<1>1. a.table # NoAlias /\ b.table # NoAlias
  BY FromIs
<1>2. SUFFICES ASSUME i # j PROVE a.table = b.table
  OBVIOUS
<1>3. name \notin Shown(a) /\ a.alias # b.table /\ b.alias # a.table
  BY <1>2, Apart
<1> HIDE DEF a, b
<1>4. <<a.alias>> = name \/ FullName(a) = name \/ <<a.table>> = name
  BY DEF a
<1>5. name \in Shown(b)
  BY DEF b
<1>6. CASE b.alias # NoAlias
  <2>1. name = <<b.alias>>
    BY <1>5, <1>6 DEF Shown
  <2>2. a.alias # b.alias
    BY <1>3, <1>6, <2>1 DEF Shown
  <2>3. <<a.alias>> # name /\ <<a.table>> # name
    BY <1>3, <2>1, <2>2
  <2>4. FullName(a) # name
    <3>1. <<a.schema, a.table>> # <<b.alias>>
      OBVIOUS
    <3>2. QED  BY <2>1, <2>3, <3>1 DEF FullName
  <2>5. QED  BY <1>4, <2>3, <2>4
<1>7. CASE b.alias = NoAlias
  <2>1. name = <<b.table>> \/ name = <<b.schema, b.table>>
    BY <1>5, <1>7 DEF Shown
  <2>2. CASE <<a.alias>> = name
    <3>1. <<a.alias>> # <<b.schema, b.table>> /\ (<<a.alias>> = <<b.table>> => a.alias = b.table)
      OBVIOUS
    <3>2. QED  BY <1>3, <2>1, <2>2, <3>1
  <2>3. CASE <<a.table>> = name
    <3>1. <<a.table>> # <<b.schema, b.table>> /\ (<<a.table>> = <<b.table>> => a.table = b.table)
      OBVIOUS
    <3>2. QED  BY <2>1, <2>3, <3>1
  <2>4. CASE FullName(a) = name /\ <<a.table>> # name
    <3>1. <<a.schema, a.table>> = name
      BY <2>4 DEF FullName
    <3>2. /\ <<a.schema, a.table>> # <<b.table>>
          /\ <<a.schema, a.table>> = <<b.schema, b.table>> => a.table = b.table
      OBVIOUS
    <3>3. QED  BY <2>1, <3>1, <3>2
  <2>5. QED  BY <1>4, <2>2, <2>3, <2>4
<1>8. QED  BY <1>6, <1>7 DEF a, b

LEMMA GreatestNumber ==
  ASSUME NEW n \in Nat, NEW T \in SUBSET (1..n), T # {}
  PROVE  \E m \in T : \A k \in T : k <= m
<1> DEFINE R == {n - k : k \in T}
<1>1. R \in SUBSET Nat /\ R # {}
  <2>1. \A k \in T : k \in Int /\ n - k \in Nat
    OBVIOUS
  <2>2. QED  BY <2>1
<1>2. PICK x \in R : \A k \in R : x <= k
  <2> HIDE DEF R
  <2>1. QED  BY <1>1, LeastNumber
<1>3. PICK m \in T : x = n - m
  OBVIOUS
<1>4. \A k \in T : n - m <= n - k
  BY <1>2, <1>3
<1>5. \A k \in T : k <= m
  BY <1>4
<1>6. QED  BY <1>5

Strong(ask, name) == {i \in Places(ask) : <<ask.from[i].alias>> = name \/ FullName(ask.from[i]) = name}
Bare(ask, name) == {i \in Places(ask) : <<ask.from[i].table>> = name}

LEMMA Resolves ==
  ASSUME NEW ask \in SqlAsks, NEW t \in Listed(ask), NEW name, name \in Shown(t)
  PROVE  \E u \in Listed(ask) : ResolveTable(ask, name) = {u} /\ u.table = t.table
<1> DEFINE strong == Strong(ask, name)
           bare == Bare(ask, name)
<1>1. PICK j \in Places(ask) : t = ask.from[j]
  BY FromIs, Zenon
<1>2. /\ Places(ask) = 1..Len(ask.from) /\ Len(ask.from) \in Nat /\ DOMAIN ask.from = Places(ask)
      /\ \A i \in Places(ask) : ask.from[i] \in Listed(ask)
  BY FromIs DEF Places
<1>3. ResolveTable(ask, name) =
        {ask.from[i] : i \in IF strong # {} THEN {CHOOSE i \in strong : \A k \in strong : k <= i}
                             ELSE {i \in bare : \A k \in bare : i <= k}}
  BY <1>2, Zenon DEF ResolveTable, Strong, Bare
<1>4. strong \in SUBSET Places(ask) /\ bare \in SUBSET Places(ask)
  BY DEF Strong, Bare
<1>5. \A i \in strong \cup bare : ask.from[i].table = t.table
  BY <1>1, NameTable DEF Strong, Bare
<1>6. strong # {} \/ bare # {}
  <2>1. <<t.alias>> = name \/ FullName(t) = name \/ <<t.table>> = name
    BY DEF Shown, FullName
  <2>2. j \in strong \/ j \in bare
    BY <1>1, <2>1 DEF Strong, Bare
  <2>3. QED  BY <2>2
<1> HIDE DEF strong, bare
<1>7. CASE strong # {}
  <2> DEFINE m == CHOOSE i \in strong : \A k \in strong : k <= i
  <2>1. \E i \in strong : \A k \in strong : k <= i
    BY <1>2, <1>4, <1>7, GreatestNumber
  <2>2. m \in strong
    BY <2>1
  <2> HIDE DEF m
  <2>3. ResolveTable(ask, name) = {ask.from[i] : i \in {m}}
    BY <1>3, <1>7 DEF m
  <2>4. ResolveTable(ask, name) = {ask.from[m]}
    BY <2>3
  <2>5. ask.from[m] \in Listed(ask) /\ ask.from[m].table = t.table
    BY <1>2, <1>4, <1>5, <2>2
  <2>6. QED  BY <2>4, <2>5
<1>8. CASE strong = {}
  <2>1. bare \in SUBSET Nat /\ bare # {}
    BY <1>2, <1>4, <1>6, <1>8
  <2>2. PICK m \in bare : \A k \in bare : m <= k
    BY <2>1, LeastNumber
  <2>3. {i \in bare : \A k \in bare : i <= k} = {m}
    <3>1. ASSUME NEW i \in bare, \A k \in bare : i <= k PROVE i = m
      <4>1. i <= m /\ m <= i /\ i \in Nat /\ m \in Nat
        BY <2>1, <2>2, <3>1
      <4>2. QED  BY <4>1
    <3>2. QED  BY <2>2, <3>1
  <2>4. ResolveTable(ask, name) = {ask.from[i] : i \in {m}}
    BY <1>3, <1>8, <2>3
  <2>5. ResolveTable(ask, name) = {ask.from[m]}
    BY <2>4
  <2>6. ask.from[m] \in Listed(ask) /\ ask.from[m].table = t.table
    BY <1>2, <1>4, <1>5
  <2>7. QED  BY <2>5, <2>6
<1>9. QED  BY <1>7, <1>8

\* A name of one table is not that of another.
LEMMA SoleShown ==
  ASSUME NEW ask \in SqlAsks, NEW t \in Listed(ask), NEW u \in Listed(ask), NEW name, name \in Shown(t), name \in Shown(u)
  PROVE  t = u
<1>1. PICK i \in Places(ask) : t = ask.from[i]
  BY FromIs, Zenon
<1>2. PICK j \in Places(ask) : u = ask.from[j]
  BY FromIs, Zenon
<1>3. i = j
  BY <1>1, <1>2, Apart, Zenon
<1>4. QED  BY <1>1, <1>2, <1>3

LEMMA ShownSome ==
  ASSUME NEW t
  PROVE  \E name : name \in Shown(t)
<1>1. CASE t.alias # NoAlias
  BY <1>1 DEF Shown
<1>2. CASE t.alias = NoAlias
  <2>1. <<t.table>> \in Shown(t)
    BY <1>2 DEF Shown
  <2>2. QED  BY <2>1
<1>3. QED  BY <1>1, <1>2

LEMMA PlaceOnce ==
  ASSUME NEW ask \in SqlAsks, NEW i \in Places(ask), NEW j \in Places(ask), ask.from[i] = ask.from[j]
  PROVE  i = j
BY Apart, ShownSome, Zenon

(* A reference is traced to nothing, or to the table it is computed from.  *)

NoneEmpty(ask) == ~(ask.using /\ \E t \in Listed(ask) : ask.describe[t.table] = "empty")
AllTold(ask) == \A t \in DOMAIN ask.describe : ask.describe[t] = "told"

RefAccepted(ask, r) ==
  IF r.table = NoName
  THEN Cardinality({t \in Listed(ask) : Has(ask, t, r.column)}) = 1 \/ (ask.using /\ r.column \in Common(ask))
  ELSE \E t \in Listed(ask) : r.table \in Shown(t)

LEMMA RefsAccepted ==
  ASSUME NEW ask \in SqlAsks, NEW i \in DOMAIN ask.list, NEW r \in ask.list[i].refs
  PROVE  RefAccepted(ask, r)
<1>1. Accepted(ask)
  BY AskIs, Zenon
<1>2. QED  BY <1>1 DEF Accepted, RefAccepted

\* The image of an interval is finite, and no larger.
LEMMA ImageFinite ==
  ASSUME NEW S, IsFiniteSet(S), NEW f, DOMAIN f = S
  PROVE  IsFiniteSet({f[i] : i \in S}) /\ Cardinality({f[i] : i \in S}) <= Cardinality(S)
<1> DEFINE T == {f[i] : i \in S}
           g == [i \in S |-> f[i]]
<1>1. g \in Surjection(S, T)
  BY DEF Surjection
<1> HIDE DEF T, g
<1>2. QED  BY <1>1, FS_Surjection DEF T

LEMMA ListedFinite ==
  ASSUME NEW ask \in SqlAsks
  PROVE  IsFiniteSet(Listed(ask))
<1>1. Listed(ask) = {ask.from[i] : i \in Places(ask)}
  BY FromIs, Zenon DEF Listed, ToSet
<1>2. Len(ask.from) \in Nat
  BY FromIs
<1>3. IsFiniteSet(Places(ask))
  BY <1>2, FS_Interval DEF Places
<1>4. DOMAIN ask.from = Places(ask)
  BY FromIs
<1>5. QED  BY <1>1, <1>3, <1>4, ImageFinite

LEMMA QualifiedRef ==
  ASSUME NEW ask \in SqlAsks, NEW r, r.table # NoName, RefAccepted(ask, r)
  PROVE  \E t \in Listed(ask) : /\ ResolveColumnRef(ask, r) = {Origin(t, r.column)}
                                /\ RefSource(ask, r) = {<<t.table, r.column>>}
<1>1. PICK t \in Listed(ask) : r.table \in Shown(t)
  BY DEF RefAccepted
<1>2. PICK u \in Listed(ask) : ResolveTable(ask, r.table) = {u} /\ u.table = t.table
  BY <1>1, Resolves
<1>3. ResolveColumnRef(ask, r) = {Origin(u, r.column)}
  BY <1>2 DEF ResolveColumnRef
<1>4. {s \in Listed(ask) : r.table \in Shown(s)} = {t}
  BY <1>1, SoleShown
<1>5. RefSource(ask, r) = {<<t.table, r.column>>}
  BY <1>4 DEF RefSource
<1>6. QED  BY <1>2, <1>3, <1>5

Having(ask, column) == {i \in DOMAIN ask.from : column \in ToSet(Told(ask, ask.from[i]))}

\* What the query saw is described, if anything is; what is described and the
\* query did not see, the table has gained.
LEMMA HasTold ==
  ASSUME NEW ask \in SqlAsks, NEW t \in Listed(ask), NEW column
  PROVE  /\ Has(ask, t, column) /\ ask.describe[t.table] \in {"told", "grown"} => column \in ToSet(Told(ask, t))
         /\ column \in ToSet(Told(ask, t)) => ask.describe[t.table] \in {"told", "grown"}
         /\ column \in ToSet(Told(ask, t)) /\ ~Has(ask, t, column) => ask.describe[t.table] = "grown"
<1> DEFINE c == ColumnsOf(ask, t)
           d == Told(ask, t)
<1>1. c \in Seq(STRING) /\ d \in Seq(STRING)
  BY ColumnsAre, ToldIs
<1>2. /\ ask.describe[t.table] = "told" => d = c
      /\ ask.describe[t.table] \notin {"told", "grown"} => d = <<>>
      /\ ask.describe[t.table] \in {"told", "grown"} => Len(c) <= Len(d) /\ \A k \in 1..Len(c) : d[k] = c[k]
  BY ToldIs
<1> HIDE DEF c, d
<1>3. DOMAIN c = 1..Len(c) /\ DOMAIN d = 1..Len(d) /\ Len(c) \in Nat /\ Len(d) \in Nat
  BY <1>1
<1>4. Has(ask, t, column) <=> \E k \in 1..Len(c) : c[k] = column
  BY <1>3 DEF Has, ToSet, c
<1>5. column \in ToSet(d) <=> \E k \in 1..Len(d) : d[k] = column
  BY <1>3 DEF ToSet
<1>6. Len(c) <= Len(d) => 1..Len(c) \subseteq 1..Len(d)
  BY <1>3
<1>7. ~(column \in ToSet(<<>>))
  BY DEF ToSet
<1>8. Has(ask, t, column) /\ ask.describe[t.table] \in {"told", "grown"} => column \in ToSet(d)
  BY <1>2, <1>4, <1>5, <1>6
<1>9. column \in ToSet(d) => ask.describe[t.table] \in {"told", "grown"}
  BY <1>2, <1>7
<1>10. column \in ToSet(d) /\ ~Has(ask, t, column) => ask.describe[t.table] = "grown"
  BY <1>2, <1>4, <1>5, <1>9
<1>11. QED  BY <1>8, <1>9, <1>10, Zenon DEF d

LEMMA HavingFinite ==
  ASSUME NEW ask \in SqlAsks, NEW column
  PROVE  /\ IsFiniteSet(Having(ask, column)) /\ Having(ask, column) \subseteq Places(ask)
         /\ Cardinality({}) = 0
<1>1. Len(ask.from) \in Nat /\ DOMAIN ask.from = Places(ask)
  BY FromIs
<1>2. IsFiniteSet(Places(ask))
  BY <1>1, FS_Interval DEF Places
<1>3. Having(ask, column) \subseteq Places(ask)
  BY <1>1, Zenon DEF Having
<1>4. QED  BY <1>2, <1>3, FS_Subset, FS_EmptySet

Traced(ask, column, t) ==
  /\ ResolveUnqualified(ask, column) = {Origin(t, column)}
  /\ FromColumn(ask, column) = {<<t.table, column>>}

\* Only one table has the column.
LEMMA SoleColumn ==
  ASSUME NEW ask \in SqlAsks, NEW column, Cardinality({t \in Listed(ask) : Has(ask, t, column)}) = 1
  PROVE  \E t \in Listed(ask) : {u \in Listed(ask) : Has(ask, u, column)} = {t}
<1> DEFINE S == {t \in Listed(ask) : Has(ask, t, column)}
<1>1. IsFiniteSet(S)
  BY ListedFinite, FS_Subset
<1>2. \E t : S = {t}
  <2> HIDE DEF S
  <2>1. Cardinality(S) = 1
    BY DEF S
  <2>2. QED  BY <1>1, <2>1, FS_Singleton
<1>3. PICK t : S = {t}
  BY <1>2
<1>4. t \in Listed(ask)
  BY <1>3
<1>5. QED  BY <1>3, <1>4

LEMMA SoleColumnTraced ==
  ASSUME NEW ask \in SqlAsks, NEW column, Cardinality({t \in Listed(ask) : Has(ask, t, column)}) = 1
  PROVE  /\ ResolveUnqualified(ask, column) = {} \/ \E t \in Listed(ask) : Traced(ask, column, t)
         /\ AllTold(ask) => \E t \in Listed(ask) : Traced(ask, column, t)
<1>1. PICK t \in Listed(ask) : {u \in Listed(ask) : Has(ask, u, column)} = {t}
  BY SoleColumn
<1>2. Has(ask, t, column) /\ \A u \in Listed(ask) : Has(ask, u, column) => u = t
  BY <1>1
<1>3. FromColumn(ask, column) = {<<t.table, column>>}
  BY <1>1 DEF FromColumn
<1>4. PICK j \in Places(ask) : t = ask.from[j]
  BY FromIs, Zenon
<1> DEFINE having == Having(ask, column)
<1>5. IsFiniteSet(having) /\ having \subseteq Places(ask) /\ Cardinality({}) = 0
  BY HavingFinite
<1>6. DOMAIN ask.from = Places(ask) /\ \A i \in Places(ask) : ask.from[i] \in Listed(ask)
  BY FromIs
<1>7. ask.describe[t.table] \in DescribeOutcomes /\ t.table \in DOMAIN ask.columns
  BY ToldIs, ColumnsAre
<1>8. Has(ask, t, column) /\ ask.describe[t.table] \in {"told", "grown"} => j \in having
  BY <1>4, <1>6, HasTold DEF Having
<1>9. ASSUME NEW i \in having
      PROVE  i = j \/ ask.describe[ask.from[i].table] = "grown"
  <2>2. ask.from[i] \in Listed(ask) /\ column \in ToSet(Told(ask, ask.from[i])) /\ i \in Places(ask)
    BY <1>5, <1>6 DEF Having
  <2>3. CASE Has(ask, ask.from[i], column)
    BY <1>2, <1>4, <2>2, <2>3, PlaceOnce
  <2>4. CASE ~Has(ask, ask.from[i], column)
    BY <2>2, <2>4, HasTold
  <2>5. QED  BY <2>3, <2>4
<1> HIDE DEF having
<1>10. ASSUME NEW i, having = {i}
       PROVE  i = j
  <2>1. SUFFICES ASSUME i # j PROVE FALSE
    OBVIOUS
  <2>2. ask.describe[t.table] \notin {"told", "grown"}
    BY <1>2, <1>8, <1>10, <2>1
  <2>3. i \in Places(ask) /\ ask.describe[ask.from[i].table] = "grown"
    BY <1>5, <1>9, <1>10, <2>1
  <2>4. ask.from[i].table \in DOMAIN ask.columns
    BY <1>6, <2>3, ColumnsAre
  <2>5. t.table = ask.from[i].table
    BY <1>7, <2>2, <2>3, <2>4, OneAtMost
  <2>6. QED  BY <2>2, <2>3, <2>5
<1>11. SoleTable(ask) \in {{}, {t}}
  <2>1. CASE Len(ask.from) = 1
    <3>1. Places(ask) = {1}
      BY <2>1 DEF Places
    <3>2. \A u \in Listed(ask) : u = t
      <4>1. \A u \in Listed(ask) : \E i \in Places(ask) : u = ask.from[i]
        BY FromIs, Zenon
      <4>2. QED  BY <1>4, <3>1, <4>1
    <3>3. SoleTable(ask) = {t}
      BY <2>1, <3>2 DEF SoleTable
    <3>4. QED  BY <3>3
  <2>2. CASE Len(ask.from) # 1
    BY <2>2 DEF SoleTable
  <2>3. QED  BY <2>1, <2>2
<1> DEFINE R == ResolveUnqualified(ask, column)
           blind == \E u \in Listed(ask) : ask.describe[u.table] = "error"
<1>12. /\ blind => R = {}
       /\ ~blind /\ Cardinality(having) = 1 => R = {Origin(ask.from[i], column) : i \in having}
       /\ ~blind /\ having = {} => R = {Origin(u, column) : u \in SoleTable(ask)}
       /\ ~blind /\ Cardinality(having) # 1 /\ having # {} => R = {}
  <2> DEFINE sole == {Origin(u, column) : u \in SoleTable(ask)}
             mine == {Origin(ask.from[i], column) : i \in having}
  <2>1. R = IF blind THEN {} ELSE CASE Cardinality(having) = 1 -> mine [] having = {} -> sole [] OTHER -> {}
    BY Zenon DEF ResolveUnqualified, Having, having
  <2>2. having = {} => Cardinality(having) = 0
    BY <1>5
  <2> HIDE DEF R, blind, mine, sole
  <2>3. /\ blind => R = {}
        /\ ~blind /\ Cardinality(having) = 1 => R = mine
        /\ ~blind /\ having = {} => R = sole
        /\ ~blind /\ Cardinality(having) # 1 /\ having # {} => R = {}
    BY <2>1, <2>2
  <2>4. QED  BY <2>3 DEF mine, sole
<1> HIDE DEF R, blind
<1>13. Cardinality(having) = 1 => having = {j}
  BY <1>5, <1>10, FS_Singleton
<1>14. having = {j} => {Origin(ask.from[i], column) : i \in having} = {Origin(t, column)}
  BY <1>4
<1>15. {Origin(u, column) : u \in SoleTable(ask)} \in {{}, {Origin(t, column)}}
  BY <1>11
<1>16. R = {} \/ R = {Origin(t, column)}
  BY <1>12, <1>13, <1>14, <1>15
<1>17. ASSUME AllTold(ask) PROVE R = {Origin(t, column)}
  <2>1. \A u \in Listed(ask) : ask.describe[u.table] = "told"
    <3>1. DOMAIN ask.describe = DOMAIN ask.columns
      BY AskIs DEF Describes
    <3>2. QED  BY <1>17, <3>1, ColumnsAre DEF AllTold
  <2>2. ~blind
    BY <2>1 DEF blind
  <2>3. having = {j}
    <3>1. j \in having
      BY <1>2, <1>8, <2>1
    <3>2. \A i \in having : i = j
      BY <1>5, <1>6, <1>9, <2>1
    <3>3. QED  BY <3>1, <3>2
  <2>4. Cardinality(having) = 1
    BY <2>3, FS_Singleton
  <2>5. QED  BY <1>12, <1>14, <2>2, <2>3, <2>4
<1>18. QED  BY <1>3, <1>16, <1>17, Zenon DEF Traced, R

LEMMA CommonUntraced ==
  ASSUME NEW ask \in SqlAsks, NEW column, ask.using, column \in Common(ask), NoneEmpty(ask)
  PROVE  ResolveUnqualified(ask, column) = {}
<1> DEFINE having == Having(ask, column)
<1>1. Len(ask.from) = 2
  BY AskIs DEF Accepted
<1>2. Places(ask) = 1..2 /\ DOMAIN ask.from = Places(ask) /\ \A i \in Places(ask) : ask.from[i] \in Listed(ask)
  BY <1>1, FromIs DEF Places
<1>3. SUFFICES ASSUME \A u \in Listed(ask) : ask.describe[u.table] # "error"
               PROVE  ResolveUnqualified(ask, column) = {}
  BY Zenon DEF ResolveUnqualified
<1>4. \A u \in Listed(ask) : ask.describe[u.table] \in {"told", "grown"} /\ Has(ask, u, column)
  BY <1>3, ToldIs DEF NoneEmpty, DescribeOutcomes, Common
<1>5. \A i \in Places(ask) : i \in having
  BY <1>2, <1>4, HasTold DEF Having
<1>6. IsFiniteSet(having) /\ having \subseteq Places(ask) /\ Cardinality({}) = 0
  BY HavingFinite
<1>7. 1 \in having /\ 2 \in having
  BY <1>2, <1>5
<1> HIDE DEF having
<1>8. Cardinality(having) # 1
  <2>1. SUFFICES ASSUME Cardinality(having) = 1 PROVE FALSE
    OBVIOUS
  <2>2. \E i : having = {i}
    BY <1>6, <2>1, FS_Singleton
  <2>3. QED  BY <1>7, <2>2
<1>9. having # {}
  BY <1>7
<1>10. QED  BY <1>8, <1>9, Zenon DEF ResolveUnqualified, Having, having

RefTraced(ask, r, t) ==
  /\ ResolveColumnRef(ask, r) = {Origin(t, r.column)}
  /\ RefSource(ask, r) = {<<t.table, r.column>>}

LEMMA RefIsTraced ==
  ASSUME NEW ask \in SqlAsks, NEW r, RefAccepted(ask, r), NoneEmpty(ask)
  PROVE  /\ ResolveColumnRef(ask, r) = {} \/ \E t \in Listed(ask) : RefTraced(ask, r, t)
         /\ ~ask.using /\ AllTold(ask) => \E t \in Listed(ask) : RefTraced(ask, r, t)
<1>1. CASE r.table # NoName
  BY <1>1, QualifiedRef, Zenon DEF RefTraced
<1>2. CASE r.table = NoName
  <2>1. ResolveColumnRef(ask, r) = ResolveUnqualified(ask, r.column) /\ RefSource(ask, r) = FromColumn(ask, r.column)
    BY <1>2 DEF ResolveColumnRef, RefSource
  <2>2. CASE Cardinality({t \in Listed(ask) : Has(ask, t, r.column)}) = 1
    BY <2>1, <2>2, SoleColumnTraced, Zenon DEF Traced, RefTraced
  <2>3. CASE ask.using /\ r.column \in Common(ask)
    BY <2>1, <2>3, CommonUntraced, Zenon
  <2>4. QED  BY <1>2, <2>2, <2>3 DEF RefAccepted
<1>3. QED  BY <1>1, <1>2

(* The columns of an expression, beside their sources.                     *)

TablesOf(ask) == {t.table : t \in Listed(ask)}
Origins(ask) == [schema : {"", MkDefault}, table : TablesOf(ask), column : STRING]
PlanColumnsOf(ask) == [origins : SUBSET Origins(ask), conservative : BOOLEAN]
Computed(ask) == TablesOf(ask) \X STRING
SourceSets(ask) ==
  (SUBSET Computed(ask))
  \cup ToSet(CommonFirst(ask)) \cup UNION {ToSet(NotCommon(ask, t)) : t \in Listed(ask)}

LEMMA ListedOut ==
  ASSUME NEW n \in Nat, NEW S, NEW f, DOMAIN f = 1..n, f = [i \in 1..n |-> f[i]], \A i \in 1..n : f[i] \in S
  PROVE  f \in Seq(S) /\ Len(f) = n
<1>1. f \in [1..n -> S]
  OBVIOUS
<1>2. QED  BY <1>1

\* A column that is not masked whatever it is comes from all that it should;
\* and from nothing else.
Covers(col, src) ==
  col.conservative \/ \A s \in src : \E o \in col.origins : o.table = s[1] /\ o.column = s[2] /\ o.schema \in {"", MkDefault}
PlacedAs(col, src) ==
  ~col.conservative /\ (\A o \in col.origins : <<o.table, o.column>> \in src) /\ (src # {} => col.origins # {})

LEMMA ColumnIs ==
  ASSUME NEW o, NEW b
  PROVE  Column(o, b).origins = o /\ Column(o, b).conservative = b
BY DEF Column

LEMMA OriginIs ==
  ASSUME NEW t, NEW c
  PROVE  Origin(t, c).table = t.table /\ Origin(t, c).column = c /\ Origin(t, c).schema = t.schema
BY DEF Origin

LEMMA ColumnTyped ==
  ASSUME NEW ask, NEW o \in SUBSET Origins(ask), NEW b \in BOOLEAN
  PROVE  Column(o, b) \in PlanColumnsOf(ask)
BY Zenon DEF Column, PlanColumnsOf

LEMMA OriginTyped ==
  ASSUME NEW ask \in SqlAsks, NEW t \in Listed(ask), NEW c \in STRING
  PROVE  Origin(t, c) \in Origins(ask) /\ <<t.table, c>> \in Computed(ask)
<1>1. t.schema \in {"", MkDefault} /\ t.table \in TablesOf(ask)
  BY ColumnsAre DEF TablesOf
<1>2. QED  BY <1>1 DEF Origin, Origins, Computed

LEMMA SourceTyped ==
  ASSUME NEW ask, NEW s \in SUBSET Computed(ask)
  PROVE  s \in SourceSets(ask)
BY Zenon DEF SourceSets

\* One origin that is the one source.
LEMMA OneOrigin ==
  ASSUME NEW ask \in SqlAsks, NEW t \in Listed(ask), NEW c
  PROVE  /\ Covers(Column({Origin(t, c)}, FALSE), {<<t.table, c>>})
         /\ PlacedAs(Column({Origin(t, c)}, FALSE), {<<t.table, c>>})
<1>1. t.schema \in {"", MkDefault}
  BY ColumnsAre
<1> DEFINE col == Column({Origin(t, c)}, FALSE)
<1>2. col.origins = {Origin(t, c)} /\ col.conservative = FALSE
  BY ColumnIs
<1> HIDE DEF col
<1>3. Covers(col, {<<t.table, c>>})
  <2>1. ASSUME NEW s \in {<<t.table, c>>}
        PROVE  Origin(t, c).table = s[1] /\ Origin(t, c).column = s[2] /\ Origin(t, c).schema \in {"", MkDefault}
    <3>1. s[1] = t.table /\ s[2] = c
      OBVIOUS
    <3>2. QED  BY <1>1, <3>1, OriginIs
  <2>2. QED  BY <1>2, <2>1, Zenon DEF Covers
<1>4. PlacedAs(col, {<<t.table, c>>})
  BY <1>2, OriginIs DEF PlacedAs
<1>5. QED  BY <1>3, <1>4 DEF col

LEMMA OfTableTyped ==
  ASSUME NEW ask \in SqlAsks, NEW t \in Listed(ask)
  PROVE  /\ OfTable(ask, t) \in Seq(SourceSets(ask)) /\ Len(OfTable(ask, t)) = Len(ColumnsOf(ask, t))
         /\ \A i \in 1..Len(ColumnsOf(ask, t)) : OfTable(ask, t)[i] = {<<t.table, ColumnsOf(ask, t)[i]>>}
<1> DEFINE c == ColumnsOf(ask, t)
           o == OfTable(ask, t)
<1>1. c \in Seq(STRING)
  BY ColumnsAre
<1>2. o = [i \in DOMAIN c |-> {<<t.table, c[i]>>}]
  BY DEF OfTable
<1> HIDE DEF c, o
<1>3. DOMAIN c = 1..Len(c) /\ Len(c) \in Nat
  BY <1>1
<1>4. \A i \in 1..Len(c) : {<<t.table, c[i]>>} \in SourceSets(ask)
  <2>1. ASSUME NEW i \in 1..Len(c) PROVE {<<t.table, c[i]>>} \in SourceSets(ask)
    <3>1. c[i] \in STRING
      BY <1>1
    <3>2. <<t.table, c[i]>> \in Computed(ask)
      BY <3>1, OriginTyped
    <3>3. {<<t.table, c[i]>>} \in SUBSET Computed(ask)
      BY <3>2
    <3>4. QED  BY <3>3, SourceTyped
  <2>2. QED  BY <2>1
<1>5. o \in Seq(SourceSets(ask)) /\ Len(o) = Len(c) /\ \A i \in 1..Len(c) : o[i] = {<<t.table, c[i]>>}
  BY <1>2, <1>3, <1>4
<1>6. QED  BY <1>5 DEF c, o

TablePaired(a, b) == \A k \in 1..Len(b) : Covers(a[k], b[k]) /\ PlacedAs(a[k], b[k])

\* A table that is described, as the query saw it or with a column more.
LEMMA TableTraced ==
  ASSUME NEW ask \in SqlAsks, NEW t \in Listed(ask), Told(ask, t) # <<>>
  PROVE  /\ ExpandTable(ask, t) \in Seq(PlanColumnsOf(ask)) /\ OfTable(ask, t) \in Seq(SourceSets(ask))
         /\ Len(OfTable(ask, t)) = Len(ColumnsOf(ask, t)) /\ Len(OfTable(ask, t)) <= Len(ExpandTable(ask, t))
         /\ ask.describe[t.table] = "told" => Len(OfTable(ask, t)) = Len(ExpandTable(ask, t))
         /\ TablePaired(ExpandTable(ask, t), OfTable(ask, t))
<1> DEFINE c == ColumnsOf(ask, t)
           d == Told(ask, t)
           e == ExpandTable(ask, t)
           o == OfTable(ask, t)
<1>1. c \in Seq(STRING) /\ d \in Seq(STRING)
  BY ColumnsAre, ToldIs
<1>2. ask.describe[t.table] = "told" => d = c
  BY ToldIs
<1>3. Len(c) <= Len(d) /\ \A k \in 1..Len(c) : d[k] = c[k]
  BY ToldIs
<1>4. e = [i \in DOMAIN d |-> Column({Origin(t, d[i])}, FALSE)]
  BY DEF ExpandTable
<1>10. o \in Seq(SourceSets(ask)) /\ Len(o) = Len(c) /\ \A i \in 1..Len(c) : o[i] = {<<t.table, c[i]>>}
  BY OfTableTyped
<1> HIDE DEF c, d, e, o
<1>6. /\ DOMAIN c = 1..Len(c) /\ DOMAIN d = 1..Len(d) /\ Len(c) \in Nat /\ Len(d) \in Nat
      /\ \A i \in 1..Len(c) : c[i] \in STRING /\ \A j \in 1..Len(d) : d[j] \in STRING
  BY <1>1
<1>7. \A i \in 1..Len(d) : Column({Origin(t, d[i])}, FALSE) \in PlanColumnsOf(ask)
  <2>1. ASSUME NEW i \in 1..Len(d) PROVE Column({Origin(t, d[i])}, FALSE) \in PlanColumnsOf(ask)
    <3>1. d[i] \in STRING
      BY <1>1
    <3>2. Origin(t, d[i]) \in Origins(ask)
      BY <3>1, OriginTyped
    <3>3. {Origin(t, d[i])} \in SUBSET Origins(ask) /\ FALSE \in BOOLEAN
      BY <3>2
    <3>4. QED  BY <3>3, ColumnTyped
  <2>2. QED  BY <2>1
<1>9. e \in Seq(PlanColumnsOf(ask)) /\ Len(e) = Len(d) /\ \A i \in 1..Len(d) : e[i] = Column({Origin(t, d[i])}, FALSE)
  <2> DEFINE G(i) == Column({Origin(t, d[i])}, FALSE)
  <2>1. e = [i \in 1..Len(d) |-> G(i)] /\ \A i \in 1..Len(d) : G(i) \in PlanColumnsOf(ask)
    BY <1>4, <1>6, <1>7
  <2> HIDE DEF G
  <2>2. DOMAIN e = 1..Len(d) /\ e = [i \in 1..Len(d) |-> e[i]] /\ \A i \in 1..Len(d) : e[i] = G(i)
    BY <2>1
  <2>3. e \in Seq(PlanColumnsOf(ask)) /\ Len(e) = Len(d)
    BY <1>6, <2>1, <2>2, ListedOut
  <2>4. QED  BY <2>2, <2>3 DEF G
<1>11. TablePaired(e, o)
  <2>1. SUFFICES ASSUME NEW k \in 1..Len(o) PROVE Covers(e[k], o[k]) /\ PlacedAs(e[k], o[k])
    BY DEF TablePaired
  <2>2. k \in 1..Len(c) /\ k \in 1..Len(d)
    BY <1>3, <1>6, <1>10
  <2>3. e[k] = Column({Origin(t, c[k])}, FALSE) /\ o[k] = {<<t.table, c[k]>>}
    BY <1>3, <1>9, <1>10, <2>2
  <2>4. QED  BY <2>3, OneOrigin
<1>12. QED  BY <1>2, <1>3, <1>9, <1>10, <1>11 DEF c, d, e, o

ExprPaired(ask, a, b) ==
  /\ a \in Seq(PlanColumnsOf(ask)) /\ b \in Seq(SourceSets(ask)) /\ Len(b) <= Len(a)
  /\ Len(b) = Len(a) => \A k \in 1..Len(a) : Covers(a[k], b[k])
  /\ ~ask.using /\ AllTold(ask) => Len(b) = Len(a) /\ \A k \in 1..Len(a) : PlacedAs(a[k], b[k])

LEMMA ToldAll ==
  ASSUME NEW ask \in SqlAsks, AllTold(ask), NEW t \in Listed(ask)
  PROVE  ask.describe[t.table] = "told" /\ Told(ask, t) # <<>>
<1>1. DOMAIN ask.describe = DOMAIN ask.columns
  BY AskIs DEF Describes
<1>2. ask.describe[t.table] = "told"
  BY <1>1, ColumnsAre DEF AllTold
<1>3. QED  BY <1>2, ToldIs, ColumnsAre

LEMMA ExprSourceTyped ==
  ASSUME NEW ask \in SqlAsks, NEW e, \A r \in e.refs : r.column \in STRING
  PROVE  UNION {RefSource(ask, r) : r \in e.refs} \in SourceSets(ask)
<1>1. ASSUME NEW r \in e.refs PROVE RefSource(ask, r) \subseteq Computed(ask)
  <2>1. \A t \in Listed(ask) : <<t.table, r.column>> \in Computed(ask)
    BY OriginTyped
  <2>2. QED  BY <2>1 DEF RefSource, FromColumn
<1>2. UNION {RefSource(ask, r) : r \in e.refs} \in SUBSET Computed(ask)
  BY <1>1, Zenon
<1>3. QED  BY <1>2, SourceTyped

LEMMA ExprTraced ==
  ASSUME NEW ask \in SqlAsks, NEW e, \A r \in e.refs : RefAccepted(ask, r) /\ r.column \in STRING, NoneEmpty(ask)
  PROVE  ExprPaired(ask, Unit(BuildExprColumn(ask, e)), Unit(UNION {RefSource(ask, r) : r \in e.refs}))
<1> DEFINE origins == UNION {ResolveColumnRef(ask, r) : r \in e.refs}
           col == BuildExprColumn(ask, e)
           src == UNION {RefSource(ask, r) : r \in e.refs}
<1>1. col.origins = origins /\ col.conservative = (e.refs # {} /\ Unplaced(ask, e))
  BY ColumnIs DEF BuildExprColumn
<1>2. col = Column(origins, e.refs # {} /\ Unplaced(ask, e))
  BY DEF BuildExprColumn
<1>3. \A r \in e.refs : ResolveColumnRef(ask, r) = {} \/ \E t \in Listed(ask) : RefTraced(ask, r, t)
  BY RefIsTraced
<1>4. ~ask.using /\ AllTold(ask) => \A r \in e.refs : \E t \in Listed(ask) : RefTraced(ask, r, t)
  BY RefIsTraced
<1>5. origins \in SUBSET Origins(ask)
  <2>1. ASSUME NEW r \in e.refs, NEW o \in ResolveColumnRef(ask, r) PROVE o \in Origins(ask)
    <3>1. PICK t \in Listed(ask) : RefTraced(ask, r, t)
      BY <1>3, <2>1
    <3>2. o = Origin(t, r.column) /\ r.column \in STRING
      BY <2>1, <3>1 DEF RefTraced
    <3>3. QED  BY <3>2, OriginTyped
  <2>2. QED  BY <2>1, Zenon
<1>6. ASSUME ~(e.refs # {} /\ Unplaced(ask, e)), NEW r \in e.refs PROVE \E t \in Listed(ask) : RefTraced(ask, r, t)
  BY <1>3, <1>6 DEF Unplaced
<1>8. src \in SourceSets(ask)
  BY ExprSourceTyped
<1>9. /\ \A s : s \in src <=> \E r \in e.refs : s \in RefSource(ask, r)
      /\ \A o : o \in origins <=> \E r \in e.refs : o \in ResolveColumnRef(ask, r)
  BY Zenon
<1> HIDE DEF src, origins, col
<1>10. ASSUME ~(e.refs # {} /\ Unplaced(ask, e)) PROVE Covers(col, src)
  <2>1. ASSUME NEW s \in src PROVE \E o \in origins : o.table = s[1] /\ o.column = s[2] /\ o.schema \in {"", MkDefault}
    <3>1. PICK r \in e.refs : s \in RefSource(ask, r)
      BY <1>9
    <3>2. PICK t \in Listed(ask) : RefTraced(ask, r, t)
      BY <1>6, <1>10
    <3>3. s = <<t.table, r.column>> /\ Origin(t, r.column) \in ResolveColumnRef(ask, r) /\ t.schema \in {"", MkDefault}
      BY <3>1, <3>2, ColumnsAre DEF RefTraced
    <3>4. Origin(t, r.column) \in origins
      BY <1>9, <3>3
    <3>5. s[1] = t.table /\ s[2] = r.column
      BY <3>3
    <3>6. QED  BY <3>3, <3>4, <3>5, OriginIs
  <2>2. QED  BY <1>1, <2>1 DEF Covers
<1>11. ASSUME ~ask.using, AllTold(ask) PROVE PlacedAs(col, src)
  <2>1. \A r \in e.refs : \E t \in Listed(ask) : RefTraced(ask, r, t)
    BY <1>4, <1>11
  <2>2. ~Unplaced(ask, e)
    BY <2>1 DEF Unplaced, RefTraced
  <2>3. ASSUME NEW o \in origins PROVE <<o.table, o.column>> \in src
    <3>1. PICK r \in e.refs : o \in ResolveColumnRef(ask, r)
      BY <1>9
    <3>2. PICK t \in Listed(ask) : RefTraced(ask, r, t)
      BY <2>1
    <3>3. o = Origin(t, r.column) /\ <<t.table, r.column>> \in RefSource(ask, r)
      BY <3>1, <3>2 DEF RefTraced
    <3>4. QED  BY <1>9, <3>3, OriginIs
  <2>4. src # {} => origins # {}
    <3>1. SUFFICES ASSUME NEW s \in src PROVE origins # {}
      OBVIOUS
    <3>2. PICK r \in e.refs : s \in RefSource(ask, r)
      BY <1>9
    <3>3. PICK t \in Listed(ask) : RefTraced(ask, r, t)
      BY <2>1
    <3>4. Origin(t, r.column) \in origins
      BY <1>9, <3>3 DEF RefTraced
    <3>5. QED  BY <3>4
  <2>5. QED  BY <1>1, <2>2, <2>3, <2>4 DEF PlacedAs
<1>12. e.refs # {} /\ Unplaced(ask, e) => Covers(col, src)
  BY <1>1 DEF Covers
<1>13. Unit(col) \in Seq(PlanColumnsOf(ask)) /\ Len(Unit(col)) = 1 /\ Unit(col)[1] = col
  <2>1. (e.refs # {} /\ Unplaced(ask, e)) \in BOOLEAN
    OBVIOUS
  <2>2. col \in PlanColumnsOf(ask)
    BY <1>2, <1>5, <2>1, ColumnTyped
  <2>3. QED  BY <2>2 DEF Unit
<1>14. Unit(src) \in Seq(SourceSets(ask)) /\ Len(Unit(src)) = 1 /\ Unit(src)[1] = src
  BY <1>8 DEF Unit
<1>15. ExprPaired(ask, Unit(col), Unit(src))
  <2>1. Len(Unit(src)) <= Len(Unit(col)) /\ Len(Unit(src)) = Len(Unit(col)) /\ \A k \in 1..Len(Unit(col)) : k = 1
    BY <1>13, <1>14
  <2>2. \A k \in 1..Len(Unit(col)) : Covers(Unit(col)[k], Unit(src)[k])
    BY <1>10, <1>12, <1>13, <1>14, <2>1
  <2>3. ~ask.using /\ AllTold(ask) => \A k \in 1..Len(Unit(col)) : PlacedAs(Unit(col)[k], Unit(src)[k])
    BY <1>11, <1>13, <1>14, <2>1
  <2>4. QED  BY <1>13, <1>14, <2>1, <2>2, <2>3 DEF ExprPaired
<1>16. QED  BY <1>15 DEF col, src

(* The expressions of the list, and their stars.                           *)

LEMMA FlatFew ==
  ASSUME NEW s
  PROVE  /\ Len(s) = 1 => FlattenSeq(s) = s[1]
         /\ Len(s) = 2 => FlattenSeq(s) = s[1] \o s[2]
         /\ Len(s) = 3 => FlattenSeq(s) = (s[1] \o s[2]) \o s[3]
<1>1. SUFFICES ASSUME Len(s) \in {1, 2, 3}
               PROVE  /\ Len(s) = 1 => FlattenSeq(s) = s[1]
                      /\ Len(s) = 2 => FlattenSeq(s) = s[1] \o s[2]
                      /\ Len(s) = 3 => FlattenSeq(s) = (s[1] \o s[2]) \o s[3]
  OBVIOUS
<1> DEFINE n == Len(s)
<1>2. PICK h : Runs(s, h) /\ FlattenSeq(s) = h[n]
  BY <1>1, FlatRuns
<1>3. \A i \in 1..n : h[i] = IF i = 1 THEN s[i] ELSE h[i-1] \o s[i]
  BY <1>2, Zenon DEF Runs
<1>4. n \in {1, 2, 3}
  BY <1>1
<1> HIDE DEF n
<1>5. h[1] = s[1]
  BY <1>3, <1>4
<1>6. n \in {2, 3} => h[2] = h[1] \o s[2]
  <2>1. n \in {2, 3} => 2 \in 1..n /\ 2 # 1 /\ 2 - 1 = 1
    OBVIOUS
  <2>2. QED  BY <1>3, <2>1
<1>7. n = 3 => h[3] = h[2] \o s[3]
  <2>1. n = 3 => 3 \in 1..n /\ 3 # 1 /\ 3 - 1 = 2
    OBVIOUS
  <2>2. QED  BY <1>3, <2>1
<1>8. QED  BY <1>2, <1>4, <1>5, <1>6, <1>7 DEF n

LEMMA FlatExprPaired ==
  ASSUME NEW ask, NEW n \in Nat \ {0}, NEW A, NEW B, DOMAIN A = 1..n, DOMAIN B = 1..n,
         A = [i \in 1..n |-> A[i]], B = [i \in 1..n |-> B[i]],
         \A i \in 1..n : ExprPaired(ask, A[i], B[i])
  PROVE  ExprPaired(ask, FlattenSeq(A), FlattenSeq(B))
<1> DEFINE S == PlanColumnsOf(ask)
           T == SourceSets(ask)
<1>1. \A i \in 1..n : A[i] \in Seq(S) /\ B[i] \in Seq(T) /\ Len(B[i]) <= Len(A[i])
  BY DEF ExprPaired
<1> HIDE DEF S, T
<1>2. A \in Seq(Seq(S)) /\ Len(A) = n /\ B \in Seq(Seq(T)) /\ Len(B) = n
  BY <1>1, ListedOut
<1>3. RunsBeside(A, B, n, FlattenSeq(A), FlattenSeq(B), S, T)
  BY <1>1, <1>2, FlatPaired
<1> DEFINE a == FlattenSeq(A)
           b == FlattenSeq(B)
<1> HIDE DEF a, b
<1>4. /\ a \in Seq(S) /\ b \in Seq(T) /\ Len(b) <= Len(a)
      /\ Len(b) = Len(a) => \A i \in 1..n : Len(B[i]) = Len(A[i])
      /\ AsLong(A, B) => Len(b) = Len(a) /\ \A m \in 1..Len(a) : Aside(A, B, a[m], b[m])
  BY <1>3 DEF RunsBeside, a, b
<1>5. ASSUME Len(b) = Len(a), NEW k \in 1..Len(a) PROVE Covers(a[k], b[k])
  <2>1. AsLong(A, B)
    BY <1>2, <1>4, <1>5 DEF AsLong
  <2>2. PICK i \in 1..Len(A) : \E j \in 1..Len(A[i]) : a[k] = A[i][j] /\ b[k] = B[i][j]
    BY <1>4, <2>1, Zenon DEF Aside
  <2>3. ExprPaired(ask, A[i], B[i]) /\ Len(B[i]) = Len(A[i])
    BY <1>2, <1>4, <1>5, <2>2
  <2>4. QED  BY <2>2, <2>3, Zenon DEF ExprPaired
<1>6. ASSUME ~ask.using, AllTold(ask) PROVE Len(b) = Len(a) /\ \A k \in 1..Len(a) : PlacedAs(a[k], b[k])
  <2>1. \A i \in 1..n : Len(B[i]) = Len(A[i]) /\ \A k \in 1..Len(A[i]) : PlacedAs(A[i][k], B[i][k])
    BY <1>6 DEF ExprPaired
  <2>2. AsLong(A, B)
    BY <1>2, <2>1 DEF AsLong
  <2>3. ASSUME NEW k \in 1..Len(a) PROVE PlacedAs(a[k], b[k])
    <3>1. PICK i \in 1..Len(A) : \E j \in 1..Len(A[i]) : a[k] = A[i][j] /\ b[k] = B[i][j]
      BY <1>4, <2>2, Zenon DEF Aside
    <3>2. QED  BY <1>2, <2>1, <3>1, Zenon
  <2>4. QED  BY <1>4, <2>2, <2>3
<1>7. ExprPaired(ask, a, b)
  BY <1>4, <1>5, <1>6 DEF ExprPaired, S, T
<1>8. QED  BY <1>7 DEF a, b

LEMMA TablePair ==
  ASSUME NEW ask \in SqlAsks, NEW t \in Listed(ask), Told(ask, t) # <<>>
  PROVE  ExprPaired(ask, ExpandTable(ask, t), OfTable(ask, t))
<1> DEFINE a == ExpandTable(ask, t)
           b == OfTable(ask, t)
<1>1. /\ a \in Seq(PlanColumnsOf(ask)) /\ b \in Seq(SourceSets(ask)) /\ Len(b) <= Len(a)
      /\ ask.describe[t.table] = "told" => Len(b) = Len(a)
      /\ \A k \in 1..Len(b) : Covers(a[k], b[k]) /\ PlacedAs(a[k], b[k])
  BY TableTraced DEF TablePaired
<1>2. AllTold(ask) => ask.describe[t.table] = "told"
  BY ToldAll
<1> HIDE DEF a, b
<1>3. ExprPaired(ask, a, b)
  BY <1>1, <1>2 DEF ExprPaired
<1>4. QED  BY <1>3 DEF a, b

\* SELECT T.*: the table that T names.
LEMMA AllSources ==
  ASSUME NEW ask, NEW e, e.kind = "all", NEW r, e.refs = {r}, r.table # NoName, RefAccepted(ask, r)
  PROVE  \E t \in Listed(ask) : r.table \in Shown(t) /\ ExprSources(ask, e) = OfTable(ask, t)
<1> DEFINE t == CHOOSE x \in Listed(ask) : r.table \in Shown(x)
<1>1. \E x \in Listed(ask) : r.table \in Shown(x)
  BY DEF RefAccepted
<1>2. t \in Listed(ask) /\ r.table \in Shown(t)
  BY <1>1
<1>3. ExprSources(ask, e) = OfTable(ask, t)
  <2>1. \E x \in e.refs : TRUE
    OBVIOUS
  <2>2. (CHOOSE x \in e.refs : TRUE) = r
    BY <2>1
  <2>3. e.kind # "star"
    OBVIOUS
  <2> DEFINE q == CHOOSE x \in e.refs : TRUE
  <2>4. ExprSources(ask, e) = OfTable(ask, CHOOSE x \in Listed(ask) : q.table \in Shown(x))
    BY <2>3, Zenon DEF ExprSources
  <2>5. QED  BY <2>2, <2>4, Zenon
<1>4. QED  BY <1>2, <1>3

LEMMA AllOfTable ==
  ASSUME NEW ask \in SqlAsks, NEW e, e.kind = "all", NEW r, e.refs = {r}, r.table # NoName, RefAccepted(ask, r)
  PROVE  /\ Expands(ask, e) => ExprPaired(ask, PlanExpr(ask, e), ExprSources(ask, e))
         /\ AllTold(ask) => Expands(ask, e)
<1>3. PICK t \in Listed(ask) : r.table \in Shown(t) /\ ExprSources(ask, e) = OfTable(ask, t)
  BY AllSources
<1>4. PICK u \in Listed(ask) : ResolveTable(ask, r.table) = {u} /\ u.table = t.table
  BY <1>3, Resolves
<1>5. OfTable(ask, t) = OfTable(ask, u)
  BY <1>4 DEF OfTable, ColumnsOf
<1>6. StarTables(ask, e) = <<u>>
  <2>1. UNION {ResolveTable(ask, x.table) : x \in e.refs} = {u}
    BY <1>4
  <2>2. StarTables(ask, e) = SetToSeq({u})
    BY <2>1 DEF StarTables
  <2>3. Cardinality({u}) = 1
    BY FS_Singleton
  <2>4. \A f \in [1..1 -> {u}] : f = <<u>>
    OBVIOUS
  <2>5. <<u>> \in [1..1 -> {u}] /\ IsInjective(<<u>>)
    BY DEF IsInjective
  <2>6. SetToSeq({u}) = CHOOSE f \in [1..1 -> {u}] : IsInjective(f)
    BY <2>3, Zenon DEF SetToSeq
  <2>7. QED  BY <2>2, <2>4, <2>5, <2>6, Zenon
<1>7. DOMAIN <<u>> = 1..1 /\ <<u>>[1] = u /\ ToSet(<<u>>) = {u} /\ <<u>> # <<>>
  BY DEF ToSet
<1>8. Expands(ask, e) <=> Told(ask, u) # <<>>
  BY <1>6, <1>7 DEF Expands
<1>9. PlanExpr(ask, e) = ExpandTable(ask, u)
  <2> DEFINE s == [i \in DOMAIN StarTables(ask, e) |-> ExpandTable(ask, StarTables(ask, e)[i])]
  <2>1. PlanExpr(ask, e) = FlattenSeq(s)
    BY DEF PlanExpr
  <2>2. s = [i \in 1..1 |-> ExpandTable(ask, <<u>>[i])]
    BY <1>6, <1>7
  <2>3. Len(s) = 1 /\ s[1] = ExpandTable(ask, u)
    BY <1>7, <2>2
  <2> HIDE DEF s
  <2>4. QED  BY <2>1, <2>3, FlatFew
<1>10. QED  BY <1>3, <1>5, <1>8, <1>9, TablePair, ToldAll

OfTables(ask) == FlattenSeq([i \in DOMAIN ask.from |-> OfTable(ask, ask.from[i])])

\* SELECT *, without USING.
LEMMA AllOfTables ==
  ASSUME NEW ask \in SqlAsks, NEW e, e.kind = "star"
  PROVE  /\ Expands(ask, e) => ExprPaired(ask, PlanExpr(ask, e), OfTables(ask))
         /\ AllTold(ask) => Expands(ask, e)
<1> DEFINE n == Len(ask.from)
           A == [i \in 1..n |-> ExpandTable(ask, ask.from[i])]
           B == [i \in 1..n |-> OfTable(ask, ask.from[i])]
<1>1. n \in Nat \ {0} /\ DOMAIN ask.from = 1..n /\ \A i \in 1..n : ask.from[i] \in Listed(ask)
  BY FromIs DEF Places
<1>2. StarTables(ask, e) = ask.from
  BY DEF StarTables
<1>3. PlanExpr(ask, e) = FlattenSeq(A) /\ OfTables(ask) = FlattenSeq(B)
  BY <1>1, <1>2 DEF PlanExpr, OfTables
<1>4. ask.from # <<>>
  BY <1>1
<1>5. Expands(ask, e) <=> \A t \in Listed(ask) : Told(ask, t) # <<>>
  BY <1>2, <1>4 DEF Expands, Listed
<1>6. AllTold(ask) => Expands(ask, e)
  BY <1>5, ToldAll
<1>7. ASSUME Expands(ask, e) PROVE ExprPaired(ask, FlattenSeq(A), FlattenSeq(B))
  <2>1. ASSUME NEW i \in 1..n PROVE ExprPaired(ask, A[i], B[i])
    <3>1. ask.from[i] \in Listed(ask) /\ Told(ask, ask.from[i]) # <<>>
      BY <1>1, <1>5, <1>7
    <3>2. QED  BY <3>1, TablePair
  <2>2. DOMAIN A = 1..n /\ DOMAIN B = 1..n /\ A = [i \in 1..n |-> A[i]] /\ B = [i \in 1..n |-> B[i]]
    OBVIOUS
  <2> HIDE DEF A, B, n
  <2>3. QED  BY <1>1, <2>1, <2>2, FlatExprPaired
<1>8. QED  BY <1>3, <1>6, <1>7

KeptOf(ask, t) == {i \in DOMAIN ColumnsOf(ask, t) : ColumnsOf(ask, t)[i] \notin Common(ask)}

\* USING leaves out at least as many columns of the first table as it gives
\* first, and one of the second.
LEMMA UsingShorter ==
  ASSUME NEW ask \in SqlAsks, ask.using
  PROVE  /\ Cardinality(Common(ask)) \in Nat
         /\ \A t \in Listed(ask) : Cardinality(KeptOf(ask, t)) \in Nat
         /\ Cardinality(Common(ask)) + Cardinality(KeptOf(ask, ask.from[1])) + Cardinality(KeptOf(ask, ask.from[2]))
              < Len(ColumnsOf(ask, ask.from[1])) + Len(ColumnsOf(ask, ask.from[2]))
<1>1. Len(ask.from) = 2 /\ Common(ask) # {}
  BY AskIs DEF Accepted
<1>2. 1 \in Places(ask) /\ 2 \in Places(ask)
  BY <1>1 DEF Places
<1> DEFINE t1 == ask.from[1]
           t2 == ask.from[2]
           c1 == ColumnsOf(ask, t1)
           c2 == ColumnsOf(ask, t2)
           C == Common(ask)
<1>3. t1 \in Listed(ask) /\ t2 \in Listed(ask)
  BY <1>2, FromIs
<1>4. \A t \in Listed(ask) : /\ Len(ColumnsOf(ask, t)) \in Nat /\ DOMAIN ColumnsOf(ask, t) = 1..Len(ColumnsOf(ask, t))
                             /\ IsFiniteSet(1..Len(ColumnsOf(ask, t)))
                             /\ Cardinality(1..Len(ColumnsOf(ask, t))) = Len(ColumnsOf(ask, t))
  <2>1. TAKE t \in Listed(ask)
  <2>2. Len(ColumnsOf(ask, t)) \in Nat /\ DOMAIN ColumnsOf(ask, t) = 1..Len(ColumnsOf(ask, t))
    <3> DEFINE c == ColumnsOf(ask, t)
    <3>1. c \in Seq(STRING)
      BY ColumnsAre
    <3> HIDE DEF c
    <3>2. Len(c) \in Nat /\ DOMAIN c = 1..Len(c)
      BY <3>1
    <3>3. QED  BY <3>2 DEF c
  <2> DEFINE l == Len(ColumnsOf(ask, t))
  <2>3. l \in Nat
    BY <2>2
  <2> HIDE DEF l
  <2>4. IsFiniteSet(1..l) /\ Cardinality(1..l) = IF 1 > l THEN 0 ELSE l - 1 + 1
    BY <2>3, FS_Interval
  <2>5. Cardinality(1..l) = l
    BY <2>3, <2>4
  <2>6. QED  BY <2>2, <2>4, <2>5 DEF l
<1>5. \A t \in Listed(ask) : /\ KeptOf(ask, t) = {i \in 1..Len(ColumnsOf(ask, t)) : ColumnsOf(ask, t)[i] \notin C}
                             /\ IsFiniteSet(KeptOf(ask, t)) /\ Cardinality(KeptOf(ask, t)) \in Nat
  <2>1. TAKE t \in Listed(ask)
  <2>2. KeptOf(ask, t) = {i \in 1..Len(ColumnsOf(ask, t)) : ColumnsOf(ask, t)[i] \notin C}
    BY <1>4 DEF KeptOf
  <2>3. KeptOf(ask, t) \subseteq 1..Len(ColumnsOf(ask, t))
    BY <2>2
  <2>4. QED  BY <1>4, <2>2, <2>3, FS_Subset, FS_CardinalityType
<1>6. \A t \in Listed(ask) : \A c \in C : \E i \in 1..Len(ColumnsOf(ask, t)) : ColumnsOf(ask, t)[i] = c
  BY <1>4 DEF Common, Has, ToSet
<1> HIDE DEF C
<1> DEFINE K1 == {i \in 1..Len(c1) : c1[i] \in C}
           f == [i \in K1 |-> c1[i]]
<1>7. IsFiniteSet(K1) /\ Cardinality(K1) \in Nat
  <2>1. K1 \subseteq 1..Len(c1)
    OBVIOUS
  <2> HIDE DEF K1
  <2>2. QED  BY <1>3, <1>4, <2>1, FS_Subset, FS_CardinalityType
<1>8. C = {f[i] : i \in K1}
  <2>1. \A c \in C : \E i \in K1 : f[i] = c
    BY <1>3, <1>6
  <2>2. \A i \in K1 : f[i] \in C
    OBVIOUS
  <2> HIDE DEF f, K1
  <2>3. QED  BY <2>1, <2>2
<1>9. Cardinality(C) <= Cardinality(K1) /\ IsFiniteSet(C) /\ Cardinality(C) \in Nat
  <2>1. DOMAIN f = K1
    OBVIOUS
  <2> HIDE DEF f, K1
  <2>2. IsFiniteSet(C) /\ Cardinality(C) <= Cardinality(K1)
    BY <1>7, <1>8, <2>1, ImageFinite
  <2>3. QED  BY <2>2, FS_CardinalityType
<1>10. Cardinality(KeptOf(ask, t1)) = Len(c1) - Cardinality(K1)
  <2>1. KeptOf(ask, t1) = (1..Len(c1)) \ K1 /\ (1..Len(c1)) \cap K1 = K1
    BY <1>3, <1>5
  <2> HIDE DEF K1, c1
  <2>2. IsFiniteSet(1..Len(c1)) /\ Cardinality(1..Len(c1)) = Len(c1)
    BY <1>3, <1>4 DEF c1
  <2>3. Cardinality((1..Len(c1)) \ K1) = Cardinality(1..Len(c1)) - Cardinality((1..Len(c1)) \cap K1)
    BY <2>2, FS_Difference
  <2>4. QED  BY <2>1, <2>2, <2>3
<1>11. Cardinality(KeptOf(ask, t2)) <= Len(c2) - 1
  <2>1. PICK c \in C : TRUE
    BY <1>1 DEF C
  <2>2. PICK x \in 1..Len(c2) : c2[x] = c
    BY <1>3, <1>6
  <2>3. KeptOf(ask, t2) \subseteq (1..Len(c2)) \ {x}
    BY <1>3, <1>5, <2>2
  <2> HIDE DEF c2
  <2>4. IsFiniteSet(1..Len(c2)) /\ Cardinality(1..Len(c2)) = Len(c2)
    BY <1>3, <1>4 DEF c2
  <2>5. IsFiniteSet((1..Len(c2)) \ {x}) /\ Cardinality((1..Len(c2)) \ {x}) = Len(c2) - 1
    BY <2>2, <2>4, FS_RemoveElement
  <2>6. Cardinality(KeptOf(ask, t2)) <= Cardinality((1..Len(c2)) \ {x})
    BY <2>3, <2>5, FS_Subset
  <2>7. QED  BY <2>5, <2>6
<1>12. Len(c1) \in Nat /\ Len(c2) \in Nat /\ Cardinality(KeptOf(ask, t1)) \in Nat /\ Cardinality(KeptOf(ask, t2)) \in Nat
  BY <1>3, <1>4, <1>5
<1> HIDE DEF K1, c1, c2, t1, t2
<1>13. Cardinality(C) + Cardinality(KeptOf(ask, t1)) + Cardinality(KeptOf(ask, t2)) < Len(c1) + Len(c2)
  BY <1>7, <1>9, <1>10, <1>11, <1>12
<1>14. QED  BY <1>5, <1>9, <1>13 DEF c1, c2, t1, t2, C

LEMMA OneThenTwo ==
  ASSUME NEW x, NEW y, NEW z
  PROVE  /\ Len(<<x>> \o <<y, z>>) = 3
         /\ (<<x>> \o <<y, z>>)[1] = x /\ (<<x>> \o <<y, z>>)[2] = y /\ (<<x>> \o <<y, z>>)[3] = z
OBVIOUS

LEMMA StarUsingSources ==
  ASSUME NEW ask \in SqlAsks, NEW e, e.kind = "star", ask.using
  PROVE  /\ ExprSources(ask, e) \in Seq(SourceSets(ask))
         /\ Len(ExprSources(ask, e)) < Len(ColumnsOf(ask, ask.from[1])) + Len(ColumnsOf(ask, ask.from[2]))
         /\ 1 \in Places(ask) /\ 2 \in Places(ask) /\ DOMAIN ask.from = 1..2
<1>1. Len(ask.from) = 2
  BY AskIs DEF Accepted
<1>2. 1 \in Places(ask) /\ 2 \in Places(ask) /\ DOMAIN ask.from = 1..2
  <2>1. DOMAIN ask.from = Places(ask)
    BY FromIs
  <2>2. QED  BY <1>1, <2>1 DEF Places
<1> DEFINE t1 == ask.from[1]
           t2 == ask.from[2]
           cf == CommonFirst(ask)
           n1 == NotCommon(ask, t1)
           n2 == NotCommon(ask, t2)
           T == SourceSets(ask)
<1>3. t1 \in Listed(ask) /\ t2 \in Listed(ask)
  BY <1>2, FromIs
<1>4. /\ Cardinality(Common(ask)) \in Nat
      /\ Cardinality(KeptOf(ask, t1)) \in Nat /\ Cardinality(KeptOf(ask, t2)) \in Nat
      /\ Cardinality(Common(ask)) + Cardinality(KeptOf(ask, t1)) + Cardinality(KeptOf(ask, t2))
           < Len(ColumnsOf(ask, t1)) + Len(ColumnsOf(ask, t2))
  BY <1>3, UsingShorter
<1>5. cf \in Seq(T) /\ Len(cf) = Cardinality(Common(ask))
  <2>1. DOMAIN cf = 1..Cardinality(Common(ask)) /\ cf = [i \in 1..Cardinality(Common(ask)) |-> cf[i]]
    BY DEF CommonFirst
  <2>2. ToSet(cf) \subseteq T
    BY Zenon DEF SourceSets
  <2>3. \A i \in 1..Cardinality(Common(ask)) : cf[i] \in T
    BY <2>1, <2>2 DEF ToSet
  <2> HIDE DEF cf, T
  <2>4. QED  BY <1>4, <2>1, <2>3, ListedOut
<1>6. ASSUME NEW t \in Listed(ask), Cardinality(KeptOf(ask, t)) \in Nat
      PROVE  NotCommon(ask, t) \in Seq(T) /\ Len(NotCommon(ask, t)) = Cardinality(KeptOf(ask, t))
  <2> DEFINE s == NotCommon(ask, t)
             k == Cardinality(KeptOf(ask, t))
  <2>1. DOMAIN s = 1..k /\ s = [i \in 1..k |-> s[i]]
    BY DEF NotCommon, KeptOf
  <2>2. ToSet(s) \subseteq T
    BY Zenon DEF SourceSets
  <2>3. \A i \in 1..k : s[i] \in T
    BY <2>1, <2>2 DEF ToSet
  <2> HIDE DEF s, T, k
  <2>4. s \in Seq(T) /\ Len(s) = k
    BY <1>6, <2>1, <2>3, ListedOut DEF k
  <2>5. QED  BY <2>4 DEF s, k
<1>7. n1 \in Seq(T) /\ n2 \in Seq(T) /\ Len(n1) = Cardinality(KeptOf(ask, t1)) /\ Len(n2) = Cardinality(KeptOf(ask, t2))
  BY <1>3, <1>4, <1>6
<1>8. ExprSources(ask, e) = (cf \o n1) \o n2
  <2> DEFINE s == <<cf>> \o [i \in DOMAIN ask.from |-> NotCommon(ask, ask.from[i])]
  <2>1. ExprSources(ask, e) = FlattenSeq(s)
    BY Zenon DEF ExprSources
  <2>2. [i \in DOMAIN ask.from |-> NotCommon(ask, ask.from[i])] = <<n1, n2>>
    BY <1>2
  <2> HIDE DEF cf, n1, n2
  <2>3. s = <<cf>> \o <<n1, n2>>
    BY <2>2
  <2>4. Len(s) = 3 /\ s[1] = cf /\ s[2] = n1 /\ s[3] = n2
    BY <2>3, OneThenTwo
  <2> HIDE DEF s
  <2>5. QED  BY <2>1, <2>4, FlatFew
<1> DEFINE b == ExprSources(ask, e)
<1>9. b \in Seq(T) /\ Len(b) = Len(cf) + Len(n1) + Len(n2)
  <2>1. b = (cf \o n1) \o n2
    BY <1>8
  <2> HIDE DEF b, cf, n1, n2, T
  <2>2. QED  BY <1>5, <1>7, <2>1
<1>10. Len(b) < Len(ColumnsOf(ask, t1)) + Len(ColumnsOf(ask, t2))
  BY <1>4, <1>5, <1>7, <1>9
<1>11. QED  BY <1>2, <1>9, <1>10

\* SELECT * with USING: what is planned is longer than what comes.
LEMMA StarUsing ==
  ASSUME NEW ask \in SqlAsks, NEW e, e.kind = "star", ask.using, Expands(ask, e)
  PROVE  ExprPaired(ask, PlanExpr(ask, e), ExprSources(ask, e))
<1> DEFINE t1 == ask.from[1]
           t2 == ask.from[2]
           T == SourceSets(ask)
           b == ExprSources(ask, e)
           a == PlanExpr(ask, e)
           o == OfTables(ask)
<1>2. 1 \in Places(ask) /\ 2 \in Places(ask) /\ DOMAIN ask.from = 1..2
  BY StarUsingSources
<1>3. t1 \in Listed(ask) /\ t2 \in Listed(ask)
  BY <1>2, FromIs
<1>8. b \in Seq(T) /\ Len(b) < Len(ColumnsOf(ask, t1)) + Len(ColumnsOf(ask, t2))
  BY StarUsingSources
<1>9. o = OfTable(ask, t1) \o OfTable(ask, t2)
  <2> DEFINE s == [i \in DOMAIN ask.from |-> OfTable(ask, ask.from[i])]
  <2>1. Len(s) = 2 /\ s[1] = OfTable(ask, t1) /\ s[2] = OfTable(ask, t2)
    BY <1>2
  <2>2. o = FlattenSeq(s)
    BY DEF OfTables
  <2> HIDE DEF s, o
  <2>3. QED  BY <2>1, <2>2, FlatFew
<1>10. \A t \in Listed(ask) : OfTable(ask, t) \in Seq(T) /\ Len(OfTable(ask, t)) = Len(ColumnsOf(ask, t))
  BY OfTableTyped
<1>11. ExprPaired(ask, a, o)
  BY AllOfTables
<1>12. Len(o) = Len(ColumnsOf(ask, t1)) + Len(ColumnsOf(ask, t2))
  <2>1. OfTable(ask, t1) \in Seq(T) /\ OfTable(ask, t2) \in Seq(T)
    BY <1>3, <1>10
  <2>2. Len(OfTable(ask, t1) \o OfTable(ask, t2)) = Len(OfTable(ask, t1)) + Len(OfTable(ask, t2))
    BY <2>1
  <2>3. QED  BY <1>3, <1>9, <1>10, <2>2
<1>14. a \in Seq(PlanColumnsOf(ask)) /\ Len(o) <= Len(a)
  BY <1>11 DEF ExprPaired
<1>15. Len(b) < Len(a) /\ Len(b) # Len(a)
  <2>1. Len(o) \in Nat /\ Len(a) \in Nat
    BY <1>11 DEF ExprPaired
  <2>2. Len(b) < Len(o)
    BY <1>8, <1>12
  <2>3. Len(b) \in Nat
    BY <1>8
  <2> HIDE DEF a, b, o
  <2>4. QED  BY <1>14, <2>1, <2>2, <2>3
<1> HIDE DEF a, b, o
<1>16. ExprPaired(ask, a, b)
  BY <1>8, <1>14, <1>15 DEF ExprPaired
<1>17. QED  BY <1>16 DEF a, b

LEMMA FlatTyped ==
  ASSUME NEW n \in Nat \ {0}, NEW S, NEW A, DOMAIN A = 1..n, A = [i \in 1..n |-> A[i]], \A i \in 1..n : A[i] \in Seq(S)
  PROVE  FlattenSeq(A) \in Seq(S)
<1>1. A \in Seq(Seq(S)) /\ Len(A) = n
  BY ListedOut
<1>2. \A i \in 1..n : Len(A[i]) <= Len(A[i])
  <2>1. \A i \in 1..n : Len(A[i]) \in Nat
    OBVIOUS
  <2>2. QED  BY <2>1
<1>3. RunsBeside(A, A, n, FlattenSeq(A), FlattenSeq(A), S, S)
  BY <1>1, <1>2, FlatPaired
<1>4. QED  BY <1>3 DEF RunsBeside

LEMMA OfTablesTyped ==
  ASSUME NEW ask \in SqlAsks
  PROVE  OfTables(ask) \in Seq(SourceSets(ask))
<1> DEFINE n == Len(ask.from)
           B == [i \in 1..n |-> OfTable(ask, ask.from[i])]
<1>1. n \in Nat \ {0} /\ DOMAIN ask.from = 1..n /\ \A i \in 1..n : ask.from[i] \in Listed(ask)
  BY FromIs DEF Places
<1>2. OfTables(ask) = FlattenSeq(B)
  BY <1>1 DEF OfTables
<1>3. \A i \in 1..n : B[i] \in Seq(SourceSets(ask))
  BY <1>1, OfTableTyped
<1>4. DOMAIN B = 1..n /\ B = [i \in 1..n |-> B[i]]
  OBVIOUS
<1> HIDE DEF B, n
<1>5. QED  BY <1>1, <1>2, <1>3, <1>4, FlatTyped

ExprIs(ask, e) ==
  /\ e.kind \in {"star", "all", "expr"}
  /\ \A r \in e.refs : r.column \in STRING /\ RefAccepted(ask, r)
  /\ e.kind = "all" => \E r \in e.refs : e.refs = {r} /\ r.table # NoName

LEMMA SelectListIs ==
  ASSUME NEW ask \in SqlAsks
  PROVE  /\ Len(ask.list) \in Nat \ {0} /\ DOMAIN ask.list = 1..Len(ask.list)
         /\ \A i \in 1..Len(ask.list) : ExprIs(ask, ask.list[i])
<1> DEFINE l == ask.list
           Refs == [table : Seq(STRING), column : STRING]
           Exprs == [kind : {"star", "all", "expr"}, refs : SUBSET Refs]
<1>1. ask.list \in MkLists
  BY AskIs, Zenon
<1>2. /\ l # <<>> /\ l \in Seq(Exprs)
      /\ \A i \in DOMAIN l : l[i].kind = "all" => \E r \in l[i].refs : l[i].refs = {r} /\ r.table # <<>>
  BY <1>1, MaskingAssumption, Zenon
<1>3. \A r \in Refs : r.column \in STRING
  OBVIOUS
<1> HIDE DEF Refs
<1>4. \A e \in Exprs : e.kind \in {"star", "all", "expr"} /\ \A r \in e.refs : r \in Refs
  OBVIOUS
<1>5. \A i \in DOMAIN l : \A r \in l[i].refs : RefAccepted(ask, r)
  BY RefsAccepted
<1> HIDE DEF l, Exprs
<1>6. Len(l) \in Nat \ {0} /\ DOMAIN l = 1..Len(l) /\ \A i \in 1..Len(l) : l[i] \in Exprs
  BY <1>2
<1>7. QED  BY <1>2, <1>3, <1>4, <1>5, <1>6 DEF l, NoName, ExprIs

LEMMA StarSources ==
  ASSUME NEW ask \in SqlAsks, NEW e, e.kind = "star", ~ask.using
  PROVE  ExprSources(ask, e) = OfTables(ask)
BY Zenon DEF ExprSources, OfTables

LEMMA ExprOther ==
  ASSUME NEW ask, NEW e, e.kind = "expr"
  PROVE  /\ ExprSources(ask, e) = Unit(UNION {RefSource(ask, r) : r \in e.refs})
         /\ PlanExpr(ask, e) = Unit(BuildExprColumn(ask, e)) /\ Expands(ask, e)
<1>1. e.kind # "star" /\ e.kind # "all"
  OBVIOUS
<1>2. QED  BY <1>1 DEF ExprSources, PlanExpr, Expands

LEMMA ExprTyped ==
  ASSUME NEW ask \in SqlAsks, NEW e, ExprIs(ask, e)
  PROVE  ExprSources(ask, e) \in Seq(SourceSets(ask))
<1>1. /\ e.kind \in {"star", "all", "expr"}
      /\ \A r \in e.refs : r.column \in STRING /\ RefAccepted(ask, r)
      /\ e.kind = "all" => \E r \in e.refs : e.refs = {r} /\ r.table # NoName
  BY DEF ExprIs
<1>2. ask.using \in BOOLEAN
  BY AskIs
<1>3. CASE e.kind = "star" /\ ~ask.using
  BY <1>3, StarSources, OfTablesTyped
<1>4. CASE e.kind = "star" /\ ask.using
  BY <1>4, StarUsingSources
<1>5. CASE e.kind = "all"
  <2>1. PICK r \in e.refs : e.refs = {r} /\ r.table # NoName
    BY <1>1, <1>5
  <2>2. RefAccepted(ask, r)
    BY <1>1
  <2>3. PICK t \in Listed(ask) : ExprSources(ask, e) = OfTable(ask, t)
    BY <1>5, <2>1, <2>2, AllSources
  <2>4. QED  BY <2>3, OfTableTyped
<1>6. CASE e.kind = "expr"
  <2> DEFINE src == UNION {RefSource(ask, r) : r \in e.refs}
  <2>1. ExprSources(ask, e) = Unit(src)
    BY <1>6, ExprOther
  <2>2. src \in SourceSets(ask)
    BY <1>1, ExprSourceTyped
  <2> HIDE DEF src
  <2>3. Unit(src) \in Seq(SourceSets(ask))
    BY <2>2 DEF Unit
  <2>4. QED  BY <2>1, <2>3
<1>7. QED  BY <1>1, <1>2, <1>3, <1>4, <1>5, <1>6

LEMMA SourcesTyped ==
  ASSUME NEW ask \in SqlAsks
  PROVE  /\ Sources(ask) \in Seq(SourceSets(ask))
         /\ Len(Sources(ask)) \in Nat /\ DOMAIN Sources(ask) = 1..Len(Sources(ask))
<1> DEFINE n == Len(ask.list)
           B == [i \in 1..n |-> ExprSources(ask, ask.list[i])]
<1>1. n \in Nat \ {0} /\ DOMAIN ask.list = 1..n
  BY SelectListIs
<1>2. Sources(ask) = FlattenSeq(B)
  BY <1>1 DEF Sources
<1>3. \A i \in 1..n : B[i] \in Seq(SourceSets(ask))
  BY SelectListIs, ExprTyped
<1>4. DOMAIN B = 1..n /\ B = [i \in 1..n |-> B[i]]
  OBVIOUS
<1> HIDE DEF B, n
<1>5. FlattenSeq(B) \in Seq(SourceSets(ask))
  BY <1>1, <1>3, <1>4, FlatTyped
<1>6. QED  BY <1>2, <1>5

LEMMA ListTraced ==
  ASSUME NEW ask \in SqlAsks, NEW e, ExprIs(ask, e), NoneEmpty(ask)
  PROVE  /\ Expands(ask, e) => ExprPaired(ask, PlanExpr(ask, e), ExprSources(ask, e))
         /\ AllTold(ask) => Expands(ask, e)
<1>1. /\ e.kind \in {"star", "all", "expr"}
      /\ \A r \in e.refs : r.column \in STRING /\ RefAccepted(ask, r)
      /\ e.kind = "all" => \E r \in e.refs : e.refs = {r} /\ r.table # NoName
  BY DEF ExprIs
<1>2. ask.using \in BOOLEAN
  BY AskIs
<1>3. CASE e.kind = "star" /\ ~ask.using
  BY <1>3, StarSources, AllOfTables
<1>4. CASE e.kind = "star" /\ ask.using
  BY <1>4, StarUsing, AllOfTables
<1>5. CASE e.kind = "all"
  <2>1. PICK r \in e.refs : e.refs = {r} /\ r.table # NoName
    BY <1>1, <1>5
  <2>2. RefAccepted(ask, r)
    BY <1>1
  <2>3. QED  BY <1>5, <2>1, <2>2, AllOfTable
<1>6. CASE e.kind = "expr"
  <2>1. /\ ExprSources(ask, e) = Unit(UNION {RefSource(ask, r) : r \in e.refs})
        /\ PlanExpr(ask, e) = Unit(BuildExprColumn(ask, e)) /\ Expands(ask, e)
    BY <1>6, ExprOther
  <2>2. ExprPaired(ask, Unit(BuildExprColumn(ask, e)), Unit(UNION {RefSource(ask, r) : r \in e.refs}))
    BY <1>1, ExprTraced
  <2>3. QED  BY <2>1, <2>2, Zenon
<1>7. QED  BY <1>1, <1>2, <1>3, <1>4, <1>5, <1>6

(* The plan of a result.                                                   *)

Planned(ask) == FlattenSeq([i \in DOMAIN ask.list |-> PlanExpr(ask, ask.list[i])])
AllExpand(ask) == \A i \in DOMAIN ask.list : Expands(ask, ask.list[i])

LEMMA PlannedPaired ==
  ASSUME NEW ask \in SqlAsks, NoneEmpty(ask), AllExpand(ask)
  PROVE  ExprPaired(ask, Planned(ask), Sources(ask))
<1> DEFINE n == Len(ask.list)
           A == [i \in 1..n |-> PlanExpr(ask, ask.list[i])]
           B == [i \in 1..n |-> ExprSources(ask, ask.list[i])]
<1>1. n \in Nat \ {0} /\ DOMAIN ask.list = 1..n
  BY SelectListIs
<1>2. Sources(ask) = FlattenSeq(B) /\ Planned(ask) = FlattenSeq(A)
  BY <1>1 DEF Sources, Planned
<1>3. ASSUME NEW i \in 1..n PROVE ExprPaired(ask, A[i], B[i])
  <2>1. ExprIs(ask, ask.list[i]) /\ Expands(ask, ask.list[i])
    BY <1>1, SelectListIs DEF AllExpand
  <2>2. QED  BY <2>1, ListTraced
<1>4. DOMAIN A = 1..n /\ A = [i \in 1..n |-> A[i]] /\ DOMAIN B = 1..n /\ B = [i \in 1..n |-> B[i]]
  OBVIOUS
<1> HIDE DEF A, B, n
<1>5. ExprPaired(ask, FlattenSeq(A), FlattenSeq(B))
  BY <1>1, <1>3, <1>4, FlatExprPaired
<1>6. QED  BY <1>2, <1>5

LEMMA WholeIs ==
  ASSUME NEW S, NEW s \in Seq(S)
  PROVE  SubSeq(s, 1, Len(s)) = s
OBVIOUS

Build(ask) == BuildSQLResultColumns(ask)

LEMMA BuildIs ==
  ASSUME NEW ask
  PROVE  Build(ask) = IF ask.plain /\ AllExpand(ask) /\ Len(Planned(ask)) = Len(Sources(ask))
                      THEN SubSeq(Planned(ask), 1, Len(Sources(ask))) ELSE Conservative(Len(Sources(ask)))
BY Zenon DEF Build, BuildSQLResultColumns, Planned, AllExpand, Fits

\* Every column of a result is masked whatever it is, or traced to all that
\* it is computed from.
LEMMA PlanCovers ==
  ASSUME NEW ask \in SqlAsks, NoneEmpty(ask)
  PROVE  /\ DOMAIN Build(ask) = DOMAIN Sources(ask)
         /\ \A i \in DOMAIN Sources(ask) : Covers(Build(ask)[i], Sources(ask)[i])
<1> DEFINE n == Len(Sources(ask))
<1>1. n \in Nat /\ DOMAIN Sources(ask) = 1..n
  BY SourcesTyped
<1>2. CASE ask.plain /\ AllExpand(ask) /\ Len(Planned(ask)) = Len(Sources(ask))
  <2>1. ExprPaired(ask, Planned(ask), Sources(ask))
    BY <1>2, PlannedPaired
  <2>2. Planned(ask) \in Seq(PlanColumnsOf(ask)) /\ \A k \in 1..Len(Planned(ask)) : Covers(Planned(ask)[k], Sources(ask)[k])
    BY <1>2, <2>1 DEF ExprPaired
  <2>3. Build(ask) = Planned(ask)
    BY <1>2, <2>2, BuildIs, WholeIs
  <2>4. DOMAIN Planned(ask) = 1..Len(Planned(ask))
    BY <2>2
  <2>5. QED  BY <1>1, <1>2, <2>2, <2>3, <2>4
<1>3. CASE ~(ask.plain /\ AllExpand(ask) /\ Len(Planned(ask)) = Len(Sources(ask)))
  <2>1. Build(ask) = Conservative(n)
    BY <1>3, BuildIs
  <2>2. DOMAIN Conservative(n) = 1..n /\ \A i \in 1..n : Conservative(n)[i] = Column({}, TRUE)
    BY DEF Conservative
  <2>3. \A s : Covers(Column({}, TRUE), s)
    BY ColumnIs DEF Covers
  <2>4. QED  BY <1>1, <2>1, <2>2, <2>3
<1>4. QED  BY <1>2, <1>3

\* Of a plain statement over tables told as they were, it is traced to
\* nothing else.
LEMMA PlanPlaces ==
  ASSUME NEW ask \in SqlAsks, ask.plain, ~ask.using, AllTold(ask)
  PROVE  /\ DOMAIN Build(ask) = DOMAIN Sources(ask)
         /\ \A i \in DOMAIN Sources(ask) : PlacedAs(Build(ask)[i], Sources(ask)[i])
<1>1. NoneEmpty(ask)
  BY DEF NoneEmpty
<1>2. AllExpand(ask)
  <2>1. ASSUME NEW i \in DOMAIN ask.list PROVE Expands(ask, ask.list[i])
    <3>1. ExprIs(ask, ask.list[i])
      BY SelectListIs
    <3>2. QED  BY <1>1, <3>1, ListTraced
  <2>2. QED  BY <2>1 DEF AllExpand
<1>3. ExprPaired(ask, Planned(ask), Sources(ask))
  BY <1>1, <1>2, PlannedPaired
<1>4. /\ Planned(ask) \in Seq(PlanColumnsOf(ask)) /\ Len(Planned(ask)) = Len(Sources(ask))
      /\ \A k \in 1..Len(Planned(ask)) : PlacedAs(Planned(ask)[k], Sources(ask)[k])
  BY <1>3 DEF ExprPaired
<1>5. Build(ask) = Planned(ask)
  BY <1>2, <1>4, BuildIs, WholeIs
<1>6. DOMAIN Sources(ask) = 1..Len(Sources(ask))
  BY SourcesTyped
<1>7. DOMAIN Planned(ask) = 1..Len(Planned(ask))
  BY <1>4
<1>8. QED  BY <1>4, <1>5, <1>6, <1>7

(* The levels, and what is denied.                                         *)

LEMMA MustMaskDenied ==
  ASSUME mkConfig \in MkConfigs, NEW level
  PROVE  MustMask(mkConfig, level) <=> Denied(level)
<1>1. mkConfig.from \in Nat /\ mkConfig.to \in Nat /\ \A l \in DOMAIN mkConfig.ids : mkConfig.ids[l] \in Nat
  BY MaskingAssumption
<1>2. QED  BY <1>1 DEF MustMask, Denied

LEMMA MaskSetDenied ==
  ASSUME mkConfig \in MkConfigs, NEW E
  PROVE  BuildMaskSet(E) = DeniedIn(E)
BY MustMaskDenied, Zenon DEF BuildMaskSet, DeniedIn

\* A larger set of entities denies no less, and only classified ones count.
LEMMA DeniedGrows ==
  ASSUME NEW E, NEW F, E \cap Entities \subseteq F, NEW x \in DeniedIn(E)
  PROVE  x \in DeniedIn(F)
<1>1. PICK c \in mkReport : c.entity \in E /\ Denied(c.level) /\ x = c.field
  BY DEF DeniedIn
<1>2. c.entity \in F
  BY <1>1 DEF Entities
<1>3. QED  BY <1>1, <1>2 DEF DeniedIn

LEMMA NoneDenied ==
  ASSUME mkReport = {}, NEW E
  PROVE  DeniedIn(E) = {}
BY Zenon DEF DeniedIn

\* An origin finds its table under each name that it is classified by.
LEMMA OriginEntities ==
  ASSUME NEW o
  PROVE  /\ o.schema \in {"", MkDefault} => {<<o.table>>, <<MkDefault, o.table>>} \cap Entities \subseteq MatchingSQLOriginEntities(o)
         /\ MatchingSQLOriginEntities(o) \subseteq {e \in Entities : e[Len(e)] = o.table}
<1>1. /\ Len(<<MkDefault, o.table>>) = 2 /\ <<MkDefault, o.table>>[1] = MkDefault /\ <<MkDefault, o.table>>[2] = o.table
      /\ Len(<<o.table>>) = 1 /\ <<o.table>>[1] = o.table
  OBVIOUS
<1>2. ASSUME o.schema \in {"", MkDefault}, NEW e \in Entities, e = <<o.table>> \/ e = <<MkDefault, o.table>>
      PROVE  e \in MatchingSQLOriginEntities(o)
  BY <1>1, <1>2 DEF MatchingSQLOriginEntities
<1>3. ASSUME NEW e \in MatchingSQLOriginEntities(o) PROVE e \in Entities /\ e[Len(e)] = o.table
  <2>1. e \in Entities /\ (e = <<o.table>> \/ (Len(e) = 2 /\ e[2] = o.table))
    BY <1>3 DEF MatchingSQLOriginEntities
  <2>2. CASE e = <<o.table>>
    BY <1>1, <2>1, <2>2
  <2>3. CASE Len(e) = 2 /\ e[2] = o.table
    BY <2>1, <2>3
  <2>4. QED  BY <2>1, <2>2, <2>3
<1>4. QED  BY <1>2, <1>3

(* What a result that is asked for has become.  The plan is the one of the *)
(* statement, whenever it was made; what is masked by name comes on top of *)
(* what is masked by origin, and only when nothing has an origin.          *)
MaskInv ==
  /\ mkPc \in {"executed", "planned", "masked"}
  /\ mkAsk \in SqlAsks \cup DocumentAsks /\ mkReport \in MkReports /\ mkConfig \in MkConfigs
  /\ mkPc = "planned" => mkAsk.sql
  /\ mkPc # "executed" /\ mkAsk.sql => mkPlan = Build(mkAsk)
  /\ mkPc = "masked" /\ mkAsk.sql =>
       \E named : mkMasked = MaskSQLQueryResult(mkPlan) \cup named /\ (named # {} => FallsBack(mkPlan))
  /\ mkPc = "masked" /\ ~mkAsk.sql =>
       /\ mkMasked = ToMask(InferColumns(mkAsk.rows), SourceEntity(mkAsk))
       /\ mkHashed = {<<row, HashedLeaves(row, mkMasked)>> : row \in mkAsk.rows}

LEMMA AskKinds ==
  ASSUME mkAsk \in SqlAsks \cup DocumentAsks
  PROVE  /\ mkAsk.sql => mkAsk \in SqlAsks
         /\ ~mkAsk.sql => \E r \in MkResults : mkAsk.rows = r.rows /\ mkAsk.of = r.of /\ mkAsk.asked = r.asked /\ mkAsk.stages = r.stages
<1>1. mkAsk \in SqlAsks => mkAsk.sql = TRUE
  BY AskIs
<1>2. ASSUME mkAsk \in DocumentAsks
      PROVE  mkAsk.sql = FALSE /\ \E r \in MkResults : mkAsk.rows = r.rows /\ mkAsk.of = r.of /\ mkAsk.asked = r.asked /\ mkAsk.stages = r.stages
  <2>1. PICK r \in MkResults : mkAsk = [sql |-> FALSE, rows |-> r.rows, of |-> r.of, asked |-> r.asked, stages |-> r.stages]
    BY <1>2, Zenon DEF DocumentAsks
  <2>2. mkAsk.sql = FALSE /\ mkAsk.rows = r.rows /\ mkAsk.of = r.of /\ mkAsk.asked = r.asked /\ mkAsk.stages = r.stages
    BY <2>1
  <2>3. QED  BY <2>2
<1>3. QED  BY <1>1, <1>2

LEMMA MaskInitially == QueryMaskingInit => MaskInv
BY DEF QueryMaskingInit, MaskInv

LEMMA SameMask ==
  ASSUME UNCHANGED <<mkPlan, mkReport, mkConfig>>
  PROVE  MaskSQLQueryResult(mkPlan)' = MaskSQLQueryResult(mkPlan)
<1>1. mkPlan' = mkPlan /\ mkReport' = mkReport /\ mkConfig' = mkConfig
  OBVIOUS
<1>2. Entities' = Entities
  BY <1>1, Zenon DEF Entities
<1>3. ASSUME NEW o PROVE MatchingSQLOriginEntities(o)' = MatchingSQLOriginEntities(o)
  BY <1>2, Zenon DEF MatchingSQLOriginEntities
<1>4. ASSUME NEW E PROVE BuildMaskSet(E)' = BuildMaskSet(E)
  BY <1>1, Zenon DEF BuildMaskSet
<1>5. QED  BY <1>1, <1>3, <1>4 DEF MaskSQLQueryResult

LEMMA MaskStep ==
  ASSUME MaskInv, [QueryMaskingNext]_mkvars
  PROVE  MaskInv'
<1>1. CASE UNCHANGED mkvars
  <2>1. UNCHANGED <<mkPc, mkAsk, mkReport, mkConfig, mkPlan, mkMasked, mkHashed>>
    BY <1>1 DEF mkvars
  <2>2. MaskSQLQueryResult(mkPlan)' = MaskSQLQueryResult(mkPlan)
    BY <2>1, SameMask
  <2>3. ToMask(InferColumns(mkAsk.rows), SourceEntity(mkAsk))' = ToMask(InferColumns(mkAsk.rows), SourceEntity(mkAsk))
    BY <2>1, Zenon DEF BuildMaskSet, Entities, ToMask, MaskedEntities, InferColumns, SourceEntity
  <2>4. QED  BY <2>1, <2>2, <2>3, Zenon DEF MaskInv, Build
<1>2. CASE PlanColumns
  <2>1. mkAsk.sql /\ mkPc' = "planned" /\ mkPlan' = Build(mkAsk) /\ UNCHANGED <<mkAsk, mkReport, mkConfig>>
    BY <1>2, Zenon DEF PlanColumns, Build
  <2>2. Build(mkAsk)' = Build(mkAsk)
    BY <2>1
  <2>3. QED  BY <2>1, <2>2 DEF MaskInv
<1>3. CASE Reclassifies
  <2>1. /\ mkPc = "planned" /\ mkReport' \in MkReports /\ mkConfig' \in MkConfigs
        /\ UNCHANGED <<mkPc, mkAsk, mkPlan, mkMasked, mkHashed>>
    BY <1>3 DEF Reclassifies
  <2>2. Build(mkAsk)' = Build(mkAsk)
    BY <2>1
  <2>3. QED  BY <2>1, <2>2 DEF MaskInv
<1>4. CASE MasksSql
  <2> DEFINE known == MaskSQLQueryResult(mkPlan)
  <2>1. /\ mkPc = "planned" /\ mkPc' = "masked"
        /\ UNCHANGED <<mkAsk, mkReport, mkConfig, mkPlan, mkHashed>>
    BY <1>4 DEF MasksSql
  <2>2. PICK named : mkMasked' = known \cup named /\ (named # {} => FallsBack(mkPlan))
    <3> DEFINE some == known = {} /\ FallsBack(mkPlan) /\ BuildMaskSet(MaskedEntities({FullName(t) : t \in Listed(mkAsk)})) # {}
               sets == IF some THEN SUBSET DOMAIN mkPlan ELSE {{}}
    <3>1. \E named \in sets : mkMasked' = known \cup named
      BY <1>4, Zenon DEF MasksSql
    <3>2. PICK named \in sets : mkMasked' = known \cup named
      BY <3>1
    <3>3. named # {} => FallsBack(mkPlan)
      BY Zenon
    <3> HIDE DEF sets, some
    <3>4. QED  BY <3>2, <3>3
  <2>3. MaskSQLQueryResult(mkPlan)' = known /\ FallsBack(mkPlan)' = FallsBack(mkPlan) /\ Build(mkAsk)' = Build(mkAsk)
    <3>1. MaskSQLQueryResult(mkPlan)' = known
      BY <2>1, SameMask
    <3>2. FallsBack(mkPlan)' = FallsBack(mkPlan)
      BY <2>1
    <3>3. Build(mkAsk)' = Build(mkAsk)
      BY <2>1
    <3>4. QED  BY <3>1, <3>2, <3>3
  <2>4. mkAsk.sql /\ mkPlan = Build(mkAsk)
    BY <2>1 DEF MaskInv
  <2> HIDE DEF known
  <2>5. \E x : mkMasked' = MaskSQLQueryResult(mkPlan)' \cup x /\ (x # {} => FallsBack(mkPlan)')
    BY <2>2, <2>3, Zenon
  <2>6. QED  BY <2>1, <2>3, <2>4, <2>5 DEF MaskInv
<1>5. CASE MasksDocuments
  <2>1. /\ ~mkAsk.sql /\ mkPc' = "masked" /\ mkMasked' = ToMask(InferColumns(mkAsk.rows), SourceEntity(mkAsk))
        /\ mkHashed' = {<<row, HashedLeaves(row, mkMasked')>> : row \in mkAsk.rows}
        /\ UNCHANGED <<mkAsk, mkReport, mkConfig, mkPlan>>
    BY <1>5, Zenon DEF MasksDocuments
  <2>2. ToMask(InferColumns(mkAsk.rows), SourceEntity(mkAsk))' = ToMask(InferColumns(mkAsk.rows), SourceEntity(mkAsk))
    BY <2>1, Zenon DEF BuildMaskSet, Entities, ToMask, MaskedEntities, InferColumns, SourceEntity
  <2>3. {<<row, HashedLeaves(row, mkMasked)>> : row \in mkAsk.rows}' = {<<row, HashedLeaves(row, mkMasked')>> : row \in mkAsk.rows}
    BY <2>1, Zenon
  <2>4. QED  BY <2>1, <2>2, <2>3 DEF MaskInv
<1>6. QED  BY <1>1, <1>2, <1>3, <1>4, <1>5 DEF QueryMaskingNext

\* What is masked by origin.
LEMMA KnownIs ==
  ASSUME mkConfig \in MkConfigs, NEW plan, NEW i \in DOMAIN plan
  PROVE  /\ i \in MaskSQLQueryResult(plan) =>
              plan[i].conservative \/ \E o \in plan[i].origins : <<o.column>> \in DeniedIn(MatchingSQLOriginEntities(o))
         /\ mkReport # {} /\ (plan[i].conservative \/ \E o \in plan[i].origins : <<o.column>> \in DeniedIn(MatchingSQLOriginEntities(o)))
              => i \in MaskSQLQueryResult(plan)
<1>1. \A o : BuildMaskSet(MatchingSQLOriginEntities(o)) = DeniedIn(MatchingSQLOriginEntities(o))
  BY MaskSetDenied
<1>2. QED  BY <1>1, Zenon DEF MaskSQLQueryResult

LEMMA MaskedColumns ==
  ASSUME MaskInv
  PROVE  DeniedColumnsMasked
<1>1. SUFFICES ASSUME mkPc = "masked", mkAsk.sql, NoneEmpty(mkAsk),
                      NEW i \in DOMAIN Sources(mkAsk), NEW s \in Sources(mkAsk)[i],
                      <<s[2]>> \in DeniedIn({<<s[1]>>, <<MkDefault, s[1]>>})
               PROVE  i \in mkMasked
  BY Zenon DEF DeniedColumnsMasked, MaskedNow, NoneEmpty
<1>2. mkAsk \in SqlAsks /\ mkConfig \in MkConfigs /\ mkPlan = Build(mkAsk)
  BY <1>1, AskKinds DEF MaskInv
<1>3. PICK named : mkMasked = MaskSQLQueryResult(mkPlan) \cup named
  BY <1>1 DEF MaskInv
<1>4. i \in DOMAIN mkPlan /\ Covers(mkPlan[i], Sources(mkAsk)[i])
  BY <1>1, <1>2, PlanCovers
<1>5. mkReport # {}
  BY <1>1, NoneDenied
<1>6. CASE mkPlan[i].conservative
  BY <1>2, <1>3, <1>4, <1>5, <1>6, KnownIs
<1>7. CASE ~mkPlan[i].conservative
  <2>1. PICK o \in mkPlan[i].origins : o.table = s[1] /\ o.column = s[2] /\ o.schema \in {"", MkDefault}
    BY <1>1, <1>4, <1>7 DEF Covers
  <2>2. <<o.column>> \in DeniedIn({<<o.table>>, <<MkDefault, o.table>>})
    BY <1>1, <2>1
  <2>3. {<<o.table>>, <<MkDefault, o.table>>} \cap Entities \subseteq MatchingSQLOriginEntities(o)
    BY <2>1, OriginEntities
  <2>4. <<o.column>> \in DeniedIn(MatchingSQLOriginEntities(o))
    BY <2>2, <2>3, DeniedGrows
  <2>5. QED  BY <1>2, <1>3, <1>4, <1>5, <2>4, KnownIs
<1>8. QED  BY <1>6, <1>7

LEMMA ShownColumns ==
  ASSUME MaskInv
  PROVE  OpenColumnsShown
<1>1. SUFFICES ASSUME mkPc = "masked", mkAsk.sql, mkAsk.plain, ~mkAsk.using, AllTold(mkAsk),
                      NEW i \in DOMAIN Sources(mkAsk), Sources(mkAsk)[i] # {}, i \in mkMasked
               PROVE  \E s \in Sources(mkAsk)[i] : <<s[2]>> \in DeniedIn({e \in Entities : e[Len(e)] = s[1]})
  BY Zenon DEF OpenColumnsShown, MaskedNow, AllTold
<1>2. mkAsk \in SqlAsks /\ mkConfig \in MkConfigs /\ mkPlan = Build(mkAsk)
  BY <1>1, AskKinds DEF MaskInv
<1>3. PICK named : mkMasked = MaskSQLQueryResult(mkPlan) \cup named /\ (named # {} => FallsBack(mkPlan))
  BY <1>1 DEF MaskInv
<1>4. i \in DOMAIN mkPlan /\ PlacedAs(mkPlan[i], Sources(mkAsk)[i])
  BY <1>1, <1>2, PlanPlaces
<1>5. /\ ~mkPlan[i].conservative /\ mkPlan[i].origins # {}
      /\ \A o \in mkPlan[i].origins : <<o.table, o.column>> \in Sources(mkAsk)[i]
  BY <1>1, <1>4 DEF PlacedAs
<1>6. ~FallsBack(mkPlan)
  BY <1>4, <1>5 DEF FallsBack
<1>7. i \in MaskSQLQueryResult(mkPlan)
  BY <1>1, <1>3, <1>6
<1>8. PICK o \in mkPlan[i].origins : <<o.column>> \in DeniedIn(MatchingSQLOriginEntities(o))
  BY <1>2, <1>4, <1>5, <1>7, KnownIs
<1> DEFINE s == <<o.table, o.column>>
<1>9. s \in Sources(mkAsk)[i] /\ s[1] = o.table /\ s[2] = o.column
  BY <1>5
<1> HIDE DEF s
<1>10. MatchingSQLOriginEntities(o) \cap Entities \subseteq {e \in Entities : e[Len(e)] = o.table}
  BY OriginEntities
<1>11. <<o.column>> \in DeniedIn({e \in Entities : e[Len(e)] = o.table})
  BY <1>8, <1>10, DeniedGrows
<1>12. <<s[2]>> \in DeniedIn({e \in Entities : e[Len(e)] = s[1]})
  BY <1>9, <1>11
<1>13. QED  BY <1>9, <1>12

LEMMA MaskedFields ==
  ASSUME MaskInv
  PROVE  DeniedFieldsMasked
<1>1. SUFFICES ASSUME mkPc = "masked", ~mkAsk.sql, NEW h \in mkHashed, NEW leaf \in h[1],
                      NEW m \in FieldsOver(h[1], leaf),
                      NormalizeColumnName(m) \in DeniedIn(Covered(mkAsk))
               PROVE  leaf \in h[2]
  BY Zenon DEF DeniedFieldsMasked, MaskedNow
<1>2. PICK r \in MkResults : mkAsk.rows = r.rows /\ mkAsk.of = r.of /\ mkAsk.asked = r.asked /\ mkAsk.stages = r.stages
  BY <1>1, AskKinds DEF MaskInv
<1>3. /\ mkMasked = ToMask(InferColumns(mkAsk.rows), SourceEntity(mkAsk))
      /\ mkHashed = {<<row, HashedLeaves(row, mkMasked)>> : row \in mkAsk.rows}
      /\ mkReport \in MkReports /\ mkConfig \in MkConfigs
  BY <1>1 DEF MaskInv
<1>4. PICK row \in mkAsk.rows : h = <<row, HashedLeaves(row, mkMasked)>>
  BY <1>3
<1>5. h[1] = row /\ h[2] = HashedLeaves(row, mkMasked) /\ leaf \in row
  BY <1>4
<1>6. m \in RowColumns(row)
  <2>1. m \in (IF leaf.literal THEN {leaf.path} ELSE Prefixes(leaf.path))
    BY <1>1 DEF FieldsOver
  <2>2. QED  BY <1>5, <2>1, Zenon DEF RowColumns
<1>7. m \in InferColumns(mkAsk.rows)
  BY <1>6 DEF InferColumns
<1>8. Covered(mkAsk) \cap Entities \subseteq MaskedEntities(SourceEntity(mkAsk))
  <2> DEFINE hint == SourceEntity(mkAsk)
  <2> SUFFICES ASSUME hint # {}, hint \subseteq Entities PROVE Covered(mkAsk) \subseteq hint
    BY Zenon DEF MaskedEntities
  <2>1. hint = mkAsk.asked /\ mkAsk.stages \cap JoinStages = {}
    BY DEF SourceEntity
  <2>2. mkAsk.stages = {} => mkAsk.of \subseteq mkAsk.asked
    BY <1>2, <1>3, <2>1, MaskingAssumption, Zenon DEF Entities
  <2>3. QED  BY <2>1, <2>2 DEF Covered
<1>9. NormalizeColumnName(m) \in BuildMaskSet(MaskedEntities(SourceEntity(mkAsk)))
  <2> DEFINE E == MaskedEntities(SourceEntity(mkAsk))
             x == NormalizeColumnName(m)
  <2>1. x \in DeniedIn(Covered(mkAsk)) /\ Covered(mkAsk) \cap Entities \subseteq E
    BY <1>1, <1>8
  <2> HIDE DEF E, x
  <2>2. x \in DeniedIn(E)
    BY <2>1, DeniedGrows
  <2>3. QED  BY <1>3, <2>2, MaskSetDenied DEF E, x
<1>10. m \in mkMasked
  BY <1>3, <1>7, <1>9, Zenon DEF ToMask
<1>11. leaf \in HashedLeaves(row, mkMasked)
  <2>1. CASE leaf.literal
    <3>1. leaf.path = m
      BY <1>1, <2>1 DEF FieldsOver
    <3>2. QED  BY <1>5, <1>10, <2>1, <3>1, Zenon DEF HashedLeaves
  <2>2. CASE ~leaf.literal
    <3>1. m \in Prefixes(leaf.path) /\ ~ \E other \in row : other.literal /\ other.path = m
      BY <1>1, <1>5, <2>2 DEF FieldsOver
    <3>2. QED  BY <1>5, <1>10, <2>2, <3>1, Zenon DEF HashedLeaves
  <2>3. QED  BY <2>1, <2>2
<1>12. QED  BY <1>5, <1>11

(* What the classification denies when a result is masked is never shown,  *)
(* whatever the statement, the tables and what describing them said; what  *)
(* it does not deny is shown of a plain statement over tables told as they *)
(* were; and a document's denied fields are replaced wherever they lie.    *)
THEOREM MaskingCorrect == QueryMaskingSpec => []MaskingSafe
<1>1. MaskInv /\ [QueryMaskingNext]_mkvars => MaskInv'
  BY MaskStep
<1>2. MaskInv => MaskingSafe
  BY MaskedColumns, ShownColumns, MaskedFields DEF MaskingSafe
<1>3. QED  BY <1>1, <1>2, MaskInitially, PTL DEF QueryMaskingSpec
=============================================================================
