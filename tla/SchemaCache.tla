----------------------------- MODULE SchemaCache -----------------------------
(***************************************************************************)
(* The desktop app's cache of a datasource's entities: lists and           *)
(* descriptions are answered from it, fetched beside it, refreshed in the  *)
(* background, and each change of it is copied to the knowledge files and, *)
(* where the user consents, sent to a model for a relationship diagram.    *)
(* Fetches take time, during which the schema, the consent and the cache   *)
(* change.  The keys are the databases of one datasource: each has a cache *)
(* entry of its own, and all share one directory of knowledge files.       *)
(* Source: src/app_console.go, src/internal/console/entity_schema_cache.go,*)
(* src/app_schema_knowledge.go, src/internal/datasourceops/schema.go.      *)
(***************************************************************************)
EXTENDS Naturals, Functions

CONSTANTS
    ScKeys,      \* cache keys of the datasource (its databases, or D1 modes)
    ScCalls,     \* calls of the window that may be under way
    ScWorkers,   \* copies to the knowledge files that may be under way
    ScChanges,   \* bound: changes of the consent or the datasource
    ScWrites     \* bound: writes of the cache

VARIABLES
    scSource,    \* the datasource's record
    scCache,     \* [ScKeys -> entry]
    scCall,      \* [ScCalls -> a call of the window]
    scRefresh,   \* [ScKeys -> the background refresh]
    scSync,      \* [ScWorkers -> a copy to the knowledge files]
    scFile,      \* schema.json, its temporary file, and er.json
    scWrote,     \* history: newest entry in schema.json, per key
    scSent       \* history: whether each schema sent to a model was consented to
scvars == <<scSource, scCache, scCall, scRefresh, scSync, scFile, scWrote, scSent>>

\* An entry: whether it has a list, kinds and a description, whether its
\* UpdatedAt is less than 30 s ago, and how often it was written.
NoEntry == [list |-> FALSE, kinds |-> FALSE, detail |-> FALSE, recent |-> FALSE, stamp |-> 0]
NoScCall == [pc |-> "idle"]
NoSync == [pc |-> "idle"]
NoFile == [key |-> "none", stamp |-> 0]

ScCached(k) == scCache[k].list
Fetching(c, pcs) == scCall[c].pc \in pcs

-----------------------------------------------------------------------------

(* UpsertEntitiesWithKinds, UpsertDescribe: one step under the mutex, each
   makes the whole entry look recent. *)
UpsertEntitiesWithKinds(e, kinds) ==
    [e EXCEPT !.list = TRUE, !.kinds = kinds, !.recent = TRUE, !.stamp = @ + 1]
UpsertDescribe(e) == [e EXCEPT !.detail = TRUE, !.recent = TRUE, !.stamp = @ + 1]

IdleWorkers == {w \in ScWorkers : scSync[w].pc = "idle"}
\* Mutant: every change starts a copy of its own.
TryBeginAlways(k) == IdleWorkers # {}
TryBegin(k) == \A w \in ScWorkers : scSync[w].pc # "idle" => scSync[w].key # k

(* What a change of the entry starts: a copy to the knowledge files, unless
   one of the key is under way or the cache file could not be saved. *)
SyncSchemaKnowledgeAsync(k, consent) ==
    \/ /\ TryBegin(k)
       /\ \E w \in IdleWorkers :
            scSync' = [scSync EXCEPT ![w] = [pc |-> "read", key |-> k, queued |-> consent, given |-> FALSE, stamp |-> 0]]
    \/ UNCHANGED scSync

EntryStored(k, e, consent) ==
    /\ FoldFunction(LAMBDA x, n : x.stamp + n, 0, scCache) < ScWrites
    /\ scCache' = [scCache EXCEPT ![k] = e]
    /\ SyncSchemaKnowledgeAsync(k, consent)

(* A refresh in the background starts when the entry is not recent and none
   runs for the key. *)
RefreshEntitySchemaCacheAsync(k) ==
    scRefresh' = IF ~scCache[k].recent /\ scRefresh[k].pc = "idle"
                   THEN [scRefresh EXCEPT ![k] = [pc |-> "fetch", consent |-> scSource.consent]]
                   ELSE scRefresh

RefreshStores(k) ==
    /\ scRefresh[k].pc = "fetch"
    /\ EntryStored(k, UpsertEntitiesWithKinds(scCache[k], TRUE), scRefresh[k].consent)
    /\ scRefresh' = [scRefresh EXCEPT ![k] = NoScCall]
    /\ UNCHANGED <<scSource, scCall, scFile, scWrote, scSent>>
RefreshFails(k) ==
    /\ scRefresh[k].pc = "fetch"
    /\ scRefresh' = [scRefresh EXCEPT ![k] = NoScCall]
    /\ UNCHANGED <<scSource, scCache, scCall, scSync, scFile, scWrote, scSent>>

-----------------------------------------------------------------------------

Call(c, pc, k, force) ==
    scCall' = [scCall EXCEPT ![c] = [pc |-> pc, key |-> k, force |-> force, consent |-> scSource.consent]]
Moves(c, pc) == scCall' = [scCall EXCEPT ![c].pc = pc]
Answers(c) == scCall' = [scCall EXCEPT ![c] = NoScCall]
Untouched == UNCHANGED <<scSource, scFile, scWrote, scSent>>

(* ListEntities: a list in the cache answers at once, unless a refresh is
   forced.  ListEntitiesPage does the same, and fetches the kinds of a
   cached list that has none. *)
ListEntities(c, k, force) ==
    /\ Fetching(c, {"idle"}) /\ scSource.exists
    /\ IF ScCached(k) /\ ~force THEN RefreshEntitySchemaCacheAsync(k) /\ UNCHANGED scCall
       ELSE Call(c, "list", k, force) /\ UNCHANGED scRefresh
    /\ UNCHANGED <<scCache, scSync>> /\ Untouched
ListEntitiesPageCached(c, k) ==
    /\ Fetching(c, {"idle"}) /\ scSource.exists /\ ScCached(k)
    /\ RefreshEntitySchemaCacheAsync(k)
    /\ IF scCache[k].kinds THEN UNCHANGED scCall ELSE Call(c, "kinds", k, FALSE)
    /\ UNCHANGED <<scCache, scSync>> /\ Untouched

(* The fetch answers, or fails: then an old list answers a forced refresh. *)
ListFails(c) ==
    /\ Fetching(c, {"list", "describe"})
    /\ Answers(c)
    /\ UNCHANGED <<scCache, scRefresh, scSync>> /\ Untouched
ListStored(c) ==
    /\ Fetching(c, {"list"})
    /\ LET call == scCall[c] IN
         /\ \E kinds \in BOOLEAN : EntryStored(call.key, UpsertEntitiesWithKinds(scCache[call.key], kinds), call.consent)
         /\ IF call.force THEN Moves(c, "clear") ELSE Answers(c)
    /\ UNCHANGED scRefresh /\ Untouched
(* A cached list is written back with its kinds, whatever was stored since. *)
KindsStored(c) ==
    /\ Fetching(c, {"kinds"})
    /\ EntryStored(scCall[c].key, UpsertEntitiesWithKinds(scCache[scCall[c].key], TRUE), scCall[c].consent)
    /\ Answers(c)
    /\ UNCHANGED scRefresh /\ Untouched

(* After a forced list the descriptions go, and the entry is marked stale. *)
ClearDescribe(c) ==
    /\ Fetching(c, {"clear"})
    /\ LET k == scCall[c].key IN
         scCache' = [scCache EXCEPT ![k].detail = FALSE, ![k].recent = @ \/ scCache[k].detail]
    /\ Moves(c, "mark")
    /\ UNCHANGED <<scRefresh, scSync>> /\ Untouched
MarkStale(c) ==
    /\ Fetching(c, {"mark"})
    /\ scCache' = [scCache EXCEPT ![scCall[c].key].recent = FALSE]
    /\ Answers(c)
    /\ UNCHANGED <<scRefresh, scSync>> /\ Untouched

(* DescribeEntity: a description of a recent entry answers at once. *)
DescribeEntity(c, k) ==
    /\ Fetching(c, {"idle"}) /\ scSource.exists
    /\ ~(scCache[k].detail /\ scCache[k].recent)
    /\ Call(c, "describe", k, FALSE)
    /\ UNCHANGED <<scCache, scRefresh, scSync>> /\ Untouched
DescribeStored(c) ==
    /\ Fetching(c, {"describe"})
    /\ EntryStored(scCall[c].key, UpsertDescribe(scCache[scCall[c].key]), scCall[c].consent)
    /\ Answers(c)
    /\ UNCHANGED scRefresh /\ Untouched

-----------------------------------------------------------------------------

Syncing(w, pc) == scSync[w].pc = pc
SyncMoves(w, s) == scSync' = [scSync EXCEPT ![w] = s]
SyncNext(w, pc) == SyncMoves(w, [scSync[w] EXCEPT !.pc = pc])
Beside == UNCHANGED <<scSource, scCache, scCall, scRefresh>>

(* The snapshot the copy works on: the whole entry, read at one instant. *)
BuildSchemaKnowledgeSnapshot(w) == [key |-> scSync[w].key, stamp |-> scSync[w].stamp]

SyncReads(w) ==
    /\ Syncing(w, "read")
    /\ LET e == scCache[scSync[w].key] IN
         SyncMoves(w, IF e.list THEN [scSync[w] EXCEPT !.pc = "tmp", !.stamp = e.stamp, !.given = scSource.consent]
                      ELSE NoSync)
    /\ Beside /\ UNCHANGED <<scFile, scWrote, scSent>>

(* writeJSONFile: the copies of all keys use one temporary file.  The diagram
   on disk may be of the same schema already. *)
WriteJSONFileTmp(w) ==
    /\ Syncing(w, "tmp")
    /\ scFile' = [scFile EXCEPT !.tmp = BuildSchemaKnowledgeSnapshot(w)]
    /\ SyncNext(w, "rename")
    /\ Beside /\ UNCHANGED <<scWrote, scSent>>
WriteJSONFileRename(w) ==
    /\ Syncing(w, "rename")
    /\ IF scFile.tmp = NoFile THEN SyncMoves(w, NoSync) /\ UNCHANGED <<scFile, scWrote>>
       ELSE LET s == scFile.tmp IN
            /\ scFile' = [scFile EXCEPT !.schema = s, !.tmp = NoFile]
            /\ scWrote' = [scWrote EXCEPT ![s.key] = IF s.stamp > @ THEN s.stamp ELSE @]
            /\ SyncNext(w, "consent") \/ (scFile.er /\ SyncMoves(w, NoSync))
    /\ Beside /\ UNCHANGED scSent

\* Mutant: the record read when the work was queued is good enough.
ConsentQueued(w) == scSync[w].queued
ConsentOf(w) == IF scSource.exists THEN scSource.consent ELSE scSync[w].queued

(* maybeGenerateER reads the datasource again before it decides; a model
   that cannot be had sends nothing. *)
MaybeGenerateER(w) ==
    /\ Syncing(w, "consent")
    /\ (ConsentOf(w) /\ SyncNext(w, "send")) \/ SyncMoves(w, NoSync)
    /\ Beside /\ UNCHANGED <<scFile, scWrote, scSent>>
SendER(w) ==
    /\ Syncing(w, "send")
    /\ scSent' = scSent \cup {[given |-> scSync[w].given, gone |-> ~scSource.exists]}
    /\ scFile' = [scFile EXCEPT !.er = TRUE] \/ UNCHANGED scFile
    /\ SyncMoves(w, NoSync)
    /\ Beside /\ UNCHANGED scWrote

-----------------

(* The user answers the consent question or deletes
   the datasource, 30 seconds pass. *)
SourceChanges ==
    /\ scSource.changes < ScChanges
    /\ \/ scSource.exists /\ scSource' = [scSource EXCEPT !.changes = @ + 1, !.consent = ~@]
          /\ scSync' = [w \in ScWorkers |-> IF scSync[w].pc \in {"idle", "read"} THEN scSync[w]
                                            ELSE [scSync[w] EXCEPT !.given = @ \/ scSource'.consent]]
       \/ scSource.exists /\ scSource' = [scSource EXCEPT !.changes = @ + 1, !.exists = FALSE] /\ UNCHANGED scSync
    /\ UNCHANGED <<scCache, scCall, scRefresh, scFile, scWrote, scSent>>
IntervalPasses(k) ==
    /\ scCache[k].recent
    /\ scCache' = [scCache EXCEPT ![k].recent = FALSE]
    /\ UNCHANGED <<scSource, scCall, scRefresh, scSync, scFile, scWrote, scSent>>

SchemaInit ==
    /\ scSource \in [consent : BOOLEAN, exists : {TRUE}, changes : {0}]
    /\ scCache = [k \in ScKeys |-> NoEntry]
    /\ scCall = [c \in ScCalls |-> NoScCall]
    /\ scRefresh = [k \in ScKeys |-> NoScCall]
    /\ scSync = [w \in ScWorkers |-> NoSync]
    /\ scFile = [schema |-> NoFile, tmp |-> NoFile, er |-> FALSE]
    /\ scWrote = [k \in ScKeys |-> 0]
    /\ scSent = {}

SchemaNext ==
    \/ \E c \in ScCalls :
         \/ \E k \in ScKeys : \/ \E force \in BOOLEAN : ListEntities(c, k, force)
                              \/ ListEntitiesPageCached(c, k) \/ DescribeEntity(c, k)
         \/ ListFails(c) \/ ListStored(c) \/ KindsStored(c)
         \/ ClearDescribe(c) \/ MarkStale(c)
         \/ DescribeStored(c)
    \/ \E k \in ScKeys :
         \/ RefreshStores(k) \/ RefreshFails(k)
         \/ IntervalPasses(k)
    \/ \E w \in ScWorkers :
         \/ SyncReads(w) \/ WriteJSONFileTmp(w) \/ WriteJSONFileRename(w)
         \/ MaybeGenerateER(w) \/ SendER(w)
    \/ SourceChanges

SchemaSpec == SchemaInit /\ [][SchemaNext]_scvars

-----------------------------------------------------------------------------

(* A schema goes to a model only if the user's consent stood at some instant
   after the work was taken up; a consent withdrawn while it was queued
   counts.  (Of a deleted datasource the record of the queue is used.) *)
DiagramConsented == \A s \in scSent : s.given \/ s.gone

(* However the copies of the databases cross in the one temporary file, the
   snapshot on disk is the newest ever written for its key. *)
KnowledgeForward == scFile.schema # NoFile => scFile.schema.stamp = scWrote[scFile.schema.key]

(* Both: what leaves the cache leaves it by consent and in order. *)
SchemaSafe == DiagramConsented /\ KnowledgeForward
=============================================================================
