---------------------------- MODULE UserKnowledge ----------------------------
(***************************************************************************)
(* The user's knowledge base: categories of uploaded documents, whose text *)
(* the chat's search_knowledge reads.  One process keeps the records in    *)
(* memory and in store.json, the text of each document in parsed/files,    *)
(* and a tree under parsed/scopes, rebuilt after every change, that the    *)
(* search walks: a pack for all datasources and one for each datasource,   *)
(* with the documents and an index.  An operation holds the manager's      *)
(* mutex from start to end; a search takes no lock, and the process may    *)
(* end between any two writes.                                             *)
(* Source: src/internal/userkb/{manager,types}.go, src/app_userkb.go,      *)
(* src/internal/aichat/knowledge_search.go.                                *)
(***************************************************************************)
EXTENDS SchemaCache, FiniteSets

CONSTANTS
    UkCategories,   \* category ids
    UkDocuments,    \* document ids (files, in the code)
    UkSources,      \* datasource ids
    UkSealed,       \* securefile has a key: files are written encrypted
    UkRooms,        \* copies a search may list before it reaches maxFiles
    UkFaults,       \* bound: writes that fail, and deaths of the process
    UkOps           \* bound: operations

ASSUME UkAssumption == UkSealed \in BOOLEAN /\ UkRooms \subseteq Nat /\ UkFaults \in Nat /\ UkOps \in Nat

VARIABLES
    ukMem,      \* the manager's state: categories and documents
    ukStore,    \* store.json
    ukText,     \* the documents whose text is in parsed/files
    ukTree,     \* parsed/scopes: <<pack, document>> of each copy
    ukIndex,    \* and of each line of an index, with what the line says
    ukOp,       \* the operation that holds the mutex, and how far it is
    ukSearch,   \* a search: what it listed, then what it read
    ukFailed,   \* faults so far
    ukBegun,    \* operations so far
    ukFresh,    \* history: since the last change the tree was rebuilt, whole
    ukFate      \* history: what became of each document id
ukvars == <<ukMem, ukStore, ukText, ukTree, ukIndex, ukOp, ukSearch, ukFailed, ukBegun, ukFresh, ukFate>>

NoCategory == [scope |-> "none", sources |-> {}]
NoDocument == [category |-> "none", parse |-> "none", summary |-> "none"]
EmptyStore == [categories |-> [c \in UkCategories |-> NoCategory], documents |-> [f \in UkDocuments |-> NoDocument]]

\* What a form can ask for: a category for some datasources names one.
CategoryInputs ==
    {c \in [scope : {"all", "datasource"}, sources : SUBSET UkSources] : c.scope = "datasource" => c.sources # {}}

Exists(s, c) == s.categories[c] # NoCategory
Recorded(s) == {f \in UkDocuments : s.documents[f] # NoDocument}
DocumentsOf(s, c) == {f \in Recorded(s) : s.documents[f].category = c}

\* The directories of the tree, and those a category is published to.
AllPack == <<"all">>
SourcePack(d) == <<"datasources", d>>
UkPacks == {AllPack} \cup {SourcePack(d) : d \in UkSources}
PublishedTo(category) ==
    CASE category.scope = "all" -> {AllPack}
      [] category.scope = "datasource" -> {SourcePack(d) : d \in category.sources}
      [] OTHER -> {}
PacksOf(s, f) == PublishedTo(s.categories[s.documents[f].category])

\* What the tree is derived from: the documents that could be read.
Parsed(s) == {f \in Recorded(s) : s.documents[f].parse = "ok"}
Published(s, text) == {e \in UkPacks \X (Parsed(s) \cap text) : e[1] \in PacksOf(s, e[2])}
\* A line of an index names a document with its summary, or why it has none.
IndexLines(s) ==
    {<<e[1], e[2], s.documents[e[2]].summary>> : e \in {x \in UkPacks \X Recorded(s) : x[1] \in PacksOf(s, x[2])}}
InPacks(packs, entries) == {e \in entries : e[1] \in packs}

NoOp == [pc |-> "idle"]
Down == [pc |-> "down"]
NoSearch == [pc |-> "idle"]

\* Of a result nothing depends: no operation begins before it is returned.
UkBegin == ukOp = NoOp /\ ukSearch.pc # "done" /\ ukBegun < UkOps /\ ukBegun' = ukBegun + 1
UkFault == ukFailed < UkFaults /\ ukFailed' = ukFailed + 1
Fated(set, fate) == [f \in UkDocuments |-> IF f \in set THEN fate ELSE ukFate[f]]

-----------------------------------------------------------------------------

(* An operation changes the memory and then saves it: a save that fails is
   reported and leaves the memory as changed. *)
ToSave(added, gone) ==
    /\ ukOp' = [pc |-> "save", added |-> added, gone |-> gone]
    /\ ukFresh' = FALSE
    /\ UNCHANGED <<ukStore, ukIndex, ukSearch>>

CreateCategory(c, category) ==
    /\ UkBegin
    /\ ~Exists(ukMem, c) /\ ~Exists(ukStore, c)
    /\ ukMem' = [ukMem EXCEPT !.categories[c] = category]
    /\ ToSave({}, {})
    /\ UNCHANGED <<ukText, ukTree, ukFailed, ukFate>>

UpdateCategory(c, category) ==
    /\ UkBegin /\ Exists(ukMem, c)
    /\ ukMem' = [ukMem EXCEPT !.categories[c] = category]
    /\ ToSave({}, {})
    /\ UNCHANGED <<ukText, ukTree, ukFailed, ukFate>>

(* deleteFileArtifactsLocked: the text and the copies go before the records
   are saved, and a removal that fails is passed over. *)
DeleteFileArtifacts(gone, packs) ==
    \/ /\ ukText' = ukText \ gone /\ ukTree' = ukTree \ (packs \X gone)
       /\ UNCHANGED ukFailed
    \/ UkFault /\ UNCHANGED <<ukText, ukTree>>

\* The copies for datasources are found by the category, which
\* DeleteCategory has already taken out.
Delete(gone, categories, packs) ==
    /\ UkBegin
    /\ ukMem' = [categories |-> categories, documents |-> [f \in UkDocuments |-> IF f \in gone THEN NoDocument ELSE ukMem.documents[f]]]
    /\ DeleteFileArtifacts(gone, packs)
    /\ ToSave({}, gone)
    /\ ukFate' = Fated(gone, "dropped")

DeleteCategory(c) ==
    /\ Exists(ukMem, c)
    /\ Delete(DocumentsOf(ukMem, c), [ukMem.categories EXCEPT ![c] = NoCategory], {AllPack})

DeleteFile(f) ==
    /\ f \in Recorded(ukMem)
    /\ LET category == ukMem.categories[ukMem.documents[f].category] IN
       Delete({f}, ukMem.categories, {AllPack} \cup {SourcePack(d) : d \in category.sources})

-----------------------------------------------------------------------------

\* An id is a time: none is given twice.
NewID(f) == ukFate[f] = "unused"
\* Whether a model is configured is asked once, as the upload begins.
ProviderReady == BOOLEAN

(* An upload of documents into a category, one after the other; their
   records join the memory together, at the end. *)
UploadFiles(c, ready) ==
    /\ UkBegin /\ Exists(ukMem, c)
    /\ ukOp' = [pc |-> "upload", category |-> c, ready |-> ready, documents |-> ukMem.documents, added |-> {}]
    /\ UNCHANGED <<ukMem, ukStore, ukText, ukTree, ukIndex, ukSearch, ukFailed, ukFresh, ukFate>>

(* parseToTextFile: text is read back through securefile; a .docx or a .pdf
   is opened as it lies on disk, which is no such file when it is sealed. *)
ExtractOutcomes == IF UkSealed THEN {"failed"} ELSE {"ok", "failed"}
ParseOutcomes(kind) == IF kind = "office" THEN ExtractOutcomes ELSE {"ok", "failed"}
\* summarizeFileLocked: the model may fail, or answer what is no summary.
SummaryOutcomes(parse, ready) ==
    CASE parse = "failed" -> {"skipped"}
      [] parse = "ok" /\ ~ready -> {"needs_provider"}
      [] OTHER -> {"ok", "failed"}

(* publishParsedToScopesLocked: a copy in each pack of the category; one that
   fails ends it, and is passed over. *)
\* Mutant: a category for all datasources is also copied to those it names.
CopiesOfSources(s, f) ==
    {<<p, f>> : p \in PacksOf(s, f) \cup {SourcePack(d) : d \in s.categories[s.documents[f].category].sources}}
CopiesOf(s, f) == PacksOf(s, f) \X {f}
Publish(s, f, whole) ==
    \/ ukTree' = ukTree \cup CopiesOf(s, f) /\ ukFresh' = whole /\ UNCHANGED ukFailed
    \/ UkFault /\ \E some \in SUBSET CopiesOf(s, f) : ukTree' = ukTree \cup some /\ ukFresh' = FALSE

UploadFile(f, kind, parse, summary) ==
    LET documents == [ukOp.documents EXCEPT ![f] = [category |-> ukOp.category, parse |-> parse, summary |-> summary]] IN
    /\ ukOp.pc = "upload" /\ NewID(f)
    /\ parse \in ParseOutcomes(kind) /\ summary \in SummaryOutcomes(parse, ukOp.ready)
    /\ ukOp' = [ukOp EXCEPT !.documents = documents, !.added = @ \cup {f}]
    /\ \/ /\ parse = "ok" /\ ukText' = ukText \cup {f}
          /\ Publish([ukMem EXCEPT !.documents = documents], f, FALSE)
       \/ parse = "failed" /\ UNCHANGED <<ukText, ukTree, ukFresh, ukFailed>>
    /\ ukFate' = Fated({f}, "issued")
    /\ UNCHANGED <<ukMem, ukStore, ukIndex, ukSearch, ukBegun>>

(* A document without a name, not in base64, of another type, or that cannot
   be written, ends the upload; what was written before it stays. *)
UploadRejected ==
    /\ ukOp.pc = "upload"
    /\ ukOp' = NoOp
    /\ UNCHANGED <<ukMem, ukStore, ukText, ukTree, ukIndex, ukSearch, ukFailed, ukFresh, ukBegun, ukFate>>

UploadEnds ==
    /\ ukOp.pc = "upload" /\ ukOp.added # {}
    /\ ukMem' = [ukMem EXCEPT !.documents = ukOp.documents]
    /\ ToSave(ukOp.added, {})
    /\ UNCHANGED <<ukText, ukTree, ukFailed, ukBegun, ukFate>>

-----------------------------------------------------------------------------

(* saveLocked: to a temporary file, renamed over store.json. *)
Save ==
    /\ ukOp.pc = "save"
    /\ \/ ukStore' = ukMem /\ ukOp' = [ukOp EXCEPT !.pc = "clear"] /\ UNCHANGED ukFailed
       \/ UkFault /\ ukOp' = NoOp /\ UNCHANGED ukStore
    /\ UNCHANGED <<ukMem, ukText, ukTree, ukIndex, ukSearch, ukFresh, ukBegun, ukFate>>

(* rebuildScopesLocked: the tree is removed, then every document published
   again.  A removal that fails leaves some packs; its errors, and those of
   the indexes, are passed over. *)
Rebuilding(todo) == [pc |-> "publish", todo |-> todo, added |-> ukOp.added, gone |-> ukOp.gone]
\* Mutant: the tree is written over, not removed.
WrittenOver(tree) == tree
Removed(tree) == {}
RemoveTree ==
    /\ ukOp.pc = "clear"
    /\ \/ /\ ukTree' = Removed(ukTree) /\ ukIndex' = {} /\ ukFresh' = TRUE
          /\ ukOp' = Rebuilding(Parsed(ukMem))
          /\ UNCHANGED ukFailed
       \/ /\ UkFault /\ ukFresh' = FALSE
          /\ \E packs \in SUBSET UkPacks : ukTree' = InPacks(packs, ukTree) /\ ukIndex' = InPacks(packs, ukIndex)
          /\ ukOp' \in {Rebuilding(Parsed(ukMem)), Rebuilding({})}
    /\ UNCHANGED <<ukMem, ukStore, ukText, ukSearch, ukBegun, ukFate>>

PublishAgain(f) ==
    /\ ukOp.pc = "publish" /\ f \in ukOp.todo
    /\ ukOp' = Rebuilding(ukOp.todo \ {f})
    /\ \/ f \in ukText /\ Publish(ukMem, f, ukFresh)
       \/ f \notin ukText /\ UNCHANGED <<ukTree, ukFresh, ukFailed>>
    /\ UNCHANGED <<ukMem, ukStore, ukText, ukIndex, ukSearch, ukBegun, ukFate>>

(* The rest of writeIndexesLocked, and the operation's return. *)
WriteIndexes ==
    /\ ukOp.pc = "publish" /\ ukOp.todo = {}
    /\ \/ ukIndex' = ukIndex \cup IndexLines(ukMem) /\ UNCHANGED <<ukFresh, ukFailed>>
       \/ /\ UkFault /\ ukFresh' = FALSE
          /\ \E packs \in SUBSET UkPacks : ukIndex' = ukIndex \cup InPacks(packs, IndexLines(ukMem))
    /\ ukFate' = [f \in UkDocuments |-> IF f \in ukOp.added THEN "kept" ELSE IF f \in ukOp.gone THEN "gone" ELSE ukFate[f]]
    /\ ukOp' = NoOp
    /\ UNCHANGED <<ukMem, ukStore, ukText, ukTree, ukSearch, ukBegun>>

(* The app quits, or the process dies under an operation; the next one reads
   store.json and rebuilds the tree. *)
ProcessEnds ==
    /\ ukOp # Down
    /\ \/ ukOp = NoOp /\ UNCHANGED ukFailed
       \/ ukOp # NoOp /\ UkFault
    /\ ukOp' = Down /\ ukMem' = EmptyStore /\ ukSearch' = NoSearch
    /\ UNCHANGED <<ukStore, ukText, ukTree, ukIndex, ukFresh, ukBegun, ukFate>>

NewManager ==
    /\ ukOp = Down
    /\ ukMem' = ukStore
    /\ ukOp' = [pc |-> "clear", added |-> {}, gone |-> {}]
    /\ UNCHANGED <<ukStore, ukText, ukTree, ukIndex, ukSearch, ukFailed, ukFresh, ukBegun, ukFate>>

-----------------------------------------------------------------------------

\* resolveUserKnowledgeRoots: all packs, the common one, or a datasource's too.
SearchRoots == {UkPacks, {AllPack}} \cup {{AllPack, SourcePack(d)} : d \in UkSources}
Settled == ukOp = NoOp /\ ukFresh
Due(packs) == InPacks(packs, Published(ukMem, ukText))

(* The built-in notes are listed first, then the common pack, then those of
   the datasources; maxFiles ends the list, which may be before the first of
   the user's own.  (The result says that it was cut only if the limit fell
   within a root.) *)
Fit(room, entries) == Cardinality(entries) <= room
\* Mutant: the file at the limit is refused.
ListsShort(room, entries) ==
    IF Cardinality(entries) < room THEN {entries} ELSE {files \in SUBSET entries : Cardinality(files) = room - 1}
Lists(room, entries) ==
    IF Fit(room, entries) THEN {entries}
    ELSE {files \in SUBSET entries :
            /\ Cardinality(files) = room
            /\ InPacks({AllPack}, entries) \subseteq files \/ files \subseteq InPacks({AllPack}, entries)}

(* collectKnowledgeFiles lists the files, readTextLinesLimited reads those
   still there, as they lie on disk: of a sealed one, no line.  Only the
   searches are followed that begin and end with no operation under way and
   the same documents due. *)
SearchLists(packs, room) ==
    LET entries == InPacks(packs, ukTree) IN
    /\ Settled /\ ukSearch = NoSearch
    /\ \E files \in Lists(room, entries) :
         ukSearch' = [pc |-> "listed", packs |-> packs, files |-> files, fit |-> Fit(room, Due(packs)), due |-> Due(packs)]
    /\ UNCHANGED <<ukMem, ukStore, ukText, ukTree, ukIndex, ukOp, ukFailed, ukFresh, ukBegun, ukFate>>

ReadTextLines(files) == IF UkSealed THEN {} ELSE files
SearchReads ==
    LET opened == {e[2] : e \in ukSearch.files \cap ukTree} IN
    /\ ukSearch.pc = "listed"
    /\ ukSearch' = IF Settled /\ ukSearch.due = Due(ukSearch.packs)
                     THEN [pc |-> "done", opened |-> opened, read |-> ReadTextLines(opened), fit |-> ukSearch.fit,
                           due |-> {e[2] : e \in ukSearch.due}]
                     ELSE NoSearch
    /\ UNCHANGED <<ukMem, ukStore, ukText, ukTree, ukIndex, ukOp, ukFailed, ukFresh, ukBegun, ukFate>>

SearchReturns ==
    /\ ukSearch.pc = "done" /\ ukSearch' = NoSearch
    /\ UNCHANGED <<ukMem, ukStore, ukText, ukTree, ukIndex, ukOp, ukFailed, ukFresh, ukBegun, ukFate>>

-----------------------------------------------------------------------------

UploadsInit ==
    /\ ukMem = EmptyStore /\ ukStore = EmptyStore
    /\ ukText = {} /\ ukTree = {} /\ ukIndex = {}
    /\ ukOp = NoOp /\ ukSearch = NoSearch
    /\ ukFailed = 0 /\ ukBegun = 0 /\ ukFresh = TRUE
    /\ ukFate = [f \in UkDocuments |-> "unused"]

UploadsNext ==
    \/ \E c \in UkCategories :
         \/ \E category \in CategoryInputs : CreateCategory(c, category) \/ UpdateCategory(c, category)
         \/ DeleteCategory(c)
         \/ \E ready \in ProviderReady : UploadFiles(c, ready)
    \/ \E f \in UkDocuments :
         \/ DeleteFile(f) \/ PublishAgain(f)
         \/ \E kind \in {"text", "office"}, parse \in {"ok", "failed"}, summary \in {"ok", "failed", "skipped", "needs_provider"} :
              UploadFile(f, kind, parse, summary)
    \/ UploadRejected \/ UploadEnds
    \/ Save \/ RemoveTree \/ WriteIndexes
    \/ ProcessEnds \/ NewManager
    \/ \E packs \in SearchRoots, room \in UkRooms : SearchLists(packs, room)
    \/ SearchReads \/ SearchReturns

UploadsSpec == UploadsInit /\ [][UploadsNext]_ukvars

-----------------------------------------------------------------------------

(* Whatever failed or died before, once an operation or a start has ended
   without a fault the tree and the indexes are those of store.json: a
   document for some datasources is in the packs of those it is bound to now
   and in no other, and what was deleted is nowhere (rebuildScopesLocked). *)
TreeFollows ==
    Settled =>
      /\ ukStore = ukMem
      /\ ukTree = Published(ukMem, ukText) /\ ukIndex = IndexLines(ukMem)

(* A document an upload reported stays on record until it is deleted, one
   whose deletion was reported never comes back, and a record keeps its text
   unless the document's deletion was asked for (Manager.UploadFiles,
   Manager.DeleteFile, Manager.DeleteCategory, saveLocked). *)
RecordsKept ==
    \A f \in UkDocuments :
      /\ ukFate[f] = "kept" => f \in Recorded(ukStore)
      /\ ukFate[f] = "gone" => f \notin Recorded(ukStore) \cup Recorded(ukMem)
      /\ f \in Parsed(ukStore) \cup Parsed(ukMem) => f \in ukText \/ ukFate[f] = "dropped"

(* A search that nothing crosses opens only documents that are published for
   its datasource, and all of them if they fit within its limit of files. *)
SearchSound ==
    ukSearch.pc = "done" =>
      /\ ukSearch.opened \subseteq ukSearch.due
      /\ ukSearch.fit => ukSearch.opened = ukSearch.due

UploadsSafe == TreeFollows /\ RecordsKept /\ SearchSound

(* "search_knowledge includes both built-in reference notes and the user's
   uploaded knowledge base" (system_prompt_default.go): a search that nothing
   crosses reads the text of each document published for its datasource, if they
   fit within its limit of files. *)
UploadsSearched == ukSearch.pc = "done" /\ ukSearch.fit => ukSearch.read = ukSearch.due

\* What the chat's model is given of the user's own: the copies of the
\* schemas, and the uploaded documents.
KnowledgeSpec == SchemaSpec /\ UploadsSpec
KnowledgeSafe == SchemaSafe /\ UploadsSafe
=============================================================================
