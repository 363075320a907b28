------------------------------ MODULE D1Project ------------------------------
(***************************************************************************)
(* D1 datasources with a local wrangler project: saving one writes its     *)
(* block into the project's wrangler.toml.                                 *)
(* Source: src/app_datasource.go, src/internal/datasourceops/{service,     *)
(* helpers}.go.                                                            *)
(***************************************************************************)
EXTENDS Naturals, Sequences, FiniteSets, SequencesExt, FiniteSetsExt

CONSTANTS
    D1Sources,   \* datasources of the project
    D1Bases,     \* database ids
    D1Bindings   \* binding names

\* Nobody names a database or a binding as the block written by hand, and
\* before its first save a datasource has none.
ASSUME D1Assumption == {"hand", "none"} \cap (D1Bases \cup D1Bindings) = {}

VARIABLES
    d1Record,    \* [D1Sources -> the datasource's options]
    d1Toml,      \* the [[d1_databases]] blocks of wrangler.toml
    d1Shared     \* history: two datasources named one database or binding
d1vars == <<d1Record, d1Toml, d1Shared>>

Hand == [db |-> "hand", bind |-> "hand"]

Shared(records) ==
    \E s, t \in D1Sources :
      s # t /\ records[s].db # "none" /\ (records[s].db = records[t].db \/ records[s].bind = records[t].bind)

-----------------------------------------------------------------------------

(* The block an entry replaces is the first found by its id, the id it had,
   its binding, the binding it had. *)
WithBase(toml, db) == {i \in DOMAIN toml : toml[i].db = db}
WithBinding(toml, bind) == {i \in DOMAIN toml : toml[i].bind = bind}
\* Mutant: the binding is looked for before the id.
BindingFirst(toml, entry, was) ==
    <<WithBinding(toml, entry.bind), WithBinding(toml, was.bind), WithBase(toml, entry.db), WithBase(toml, was.db)>>
Attempts(toml, entry, was) ==
    <<WithBase(toml, entry.db), WithBase(toml, was.db), WithBinding(toml, entry.bind), WithBinding(toml, was.bind)>>

ReplaceDatabaseEntry(toml, entry, i) == [toml EXCEPT ![i] = entry]
UpsertDatabaseEntry(toml, entry, was) ==
    LET found == Attempts(toml, entry, was)
        hits == {k \in DOMAIN found : found[k] # {}}
    IN  IF hits = {} THEN Append(toml, entry) ELSE ReplaceDatabaseEntry(toml, entry, Min(found[Min(hits)]))

(* d1CarryLegacyDevMetadataOnUpdate: the path of an old project stays unless
   the update says whether dev mode is wanted. *)
CarriesLegacy(s) == d1Record[s].legacy

(* withD1MetadataPrepared.  Of an old project whose directory is gone the
   paths are forgotten; for a new one the save fails. *)
MetadataPrepared(s, db, bind, mode) ==
    /\ mode \in {"kept", "gone"} => CarriesLegacy(s)
    /\ d1Record' = [d1Record EXCEPT ![s] = [db |-> db, bind |-> bind, dev |-> mode = "dev", legacy |-> mode = "kept"]]
    /\ d1Toml' = IF mode \in {"dev", "kept"} THEN UpsertDatabaseEntry(d1Toml, [db |-> db, bind |-> bind], d1Record[s])
                 ELSE d1Toml
    /\ d1Shared' = (d1Shared \/ Shared(d1Record'))
SaveD1(s) ==
    \E db \in D1Bases, bind \in D1Bindings, mode \in {"dev", "off", "kept", "gone"} : MetadataPrepared(s, db, bind, mode)

D1Init ==
    /\ \E legacy \in BOOLEAN :
         d1Record = [s \in D1Sources |-> [db |-> "none", bind |-> "none", dev |-> FALSE, legacy |-> legacy]]
    /\ d1Toml = <<Hand>>
    /\ d1Shared = FALSE

D1Next == \E s \in D1Sources : SaveD1(s)

D1Spec == D1Init /\ [][D1Next]_d1vars

-----------------------------------------------------------------------------

(* However the datasources of a project change their databases, bindings and
   modes, wrangler finds exactly one block for the database of each that has
   dev mode, under its binding, and a block written by hand stays (as long as
   no two datasources share a database or a binding). *)
DevDatabaseResolves ==
    /\ Hand \in ToSet(d1Toml)
    /\ ~d1Shared => \A s \in D1Sources : d1Record[s].dev =>
         /\ Cardinality({i \in DOMAIN d1Toml : d1Toml[i].db = d1Record[s].db}) = 1
         /\ [db |-> d1Record[s].db, bind |-> d1Record[s].bind] \in ToSet(d1Toml)
=============================================================================
