------------------------------- MODULE MCFiles -------------------------------
(* Instances of the components that keep files, for TLC: the audit file,   *)
(* the chat's event file and its memory, the schema cache and the uploaded *)
(* documents, a D1 project's configuration and migrations, and the sign-in.*)
(* They share nothing: a behaviour exercises one of them, chosen at its    *)
(* start, and the others rest in their initial states.                     *)
EXTENDS MCAuditLog, ChatThread, ChatMemory, UserKnowledge, D1Project, D1Migrations, SignIn, TLC

CONSTANTS a1, a2, b1, b2

\* Calls, databases and categories are alike; and goroutines and documents.
Alike == UNION {Permutations(s) : s \in {{a1, a2}, {b1, b2}}}

VARIABLE part
filesVars == <<part, vars, tvars, mvars, scvars, ukvars, d1vars, mgvars, auvars>>

FilesInit ==
  /\ part \in {"audit", "thread", "memory", "schema", "uploads", "project", "migrations", "signin"}
  /\ Init /\ ThreadInit /\ MemoryInit
  /\ part = "thread" \/ ~seeded
  /\ SchemaInit /\ (part = "schema" \/ scSource.consent)
  /\ UploadsInit
  /\ D1Init /\ (part = "project" \/ \A s \in D1Sources : ~d1Record[s].legacy)
  /\ MigrationsInit /\ (part = "migrations" \/ mgDev = "project")
  /\ SignInInit /\ (part = "signin" \/ auMarker = NoTrial)

FilesNext ==
  /\ UNCHANGED part
  /\ \/ part = "audit" /\ Next /\ UNCHANGED <<tvars, mvars, scvars, ukvars, d1vars, mgvars, auvars>>
     \/ part = "thread" /\ ThreadNext /\ UNCHANGED <<vars, mvars, scvars, ukvars, d1vars, mgvars, auvars>>
     \/ part = "memory" /\ MemoryNext /\ UNCHANGED <<vars, tvars, scvars, ukvars, d1vars, mgvars, auvars>>
     \/ part = "schema" /\ SchemaNext /\ UNCHANGED <<vars, tvars, mvars, ukvars, d1vars, mgvars, auvars>>
     \/ part = "uploads" /\ UploadsNext /\ UNCHANGED <<vars, tvars, mvars, scvars, d1vars, mgvars, auvars>>
     \/ part = "project" /\ D1Next /\ UNCHANGED <<vars, tvars, mvars, scvars, ukvars, mgvars, auvars>>
     \/ part = "migrations" /\ MigrationsNext /\ UNCHANGED <<vars, tvars, mvars, scvars, ukvars, d1vars, auvars>>
     \/ part = "signin" /\ SignInNext /\ UNCHANGED <<vars, tvars, mvars, scvars, ukvars, d1vars, mgvars>>

FilesSpec == FilesInit /\ [][FilesNext]_filesVars
=============================================================================
