---------------------------- MODULE Configuration -----------------------------
(***************************************************************************)
(* What an admin configures: API keys (api_key_service), system settings   *)
(* (settings_service), prompt templates (prompt_service) and the sources'  *)
(* name and config (source_service).  Every call loads the row, compares,  *)
(* flushes, writes an audit row and commits with the request.              *)
(*                                                                         *)
(* Abstractions.  A row is a record of the columns a call may write, a     *)
(* body a record of some of them.  The ORM writes the columns whose value  *)
(* differs from the one it loaded.  Of the append-only audit log the       *)
(* latest entry of each object is kept.  Two sessions that take each       *)
(* other's template names are a deadlock for PostgreSQL, which fails one   *)
(* of them: that is among the failures.                                    *)
(***************************************************************************)
EXTENDS Naturals, FiniteSets

CONSTANTS
  Key, Setting, Template, Source,  \* objects that exist or may be created
  Seed,         \* object -> the row it starts with, or None
  Edit,         \* requests of admins
  Ask,          \* what they may ask for: [of, op, set]
  MaxFailures   \* bound on lost connections and failing commits

Object == Key \cup Setting \cup Template \cup Source

(* No row, no request: a record without columns.                           *)
None == <<>>

(* {**g, **f}: the columns of f, and those of g that f does not have.      *)
f ++ g == [c \in DOMAIN f \cup DOMAIN g |-> IF c \in DOMAIN f THEN f[c] ELSE g[c]]

Columns(o) ==
  CASE o \in Key -> {"active"}
    [] o \in Setting -> {"value"}
    [] o \in Template -> {"name", "text", "active", "version"}
    [] o \in Source -> {"name", "config"}

HasColumns(row, columns) == DOMAIN row = columns /\ row = [c \in columns |-> row[c]]

IsRow(o, row) ==
  HasColumns(row, Columns(o)) /\ (o \in Template => row.version \in Nat)

ASSUME KindAssumption ==
  /\ IsFiniteSet(Object)
  /\ Key \cap (Setting \cup Template \cup Source) = {}
  /\ Setting \cap (Template \cup Source) = {} /\ Template \cap Source = {}
ASSUME SeedAssumption ==
  HasColumns(Seed, Object) /\ \A o \in Object : Seed[o] # None => IsRow(o, Seed[o])
ASSUME AskAssumption ==
  \A q \in Ask :
    /\ q.of \in Object /\ q.op \in {"create", "edit", "delete"}
    /\ q.op = "create" => q.of \notin Setting
    /\ q.op = "delete" => q.of \in Key
    /\ HasColumns(q, {"of", "op", "set"}) /\ HasColumns(q.set, DOMAIN q.set)
    /\ q.op = "edit" /\ q.of \in Source => DOMAIN q.set \subseteq Columns(q.of)
    /\ q.op = "create" \/ (q.op = "edit" /\ q.of \notin Source) =>
         DOMAIN q.set = Columns(q.of) \ {"version"}
ASSUME FailureAssumption == MaxFailures \in Nat

VARIABLES
  overlap,    \* are calls served while others are?  Fixed at the start.
  rows,       \* object -> its committed row, or None
  audit,      \* object -> payload of its latest committed audit row, or None
  req,        \* request -> what it asks for
  pc,         \* request -> what it does next
  seen,       \* request -> the row as loaded
  tx,         \* request -> its flushed, uncommitted write
  failures    \* failures so far

vars == <<overlap, rows, audit, req, pc, seen, tx, failures>>

Deleted == [deleted |-> TRUE]

Init ==
  /\ overlap \in BOOLEAN
  /\ rows = Seed
  /\ audit = [o \in Object |-> None]
  /\ req = [e \in Edit |-> None]
  /\ pc = [e \in Edit |-> "idle"]
  /\ seen = [e \in Edit |-> None]
  /\ tx = [e \in Edit |-> None]
  /\ failures = 0

-----------------------------------------------------------------------------
(* Sessions.                                                               *)

Open(e) == pc[e] \in {"insert", "load", "flush", "commit"}
Of(e) == req[e].of
Body(e) == req[e].set
Failure == failures < MaxFailures /\ failures' = failures + 1

(* Nobody else has written the row.  An UPDATE that sets nothing is not    *)
(* sent.                                                                   *)
Holds(d, o) == tx[d] # None /\ Of(d) = o /\ (tx[d].op # "edit" \/ DOMAIN tx[d].set # {})
Free(e, o) == \A d \in Edit \ {e} : ~Holds(d, o)

Close(e) ==
  /\ pc' = [pc EXCEPT ![e] = "done"]
  /\ req' = [req EXCEPT ![e] = None]
  /\ seen' = [seen EXCEPT ![e] = None]
  /\ tx' = [tx EXCEPT ![e] = None]

(* An exception or an early return: nothing was written.                   *)
Leave(e) == Close(e) /\ UNCHANGED <<overlap, rows, audit, failures>>

Flush(e, set, payload) ==
  /\ tx' = [tx EXCEPT ![e] = [op |-> req[e].op, set |-> set, audit |-> payload]]
  /\ pc' = [pc EXCEPT ![e] = "commit"]
  /\ UNCHANGED <<overlap, rows, audit, req, seen, failures>>

(* The columns of new that differ from those loaded.                       *)
Changed(new, old) == [c \in {d \in DOMAIN new : new[d] # old[d]} |-> new[c]]
Only(columns, row) == [c \in columns |-> row[c]]

Begin(e) ==
  /\ pc[e] = "idle"
  /\ overlap \/ \A d \in Edit : ~Open(d)
  /\ \E q \in Ask :
       /\ q.op = "create" => /\ rows[q.of] = None
                             /\ {d \in Edit : req[d] # None /\ req[d].of = q.of} = {}
       /\ req' = [req EXCEPT ![e] = q]
       /\ pc' = [pc EXCEPT ![e] = IF q.op = "create" THEN "insert" ELSE "load"]
  /\ UNCHANGED <<overlap, rows, audit, seen, tx, failures>>

(* The early returns: a key's status or a setting's value that is there    *)
(* already, a source's body without fields.                                *)
NothingToDo(e, row) ==
  /\ req[e].op = "edit"
  /\ \/ Of(e) \in Key \cup Setting /\ DOMAIN Changed(Body(e), row) = {}
     \/ Of(e) \in Source /\ DOMAIN Body(e) = {}

LoadRow(e) ==
  /\ pc[e] = "load"
  /\ IF rows[Of(e)] = None \/ NothingToDo(e, rows[Of(e)])
     THEN Leave(e)
     ELSE /\ seen' = [seen EXCEPT ![e] = rows[Of(e)]]
          /\ pc' = [pc EXCEPT ![e] = "flush"]
          /\ UNCHANGED <<overlap, rows, audit, req, tx, failures>>

Doing(e, op, objects) ==
  /\ pc[e] = IF op = "create" THEN "insert" ELSE "flush"
  /\ req[e].op = op /\ Of(e) \in objects

-----------------------------------------------------------------------------
(* API keys.  referred: keys that an open session's usage rows refer to,   *)
(* which a DELETE waits for and an UPDATE of is_active does not.           *)

CreateKey(e) == Doing(e, "create", Key) /\ Flush(e, Body(e), Body(e))

(* The row that was loaded may be gone: StaleDataError.                    *)
PatchKey(e) ==
  /\ Doing(e, "edit", Key)
  /\ Free(e, Of(e))
  /\ IF rows[Of(e)] = None THEN Leave(e) ELSE Flush(e, Body(e), Body(e))

(* A second DELETE finds nothing and is audited all the same.              *)
DeleteKey(e, referred) ==
  /\ Doing(e, "delete", Key)
  /\ Free(e, Of(e)) /\ Of(e) \notin referred
  /\ Flush(e, <<>>, Deleted)

-----------------------------------------------------------------------------
(* System settings.                                                        *)

UpdateSetting(e) ==
  /\ Doing(e, "edit", Setting)
  /\ Free(e, Of(e))
  /\ Flush(e, Body(e), Body(e))

-----------------------------------------------------------------------------
(* Prompt templates: the unique name, the version, the row read back for   *)
(* the audit payload.                                                      *)

Audited == {"name", "active", "version"}

(* Another session's flush has the name, or gives it up.                   *)
NameHeld(e, name) ==
  \E d \in Edit \ {e} :
    /\ tx[d] # None /\ Of(d) \in Template /\ "name" \in DOMAIN tx[d].set
    /\ \/ tx[d].set["name"] = name
       \/ rows[Of(d)] # None /\ rows[Of(d)].name = name

NameTaken(e, name) ==
  \E t \in Template \ {Of(e)} : rows[t] # None /\ rows[t].name = name

CreateTemplate(e) ==
  /\ Doing(e, "create", Template)
  /\ ~NameHeld(e, Body(e).name)
  /\ IF NameTaken(e, Body(e).name)
     THEN Leave(e)
     ELSE LET row == Body(e) ++ [version |-> 1] IN Flush(e, row, Only(Audited, row))

(* Mutant of UpdateTemplate: the payload is taken from the object as it    *)
(* was assigned, without the refresh after the flush.                      *)
UpdateTemplateUnrefreshed(e) ==
  LET new == Body(e) ++ [version |-> seen[e].version + 1]
      set == Changed(new, seen[e])
  IN
  /\ Doing(e, "edit", Template)
  /\ Free(e, Of(e))
  /\ "name" \in DOMAIN set => ~NameHeld(e, new.name)
  /\ IF "name" \in DOMAIN set /\ NameTaken(e, new.name)
     THEN Leave(e)
     ELSE Flush(e, set, Only(Audited, new))

UpdateTemplate(e) ==
  LET new == Body(e) ++ [version |-> seen[e].version + 1]
      set == Changed(new, seen[e])
  IN
  /\ Doing(e, "edit", Template)
  /\ Free(e, Of(e))
  /\ "name" \in DOMAIN set => ~NameHeld(e, new.name)
  /\ IF "name" \in DOMAIN set /\ NameTaken(e, new.name)
     THEN Leave(e)
     ELSE Flush(e, set, Only(Audited, set ++ rows[Of(e)]))

-----------------------------------------------------------------------------
(* Sources.                                                                *)

(* validate_source_config, of the config as it is created or merged.       *)
RefuseConfig(e) ==
  /\ pc[e] \in {"insert", "flush"} /\ Of(e) \in Source
  /\ "config" \in DOMAIN Body(e)
  /\ Leave(e)

CreateSource(e) ==
  /\ Doing(e, "create", Source)
  /\ Flush(e, Body(e), Only({"name"}, Body(e)))

(* {**source.config, **body.config}, and the other fields as given.        *)
Merged(row, body) ==
  (IF "config" \in DOMAIN body THEN [config |-> body["config"] ++ row.config] ELSE <<>>)
    ++ body ++ row

(* Mutant of UpdateSource: the body's config replaces the one there is.    *)
UpdateSourceReplaces(e) ==
  LET set == Changed(Body(e) ++ seen[e], seen[e]) IN
  /\ Doing(e, "edit", Source)
  /\ DOMAIN set = {} \/ Free(e, Of(e))
  /\ Flush(e, set, None)

(* The merge is of the config as loaded; no audit row is written.          *)
UpdateSource(e) ==
  LET set == Changed(Merged(seen[e], Body(e)), seen[e]) IN
  /\ Doing(e, "edit", Source)
  /\ DOMAIN set = {} \/ Free(e, Of(e))
  /\ Flush(e, set, None)

-----------------------------------------------------------------------------
(* The end of a request.                                                   *)

Commit(e) ==
  LET o == Of(e)
      w == tx[e]
  IN
  /\ pc[e] = "commit"
  /\ rows' = [rows EXCEPT ![o] = CASE w.op = "create" -> w.set
                                   [] w.op = "edit" -> w.set ++ @
                                   [] w.op = "delete" -> None]
  /\ audit' = [audit EXCEPT ![o] = IF w.audit = None THEN @ ELSE w.audit]
  /\ Close(e)
  /\ UNCHANGED <<overlap, failures>>

Abort(e) ==
  /\ Open(e)
  /\ Failure
  /\ Close(e)
  /\ UNCHANGED <<overlap, rows, audit>>

Serve(e, referred) ==
  \/ LoadRow(e)
  \/ CreateKey(e) \/ PatchKey(e) \/ DeleteKey(e, referred)
  \/ UpdateSetting(e)
  \/ CreateTemplate(e) \/ UpdateTemplate(e)
  \/ RefuseConfig(e) \/ CreateSource(e) \/ UpdateSource(e)
  \/ Commit(e)

Next(referred) == \E e \in Edit : Begin(e) \/ Serve(e, referred) \/ Abort(e)

-----------------------------------------------------------------------------
(* Properties.                                                             *)

(* The latest audit row of a key, a setting or a template tells what its   *)
(* row holds now, although an edit writes only some columns of a row that  *)
(* others may have changed since it was loaded.                            *)
AuditShowsRow ==
  \A o \in Key \cup Setting \cup Template :
    /\ audit[o] = Deleted => rows[o] = None
    /\ audit[o] \notin {None, Deleted} =>
         rows[o] # None /\ \A c \in DOMAIN audit[o] : rows[o][c] = audit[o][c]

(* Calls on keys and settings, and as long as calls do not overlap those   *)
(* on templates and sources, take effect as a whole on the row as it is at *)
(* the commit.  Of overlapping edits of templates and sources the mapping  *)
(* shows nothing.                                                          *)
Made(o, body) == IF o \in Template THEN body ++ [version |-> 1] ELSE body
Edited(o, row, body) ==
  CASE o \in Template -> [version |-> row.version + 1] ++ body ++ row
    [] o \in Source -> Merged(row, body)
    [] OTHER -> body ++ row

Registered == INSTANCE Registry WITH
  Request <- Ask,
  rows <- [o \in Object |-> IF overlap /\ o \in Template \cup Source THEN None ELSE rows[o]]

RegistrySpec == Registered!Spec

-----------------------------------------------------------------------------
(* What the documents say and the code does not keep.                      *)

(* "Her duzenlemede artar" (Docs/01): the version of a template grows with *)
(* every edit.  Of overlapping edits two get the same version, and one     *)
(* that was loaded before two others takes it back.                        *)
VersionGrows ==
  [][\A t \in Template : rows[t] # None /\ rows'[t] # rows[t] =>
       rows'[t].version > rows[t].version]_vars
=============================================================================
