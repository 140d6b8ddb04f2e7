----------------------------- MODULE ChatProofs ------------------------------
(***************************************************************************)
(* Theorems about Chat and the Configuration that runs next to it, for any *)
(* keys, settings, templates and sources, any requests of admins, any      *)
(* number of questions and digests, whether calls overlap or not.          *)
(***************************************************************************)
EXTENDS Chat, FiniteSetTheorems, TLAPS

-----------------------------------------------------------------------------
(* Records and objects.                                                    *)

(* What has a column is not None.                                          *)
LEMMA NoneFacts ==
  /\ DOMAIN None = {}
  /\ \A f : DOMAIN f # {} => f # None
<1>1. DOMAIN None = {}
  BY DEF None
<1> QED
  BY <1>1

(* A merge has the columns of both, and prefers the first.                 *)
LEMMA MergeFacts ==
  ASSUME NEW f, NEW g
  PROVE  /\ DOMAIN (f ++ g) = DOMAIN f \cup DOMAIN g
         /\ \A c \in DOMAIN f : (f ++ g)[c] = f[c]
         /\ \A c \in DOMAIN g \ DOMAIN f : (f ++ g)[c] = g[c]
         /\ HasColumns(f ++ g, DOMAIN f \cup DOMAIN g)
BY DEF ++, HasColumns

(* Two records with the same columns and values are the same.              *)
LEMMA SameRecord ==
  ASSUME NEW C, NEW f, NEW g, HasColumns(f, C), HasColumns(g, C),
         \A c \in C : f[c] = g[c]
  PROVE  f = g
<1>1. f = [c \in C |-> f[c]] /\ g = [c \in C |-> g[c]]
  BY DEF HasColumns
<1>2. [c \in C |-> f[c]] = [c \in C |-> g[c]]
  OBVIOUS
<1> QED
  BY <1>1, <1>2

(* An object is of one kind, and rows of every kind have columns.          *)
LEMMA Kinds ==
  ASSUME NEW o \in Object
  PROVE  /\ o \in Key => Columns(o) = {"active"} /\ o \notin Setting \cup Template \cup Source
         /\ o \in Setting => Columns(o) = {"value"} /\ o \notin Key \cup Template \cup Source
         /\ o \in Template =>
              /\ Columns(o) = {"name", "text", "active", "version"}
              /\ o \notin Key \cup Setting \cup Source
         /\ o \in Source =>
              Columns(o) = {"name", "config"} /\ o \notin Key \cup Setting \cup Template
         /\ o \in Key \cup Setting \cup Template \cup Source
         /\ Columns(o) # {}
BY KindAssumption DEF Object, Columns

LEMMA RowFacts ==
  ASSUME NEW o \in Object, NEW row, IsRow(o, row)
  PROVE  row # None /\ DOMAIN row = Columns(o)
BY Kinds, NoneFacts DEF IsRow, HasColumns

(* Writing some columns of a row leaves a row.                             *)
LEMMA MergedRow ==
  ASSUME NEW o \in Object, NEW row, IsRow(o, row), NEW set, DOMAIN set \subseteq Columns(o),
         o \in Template /\ "version" \in DOMAIN set => set.version \in Nat
  PROVE  IsRow(o, set ++ row)
<1>1. /\ DOMAIN row = Columns(o)
      /\ DOMAIN set \cup DOMAIN row = Columns(o)
  BY RowFacts
<1>2. HasColumns(set ++ row, Columns(o))
  BY <1>1, MergeFacts
<1>3. ASSUME o \in Template PROVE (set ++ row).version \in Nat
  <2>1. "version" \in DOMAIN row /\ row.version \in Nat
    BY <1>1, <1>3, Kinds DEF IsRow
  <2>2. CASE "version" \in DOMAIN set
    BY <1>3, <2>2, MergeFacts
  <2>3. CASE "version" \notin DOMAIN set
    <3>1. "version" \in DOMAIN row \ DOMAIN set
      BY <2>1, <2>3
    <3> QED
      BY <2>1, <3>1 DEF ++
  <2> QED
    BY <2>2, <2>3
<1> QED
  BY <1>2, <1>3 DEF IsRow

(* A request is not None, and its body has the columns of its object.      *)
LEMMA AskFacts ==
  ASSUME NEW q \in Ask
  PROVE  /\ q # None /\ q.of \in Object /\ q.op \in {"create", "edit", "delete"}
         /\ q.op = "create" => q.of \notin Setting
         /\ q.op = "delete" => q.of \in Key
         /\ HasColumns(q.set, DOMAIN q.set)
         /\ q.op = "edit" /\ q.of \in Source => DOMAIN q.set \subseteq Columns(q.of)
         /\ q.op = "create" \/ (q.op = "edit" /\ q.of \notin Source) =>
              DOMAIN q.set = Columns(q.of) \ {"version"}
BY AskAssumption, NoneFacts DEF HasColumns

(* Writing what differs from a row makes of the row what was to be written.*)
LEMMA WriteChanges ==
  ASSUME NEW C, NEW row, HasColumns(row, C), NEW new, DOMAIN new \subseteq C
  PROVE  /\ Changed(new, row) ++ row = new ++ row
         /\ DOMAIN Changed(new, row) \subseteq DOMAIN new
         /\ HasColumns(Changed(new, row), DOMAIN Changed(new, row))
<1> DEFINE set == Changed(new, row)
<1>1. /\ DOMAIN set = {c \in DOMAIN new : new[c] # row[c]}
      /\ \A c \in DOMAIN set : set[c] = new[c]
      /\ HasColumns(set, DOMAIN set)
  BY DEF Changed, HasColumns
<1>2. DOMAIN row = C
  BY DEF HasColumns
<1> HIDE DEF set
<1>3. HasColumns(set ++ row, C) /\ HasColumns(new ++ row, C)
  <2>1. DOMAIN set \cup DOMAIN row = C /\ DOMAIN new \cup DOMAIN row = C
    BY <1>1, <1>2
  <2> QED
    BY <2>1, MergeFacts
<1>4. ASSUME NEW c \in C PROVE (set ++ row)[c] = (new ++ row)[c]
  <2>1. CASE c \in DOMAIN set
    <3>1. c \in DOMAIN new /\ set[c] = new[c]
      BY <1>1, <2>1
    <3>2. (set ++ row)[c] = set[c] /\ (new ++ row)[c] = new[c]
      BY <2>1, <3>1 DEF ++
    <3> QED
      BY <3>1, <3>2
  <2>2. CASE c \notin DOMAIN set /\ c \in DOMAIN new
    <3>1. c \in DOMAIN row \ DOMAIN set
      BY <1>2, <2>2
    <3>2. (set ++ row)[c] = row[c] /\ (new ++ row)[c] = new[c]
      BY <2>2, <3>1 DEF ++
    <3> QED
      BY <1>1, <2>2, <3>2
  <2>3. CASE c \notin DOMAIN new
    <3>1. c \in DOMAIN row \ DOMAIN set /\ c \in DOMAIN row \ DOMAIN new
      BY <1>1, <1>2, <2>3
    <3> QED
      BY <3>1 DEF ++
  <2> QED
    BY <2>1, <2>2, <2>3
<1>5. set ++ row = new ++ row
  BY <1>3, <1>4, SameRecord
<1> QED
  BY <1>1, <1>5 DEF set

-----------------------------------------------------------------------------
(* The invariant of the configuration.                                     *)

Shapes ==
  /\ overlap \in BOOLEAN
  /\ HasColumns(rows, Object) /\ HasColumns(audit, Object)
  /\ HasColumns(pc, Edit) /\ HasColumns(req, Edit)
  /\ HasColumns(seen, Edit) /\ HasColumns(tx, Edit)

RowsOK == \A o \in Object : rows[o] # None => IsRow(o, rows[o])

(* Where a call stands, and when it has written.                           *)
Standing(e) ==
  /\ pc[e] \in {"idle", "insert", "load", "flush", "commit", "done"}
  /\ Open(e) => req[e] \in Ask
  /\ ~Open(e) => req[e] = None
  /\ pc[e] = "insert" => req[e].op = "create"
  /\ pc[e] \in {"load", "flush"} => req[e].op # "create"
  /\ tx[e] # None => pc[e] = "commit"
  /\ pc[e] = "commit" => tx[e].op = req[e].op /\ tx[e] # None

(* While an object is created, nobody else has got past looking for it.    *)
Creates(e) ==
  Open(e) /\ req[e].op = "create" =>
    /\ rows[Of(e)] = None
    /\ \A d \in Edit \ {e} : Open(d) /\ Of(d) = Of(e) => pc[d] = "load"

(* Nobody writes a row that another has written, ...                       *)
Locked(e, d) == ~(Holds(e, Of(e)) /\ Holds(d, Of(e)))
(* ... and when calls do not overlap, nobody else is there at all.         *)
Alone(e, d) == ~overlap => ~(Open(e) /\ Open(d))

(* The row that was loaded; only keys are ever deleted.                    *)
Loaded(e) ==
  pc[e] = "flush" =>
    /\ IsRow(Of(e), seen[e])
    /\ ~overlap => seen[e] = rows[Of(e)]
    /\ Of(e) \notin Key => rows[Of(e)] # None

(* The audit row tells what the row will hold.                             *)
Tells(payload, row) ==
  payload \notin {None, Deleted} /\ \A c \in DOMAIN payload : row[c] = payload[c]

(* What a call has written turns the row as it is into what was asked for. *)
Creation(o, w, body) == IsRow(o, w.set) /\ Tells(w.audit, w.set) /\ w.set = Made(o, body)
Edition(o, w, body) ==
  /\ rows[o] # None
  /\ HasColumns(w.set, DOMAIN w.set) /\ DOMAIN w.set \subseteq Columns(o)
  /\ o \in Template /\ "version" \in DOMAIN w.set => w.set.version \in Nat
  /\ o \notin Source => DOMAIN w.set # {} /\ Tells(w.audit, w.set ++ rows[o])
  /\ ~overlap \/ o \notin Template \cup Source => w.set ++ rows[o] = Edited(o, rows[o], body)

Written(e) ==
  pc[e] = "commit" =>
    /\ tx[e].op = "create" => Creation(Of(e), tx[e], Body(e))
    /\ tx[e].op = "edit" => Edition(Of(e), tx[e], Body(e))
    /\ tx[e].op = "delete" => tx[e].audit = Deleted

CInv ==
  /\ Shapes /\ RowsOK
  /\ \A e \in Edit : Standing(e) /\ Creates(e) /\ Loaded(e) /\ Written(e)
  /\ \A e, d \in Edit : e # d => Locked(e, d) /\ Alone(e, d)

(* Of a step of e, what the others see.                                    *)
Step(e) ==
  /\ overlap' = overlap /\ Shapes'
  /\ \A d \in Edit \ {e} :
       pc'[d] = pc[d] /\ req'[d] = req[d] /\ seen'[d] = seen[d] /\ tx'[d] = tx[d]
Quiet(e) == Step(e) /\ rows' = rows /\ audit' = audit

(* What holds of a call goes on to hold while others leave its row alone.  *)
LEMMA Frame ==
  ASSUME NEW d \in Edit, overlap' = overlap, pc'[d] = pc[d], req'[d] = req[d],
         seen'[d] = seen[d], tx'[d] = tx[d],
         Standing(d), Loaded(d), Written(d),
         Open(d) => rows'[Of(d)] = rows[Of(d)]
  PROVE  Standing(d)' /\ Loaded(d)' /\ Written(d)'
<1>1. Standing(d)'
  BY DEF Standing, Open
<1>2. Loaded(d)'
  BY DEF Loaded, Of, Open
<1>3. Written(d)'
  BY DEF Written, Of, Open, Body, Creation, Edition
<1> QED
  BY <1>1, <1>2, <1>3

(* A step that changes no row keeps the invariant if it keeps what         *)
(* concerns its own call.                                                  *)
LEMMA QuietKeeps ==
  ASSUME CInv, NEW e \in Edit, Quiet(e),
         Standing(e)', Loaded(e)', Written(e)', Creates(e)',
         \A d \in Edit \ {e} : Creates(d)' /\ Locked(e, d)' /\ Locked(d, e)' /\ Alone(e, d)'
  PROVE  CInv'
<1>1. RowsOK' /\ Shapes'
  BY DEF CInv, RowsOK, Quiet, Step
<1>2. ASSUME NEW d \in Edit PROVE Standing(d)' /\ Loaded(d)' /\ Written(d)' /\ Creates(d)'
  BY Frame DEF CInv, Quiet, Step
<1>3. ASSUME NEW c \in Edit, NEW d \in Edit, c # d PROVE Locked(c, d)' /\ Alone(c, d)'
  <2>1. CASE c = e \/ d = e
    BY <1>3, <2>1 DEF Alone
  <2>2. CASE c # e /\ d # e
    BY <1>3, <2>2 DEF CInv, Quiet, Step, Locked, Alone, Holds, Of, Open
  <2> QED
    BY <2>1, <2>2
<1> QED
  BY <1>1, <1>2, <1>3 DEF CInv

(* A call that ends without a commit.                                      *)
LEMMA CloseKeeps ==
  ASSUME CInv, NEW e \in Edit, Close(e), UNCHANGED <<overlap, rows, audit>>
  PROVE  CInv'
<1>1. Quiet(e) /\ pc'[e] = "done" /\ req'[e] = None /\ seen'[e] = None /\ tx'[e] = None
  <2>1. /\ HasColumns(pc, Edit) /\ HasColumns(req, Edit)
        /\ HasColumns(seen, Edit) /\ HasColumns(tx, Edit)
    BY DEF CInv, Shapes
  <2>2. HasColumns(pc', Edit) /\ pc'[e] = "done" /\ \A d \in Edit \ {e} : pc'[d] = pc[d]
    BY <2>1 DEF Close, HasColumns
  <2>3. HasColumns(req', Edit) /\ req'[e] = None /\ \A d \in Edit \ {e} : req'[d] = req[d]
    BY <2>1 DEF Close, HasColumns
  <2>4. HasColumns(seen', Edit) /\ seen'[e] = None /\ \A d \in Edit \ {e} : seen'[d] = seen[d]
    BY <2>1 DEF Close, HasColumns
  <2>5. HasColumns(tx', Edit) /\ tx'[e] = None /\ \A d \in Edit \ {e} : tx'[d] = tx[d]
    BY <2>1 DEF Close, HasColumns
  <2> QED
    BY <2>2, <2>3, <2>4, <2>5 DEF CInv, Shapes, Quiet, Step
<1>2. Standing(e)' /\ Loaded(e)' /\ Written(e)' /\ Creates(e)'
  BY <1>1 DEF Standing, Loaded, Written, Creates, Open
<1>3. ASSUME NEW d \in Edit \ {e}
      PROVE  Creates(d)' /\ Locked(e, d)' /\ Locked(d, e)' /\ Alone(e, d)'
  <2>1. Creates(d)'
    BY <1>1 DEF CInv, Creates, Quiet, Step, Open, Of
  <2> QED
    BY <1>1, <2>1 DEF Locked, Alone, Holds, Open
<1> QED
  BY <1>1, <1>2, <1>3, QuietKeeps

(* A call begins: it creates only what is not there and nobody asks for.   *)
LEMMA BeginKeeps ==
  ASSUME CInv, NEW e \in Edit, Begin(e)
  PROVE  CInv'
<1>1. PICK q \in Ask :
        /\ q.op = "create" => /\ rows[q.of] = None
                              /\ {d \in Edit : req[d] # None /\ req[d].of = q.of} = {}
        /\ req' = [req EXCEPT ![e] = q]
        /\ pc' = [pc EXCEPT ![e] = IF q.op = "create" THEN "insert" ELSE "load"]
  BY DEF Begin
<1>2. /\ Quiet(e) /\ req'[e] = q /\ pc'[e] = IF q.op = "create" THEN "insert" ELSE "load"
      /\ tx'[e] = None
  <2>1. tx[e] = None
    BY DEF CInv, Standing, Begin
  <2>2. HasColumns(pc, Edit) /\ HasColumns(req, Edit)
    BY DEF CInv, Shapes
  <2>3. /\ HasColumns(pc', Edit) /\ \A d \in Edit \ {e} : pc'[d] = pc[d]
        /\ pc'[e] = IF q.op = "create" THEN "insert" ELSE "load"
    BY <1>1, <2>2 DEF HasColumns
  <2>4. HasColumns(req', Edit) /\ req'[e] = q /\ \A d \in Edit \ {e} : req'[d] = req[d]
    BY <1>1, <2>2 DEF HasColumns
  <2> QED
    BY <2>1, <2>3, <2>4 DEF CInv, Shapes, Begin, Quiet, Step
<1>3. q # None
  BY AskFacts
<1>4. Standing(e)' /\ Loaded(e)' /\ Written(e)'
  BY <1>2, AskFacts DEF Standing, Loaded, Written, Open
<1>5. \A d \in Edit : Open(d) => req[d] # None
  BY AskFacts DEF CInv, Standing
<1>6. Creates(e)'
  <2>1. ASSUME q.op = "create", NEW d \in Edit \ {e}, Open(d)', Of(d)' = Of(e)' PROVE FALSE
    <3>1. Open(d) /\ req[d].of = q.of
      BY <1>2, <2>1 DEF Open, Of, Quiet, Step
    <3> QED
      BY <1>1, <1>5, <2>1, <3>1
  <2> QED
    BY <1>1, <1>2, <2>1 DEF Creates, Quiet, Of
<1>7. ASSUME NEW d \in Edit \ {e}
      PROVE  Creates(d)' /\ Locked(e, d)' /\ Locked(d, e)' /\ Alone(e, d)'
  <2>1. Creates(d)'
    <3>1. ASSUME Open(d), req[d].op = "create", Of(d) = q.of PROVE q.op # "create"
      BY <1>1, <1>5, <3>1 DEF Of
    <3> QED
      BY <1>2, <3>1 DEF CInv, Creates, Quiet, Step, Open, Of
  <2>2. Alone(e, d)'
    BY <1>2 DEF Begin, Alone, Open, Quiet, Step
  <2> QED
    BY <1>2, <2>1, <2>2 DEF Locked, Holds
<1> QED
  BY <1>2, <1>4, <1>6, <1>7, QuietKeeps

(* A row is loaded, or nothing is there to do.                             *)
LEMMA LoadRowKeeps ==
  ASSUME CInv, NEW e \in Edit, LoadRow(e)
  PROVE  CInv'
<1>1. CASE Leave(e)
  BY <1>1, CloseKeeps DEF Leave
<1>2. CASE ~Leave(e)
  <2>1. /\ pc[e] = "load" /\ rows[Of(e)] # None
        /\ seen' = [seen EXCEPT ![e] = rows[Of(e)]]
        /\ pc' = [pc EXCEPT ![e] = "flush"]
        /\ UNCHANGED <<overlap, rows, audit, req, tx, failures>>
    BY <1>2 DEF LoadRow
  <2>2. Quiet(e) /\ pc'[e] = "flush" /\ seen'[e] = rows[Of(e)]
    <3>1. HasColumns(pc, Edit) /\ HasColumns(seen, Edit)
      BY DEF CInv, Shapes
    <3>2. HasColumns(pc', Edit) /\ pc'[e] = "flush" /\ \A d \in Edit \ {e} : pc'[d] = pc[d]
      BY <2>1, <3>1 DEF HasColumns
    <3>3. /\ HasColumns(seen', Edit) /\ seen'[e] = rows[Of(e)]
          /\ \A d \in Edit \ {e} : seen'[d] = seen[d]
      BY <2>1, <3>1 DEF HasColumns
    <3> QED
      BY <2>1, <3>2, <3>3 DEF CInv, Shapes, Quiet, Step
  <2>3. req[e] \in Ask /\ Of(e) \in Object /\ req[e].op # "create" /\ tx[e] = None
    BY <2>1, AskFacts DEF CInv, Standing, Open, Of
  <2>4. Standing(e)' /\ Written(e)' /\ Creates(e)'
    BY <2>1, <2>2, <2>3 DEF Standing, Written, Creates, Open
  <2>5. Loaded(e)'
    BY <2>1, <2>2, <2>3 DEF CInv, RowsOK, Loaded, Of
  <2>6. ASSUME NEW d \in Edit \ {e}
        PROVE  Creates(d)' /\ Locked(e, d)' /\ Locked(d, e)' /\ Alone(e, d)'
    <3>1. Creates(d)'
      <4>1. Open(d) /\ req[d].op = "create" => Of(d) # Of(e)
        BY <2>1 DEF CInv, Creates
      <4> QED
        BY <2>1, <2>2, <4>1 DEF CInv, Creates, Quiet, Step, Open, Of
    <3>2. Alone(e, d)'
      BY <2>1, <2>2 DEF CInv, Alone, Open, Quiet, Step
    <3> QED
      BY <2>1, <2>3, <3>1, <3>2 DEF Locked, Holds
  <2> QED
    BY <2>2, <2>4, <2>5, <2>6, QuietKeeps
<1> QED
  BY <1>1, <1>2

(* A write is flushed: its row is free, or it is the first of its object,  *)
(* or it sets nothing.                                                     *)
LEMMA FlushKeeps ==
  ASSUME CInv, NEW e \in Edit, NEW set, NEW payload, Flush(e, set, payload),
         pc[e] = IF req[e].op = "create" THEN "insert" ELSE "flush",
         \/ req[e].op = "create" \/ Free(e, Of(e))
         \/ req[e].op = "edit" /\ DOMAIN set = {},
         req[e].op = "create" => Creation(Of(e), [set |-> set, audit |-> payload], Body(e)),
         req[e].op = "edit" => Edition(Of(e), [set |-> set, audit |-> payload], Body(e)),
         req[e].op = "delete" => payload = Deleted
  PROVE  CInv'
<1> DEFINE w == [op |-> req[e].op, set |-> set, audit |-> payload]
<1>1. Quiet(e) /\ pc'[e] = "commit" /\ tx'[e] = w /\ req' = req
  <2>1. HasColumns(pc, Edit) /\ HasColumns(tx, Edit)
    BY DEF CInv, Shapes
  <2>2. HasColumns(pc', Edit) /\ pc'[e] = "commit" /\ \A d \in Edit \ {e} : pc'[d] = pc[d]
    BY <2>1 DEF Flush, HasColumns
  <2>3. tx' = [tx EXCEPT ![e] = w]
    BY DEF Flush
  <2>4. HasColumns(tx', Edit) /\ tx'[e] = w /\ \A d \in Edit \ {e} : tx'[d] = tx[d]
    <3> HIDE DEF w
    <3> QED
      BY <2>1, <2>3 DEF HasColumns
  <2> QED
    BY <2>2, <2>4 DEF CInv, Shapes, Flush, Quiet, Step
<1>2. w.op = req[e].op /\ w.set = set /\ w.audit = payload /\ w # None
  <2>1. "op" \in DOMAIN w
    OBVIOUS
  <2> QED
    BY <2>1, NoneFacts
<1> HIDE DEF w
<1>3. Standing(e)' /\ Loaded(e)'
  BY <1>1, <1>2 DEF CInv, Standing, Loaded, Open
<1>4. Written(e)'
  <2>1. Creation(Of(e), w, Body(e)) <=> Creation(Of(e), [set |-> set, audit |-> payload], Body(e))
    BY <1>2 DEF Creation
  <2>2. Edition(Of(e), w, Body(e)) <=> Edition(Of(e), [set |-> set, audit |-> payload], Body(e))
    BY <1>2 DEF Edition
  <2>3. /\ w.op = "create" => Creation(Of(e), w, Body(e))
        /\ w.op = "edit" => Edition(Of(e), w, Body(e))
        /\ w.op = "delete" => w.audit = Deleted
    BY <1>2, <2>1, <2>2
  <2>4. Of(e)' = Of(e) /\ Body(e)' = Body(e)
    BY <1>1 DEF Of, Body
  <2> QED
    BY <1>1, <2>3, <2>4 DEF Written, Creation, Edition, Quiet, Step
<1>5. Creates(e)'
  BY <1>1 DEF CInv, Creates, Quiet, Step, Open, Of
<1>6. ASSUME NEW d \in Edit \ {e}
      PROVE  Creates(d)' /\ Locked(e, d)' /\ Locked(d, e)' /\ Alone(e, d)'
  <2>1. Creates(d)'
    <3>1. Open(d) /\ req[d].op = "create" => Of(d) # Of(e)
      BY DEF CInv, Creates, Open
    <3> QED
      BY <1>1, <3>1 DEF CInv, Creates, Quiet, Step, Open, Of
  <2>2. Alone(e, d)'
    BY <1>1 DEF CInv, Alone, Open, Quiet, Step
  <2>3. ~(Holds(e, Of(e))' /\ Of(d)' = Of(e)' /\ Holds(d, Of(e))')
    <3>1. Holds(d, Of(e))' <=> Holds(d, Of(e))
      BY <1>1 DEF Holds, Of, Quiet, Step
    <3>2. CASE req[e].op = "create"
      <4>1. Holds(d, Of(e)) => pc[d] = "commit" /\ Of(d) = Of(e)
        BY DEF Holds, CInv, Standing
      <4>2. ~Holds(d, Of(e))
        BY <3>2, <4>1 DEF CInv, Creates, Open
      <4> QED
        BY <3>1, <4>2
    <3>3. CASE Free(e, Of(e))
      BY <3>1, <3>3 DEF Free
    <3>4. CASE req[e].op = "edit" /\ DOMAIN set = {}
      BY <1>1, <1>2, <3>4 DEF Holds
    <3> QED
      BY <3>2, <3>3, <3>4
  <2>4. Locked(e, d)' /\ Locked(d, e)'
    BY <2>3 DEF Locked, Holds
  <2> QED
    BY <2>1, <2>2, <2>4
<1> QED
  BY <1>1, <1>3, <1>4, <1>5, <1>6, QuietKeeps

(* A payload of the object's own columns tells what they hold.             *)
LEMMA Telling ==
  ASSUME NEW payload, NEW row, NEW c, c \in DOMAIN payload, c # "deleted",
         \A d \in DOMAIN payload : row[d] = payload[d]
  PROVE  Tells(payload, row)
<1>1. DOMAIN Deleted = {"deleted"}
  BY DEF Deleted
<1> QED
  BY <1>1, NoneFacts DEF Tells

(* What the caller is known to be when it writes.                          *)
LEMMA Caller ==
  ASSUME CInv, NEW e \in Edit, NEW op, NEW S, Doing(e, op, S)
  PROVE  /\ req[e] \in Ask /\ Of(e) \in Object /\ Of(e) \in S /\ req[e].op = op
         /\ pc[e] = IF req[e].op = "create" THEN "insert" ELSE "flush"
         /\ HasColumns(Body(e), DOMAIN Body(e))
<1>1. req[e] \in Ask /\ req[e].op = op /\ Of(e) \in S
  BY DEF CInv, Standing, Doing, Open
<1>2. Of(e) \in Object /\ HasColumns(Body(e), DOMAIN Body(e))
  BY <1>1, AskFacts DEF Of, Body
<1> QED
  BY <1>1, <1>2 DEF Doing

LEMMA Creator ==
  ASSUME CInv, NEW e \in Edit, NEW S, Doing(e, "create", S)
  PROVE  DOMAIN Body(e) = Columns(Of(e)) \ {"version"}
BY Caller, AskFacts DEF Of, Body

LEMMA Editor ==
  ASSUME CInv, NEW e \in Edit, NEW S, Doing(e, "edit", S)
  PROVE  /\ Of(e) \notin Source => DOMAIN Body(e) = Columns(Of(e)) \ {"version"}
         /\ Of(e) \in Source => DOMAIN Body(e) \subseteq Columns(Of(e))
         /\ IsRow(Of(e), seen[e])
         /\ ~overlap => seen[e] = rows[Of(e)]
         /\ Of(e) \notin Key => rows[Of(e)] # None
<1>1. req[e] \in Ask /\ req[e].op = "edit" /\ pc[e] = "flush"
  BY Caller
<1>2. /\ Of(e) \notin Source => DOMAIN Body(e) = Columns(Of(e)) \ {"version"}
      /\ Of(e) \in Source => DOMAIN Body(e) \subseteq Columns(Of(e))
  BY <1>1, AskFacts DEF Of, Body
<1> QED
  BY <1>1, <1>2 DEF CInv, Loaded

LEMMA CreateKeyKeeps ==
  ASSUME CInv, NEW e \in Edit, CreateKey(e)
  PROVE  CInv'
<1>1. Doing(e, "create", Key) /\ Flush(e, Body(e), Body(e))
  BY DEF CreateKey
<1>2. Of(e) \in Key /\ Of(e) \in Object /\ DOMAIN Body(e) = {"active"}
  <2>1. Of(e) \in Key /\ Of(e) \in Object /\ DOMAIN Body(e) = Columns(Of(e)) \ {"version"}
    BY <1>1, Caller, Creator
  <2> QED
    BY <2>1, Kinds
<1>3. IsRow(Of(e), Body(e)) /\ Tells(Body(e), Body(e)) /\ Body(e) = Made(Of(e), Body(e))
  <2>1. Tells(Body(e), Body(e))
    BY <1>2, Telling
  <2> QED
    BY <1>1, <1>2, <2>1, Caller, Kinds DEF IsRow, Made
<1>4. Creation(Of(e), [set |-> Body(e), audit |-> Body(e)], Body(e))
  BY <1>3 DEF Creation
<1>10. req[e].op = "create" /\ pc[e] = "insert"
  BY <1>1 DEF Doing
<1> QED
  BY <1>1, <1>4, <1>10, FlushKeeps

LEMMA PatchKeyKeeps ==
  ASSUME CInv, NEW e \in Edit, PatchKey(e)
  PROVE  CInv'
<1>1. CASE Leave(e)
  BY <1>1, CloseKeeps DEF Leave
<1>2. CASE ~Leave(e)
  <2>1. /\ Doing(e, "edit", Key) /\ Free(e, Of(e)) /\ rows[Of(e)] # None
        /\ Flush(e, Body(e), Body(e))
    BY <1>2 DEF PatchKey
  <2>2. /\ Of(e) \in Key /\ Of(e) \in Object /\ DOMAIN Body(e) = {"active"}
        /\ Columns(Of(e)) = {"active"} /\ Of(e) \notin Setting \cup Template \cup Source
        /\ HasColumns(Body(e), DOMAIN Body(e))
    <3>1. Of(e) \in Key /\ Of(e) \in Object /\ HasColumns(Body(e), DOMAIN Body(e))
      BY <2>1, Caller
    <3>2. Columns(Of(e)) = {"active"} /\ Of(e) \notin Setting \cup Template \cup Source
      BY <3>1, Kinds
    <3> QED
      BY <2>1, <3>1, <3>2, Editor
  <2>3. Tells(Body(e), Body(e) ++ rows[Of(e)])
    <3>1. \A c \in DOMAIN Body(e) : (Body(e) ++ rows[Of(e)])[c] = Body(e)[c]
      BY DEF ++
    <3> QED
      BY <2>2, <3>1, Telling
  <2>4. Edition(Of(e), [set |-> Body(e), audit |-> Body(e)], Body(e))
    BY <2>1, <2>2, <2>3 DEF Edition, Edited
  <2>10. req[e].op = "edit" /\ pc[e] = "flush"
    BY <2>1 DEF Doing
  <2> QED
    BY <2>1, <2>4, <2>10, FlushKeeps
<1> QED
  BY <1>1, <1>2

LEMMA DeleteKeyKeeps ==
  ASSUME CInv, NEW e \in Edit, NEW referred, DeleteKey(e, referred)
  PROVE  CInv'
<1>1. Doing(e, "delete", Key) /\ Free(e, Of(e)) /\ Flush(e, <<>>, Deleted)
  BY DEF DeleteKey
<1>10. req[e].op = "delete" /\ pc[e] = "flush"
  BY <1>1 DEF Doing
<1> QED
  BY <1>1, <1>10, FlushKeeps

LEMMA UpdateSettingKeeps ==
  ASSUME CInv, NEW e \in Edit, UpdateSetting(e)
  PROVE  CInv'
<1>1. Doing(e, "edit", Setting) /\ Free(e, Of(e)) /\ Flush(e, Body(e), Body(e))
  BY DEF UpdateSetting
<1>2. /\ Of(e) \in Setting /\ Of(e) \in Object /\ DOMAIN Body(e) = {"value"}
      /\ Columns(Of(e)) = {"value"} /\ Of(e) \notin Key \cup Template \cup Source
      /\ HasColumns(Body(e), DOMAIN Body(e)) /\ rows[Of(e)] # None
  <2>1. Of(e) \in Setting /\ Of(e) \in Object /\ HasColumns(Body(e), DOMAIN Body(e))
    BY <1>1, Caller
  <2>2. Columns(Of(e)) = {"value"} /\ Of(e) \notin Key \cup Template \cup Source
    BY <2>1, Kinds
  <2> QED
    BY <1>1, <2>1, <2>2, Editor
<1>3. Tells(Body(e), Body(e) ++ rows[Of(e)])
  <2>1. \A c \in DOMAIN Body(e) : (Body(e) ++ rows[Of(e)])[c] = Body(e)[c]
    BY DEF ++
  <2> QED
    BY <1>2, <2>1, Telling
<1>4. Edition(Of(e), [set |-> Body(e), audit |-> Body(e)], Body(e))
  BY <1>2, <1>3 DEF Edition, Edited
<1>10. req[e].op = "edit" /\ pc[e] = "flush"
  BY <1>1 DEF Doing
<1> QED
  BY <1>1, <1>4, <1>10, FlushKeeps

LEMMA CreateTemplateKeeps ==
  ASSUME CInv, NEW e \in Edit, CreateTemplate(e)
  PROVE  CInv'
<1> DEFINE row == Body(e) ++ [version |-> 1]
<1>1. CASE Leave(e)
  BY <1>1, CloseKeeps DEF Leave
<1>2. CASE ~Leave(e)
  <2>1. Doing(e, "create", Template) /\ Flush(e, row, Only(Audited, row))
    BY <1>2 DEF CreateTemplate
  <2>2. /\ Of(e) \in Template /\ Of(e) \in Object
        /\ Columns(Of(e)) = {"name", "text", "active", "version"}
        /\ DOMAIN Body(e) = {"name", "text", "active"}
    <3>1. Of(e) \in Template /\ Of(e) \in Object /\ DOMAIN Body(e) = Columns(Of(e)) \ {"version"}
      BY <2>1, Caller, Creator
    <3> QED
      BY <3>1, Kinds
  <2>3. HasColumns(row, Columns(Of(e))) /\ row.version = 1
    <3>1. DOMAIN [version |-> 1] = {"version"} /\ [version |-> 1]["version"] = 1
      OBVIOUS
    <3>2. DOMAIN Body(e) \cup DOMAIN [version |-> 1] = Columns(Of(e))
      BY <2>2, <3>1
    <3>3. "version" \in DOMAIN [version |-> 1] \ DOMAIN Body(e)
      BY <2>2, <3>1
    <3>4. (Body(e) ++ [version |-> 1])["version"] = 1
      BY <3>1, <3>3 DEF ++
    <3> QED
      BY <3>2, <3>4, MergeFacts
  <2>4. Tells(Only(Audited, row), row)
    <3> HIDE DEF row
    <3>1. "name" \in DOMAIN Only(Audited, row)
      BY DEF Only, Audited
    <3>2. \A c \in DOMAIN Only(Audited, row) : row[c] = Only(Audited, row)[c]
      BY DEF Only
    <3> QED
      BY <3>1, <3>2, Telling
  <2>5. row = Made(Of(e), Body(e))
    BY <2>2 DEF Made
  <2> HIDE DEF row
  <2>6. Creation(Of(e), [set |-> row, audit |-> Only(Audited, row)], Body(e))
    BY <2>3, <2>4, <2>5 DEF Creation, IsRow
  <2> QED
    BY <2>1, <2>6, Caller, FlushKeeps
<1> QED
  BY <1>1, <1>2

LEMMA UpdateTemplateKeeps ==
  ASSUME CInv, NEW e \in Edit, UpdateTemplate(e)
  PROVE  CInv'
<1> DEFINE next == [version |-> seen[e].version + 1]
           new == Body(e) ++ next
           set == Changed(new, seen[e])
           row == rows[Of(e)]
           payload == Only(Audited, set ++ row)
<1>1. CASE Leave(e)
  BY <1>1, CloseKeeps DEF Leave
<1>2. CASE ~Leave(e)
  <2>1. Doing(e, "edit", Template) /\ Free(e, Of(e)) /\ Flush(e, set, payload)
    BY <1>2 DEF UpdateTemplate
  <2>2. /\ Of(e) \in Template /\ Of(e) \in Object
        /\ Columns(Of(e)) = {"name", "text", "active", "version"}
        /\ Of(e) \notin Key \cup Setting \cup Source
        /\ DOMAIN Body(e) = {"name", "text", "active"}
        /\ IsRow(Of(e), seen[e]) /\ row # None
        /\ ~overlap => seen[e] = row
    <3>1. Of(e) \in Template /\ Of(e) \in Object
      BY <2>1, Caller
    <3>2. /\ Columns(Of(e)) = {"name", "text", "active", "version"}
          /\ Of(e) \notin Key \cup Setting \cup Source
      BY <3>1, Kinds
    <3>3. DOMAIN Body(e) = Columns(Of(e)) \ {"version"}
      BY <2>1, <3>2, Editor
    <3> QED
      BY <2>1, <3>1, <3>2, <3>3, Editor
  <2>3. DOMAIN next = {"version"} /\ next["version"] = seen[e].version + 1
    OBVIOUS
  <2> HIDE DEF next
  <2>4. /\ DOMAIN new = Columns(Of(e)) /\ HasColumns(new, Columns(Of(e)))
        /\ new["version"] = seen[e].version + 1
    <3>1. DOMAIN Body(e) \cup DOMAIN next = Columns(Of(e))
      BY <2>2, <2>3
    <3>2. "version" \in DOMAIN next \ DOMAIN Body(e)
      BY <2>2, <2>3
    <3>3. (Body(e) ++ next)["version"] = next["version"]
      BY <3>2 DEF ++
    <3> QED
      BY <2>3, <3>1, <3>3, MergeFacts
  <2>5. seen[e].version \in Nat /\ HasColumns(seen[e], Columns(Of(e)))
    BY <2>2 DEF IsRow
  <2>6. /\ "version" \in DOMAIN set /\ set["version"] = seen[e].version + 1
        /\ DOMAIN set \subseteq Columns(Of(e)) /\ HasColumns(set, DOMAIN set)
        /\ set ++ seen[e] = new ++ seen[e]
    <3> HIDE DEF new
    <3>1. "version" \in DOMAIN new /\ new["version"] # seen[e]["version"]
      BY <2>2, <2>4, <2>5
    <3>2. "version" \in DOMAIN set /\ set["version"] = new["version"]
      BY <3>1 DEF Changed
    <3>3. /\ DOMAIN set \subseteq DOMAIN new /\ HasColumns(set, DOMAIN set)
          /\ set ++ seen[e] = new ++ seen[e]
      BY <2>4, <2>5, WriteChanges
    <3> QED
      BY <2>4, <3>2, <3>3
  <2>7. Tells(payload, set ++ row)
    <3> HIDE DEF set, row
    <3>1. "name" \in DOMAIN payload
      BY DEF Only, Audited
    <3>2. \A c \in DOMAIN payload : (set ++ row)[c] = payload[c]
      BY DEF Only
    <3> HIDE DEF payload
    <3> QED
      BY <3>1, <3>2, Telling
  <2>8. ASSUME ~overlap PROVE set ++ row = Edited(Of(e), row, Body(e))
    <3>1. set ++ row = new ++ row /\ seen[e] = row
      BY <2>2, <2>6, <2>8
    <3>2. new = next ++ Body(e)
      BY <2>2, <2>3 DEF ++
    <3>3. Edited(Of(e), row, Body(e)) = ([version |-> row.version + 1] ++ Body(e)) ++ row
      BY <2>2 DEF Edited
    <3> QED
      BY <3>1, <3>2, <3>3 DEF next
  <2>9. Edition(Of(e), [set |-> set, audit |-> payload], Body(e))
    <3>1. set.version \in Nat
      BY <2>5, <2>6
    <3> HIDE DEF set, payload, new
    <3> QED
      BY <2>2, <2>6, <2>7, <2>8, <3>1 DEF Edition
  <2> HIDE DEF set, payload, new
  <2>10. req[e].op = "edit" /\ pc[e] = "flush"
    BY <2>1 DEF Doing
  <2> QED
    BY <2>1, <2>9, <2>10, FlushKeeps
<1> QED
  BY <1>1, <1>2

LEMMA CreateSourceKeeps ==
  ASSUME CInv, NEW e \in Edit, CreateSource(e)
  PROVE  CInv'
<1> DEFINE payload == Only({"name"}, Body(e))
<1>1. Doing(e, "create", Source) /\ Flush(e, Body(e), payload)
  BY DEF CreateSource
<1>2. /\ Of(e) \in Source /\ Of(e) \in Object /\ Of(e) \notin Template
      /\ DOMAIN Body(e) = Columns(Of(e)) /\ HasColumns(Body(e), DOMAIN Body(e))
  <2>1. /\ Of(e) \in Source /\ Of(e) \in Object /\ HasColumns(Body(e), DOMAIN Body(e))
        /\ DOMAIN Body(e) = Columns(Of(e)) \ {"version"}
    BY <1>1, Caller, Creator
  <2> QED
    BY <2>1, Kinds
<1>3. Tells(payload, Body(e))
  <2>1. "name" \in DOMAIN payload /\ \A c \in DOMAIN payload : Body(e)[c] = payload[c]
    BY DEF Only
  <2> HIDE DEF payload
  <2> QED
    BY <2>1, Telling
<1> HIDE DEF payload
<1>4. Creation(Of(e), [set |-> Body(e), audit |-> payload], Body(e))
  BY <1>2, <1>3 DEF Creation, IsRow, Made
<1>10. req[e].op = "create" /\ pc[e] = "insert"
  BY <1>1 DEF Doing
<1> QED
  BY <1>1, <1>4, <1>10, FlushKeeps

LEMMA UpdateSourceKeeps ==
  ASSUME CInv, NEW e \in Edit, UpdateSource(e)
  PROVE  CInv'
<1> DEFINE merged == Merged(seen[e], Body(e))
           set == Changed(merged, seen[e])
<1>1. /\ Doing(e, "edit", Source)
      /\ (DOMAIN set = {} \/ Free(e, Of(e)))
      /\ Flush(e, set, None)
  BY DEF UpdateSource
<1>2. /\ Of(e) \in Source /\ Of(e) \in Object /\ Of(e) \notin Key \cup Template
      /\ Columns(Of(e)) = {"name", "config"}
      /\ DOMAIN Body(e) \subseteq Columns(Of(e))
      /\ IsRow(Of(e), seen[e]) /\ rows[Of(e)] # None
      /\ ~overlap => seen[e] = rows[Of(e)]
  <2>1. Of(e) \in Source /\ Of(e) \in Object
    BY <1>1, Caller
  <2>2. Columns(Of(e)) = {"name", "config"} /\ Of(e) \notin Key \cup Template
    BY <2>1, Kinds
  <2> QED
    BY <1>1, <2>1, <2>2, Editor
<1>3. DOMAIN merged = Columns(Of(e)) /\ HasColumns(merged, Columns(Of(e)))
  <2> DEFINE first == IF "config" \in DOMAIN Body(e)
                      THEN [config |-> Body(e)["config"] ++ seen[e].config] ELSE <<>>
  <2>1. DOMAIN first \subseteq Columns(Of(e))
    <3>1. CASE "config" \in DOMAIN Body(e)
      BY <1>2, <3>1
    <3>2. CASE "config" \notin DOMAIN Body(e)
      BY <3>2, NoneFacts DEF None
    <3> QED
      BY <3>1, <3>2
  <2>2. merged = (first ++ Body(e)) ++ seen[e]
    BY DEF Merged
  <2> HIDE DEF first, merged
  <2>3. DOMAIN seen[e] = Columns(Of(e))
    BY <1>2, RowFacts
  <2>4. DOMAIN (first ++ Body(e)) \cup DOMAIN seen[e] = Columns(Of(e))
    BY <1>2, <2>1, <2>3 DEF ++
  <2> QED
    BY <2>2, <2>4, MergeFacts
<1>4. /\ HasColumns(set, DOMAIN set) /\ DOMAIN set \subseteq Columns(Of(e))
      /\ set ++ seen[e] = merged ++ seen[e]
  <2> HIDE DEF merged
  <2> QED
    BY <1>2, <1>3, WriteChanges DEF IsRow
<1>5. merged ++ seen[e] = merged
  <2> HIDE DEF merged
  <2>1. DOMAIN seen[e] = Columns(Of(e))
    BY <1>2, RowFacts
  <2>2. HasColumns(merged ++ seen[e], Columns(Of(e)))
    BY <1>3, <2>1, MergeFacts
  <2>3. \A c \in Columns(Of(e)) : (merged ++ seen[e])[c] = merged[c]
    BY <1>3 DEF ++
  <2> QED
    BY <1>3, <2>2, <2>3, SameRecord
<1>6. ASSUME ~overlap PROVE set ++ rows[Of(e)] = Edited(Of(e), rows[Of(e)], Body(e))
  <2>1. Edited(Of(e), rows[Of(e)], Body(e)) = merged
    BY <1>2, <1>6 DEF Edited
  <2> HIDE DEF set, merged
  <2> QED
    BY <1>2, <1>4, <1>5, <1>6, <2>1
<1> HIDE DEF set
<1>7. Edition(Of(e), [set |-> set, audit |-> None], Body(e))
  BY <1>2, <1>4, <1>6 DEF Edition
<1>10. req[e].op = "edit" /\ pc[e] = "flush"
  BY <1>1 DEF Doing
<1> QED
  BY <1>1, <1>7, <1>10, FlushKeeps

(* The row that a commit leaves behind.                                    *)
RowAfter(e) ==
  CASE tx[e].op = "create" -> tx[e].set
    [] tx[e].op = "edit" -> tx[e].set ++ rows[Of(e)]
    [] tx[e].op = "delete" -> None

LEMMA CommitFacts ==
  ASSUME CInv, NEW e \in Edit, Commit(e)
  PROVE  /\ req[e] \in Ask /\ Of(e) \in Object /\ tx[e].op = req[e].op
         /\ tx[e].op \in {"create", "edit", "delete"}
         /\ tx[e].op = "create" => Creation(Of(e), tx[e], Body(e)) /\ rows[Of(e)] = None
         /\ tx[e].op = "edit" => Edition(Of(e), tx[e], Body(e))
         /\ tx[e].op = "delete" => tx[e].audit = Deleted /\ Of(e) \in Key
         /\ RowAfter(e) = None \/ IsRow(Of(e), RowAfter(e))
         /\ tx[e].op # "delete" => RowAfter(e) # None
<1>1. pc[e] = "commit" /\ req[e] \in Ask /\ tx[e].op = req[e].op
  BY DEF Commit, CInv, Standing, Open
<1>2. Of(e) \in Object /\ req[e].op \in {"create", "edit", "delete"}
      /\ (req[e].op = "delete" => Of(e) \in Key)
  BY <1>1, AskFacts DEF Of
<1>3. Written(e) /\ Creates(e)
  BY DEF CInv
<1>4. /\ tx[e].op = "create" => Creation(Of(e), tx[e], Body(e)) /\ rows[Of(e)] = None
      /\ tx[e].op = "edit" => Edition(Of(e), tx[e], Body(e))
      /\ tx[e].op = "delete" => tx[e].audit = Deleted
  BY <1>1, <1>3 DEF Written, Creates, Open
<1>5. CASE tx[e].op = "create"
  <2>1. RowAfter(e) = tx[e].set /\ IsRow(Of(e), tx[e].set)
    BY <1>4, <1>5 DEF RowAfter, Creation
  <2> QED
    BY <1>1, <1>2, <1>4, <1>5, <2>1, RowFacts
<1>6. CASE tx[e].op = "edit"
  <2>1. RowAfter(e) = tx[e].set ++ rows[Of(e)]
    BY <1>6 DEF RowAfter
  <2>2. IsRow(Of(e), rows[Of(e)])
    BY <1>2, <1>4, <1>6 DEF CInv, RowsOK, Edition
  <2>3. /\ DOMAIN tx[e].set \subseteq Columns(Of(e))
        /\ Of(e) \in Template /\ "version" \in DOMAIN tx[e].set => tx[e].set.version \in Nat
    BY <1>4, <1>6 DEF Edition
  <2>4. IsRow(Of(e), RowAfter(e))
    BY <1>2, <2>1, <2>2, <2>3, MergedRow
  <2> QED
    BY <1>1, <1>2, <1>4, <1>6, <2>4, RowFacts
<1>7. CASE tx[e].op = "delete"
  BY <1>1, <1>2, <1>4, <1>7 DEF RowAfter
<1> QED
  BY <1>1, <1>2, <1>5, <1>6, <1>7

LEMMA CommitStep ==
  ASSUME CInv, NEW e \in Edit, Commit(e)
  PROVE  /\ Step(e) /\ pc'[e] = "done" /\ req'[e] = None /\ tx'[e] = None
         /\ rows' = [rows EXCEPT ![Of(e)] = RowAfter(e)]
         /\ rows'[Of(e)] = RowAfter(e)
         /\ audit'[Of(e)] = IF tx[e].audit = None THEN audit[Of(e)] ELSE tx[e].audit
         /\ \A o \in Object \ {Of(e)} : rows'[o] = rows[o] /\ audit'[o] = audit[o]
<1>1. /\ HasColumns(pc, Edit) /\ HasColumns(req, Edit)
      /\ HasColumns(seen, Edit) /\ HasColumns(tx, Edit)
      /\ HasColumns(rows, Object) /\ HasColumns(audit, Object) /\ Of(e) \in Object
  BY CommitFacts DEF CInv, Shapes
<1>2. Close(e) /\ overlap' = overlap
  BY DEF Commit
<1>3. HasColumns(pc', Edit) /\ pc'[e] = "done" /\ \A d \in Edit \ {e} : pc'[d] = pc[d]
  BY <1>1, <1>2 DEF Close, HasColumns
<1>4. HasColumns(req', Edit) /\ req'[e] = None /\ \A d \in Edit \ {e} : req'[d] = req[d]
  BY <1>1, <1>2 DEF Close, HasColumns
<1>5. HasColumns(seen', Edit) /\ \A d \in Edit \ {e} : seen'[d] = seen[d]
  BY <1>1, <1>2 DEF Close, HasColumns
<1>6. HasColumns(tx', Edit) /\ tx'[e] = None /\ \A d \in Edit \ {e} : tx'[d] = tx[d]
  BY <1>1, <1>2 DEF Close, HasColumns
<1>7. rows' = [rows EXCEPT ![Of(e)] = RowAfter(e)]
  BY DEF Commit, RowAfter
<1>8. HasColumns(rows', Object) /\ rows'[Of(e)] = RowAfter(e)
      /\ \A o \in Object \ {Of(e)} : rows'[o] = rows[o]
  BY <1>1, <1>7 DEF HasColumns
<1>9. /\ HasColumns(audit', Object)
      /\ audit'[Of(e)] = IF tx[e].audit = None THEN audit[Of(e)] ELSE tx[e].audit
      /\ \A o \in Object \ {Of(e)} : audit'[o] = audit[o]
  BY <1>1 DEF Commit, HasColumns
<1>10. Shapes'
  BY <1>2, <1>3, <1>4, <1>5, <1>6, <1>8, <1>9 DEF CInv, Shapes
<1> QED
  BY <1>2, <1>3, <1>4, <1>5, <1>6, <1>7, <1>8, <1>9, <1>10 DEF Step

(* Two calls at their commits have not both written one row, so that a     *)
(* commit leaves true what the others have written.                        *)
LEMMA CommitKeeps ==
  ASSUME CInv, NEW e \in Edit, Commit(e)
  PROVE  CInv'
<1> DEFINE o == Of(e)
<1>1. /\ Step(e) /\ pc'[e] = "done" /\ req'[e] = None /\ tx'[e] = None
      /\ rows'[o] = RowAfter(e) /\ \A p \in Object \ {o} : rows'[p] = rows[p]
  BY CommitStep
<1>2. pc[e] = "commit" /\ Open(e) /\ o \in Object
  BY CommitFacts DEF Commit, Open
<1>3. RowsOK'
  <2>1. ASSUME NEW p \in Object, rows'[p] # None PROVE IsRow(p, rows'[p])
    BY <1>1, <2>1, CommitFacts DEF CInv, RowsOK
  <2> QED
    BY <2>1 DEF RowsOK
<1>4. ASSUME NEW d \in Edit \ {e}
      PROVE  Standing(d)' /\ Loaded(d)' /\ Written(d)' /\ Creates(d)'
  <2>1. /\ pc'[d] = pc[d] /\ req'[d] = req[d] /\ seen'[d] = seen[d] /\ tx'[d] = tx[d]
        /\ overlap' = overlap /\ Of(d)' = Of(d)
        /\ Standing(d) /\ Loaded(d) /\ Written(d) /\ Creates(d)
        /\ Open(d) => Of(d) \in Object /\ req[d] \in Ask
    <3>1. Open(d) => Of(d) \in Object /\ req[d] \in Ask
      BY AskFacts DEF CInv, Standing, Of
    <3> QED
      BY <1>1, <3>1 DEF CInv, Step, Of
  <2>2. Creates(d)'
    <3>1. Open(d) /\ req[d].op = "create" => Of(d) # o
      BY <1>2, <2>1 DEF Creates
    <3> QED
      BY <1>1, <2>1, <3>1 DEF Creates, Open, Of, Step
  <2>3. CASE ~Open(d) \/ Of(d) # o
    BY <1>1, <2>1, <2>2, <2>3, Frame
  <2>4. CASE Open(d) /\ Of(d) = o
    <3>1. overlap
      BY <1>2, <2>4 DEF CInv, Alone
    <3>2. Standing(d)'
      BY <2>1 DEF Standing, Open
    <3>3. ASSUME o \notin Key PROVE rows'[o] # None
      BY <1>1, <3>3, CommitFacts
    <3>4. Loaded(d)'
      BY <2>1, <2>4, <3>1, <3>3 DEF Loaded
    <3>5. ASSUME pc[d] = "commit", tx[d].op = "edit"
          PROVE  Edition(o, tx[d], Body(d)) /\ rows'[o] # None /\ o \in Source
      <4>1. Edition(o, tx[d], Body(d)) /\ tx[d] # None
        BY <2>1, <2>4, <3>5 DEF Written, Standing
      <4>2. ASSUME o \notin Source PROVE FALSE
        <5>1. Holds(d, o)
          BY <2>4, <4>1, <4>2 DEF Holds, Edition
        <5>2. tx[e] # None /\ (tx[e].op = "edit" => DOMAIN tx[e].set # {})
          BY <1>2, <4>2, CommitFacts DEF CInv, Standing, Edition
        <5>3. Holds(e, o)
          BY <5>2 DEF Holds
        <5> QED
          BY <5>1, <5>3 DEF CInv, Locked
      <4>3. o \in Source /\ o \notin Key
        BY <1>2, <4>2, Kinds
      <4> QED
        BY <3>3, <4>1, <4>3
    <3>6. tx[d].op = "create" => pc[d] # "commit"
      BY <1>2, <2>1, <2>4 DEF Creates, Standing
    <3>7. Written(d)'
      <4>1. Body(d)' = Body(d)
        BY <2>1 DEF Body
      <4>2. ASSUME pc[d] = "commit", tx[d].op = "edit"
            PROVE  Edition(Of(d), tx[d], Body(d))'
        BY <2>1, <2>4, <3>1, <3>5, <4>1, <4>2 DEF Edition
      <4> QED
        BY <2>1, <2>4, <3>6, <4>1, <4>2 DEF Written
    <3> QED
      BY <2>2, <3>2, <3>4, <3>7
  <2> QED
    BY <2>3, <2>4
<1>5. Standing(e)' /\ Loaded(e)' /\ Written(e)' /\ Creates(e)'
  BY <1>1 DEF Standing, Loaded, Written, Creates, Open
<1>6. ASSUME NEW c \in Edit, NEW d \in Edit, c # d PROVE Locked(c, d)' /\ Alone(c, d)'
  <2>1. CASE c = e \/ d = e
    BY <1>1, <2>1 DEF Locked, Alone, Holds, Open
  <2>2. CASE c # e /\ d # e
    BY <1>1, <1>6, <2>2 DEF CInv, Step, Locked, Alone, Holds, Of, Open
  <2> QED
    BY <2>1, <2>2
<1> QED
  BY <1>1, <1>3, <1>4, <1>5, <1>6 DEF CInv, Step

LEMMA InitCInv == Init => CInv
<1> SUFFICES ASSUME Init PROVE CInv
  OBVIOUS
<1>1. Shapes
  BY SeedAssumption DEF Init, Shapes, HasColumns
<1>2. RowsOK
  BY SeedAssumption DEF Init, RowsOK
<1>3. \A e \in Edit : pc[e] = "idle" /\ req[e] = None /\ tx[e] = None
  BY DEF Init
<1>4. \A e \in Edit : Standing(e) /\ Creates(e) /\ Loaded(e) /\ Written(e)
  BY <1>3 DEF Standing, Creates, Loaded, Written, Open
<1>5. \A e, d \in Edit : Locked(e, d) /\ Alone(e, d)
  BY <1>3 DEF Locked, Alone, Holds, Open
<1> QED
  BY <1>1, <1>2, <1>4, <1>5 DEF CInv

LEMMA NextCInv == CInv /\ [ChatNext]_chatVars => CInv'
<1> SUFFICES ASSUME CInv, [ChatNext]_chatVars PROVE CInv'
  OBVIOUS
<1>1. CASE UNCHANGED vars
  <2>1. Shapes' /\ RowsOK'
    BY <1>1 DEF CInv, Shapes, RowsOK, vars
  <2>2. \A e \in Edit : Standing(e)' /\ Loaded(e)' /\ Written(e)'
    BY <1>1, Frame DEF CInv, vars
  <2>3. \A e \in Edit : Creates(e)'
    BY <1>1 DEF CInv, Creates, Open, Of, vars
  <2>4. \A e, d \in Edit : e # d => Locked(e, d)' /\ Alone(e, d)'
    BY <1>1 DEF CInv, Locked, Alone, Holds, Open, Of, vars
  <2> QED
    BY <2>1, <2>2, <2>3, <2>4 DEF CInv
<1>2. ASSUME NEW e \in Edit, Begin(e) \/ Abort(e) PROVE CInv'
  BY <1>2, BeginKeeps, CloseKeeps DEF Abort
<1>3. ASSUME NEW e \in Edit, Serve(e, Referred) PROVE CInv'
  <2>1. CASE LoadRow(e)
    BY <2>1, LoadRowKeeps
  <2>2. CASE CreateKey(e) \/ PatchKey(e)
    BY <2>2, CreateKeyKeeps, PatchKeyKeeps
  <2>3. CASE DeleteKey(e, Referred)
    BY <2>3, DeleteKeyKeeps
  <2>4. CASE UpdateSetting(e)
    BY <2>4, UpdateSettingKeeps
  <2>5. CASE CreateTemplate(e) \/ UpdateTemplate(e)
    BY <2>5, CreateTemplateKeeps, UpdateTemplateKeeps
  <2>6. CASE RefuseConfig(e)
    BY <2>6, CloseKeeps DEF RefuseConfig, Leave
  <2>7. CASE CreateSource(e) \/ UpdateSource(e)
    BY <2>7, CreateSourceKeeps, UpdateSourceKeeps
  <2>8. CASE Commit(e)
    BY <2>8, CommitKeeps
  <2> QED
    BY <1>3, <2>1, <2>2, <2>3, <2>4, <2>5, <2>6, <2>7, <2>8 DEF Serve
<1> QED
  BY <1>1, <1>2, <1>3 DEF ChatNext, WorkStep, EditStep, Next, chatVars

(* What the database holds, what every open call has loaded and flushed,   *)
(* and who may write what: the invariant the theorems below rest on.       *)
THEOREM ConfigurationInductive == ChatSpec => []CInv
BY InitCInv, NextCInv, PTL DEF ChatSpec, ChatInit

(* Rows and audit rows are written by commits alone.                       *)
LEMMA OnlyCommits ==
  ASSUME [ChatNext]_chatVars, ~\E e \in Edit : Commit(e)
  PROVE  rows' = rows /\ audit' = audit /\ overlap' = overlap
<1>1. CASE UNCHANGED vars
  BY <1>1 DEF vars
<1>2. ASSUME NEW e \in Edit, Begin(e) \/ Abort(e) \/ Serve(e, Referred)
      PROVE  rows' = rows /\ audit' = audit /\ overlap' = overlap
  BY <1>2 DEF Begin, Abort, Serve, LoadRow, CreateKey, PatchKey, DeleteKey, UpdateSetting,
     CreateTemplate, UpdateTemplate, RefuseConfig, CreateSource, UpdateSource, Leave, Flush
<1> QED
  BY <1>1, <1>2 DEF ChatNext, WorkStep, EditStep, Next, chatVars

(* The latest audit row of a key, a setting or a template tells what its   *)
(* row holds, with overlapping calls of any number of admins: a call that  *)
(* flushed after it loaded has the row to itself until it commits.         *)
THEOREM AuditAlwaysShowsRow == ChatSpec => []AuditShowsRow
<1>1. Init => AuditShowsRow
  <2>1. DOMAIN Deleted = {"deleted"}
    BY DEF Deleted
  <2>2. None # Deleted
    BY <2>1, NoneFacts
  <2> QED
    BY <2>2 DEF Init, AuditShowsRow, Object
<1>2. ASSUME CInv, AuditShowsRow, [ChatNext]_chatVars PROVE AuditShowsRow'
  <2>1. CASE ~\E e \in Edit : Commit(e)
    BY <1>2, <2>1, OnlyCommits DEF AuditShowsRow
  <2>2. ASSUME NEW e \in Edit, Commit(e) PROVE AuditShowsRow'
    <3>1. ASSUME NEW o \in Key \cup Setting \cup Template
          PROVE  /\ audit'[o] = Deleted => rows'[o] = None
                 /\ audit'[o] \notin {None, Deleted} =>
                      rows'[o] # None /\ \A c \in DOMAIN audit'[o] : rows'[o][c] = audit'[o][c]
      <4>1. o \in Object /\ o \notin Source
        BY Kinds DEF Object
      <4>2. CASE o # Of(e)
        BY <1>2, <2>2, <4>1, <4>2, CommitStep DEF AuditShowsRow
      <4>3. CASE o = Of(e)
        <5>1. /\ rows'[o] = RowAfter(e)
              /\ audit'[o] = IF tx[e].audit = None THEN audit[o] ELSE tx[e].audit
          BY <1>2, <2>2, <4>3, CommitStep
        <5>2. CASE tx[e].op = "create"
          <6>1. Tells(tx[e].audit, RowAfter(e)) /\ RowAfter(e) # None
            BY <1>2, <2>2, <5>2, CommitFacts DEF Creation, RowAfter
          <6> QED
            BY <5>1, <6>1 DEF Tells
        <5>3. CASE tx[e].op = "edit"
          <6>1. Tells(tx[e].audit, RowAfter(e)) /\ RowAfter(e) # None
            BY <1>2, <2>2, <4>1, <4>3, <5>3, CommitFacts DEF Edition, RowAfter
          <6> QED
            BY <5>1, <6>1 DEF Tells
        <5>4. CASE tx[e].op = "delete"
          <6>1. tx[e].audit = Deleted /\ RowAfter(e) = None
            BY <1>2, <2>2, <5>4, CommitFacts DEF RowAfter
          <6>2. DOMAIN Deleted = {"deleted"}
            BY DEF Deleted
          <6>3. Deleted # None
            BY <6>2, NoneFacts
          <6> QED
            BY <5>1, <6>1, <6>3
        <5> QED
          BY <1>2, <2>2, <5>2, <5>3, <5>4, CommitFacts
      <4> QED
        BY <4>2, <4>3
    <3> QED
      BY <3>1 DEF AuditShowsRow
  <2> QED
    BY <2>1, <2>2
<1> QED
  BY <1>1, <1>2, ConfigurationInductive, PTL DEF ChatSpec, ChatInit

(* The objects as Registry sees them.                                      *)
Mapped == [o \in Object |-> IF overlap /\ o \in Template \cup Source THEN None ELSE rows[o]]

(* Every commit is a whole call of the registry, or changes nothing of it. *)
LEMMA CommitIsCall ==
  ASSUME CInv, NEW e \in Edit, Commit(e)
  PROVE  Registered!Next \/ Mapped' = Mapped
<1> DEFINE o == Of(e)
<1>1. /\ o \in Object /\ rows'[o] = RowAfter(e) /\ overlap' = overlap
      /\ \A p \in Object \ {o} : rows'[p] = rows[p]
  BY CommitFacts, CommitStep DEF Step
<1>2. CASE overlap /\ o \in Template \cup Source
  BY <1>1, <1>2 DEF Mapped
<1>3. CASE ~(overlap /\ o \in Template \cup Source)
  <2>1. Mapped[o] = rows[o] /\ Mapped' = [Mapped EXCEPT ![o] = RowAfter(e)]
    BY <1>1, <1>3 DEF Mapped
  <2>2. PICK p \in Object, b \in Ask : p = o /\ b = req[e] /\ b.of = p /\ Body(e) = b.set
    BY CommitFacts DEF Of, Body
  <2>3. CASE tx[e].op = "create"
    <3>1. rows[o] = None /\ RowAfter(e) = Made(o, Body(e))
      BY <2>3, CommitFacts DEF Creation, RowAfter
    <3>2. Registered!Create(p, b.set)
      BY <2>1, <2>2, <3>1 DEF Registered!Create, Mapped
    <3> QED
      BY <2>2, <3>2 DEF Registered!Next
  <2>4. CASE tx[e].op = "edit"
    <3>1. rows[o] # None /\ RowAfter(e) = Edited(o, rows[o], Body(e))
      BY <1>3, <2>4, CommitFacts DEF Edition, RowAfter
    <3>2. Registered!Apply(p, b.set)
      BY <2>1, <2>2, <3>1 DEF Registered!Apply, Mapped
    <3> QED
      BY <2>2, <3>2 DEF Registered!Next
  <2>5. CASE tx[e].op = "delete"
    <3>1. RowAfter(e) = None
      BY <2>5 DEF RowAfter
    <3>2. CASE rows[o] = None
      BY <1>1, <2>1, <3>1, <3>2 DEF Mapped
    <3>3. CASE rows[o] # None
      <4>1. Registered!Delete(p)
        BY <2>1, <2>2, <3>1, <3>3 DEF Registered!Delete, Mapped
      <4> QED
        BY <4>1 DEF Registered!Next
    <3> QED
      BY <3>2, <3>3
  <2> QED
    BY <2>3, <2>4, <2>5, CommitFacts
<1> QED
  BY <1>2, <1>3

(* Calls on keys and settings, and those on templates and sources as long  *)
(* as calls do not overlap, implement the registry: every commit applies   *)
(* one call as a whole to the object as it is at that moment.              *)
THEOREM ConfigurationIsRegistry == ChatSpec => RegistrySpec
<1>1. Init => Registered!Init
  BY DEF Init, Registered!Init
<1>2. ASSUME CInv, [ChatNext]_chatVars PROVE Registered!Next \/ Mapped' = Mapped
  <2>1. CASE ~\E e \in Edit : Commit(e)
    BY <1>2, <2>1, OnlyCommits DEF Mapped
  <2>2. ASSUME NEW e \in Edit, Commit(e) PROVE Registered!Next \/ Mapped' = Mapped
    BY <1>2, <2>2, CommitIsCall
  <2> QED
    BY <2>1, <2>2
<1>3. CInv /\ [ChatNext]_chatVars =>
        [Registered!Next]_([o \in Object |-> IF overlap /\ o \in Template \cup Source
                                             THEN None ELSE rows[o]])
  BY <1>2 DEF Mapped
<1> QED
  BY <1>1, <1>3, ConfigurationInductive, PTL
     DEF ChatSpec, ChatInit, RegistrySpec, Registered!Spec

-----------------------------------------------------------------------------
(* The client of a transaction.                                            *)

(* The key i places after the current one.                                 *)
At(w, i) == providers[w][((index[w] + i) % Size(w)) + 1]

(* A client holds its keys once each, and the index points at one of them. *)
ClientOK(w) ==
  /\ providers[w] \in Seq(Key)
  /\ \A i, j \in 1..Size(w) : providers[w][i] = providers[w][j] => i = j
  /\ index[w] \in Nat /\ (Size(w) > 0 => index[w] < Size(w))
  /\ answers[w] \in Seq(Key) /\ logged[w] \in Nat

Stage ==
  {"idle", "retrieve", "complete", "log", "history", "commit", "done", "failed"}

(* While a key is looked for, those before it have refused; the last that  *)
(* answered is the one before the current.                                 *)
Searching(w) ==
  /\ stage[w] \in {"idle", "retrieve"} =>
       attempt[w] = 0 /\ refused[w] = {} /\ answers[w] = <<>> /\ index[w] = 0
  /\ stage[w] = "complete" =>
       /\ attempt[w] \in 0..Size(w)
       /\ refused[w] = {At(w, i) : i \in 0..(attempt[w] - 1)}
  /\ stage[w] \in {"complete", "log"} /\ answers[w] # <<>> =>
       Size(w) > 0 /\ Last(answers[w]) = At(w, Size(w) - 1)

(* Every answer is booked before anything else happens.                    *)
Booked(w) ==
  /\ stage[w] \in Stage
  /\ stage[w] = "log" => Len(answers[w]) = logged[w] + 1
  /\ stage[w] # "log" => Len(answers[w]) = logged[w]

WInv ==
  /\ HasColumns(stage, Work) /\ HasColumns(providers, Work) /\ HasColumns(index, Work)
  /\ HasColumns(attempt, Work) /\ HasColumns(refused, Work) /\ HasColumns(answers, Work)
  /\ HasColumns(logged, Work)
  /\ \A w \in Work : ClientOK(w) /\ Searching(w) /\ Booked(w)

(* A key that a usage row refers to, committed or not, is there, and no    *)
(* open call deletes it while the row is not committed.                    *)
Deletes(k) == \E e \in Edit : pc[e] = "commit" /\ tx[e].op = "delete" /\ Of(e) = k
UsageHasKey ==
  /\ \A r \in usage : rows[r[3]] # None
  /\ \A k \in Referred : rows[k] # None /\ ~Deletes(k)

(* The remainder of what is less than two rounds.                          *)
LEMMA Round ==
  ASSUME NEW n \in Nat \ {0}, NEW y \in 0..(2 * n - 1)
  PROVE  y % n = IF y < n THEN y ELSE y - n
<1>1. CASE y < n
  BY <1>1
<1>2. CASE ~(y < n)
  BY <1>2
<1> QED
  BY <1>1, <1>2

(* Each active key has its place: as many places as keys, none twice.      *)
LEMMA Places ==
  /\ ActiveKeys \in Seq(Key)
  /\ \A i, j \in 1..Len(ActiveKeys) : ActiveKeys[i] = ActiveKeys[j] => i = j
<1> DEFINE active == {k \in Key : rows[k] # None /\ rows[k].active}
           Before(k) == {l \in active : Rank[l] < Rank[k]}
           n == Cardinality(active)
           f == [k \in active |-> Cardinality(Before(k))]
<1>1. active \in SUBSET Key /\ IsFiniteSet(active) /\ n \in Nat
  <2>1. active \in SUBSET Object
    BY DEF Object
  <2> HIDE DEF active
  <2>2. IsFiniteSet(active)
    BY <2>1, KindAssumption, FS_Subset
  <2> USE DEF active
  <2> QED
    BY <2>2, FS_CardinalityType
<1>2. /\ \A k \in active : Rank[k] \in Nat
      /\ \A k, l \in active : Rank[k] = Rank[l] => k = l
  BY RankAssumption
<1>3. ActiveKeys = [i \in 1..n |-> CHOOSE k \in active : Cardinality(Before(k)) = i - 1]
  BY DEF ActiveKeys
<1> HIDE DEF active
<1>4. ASSUME NEW k \in active
      PROVE  IsFiniteSet(Before(k)) /\ Cardinality(Before(k)) \in 0..(n - 1)
  <2>1. Before(k) \in SUBSET (active \ {k})
    BY <1>2
  <2>2. IsFiniteSet(active \ {k}) /\ Cardinality(active \ {k}) = n - 1
    BY <1>1, FS_RemoveElement
  <2> HIDE DEF Before, n
  <2>3. IsFiniteSet(Before(k)) /\ Cardinality(Before(k)) <= n - 1
    BY <2>1, <2>2, FS_Subset
  <2> QED
    BY <1>1, <2>3, FS_CardinalityType
<1>5. ASSUME NEW k \in active, NEW l \in active, Rank[k] < Rank[l]
      PROVE  Cardinality(Before(k)) < Cardinality(Before(l))
  <2>1. Before(k) \in SUBSET Before(l) /\ k \in Before(l) /\ k \notin Before(k)
    BY <1>2, <1>5
  <2>2. IsFiniteSet(Before(l)) /\ Cardinality(Before(l)) \in Nat /\ Cardinality(Before(k)) \in Nat
    <3> HIDE DEF Before, n
    <3> QED
      BY <1>1, <1>4
  <2> HIDE DEF Before
  <2>3. Before(k) # Before(l)
    BY <2>1
  <2> QED
    BY <2>1, <2>2, <2>3, FS_Subset
<1>6. f \in Injection(active, 0..(n - 1))
  <2>1. f \in [active -> 0..(n - 1)]
    BY <1>4
  <2>2. ASSUME NEW k \in active, NEW l \in active, f[k] = f[l] PROVE k = l
    <3>1. Cardinality(Before(k)) = Cardinality(Before(l))
      BY <2>2
    <3>2. Cardinality(Before(k)) \in Nat /\ Cardinality(Before(l)) \in Nat
      <4> HIDE DEF Before, n
      <4> QED
        BY <1>1, <1>4
    <3>3. ~(Rank[k] < Rank[l]) /\ ~(Rank[l] < Rank[k])
      <4> HIDE DEF Before
      <4> QED
        BY <1>5, <3>1, <3>2
    <3> QED
      BY <1>2, <3>3
  <2> HIDE DEF f
  <2> QED
    BY <2>1, <2>2 DEF Injection, IsInjective
<1>7. f \in Surjection(active, 0..(n - 1))
  <2> HIDE DEF f, n
  <2>1. IsFiniteSet(0..(n - 1)) /\ Cardinality(0..(n - 1)) = n
    BY <1>1, FS_Interval
  <2>2. Cardinality(active) = n
    BY DEF n
  <2> QED
    BY <1>6, <2>1, <2>2, FS_Injection
<1>8. ASSUME NEW i \in 1..n
      PROVE  ActiveKeys[i] \in active /\ Cardinality(Before(ActiveKeys[i])) = i - 1
  <2>1. i - 1 \in 0..(n - 1)
    BY <1>1
  <2>2. \E k \in active : f[k] = i - 1
    <3> HIDE DEF f, n
    <3> QED
      BY <1>7, <2>1 DEF Surjection
  <2>3. \E k \in active : Cardinality(Before(k)) = i - 1
    BY <2>2
  <2>4. ActiveKeys[i] = CHOOSE k \in active : Cardinality(Before(k)) = i - 1
    BY <1>3
  <2> HIDE DEF Before
  <2> QED
    BY <2>3, <2>4
<1>9. ActiveKeys \in [1..n -> Key] /\ Len(ActiveKeys) = n /\ ActiveKeys \in Seq(Key)
  <2>1. ActiveKeys \in [1..n -> Key]
    BY <1>1, <1>3, <1>8
  <2> HIDE DEF n
  <2> QED
    BY <1>1, <2>1
<1>10. ASSUME NEW i \in 1..n, NEW j \in 1..n, ActiveKeys[i] = ActiveKeys[j] PROVE i = j
  <2>1. i - 1 = j - 1
    <3> HIDE DEF Before, n
    <3> QED
      BY <1>8, <1>10
  <2> HIDE DEF n
  <2> QED
    BY <1>1, <2>1
<1> QED
  BY <1>9, <1>10

(* Of a step of w, what the other transactions see.                        *)
WStep(w) ==
  /\ HasColumns(stage, Work)' /\ HasColumns(providers, Work)' /\ HasColumns(index, Work)'
  /\ HasColumns(attempt, Work)' /\ HasColumns(refused, Work)' /\ HasColumns(answers, Work)'
  /\ HasColumns(logged, Work)'
  /\ \A v \in Work \ {w} :
       /\ stage'[v] = stage[v] /\ providers'[v] = providers[v] /\ index'[v] = index[v]
       /\ attempt'[v] = attempt[v] /\ refused'[v] = refused[v] /\ answers'[v] = answers[v]
       /\ logged'[v] = logged[v]

LEMMA WKeeps ==
  ASSUME WInv, NEW w \in Work, WStep(w), ClientOK(w)', Searching(w)', Booked(w)'
  PROVE  WInv'
<1>1. ASSUME NEW v \in Work \ {w} PROVE ClientOK(v)' /\ Searching(v)' /\ Booked(v)'
  <2>1. ClientOK(v) /\ Searching(v) /\ Booked(v)
    BY DEF WInv
  <2>2. ClientOK(v)'
    BY <2>1 DEF WStep, ClientOK, Size
  <2>3. Searching(v)'
    <3>1. Size(v)' = Size(v) /\ \A i : At(v, i)' = At(v, i)
      BY DEF WStep, Size, At
    <3> QED
      BY <2>1, <3>1 DEF WStep, Searching
  <2> QED
    BY <2>1, <2>2, <2>3 DEF WStep, Booked
<1> QED
  BY <1>1 DEF WInv, WStep

LEMMA BuildKeeps ==
  ASSUME WInv, NEW w \in Work, Build(w)
  PROVE  WInv'
<1>1. /\ WStep(w) /\ providers'[w] = ActiveKeys /\ stage'[w] \in {"retrieve", "complete"}
      /\ index'[w] = index[w] /\ attempt'[w] = attempt[w] /\ refused'[w] = refused[w]
      /\ answers'[w] = answers[w] /\ logged'[w] = logged[w]
  BY DEF WInv, HasColumns, WStep, Build, To
<1>2. /\ attempt[w] = 0 /\ refused[w] = {} /\ answers[w] = <<>> /\ index[w] = 0
      /\ ClientOK(w) /\ Booked(w)
  BY DEF WInv, Searching, Build
<1>3. ClientOK(w)'
  <2>1. Len(ActiveKeys) \in Nat
    BY Places
  <2> QED
    BY <1>1, <1>2, <2>1, Places DEF ClientOK, Size
<1>4. Searching(w)'
  <2>1. Size(w)' \in Nat /\ attempt'[w] = 0 /\ refused'[w] = {} /\ answers'[w] = <<>>
        /\ index'[w] = 0
    BY <1>1, <1>2, Places DEF Size
  <2>2. {At(w, i)' : i \in 0..(attempt'[w] - 1)} = {}
    BY <2>1
  <2> QED
    BY <1>1, <2>1, <2>2 DEF Searching
<1>5. Booked(w)'
  BY <1>1, <1>2 DEF Booked, Stage, Build
<1> QED
  BY <1>1, <1>3, <1>4, <1>5, WKeeps

(* The end of a transaction clears its client.                             *)
LEMMA EndKeeps ==
  ASSUME WInv, NEW w \in Work, NEW s \in {"failed", "done"}, End(w, s)
  PROVE  WInv'
<1>1. /\ WStep(w) /\ providers'[w] = <<>> /\ stage'[w] = s /\ index'[w] = 0
      /\ attempt'[w] = 0 /\ refused'[w] = {} /\ answers'[w] = <<>> /\ logged'[w] = 0
  BY DEF WInv, HasColumns, WStep, End, To
<1>2. ClientOK(w)' /\ Searching(w)' /\ Booked(w)'
  BY <1>1 DEF ClientOK, Searching, Booked, Size, Stage
<1> QED
  BY <1>1, <1>2, WKeeps

(* What does not touch the client, and no answer.                          *)
LEMMA PassKeeps ==
  ASSUME WInv, NEW w \in Work, Retrieve(w) \/ WriteHistory(w)
  PROVE  WInv'
<1>1. /\ WStep(w) /\ stage'[w] \in {"complete", "history", "commit"}
      /\ stage'[w] = "complete" => stage[w] = "retrieve"
      /\ providers'[w] = providers[w] /\ index'[w] = index[w] /\ attempt'[w] = attempt[w]
      /\ refused'[w] = refused[w] /\ answers'[w] = answers[w] /\ logged'[w] = logged[w]
      /\ stage[w] # "log"
  BY DEF WInv, HasColumns, WStep, Retrieve, WriteHistory, To, client
<1>2. ClientOK(w) /\ Searching(w) /\ Booked(w)
  BY DEF WInv
<1>3. ClientOK(w)' /\ Booked(w)'
  BY <1>1, <1>2 DEF ClientOK, Size, Booked, Stage
<1>4. Searching(w)'
  <2>1. CASE stage'[w] # "complete"
    BY <1>1, <2>1 DEF Searching
  <2>2. CASE stage'[w] = "complete"
    <3>1. attempt'[w] = 0 /\ refused'[w] = {} /\ answers'[w] = <<>>
      BY <1>1, <1>2, <2>2 DEF Searching
    <3>2. {At(w, i)' : i \in 0..(attempt'[w] - 1)} = {}
      BY <3>1
    <3>3. Size(w)' \in Nat
      BY <1>3 DEF ClientOK, Size
    <3> QED
      BY <2>2, <3>1, <3>2, <3>3 DEF Searching
  <2> QED
    BY <2>1, <2>2
<1> QED
  BY <1>1, <1>3, <1>4, WKeeps

(* A round through n places from x meets every place once, and the place   *)
(* before the next is the one that was met.                                *)
Around(n, x) ==
  /\ \A a \in 0..(n - 1) : (x + a) % n \in 0..(n - 1)
  /\ \A a, b \in 0..(n - 1) : (x + a) % n = (x + b) % n => a = b
  /\ \A j \in 1..n : \E a \in 0..(n - 1) : ((x + a) % n) + 1 = j
  /\ \A a \in 0..(n - 1) :
       /\ (x + a + 1) % n \in 0..(n - 1)
       /\ (((x + a + 1) % n) + (n - 1)) % n = (x + a) % n

LEMMA AroundOnce == \A n \in Nat \ {0} : \A x \in 0..(n - 1) : Around(n, x)
<1> SUFFICES ASSUME NEW n \in Nat \ {0}, NEW x \in 0..(n - 1) PROVE Around(n, x)
  OBVIOUS
<1>1. \A a \in 0..(n - 1) : (x + a) % n = IF x + a < n THEN x + a ELSE x + a - n
  <2> TAKE a \in 0..(n - 1)
  <2> DEFINE y == x + a
  <2>1. y \in 0..(2 * n - 1)
    OBVIOUS
  <2>2. y % n = IF y < n THEN y ELSE y - n
    <3> HIDE DEF y
    <3> QED
      BY <2>1, Round
  <2> QED
    BY <2>2
<1>2. \A a \in 0..(n - 1) : (x + a + 1) % n = IF x + a + 1 < n THEN x + a + 1 ELSE x + a + 1 - n
  <2> TAKE a \in 0..(n - 1)
  <2> DEFINE y == x + a + 1
  <2>1. y \in 0..(2 * n - 1)
    OBVIOUS
  <2>2. y % n = IF y < n THEN y ELSE y - n
    <3> HIDE DEF y
    <3> QED
      BY <2>1, Round
  <2> QED
    BY <2>2
<1>3. ASSUME NEW j \in 1..n PROVE \E a \in 0..(n - 1) : ((x + a) % n) + 1 = j
  <2> DEFINE a == IF j - 1 >= x THEN j - 1 - x ELSE j - 1 - x + n
  <2>1. a \in 0..(n - 1) /\ (IF x + a < n THEN x + a ELSE x + a - n) = j - 1
    OBVIOUS
  <2>2. (x + a) % n = j - 1
    <3> HIDE DEF a
    <3> QED
      BY <1>1, <2>1
  <2>3. j - 1 + 1 = j
    OBVIOUS
  <2> HIDE DEF a
  <2>4. ((x + a) % n) + 1 = j
    BY <2>2, <2>3
  <2> QED
    BY <2>1, <2>4
<1>4. ASSUME NEW a \in 0..(n - 1)
      PROVE  /\ (x + a + 1) % n \in 0..(n - 1)
             /\ (((x + a + 1) % n) + (n - 1)) % n = (x + a) % n
  <2> DEFINE y == (x + a + 1) % n
  <2>1. y = IF x + a + 1 < n THEN x + a + 1 ELSE x + a + 1 - n
    BY <1>2
  <2> HIDE DEF y
  <2>2. y \in 0..(n - 1) /\ y + (n - 1) \in 0..(2 * n - 1)
    BY <2>1
  <2>3. (y + (n - 1)) % n = IF y + (n - 1) < n THEN y + (n - 1) ELSE (y + (n - 1)) - n
    <3> DEFINE z == y + (n - 1)
    <3>1. z \in 0..(2 * n - 1)
      BY <2>2
    <3>2. z % n = IF z < n THEN z ELSE z - n
      <4> HIDE DEF z
      <4> QED
        BY <3>1, Round
    <3> QED
      BY <3>2
  <2>4. (x + a) % n = IF x + a < n THEN x + a ELSE x + a - n
    BY <1>1
  <2>5. (y + (n - 1)) % n = (x + a) % n
    BY <2>1, <2>2, <2>3, <2>4
  <2> QED
    BY <2>2, <2>5 DEF y
<1>5. \A a \in 0..(n - 1) : (x + a) % n \in 0..(n - 1)
  BY <1>1
<1>6. \A a, b \in 0..(n - 1) : (x + a) % n = (x + b) % n => a = b
  BY <1>1
<1> QED
  BY <1>3, <1>4, <1>5, <1>6 DEF Around

(* The places of a client's keys, counted from the current one.            *)
LEMMA Turns ==
  ASSUME NEW w \in Work, ClientOK(w), Size(w) > 0
  PROVE  LET n == Size(w) IN
         /\ n \in Nat \ {0} /\ index[w] \in 0..(n - 1)
         /\ \A i \in 0..(n - 1) : At(w, i) \in Key
         /\ \A i, j \in 0..(n - 1) : At(w, i) = At(w, j) => i = j
         /\ {At(w, i) : i \in 0..(n - 1)} = {providers[w][i] : i \in 1..n}
<1> DEFINE n == Size(w)
           place(i) == ((index[w] + i) % n) + 1
<1>1. n \in Nat \ {0} /\ index[w] \in 0..(n - 1) /\ providers[w] \in Seq(Key) /\ Len(providers[w]) = n
  BY DEF ClientOK, Size
<1>2. /\ \A i \in 0..(n - 1) : place(i) \in 1..n
      /\ \A i, j \in 0..(n - 1) : place(i) = place(j) => i = j
      /\ \A j \in 1..n : \E i \in 0..(n - 1) : place(i) = j
  <2> HIDE DEF n
  <2>1. /\ \A a \in 0..(n - 1) : (index[w] + a) % n \in 0..(n - 1)
        /\ \A a, b \in 0..(n - 1) : (index[w] + a) % n = (index[w] + b) % n => a = b
        /\ \A j \in 1..n : \E a \in 0..(n - 1) : ((index[w] + a) % n) + 1 = j
    <3>1. Around(n, index[w])
      BY <1>1, AroundOnce
    <3> QED
      BY <3>1 DEF Around
  <2>2. ASSUME NEW i \in 0..(n - 1), NEW j \in 0..(n - 1), place(i) = place(j) PROVE i = j
    <3>1. (index[w] + i) % n \in 0..(n - 1) /\ (index[w] + j) % n \in 0..(n - 1)
      BY <2>1
    <3>2. (index[w] + i) % n = (index[w] + j) % n
      BY <1>1, <2>2, <3>1
    <3> QED
      BY <2>1, <3>2
  <2>3. ASSUME NEW i \in 0..(n - 1) PROVE place(i) \in 1..n
    <3>1. (index[w] + i) % n \in 0..(n - 1)
      BY <2>1
    <3> QED
      BY <1>1, <3>1
  <2> QED
    BY <2>1, <2>2, <2>3
<1>3. \A i : At(w, i) = providers[w][place(i)]
  BY DEF At
<1>4. \A j \in 1..n : providers[w][j] \in Key
  <2> HIDE DEF n
  <2> QED
    BY <1>1
<1>5. \A i, j \in 1..n : providers[w][i] = providers[w][j] => i = j
  BY DEF ClientOK
<1> HIDE DEF n, place
<1>6. \A i, j \in 0..(n - 1) : At(w, i) = At(w, j) => i = j
  BY <1>2, <1>3, <1>5
<1>7. {At(w, i) : i \in 0..(n - 1)} = {providers[w][i] : i \in 1..n}
  BY <1>2, <1>3
<1>8. \A i \in 0..(n - 1) : At(w, i) \in Key
  BY <1>2, <1>3, <1>4
<1> QED
  BY <1>1, <1>6, <1>7, <1>8 DEF n

LEMMA RefuseKeeps ==
  ASSUME WInv, NEW w \in Work, Refuse(w)
  PROVE  WInv'
<1>1. /\ WStep(w) /\ stage'[w] = stage[w] /\ providers'[w] = providers[w]
      /\ index'[w] = index[w] /\ attempt'[w] = attempt[w] + 1
      /\ refused'[w] = refused[w] \cup {At(w, attempt[w])}
      /\ answers'[w] = answers[w] /\ logged'[w] = logged[w]
      /\ stage[w] = "complete" /\ attempt[w] < Size(w)
  BY DEF WInv, HasColumns, WStep, Refuse, Completing, Asked, At
<1>2. ClientOK(w) /\ Searching(w) /\ Booked(w)
  BY DEF WInv
<1>3. ClientOK(w)' /\ Booked(w)'
  BY <1>1, <1>2 DEF ClientOK, Size, Booked
<1>4. Size(w)' = Size(w) /\ Size(w) \in Nat /\ \A i : At(w, i)' = At(w, i)
  BY <1>1, <1>2 DEF ClientOK, Size, At
<1>5. attempt[w] \in 0..Size(w) /\ refused[w] = {At(w, i) : i \in 0..(attempt[w] - 1)}
  BY <1>1, <1>2 DEF Searching
<1>6. attempt'[w] \in 0..Size(w)
  BY <1>1, <1>4, <1>5
<1>7. refused'[w] = {At(w, i) : i \in 0..(attempt'[w] - 1)}
  <2>1. 0..(attempt'[w] - 1) = 0..(attempt[w] - 1) \cup {attempt[w]}
    BY <1>1, <1>5, <1>4
  <2> QED
    BY <1>1, <1>5, <2>1
<1>8. Searching(w)'
  <2>1. answers[w] # <<>> => Size(w) > 0 /\ Last(answers[w]) = At(w, Size(w) - 1)
    BY <1>1, <1>2 DEF Searching
  <2> QED
    BY <1>1, <1>4, <1>6, <1>7, <2>1 DEF Searching
<1> QED
  BY <1>1, <1>3, <1>8, WKeeps

LEMMA AnswerKeeps ==
  ASSUME WInv, NEW w \in Work, Answer(w)
  PROVE  WInv'
<1>1. /\ WStep(w) /\ stage'[w] = "log" /\ providers'[w] = providers[w]
      /\ index'[w] = NextIndex(w)
      /\ answers'[w] = Append(answers[w], At(w, attempt[w])) /\ logged'[w] = logged[w]
      /\ stage[w] = "complete" /\ attempt[w] < Size(w)
  BY DEF WInv, HasColumns, WStep, Answer, Completing, Asked, At, To
<1>2. ClientOK(w) /\ Searching(w) /\ Booked(w)
  BY DEF WInv
<1> DEFINE n == Size(w)
           a == attempt[w]
<1>3. n \in Nat \ {0} /\ a \in 0..(n - 1) /\ index[w] \in 0..(n - 1) /\ n > 0
  BY <1>1, <1>2 DEF ClientOK, Size, Searching
<1>4. At(w, a) \in Key
  BY <1>2, <1>3, Turns
<1>5. index'[w] \in 0..(n - 1) /\ (index'[w] + (n - 1)) % n = (index[w] + a) % n
  <2> HIDE DEF n, a
  <2>1. /\ (index[w] + a + 1) % n \in 0..(n - 1)
        /\ (((index[w] + a + 1) % n) + (n - 1)) % n = (index[w] + a) % n
    <3>1. Around(n, index[w])
      BY <1>3, AroundOnce
    <3> QED
      BY <1>3, <3>1 DEF Around
  <2>2. index'[w] = (index[w] + a + 1) % n
    BY <1>1 DEF NextIndex, n, a
  <2> QED
    BY <2>1, <2>2
<1>6. /\ answers'[w] \in Seq(Key) /\ answers'[w] # <<>>
      /\ Len(answers'[w]) = Len(answers[w]) + 1
      /\ Last(answers'[w]) = At(w, a)
  <2> HIDE DEF a
  <2>1. answers[w] \in Seq(Key) /\ answers'[w] = Append(answers[w], At(w, a))
    BY <1>1, <1>2 DEF ClientOK, a
  <2> QED
    BY <1>4, <2>1 DEF Last
<1>7. Size(w)' = n
  BY <1>1 DEF Size
<1>8. At(w, Size(w) - 1)' = At(w, a)
  BY <1>1, <1>5, <1>7 DEF At
<1>9. ClientOK(w)'
  BY <1>1, <1>2, <1>5, <1>6, <1>7 DEF ClientOK, Size
<1>10. Booked(w)'
  BY <1>1, <1>2, <1>6 DEF Booked, Stage
<1>11. Searching(w)'
  <2> HIDE DEF n
  <2> QED
    BY <1>1, <1>3, <1>6, <1>7, <1>8 DEF Searching
<1> QED
  BY <1>1, <1>9, <1>10, <1>11, WKeeps

LEMMA LogUsageKeeps ==
  ASSUME WInv, NEW w \in Work, LogUsage(w)
  PROVE  WInv'
<1>1. CASE Fails(w)
  BY <1>1, EndKeeps DEF Fails
<1>2. CASE ~Fails(w)
  <2>1. /\ WStep(w) /\ stage'[w] \in {"history", "complete", "commit"}
        /\ providers'[w] = providers[w] /\ index'[w] = index[w] /\ attempt'[w] = 0
        /\ refused'[w] = {} /\ answers'[w] = answers[w] /\ logged'[w] = logged[w] + 1
        /\ stage[w] = "log"
    BY <1>2 DEF WInv, HasColumns, WStep, LogUsage, To
  <2>2. ClientOK(w) /\ Searching(w) /\ Booked(w)
    BY DEF WInv
  <2>3. ClientOK(w)' /\ Booked(w)'
    BY <2>1, <2>2 DEF ClientOK, Size, Booked, Stage
  <2>4. Size(w)' = Size(w) /\ Size(w) \in Nat /\ \A i : At(w, i)' = At(w, i)
    BY <2>1, <2>2 DEF ClientOK, Size, At
  <2>5. {At(w, i) : i \in 0..(attempt'[w] - 1)} = {}
    BY <2>1
  <2>6. answers[w] # <<>> => Size(w) > 0 /\ Last(answers[w]) = At(w, Size(w) - 1)
    BY <2>1, <2>2 DEF Searching
  <2>7. Searching(w)'
    BY <2>1, <2>4, <2>5, <2>6 DEF Searching
  <2> QED
    BY <2>1, <2>3, <2>7, WKeeps
<1> QED
  BY <1>1, <1>2

LEMMA InitWInv == InitWork => WInv
<1> SUFFICES ASSUME InitWork PROVE WInv
  OBVIOUS
<1>1. /\ HasColumns(stage, Work) /\ HasColumns(providers, Work) /\ HasColumns(index, Work)
      /\ HasColumns(attempt, Work) /\ HasColumns(refused, Work) /\ HasColumns(answers, Work)
      /\ HasColumns(logged, Work)
  BY DEF InitWork, HasColumns
<1>2. \A w \in Work : ClientOK(w) /\ Searching(w) /\ Booked(w)
  BY DEF InitWork, ClientOK, Searching, Booked, Size, Stage
<1> QED
  BY <1>1, <1>2 DEF WInv

LEMMA NextWInv == WInv /\ [ChatNext]_chatVars => WInv'
<1> SUFFICES ASSUME WInv, [ChatNext]_chatVars PROVE WInv'
  OBVIOUS
<1>1. CASE UNCHANGED <<stage, client, logged>>
  <2>1. ASSUME NEW w \in Work PROVE ClientOK(w)' /\ Searching(w)' /\ Booked(w)'
    <3>1. ClientOK(w) /\ Searching(w) /\ Booked(w)
      BY DEF WInv
    <3>2. ClientOK(w)'
      BY <1>1, <3>1 DEF client, ClientOK, Size
    <3>3. Searching(w)'
      <4>1. Size(w)' = Size(w) /\ \A i : At(w, i)' = At(w, i)
        BY <1>1 DEF client, Size, At
      <4> QED
        BY <1>1, <3>1, <4>1 DEF client, Searching
    <3> QED
      BY <1>1, <3>1, <3>2, <3>3 DEF client, Booked
  <2> QED
    BY <1>1, <2>1 DEF WInv, client
<1>2. ASSUME NEW w \in Work, Build(w) \/ Advance(w) PROVE WInv'
  <2>1. CASE Build(w)
    BY <2>1, BuildKeeps
  <2>2. CASE Retrieve(w) \/ WriteHistory(w)
    BY <2>2, PassKeeps
  <2>3. CASE \/ RetrievalFails(w) \/ NoProvider(w) \/ AllProvidersFailed(w)
             \/ ProviderBreaks(w) \/ ParseFails(w) \/ CommitWork(w)
    <3>1. End(w, "failed") \/ End(w, "done")
      BY <2>3 DEF RetrievalFails, NoProvider, AllProvidersFailed, ProviderBreaks, ParseFails,
         CommitWork, Fails
    <3> QED
      BY <3>1, EndKeeps
  <2>4. CASE Refuse(w)
    BY <2>4, RefuseKeeps
  <2>5. CASE Answer(w)
    BY <2>5, AnswerKeeps
  <2>6. CASE LogUsage(w)
    BY <2>6, LogUsageKeeps
  <2> QED
    BY <1>2, <2>1, <2>2, <2>3, <2>4, <2>5, <2>6 DEF Advance
<1> QED
  BY <1>1, <1>2 DEF ChatNext, WorkStep, EditStep, chatVars, work

(* What every client holds and has asked, and what is booked of it.        *)
THEOREM ClientInductive == ChatSpec => []WInv
BY InitWInv, NextWInv, PTL DEF ChatSpec, ChatInit

(* The fallback asks no key twice, and after as many attempts as it has    *)
(* keys all of them have refused, wherever the index stood.                *)
THEOREM NoKeyAskedTwice == ChatSpec => []EveryKeyAskedOnce
<1>1. ASSUME WInv PROVE EveryKeyAskedOnce
  <2>1. ASSUME NEW w \in Work, stage[w] = "complete"
        PROVE  Cardinality(refused[w]) = attempt[w]
    <3> DEFINE a == attempt[w]
               f == [i \in 0..(a - 1) |-> At(w, i)]
    <3>1. /\ ClientOK(w) /\ a \in 0..Size(w) /\ Size(w) \in Nat
          /\ refused[w] = {At(w, i) : i \in 0..(a - 1)}
      BY <1>1, <2>1 DEF WInv, Searching, ClientOK, Size
    <3>2. CASE a = 0
      <4>1. refused[w] = {}
        BY <3>1, <3>2
      <4> QED
        BY <3>2, <4>1, FS_EmptySet
    <3>3. CASE a # 0
      <4>1. Size(w) > 0 /\ \A i \in 0..(a - 1) : i \in 0..(Size(w) - 1)
        BY <3>1, <3>3
      <4>2. \A i, j \in 0..(a - 1) : At(w, i) = At(w, j) => i = j
        BY <3>1, <4>1, Turns
      <4>3. f \in Bijection(0..(a - 1), refused[w])
        <5> HIDE DEF a
        <5> QED
          BY <3>1, <4>2 DEF Bijection, Injection, Surjection, IsInjective
      <4>4. IsFiniteSet(0..(a - 1)) /\ Cardinality(0..(a - 1)) = a
        <5> HIDE DEF a
        <5>1. 0 \in Int /\ a - 1 \in Int /\ ~(0 > a - 1) /\ ((a - 1) - 0) + 1 = a
          BY <3>1, <3>3
        <5>2. /\ IsFiniteSet(0..(a - 1))
              /\ Cardinality(0..(a - 1)) = IF 0 > a - 1 THEN 0 ELSE ((a - 1) - 0) + 1
          BY <5>1, FS_Interval
        <5> QED
          BY <5>1, <5>2
      <4> HIDE DEF f, a
      <4>5. Cardinality(refused[w]) = a
        BY <4>3, <4>4, FS_Bijection DEF ExistsBijection
      <4> QED
        BY <4>5 DEF a
    <3> QED
      BY <3>2, <3>3
  <2> QED
    BY <2>1 DEF EveryKeyAskedOnce
<1> QED
  BY <1>1, ClientInductive, PTL

(* The steps that end a transaction with a commit, and those that add an   *)
(* answer.                                                                 *)
LEMMA WhoCommits ==
  ASSUME WInv, [ChatNext]_chatVars, NEW w \in Work, stage[w] = "commit", stage'[w] = "done"
  PROVE  CommitWork(w)
<1>1. stage' # stage
  BY DEF WInv
<1>2. PICK v \in Work : Build(v) \/ Advance(v)
  BY <1>1 DEF ChatNext, WorkStep, EditStep, chatVars, work
<1>3. DOMAIN stage = Work
  BY DEF WInv, HasColumns
<1>4. CASE CommitWork(v)
  BY <1>3, <1>4 DEF CommitWork, End, To
<1>5. CASE ~CommitWork(v)
  <2>1. \E s : s # "done" /\ stage' = [stage EXCEPT ![v] = s]
    <3>1. CASE LogUsage(v) \/ Build(v) \/ Retrieve(v) \/ WriteHistory(v) \/ Answer(v)
      BY <3>1 DEF LogUsage, Build, Retrieve, WriteHistory, Answer, To, Fails, End
    <3>2. CASE Refuse(v)
      BY <1>1, <3>2 DEF Refuse
    <3>3. CASE \/ RetrievalFails(v) \/ NoProvider(v) \/ AllProvidersFailed(v)
               \/ ProviderBreaks(v) \/ ParseFails(v)
      BY <3>3 DEF RetrievalFails, NoProvider, AllProvidersFailed, ProviderBreaks, ParseFails,
         Fails, End, To
    <3> QED
      BY <1>2, <1>5, <3>1, <3>2, <3>3 DEF Advance
  <2> QED
    BY <1>3, <2>1
<1> QED
  BY <1>4, <1>5

LEMMA WhoAnswers ==
  ASSUME WInv, [ChatNext]_chatVars, NEW w \in Work,
         Len(answers[w]) \in 1..(Len(answers'[w]) - 1)
  PROVE  Answer(w)
<1>1. answers'[w] # answers[w] /\ answers'[w] # <<>>
  <2>1. Len(answers[w]) \in Nat
    BY DEF WInv, ClientOK
  <2> QED
    BY <2>1
<1>2. PICK v \in Work : Build(v) \/ Advance(v)
  BY <1>1 DEF ChatNext, WorkStep, EditStep, chatVars, work, client
<1>3. DOMAIN answers = Work
  BY DEF WInv, HasColumns
<1>4. CASE Answer(v)
  BY <1>1, <1>3, <1>4 DEF Answer
<1>5. CASE ~Answer(v)
  <2>1. answers' = answers \/ answers' = [answers EXCEPT ![v] = <<>>]
    BY <1>2, <1>5 DEF Advance, LogUsage, Build, Retrieve, WriteHistory, Refuse, RetrievalFails,
       NoProvider, AllProvidersFailed, ProviderBreaks, ParseFails, CommitWork, Fails, End, client
  <2> QED
    BY <1>1, <1>3, <2>1
<1> QED
  BY <1>4, <1>5

(* A transaction commits a usage row for every answer it got, whatever     *)
(* admins do to the keys meanwhile.                                        *)
THEOREM CommitsAreBooked == ChatSpec => CommitsWhatItPaid
<1>1. ASSUME WInv, [ChatNext]_chatVars, NEW w \in Work, stage[w] = "commit", stage'[w] = "done",
             NEW i \in 1..Len(answers[w])
      PROVE  <<w, i, answers[w][i]>> \in usage'
  <2>1. CommitWork(w)
    BY <1>1, WhoCommits
  <2>2. Len(answers[w]) = logged[w]
    BY <1>1 DEF WInv, Booked
  <2> QED
    BY <1>1, <2>1, <2>2 DEF CommitWork
<1>2. WInv /\ [ChatNext]_chatVars =>
        \A w \in Work : stage[w] = "commit" /\ stage'[w] = "done" =>
          \A i \in 1..Len(answers[w]) : <<w, i, answers[w][i]>> \in usage'
  BY <1>1
<1> QED
  BY <1>2, ClientInductive, PTL DEF ChatSpec, CommitsWhatItPaid

(* A key answers twice in a row only after all the others have refused.    *)
THEOREM RotationIsFair == ChatSpec => RotationSpreadsLoad
<1>1. ASSUME WInv, [ChatNext]_chatVars, NEW w \in Work,
             Len(answers[w]) \in 1..(Len(answers'[w]) - 1),
             Last(answers'[w]) = Last(answers[w])
      PROVE  refused[w] = {providers[w][i] : i \in 1..Size(w)} \ {Last(answers[w])}
  <2> DEFINE n == Size(w)
             a == attempt[w]
  <2>1. Answer(w)
    BY <1>1, WhoAnswers
  <2>2. /\ ClientOK(w) /\ Searching(w) /\ stage[w] = "complete" /\ a < n
        /\ DOMAIN answers = Work
        /\ answers' = [answers EXCEPT ![w] = Append(answers[w], At(w, a))]
    BY <1>1, <2>1 DEF WInv, HasColumns, Answer, Completing, Asked, At
  <2>3. answers[w] # <<>>
    <3>1. Len(<<>>) = 0
      OBVIOUS
    <3> QED
      BY <1>1, <3>1
  <2>4. /\ n \in Nat \ {0} /\ a \in 0..(n - 1) /\ n > 0
        /\ refused[w] = {At(w, i) : i \in 0..(a - 1)}
        /\ Last(answers[w]) = At(w, n - 1)
    BY <2>2, <2>3 DEF ClientOK, Searching, Size
  <2>5. /\ \A i \in 0..(n - 1) : At(w, i) \in Key
        /\ \A i, j \in 0..(n - 1) : At(w, i) = At(w, j) => i = j
        /\ {At(w, i) : i \in 0..(n - 1)} = {providers[w][i] : i \in 1..n}
    BY <2>2, <2>4, Turns
  <2>6. Last(answers'[w]) = At(w, a)
    <3>1. At(w, a) \in Key /\ answers[w] \in Seq(Key)
      BY <2>2, <2>4, <2>5 DEF ClientOK
    <3>2. answers'[w] = Append(answers[w], At(w, a))
      BY <2>2
    <3> HIDE DEF a
    <3> QED
      BY <3>1, <3>2 DEF Last
  <2> HIDE DEF n, a
  <2>7. a = n - 1
    BY <1>1, <2>4, <2>5, <2>6
  <2>8. {At(w, i) : i \in 0..(a - 1)} = {At(w, i) : i \in 0..(n - 1)} \ {At(w, n - 1)}
    <3>1. \A i \in 0..(n - 1) : i \in 0..(a - 1) \/ i = n - 1
      BY <2>4, <2>7
    <3>2. \A i \in 0..(a - 1) : i \in 0..(n - 1) /\ i # n - 1
      BY <2>4, <2>7
    <3>3. n - 1 \in 0..(n - 1)
      BY <2>4
    <3> QED
      BY <2>5, <3>1, <3>2, <3>3
  <2> QED
    BY <2>4, <2>5, <2>8 DEF n
<1>2. WInv /\ [ChatNext]_chatVars =>
        \A w \in Work :
          Len(answers[w]) \in 1..(Len(answers'[w]) - 1) /\ Last(answers'[w]) = Last(answers[w]) =>
            refused[w] = {providers[w][i] : i \in 1..Size(w)} \ {Last(answers[w])}
  BY <1>1
<1> QED
  BY <1>2, ClientInductive, PTL DEF ChatSpec, RotationSpreadsLoad

-----------------------------------------------------------------------------
(* Usage rows and the keys they refer to.                                  *)

RefersTo(w, k) == Working(w) /\ \E i \in 1..logged[w] : answers[w][i] = k

(* A transaction refers to nothing new but the key whose usage it logs,    *)
(* which is there and which nobody deletes.                                *)
LEMMA OnlyLogRefers ==
  ASSUME CInv, WInv, NEW w \in Work, Build(w) \/ Advance(w), NEW v \in Work, NEW k,
         RefersTo(v, k)'
  PROVE  RefersTo(v, k) \/ (rows[k] # None /\ ~Deletes(k))
<1>1. CASE v # w
  <2>1. stage'[v] = stage[v] /\ logged'[v] = logged[v] /\ answers'[v] = answers[v]
    <3>1. HasColumns(stage, Work) /\ HasColumns(logged, Work) /\ HasColumns(answers, Work)
      BY DEF WInv
    <3>2. /\ \E s : stage' = [stage EXCEPT ![w] = s] \/ stage' = stage
          /\ \E s : logged' = [logged EXCEPT ![w] = s] \/ logged' = logged
          /\ \E s : answers' = [answers EXCEPT ![w] = s] \/ answers' = answers
      <4>1. CASE Build(w) \/ Retrieve(w) \/ WriteHistory(w) \/ Refuse(w) \/ Answer(w)
        BY <4>1 DEF Build, Retrieve, WriteHistory, Refuse, Answer, To, client
      <4>2. CASE End(w, "failed") \/ End(w, "done")
        BY <4>2 DEF End, To
      <4>3. CASE LogUsage(w) /\ ~Fails(w)
        BY <4>3 DEF LogUsage, To
      <4> QED
        BY <4>1, <4>2, <4>3 DEF Advance, RetrievalFails, NoProvider, AllProvidersFailed,
           ProviderBreaks, ParseFails, CommitWork, Fails
    <3> QED
      BY <1>1, <3>1, <3>2 DEF HasColumns
  <2> QED
    BY <2>1 DEF RefersTo, Working
<1>2. CASE v = w
  <2>1. /\ HasColumns(stage, Work) /\ HasColumns(logged, Work) /\ HasColumns(answers, Work)
        /\ ClientOK(w) /\ Searching(w) /\ Booked(w)
    BY DEF WInv
  <2>2. Len(answers[w]) \in Nat /\ logged[w] \in Nat
    BY <2>1 DEF ClientOK
  <2>3. CASE Build(w)
    <3>1. logged'[w] = logged[w] /\ answers[w] = <<>> /\ stage[w] = "idle"
      BY <2>1, <2>3 DEF Build, Searching
    <3>2. logged'[w] = 0
      BY <2>1, <2>2, <3>1 DEF Booked
    <3> QED
      BY <1>2, <3>2 DEF RefersTo
  <2>4. CASE End(w, "failed") \/ End(w, "done")
    <3>1. logged'[w] = 0
      BY <2>1, <2>4 DEF End, HasColumns
    <3> QED
      BY <1>2, <3>1 DEF RefersTo
  <2>5. CASE Retrieve(w) \/ WriteHistory(w) \/ Refuse(w)
    BY <1>2, <2>5 DEF RefersTo, Working, Retrieve, WriteHistory, Refuse, Completing, client
  <2>6. CASE Answer(w)
    <3>1. /\ answers'[w] = Append(answers[w], Asked(w)) /\ logged'[w] = logged[w]
          /\ stage[w] = "complete"
      BY <2>1, <2>6 DEF Answer, Completing, HasColumns
    <3>2. Len(answers[w]) = logged[w]
      BY <2>1, <3>1 DEF Booked
    <3>3. \A i \in 1..logged[w] : answers'[w][i] = answers[w][i]
      BY <2>1, <2>2, <3>1, <3>2 DEF ClientOK
    <3> QED
      BY <1>2, <3>1, <3>3 DEF RefersTo, Working
  <2>7. CASE LogUsage(w) /\ ~Fails(w)
    <3>1. /\ answers'[w] = answers[w] /\ logged'[w] = logged[w] + 1 /\ stage[w] = "log"
          /\ rows[Last(answers[w])] # None
          /\ \A e \in Edit : ~(tx[e] # None /\ tx[e].op = "delete" /\ Of(e) = Last(answers[w]))
      BY <2>1, <2>7 DEF LogUsage, HasColumns
    <3>2. Last(answers[w]) = answers[w][logged[w] + 1]
      BY <2>1, <3>1 DEF Booked, Last
    <3>3. ~Deletes(Last(answers[w]))
      BY <3>1 DEF Deletes, CInv, Standing
    <3>4. ASSUME NEW i \in 1..(logged[w] + 1), answers[w][i] = k
          PROVE  RefersTo(w, k) \/ k = Last(answers[w])
      <4>1. i \in 1..logged[w] \/ i = logged[w] + 1
        BY <2>2
      <4> QED
        BY <3>1, <3>2, <3>4, <4>1 DEF RefersTo, Working
    <3> QED
      BY <1>2, <3>1, <3>3, <3>4 DEF RefersTo
  <2> QED
    BY <2>3, <2>4, <2>5, <2>6, <2>7 DEF Advance, RetrievalFails, NoProvider, AllProvidersFailed,
       ProviderBreaks, ParseFails, CommitWork, Fails
<1> QED
  BY <1>1, <1>2

(* A request deletes only a key that no open transaction refers to.        *)
LEMMA OnlyDeleteDeletes ==
  ASSUME CInv, NEW e \in Edit, Begin(e) \/ Abort(e) \/ Serve(e, Referred), NEW k \in Referred,
         Deletes(k)'
  PROVE  Deletes(k)
<1>1. PICK d \in Edit : (pc[d] = "commit" /\ tx[d].op = "delete" /\ Of(d) = k)'
  BY DEF Deletes
<1>2. /\ HasColumns(pc, Edit) /\ HasColumns(req, Edit) /\ HasColumns(tx, Edit)
      /\ Standing(e)
  BY DEF CInv, Shapes
<1>3. CASE pc'[e] = "commit" /\ d = e
  <2>1. Flush(e, tx'[e].set, tx'[e].audit) /\ (req[e].op = "delete" => DeleteKey(e, Referred))
    <3>1. CASE Begin(e) \/ LoadRow(e) \/ Close(e)
      BY <1>2, <1>3, <3>1 DEF Begin, LoadRow, Leave, Close, HasColumns
    <3>2. CASE \/ CreateKey(e) \/ PatchKey(e) \/ UpdateSetting(e) \/ CreateTemplate(e)
               \/ UpdateTemplate(e) \/ CreateSource(e) \/ UpdateSource(e)
      BY <1>2, <1>3, <3>2 DEF CreateKey, PatchKey, UpdateSetting, CreateTemplate, UpdateTemplate,
         CreateSource, UpdateSource, Doing, Leave, Close, Flush, HasColumns
    <3>3. CASE DeleteKey(e, Referred)
      BY <1>2, <3>3 DEF DeleteKey, Flush, HasColumns
    <3> QED
      BY <3>1, <3>2, <3>3 DEF Serve, Abort, Commit, RefuseConfig, Leave
  <2>2. req'[e] = req[e] /\ tx'[e].op = req[e].op
    BY <1>2, <2>1 DEF Flush, HasColumns
  <2>3. Of(e) = k /\ Of(e) \notin Referred
    BY <1>1, <1>3, <2>1, <2>2 DEF Of, DeleteKey
  <2> QED
    BY <2>3
<1>4. CASE pc'[e] # "commit" \/ d # e
  <2>1. d # e
    BY <1>1, <1>4
  <2>2. pc'[d] = pc[d] /\ req'[d] = req[d] /\ tx'[d] = tx[d]
    <3>1. CASE Begin(e) \/ LoadRow(e) \/ Close(e)
      BY <1>2, <2>1, <3>1 DEF Begin, LoadRow, Leave, Close, HasColumns
    <3>2. ASSUME NEW set, NEW payload, Flush(e, set, payload)
          PROVE  pc'[d] = pc[d] /\ req'[d] = req[d] /\ tx'[d] = tx[d]
      BY <1>2, <2>1, <3>2 DEF Flush, HasColumns
    <3>3. \/ Begin(e) \/ LoadRow(e) \/ Close(e)
          \/ \E set, payload : Flush(e, set, payload)
      BY DEF Serve, Abort, Commit, RefuseConfig, Leave, CreateKey, PatchKey, DeleteKey,
         UpdateSetting, CreateTemplate, UpdateTemplate, CreateSource, UpdateSource
    <3> QED
      BY <3>1, <3>2, <3>3
  <2> QED
    BY <1>1, <2>2 DEF Deletes, Of
<1> QED
  BY <1>3, <1>4

(* No usage row ever refers to a key that is gone: while it is uncommitted *)
(* the key is kept, afterwards it goes with the key.                       *)
THEOREM UsageKeepsItsKeys == ChatSpec => []UsageHasKey
<1>1. ChatInit => UsageHasKey
  BY DEF ChatInit, InitWork, UsageHasKey, Referred, Working
<1>2. ASSUME CInv, WInv, UsageHasKey, [ChatNext]_chatVars PROVE UsageHasKey'
  <2>1. Referred = {k \in Key : \E w \in Work : RefersTo(w, k)}
    BY DEF Referred, RefersTo
  <2>2. Referred' = {k \in Key : \E w \in Work : RefersTo(w, k)'}
    BY DEF Referred, RefersTo
  <2>3. CASE UNCHANGED chatVars
    BY <1>2, <2>3 DEF UsageHasKey, Referred, Deletes, Working, Of, chatVars, vars, work, client
  <2>4. ASSUME NEW w \in Work, Build(w) \/ Advance(w), UNCHANGED vars PROVE UsageHasKey'
    <3>1. \A k : rows'[k] = rows[k] /\ (Deletes(k)' <=> Deletes(k))
      BY <2>4 DEF vars, Deletes, Of
    <3>2. \A k \in Referred' : rows[k] # None /\ ~Deletes(k)
      BY <1>2, <2>1, <2>2, <2>4, OnlyLogRefers DEF UsageHasKey
    <3>3. ASSUME NEW r \in usage' PROVE rows[r[3]] # None
      <4>1. CASE r \in usage
        BY <1>2, <4>1 DEF UsageHasKey
      <4>2. CASE r \notin usage
        <5>1. CommitWork(w)
          BY <2>4, <3>3, <4>2 DEF Build, Advance, Retrieve, RetrievalFails, NoProvider, Refuse,
             AllProvidersFailed, ProviderBreaks, Answer, LogUsage, ParseFails, WriteHistory, Fails
        <5>2. PICK i \in 1..logged[w] : r = <<w, i, answers[w][i]>>
          BY <4>2, <5>1 DEF CommitWork
        <5>3. r[3] = answers[w][i] /\ Len(answers[w]) = logged[w] /\ answers[w] \in Seq(Key)
          BY <1>2, <5>1, <5>2 DEF CommitWork, WInv, Booked, ClientOK
        <5>4. r[3] \in Referred
          BY <5>1, <5>2, <5>3 DEF CommitWork, Referred, Working
        <5> QED
          BY <1>2, <5>4 DEF UsageHasKey
      <4> QED
        BY <4>1, <4>2
    <3> QED
      BY <3>1, <3>2, <3>3 DEF UsageHasKey
  <2>5. ASSUME NEW e \in Edit, Begin(e) \/ Abort(e) \/ Serve(e, Referred),
               UNCHANGED <<stage, client, logged>>, usage' = {r \in usage : rows'[r[3]] # None}
        PROVE  UsageHasKey'
    <3>1. Referred' = Referred
      BY <2>5 DEF Referred, Working, client
    <3>2. ASSUME NEW k \in Referred PROVE rows'[k] # None
      <4>1. k \in Object /\ rows[k] # None /\ ~Deletes(k)
        BY <1>2 DEF UsageHasKey, Referred, Object
      <4>2. CASE ~\E d \in Edit : Commit(d)
        BY <1>2, <4>1, <4>2, OnlyCommits
      <4>3. ASSUME NEW d \in Edit, Commit(d) PROVE rows'[k] # None
        <5>1. CASE Of(d) # k
          BY <1>2, <4>1, <4>3, <5>1, CommitStep
        <5>2. CASE Of(d) = k
          <6>1. tx[d].op # "delete"
            BY <4>1, <4>3, <5>2 DEF Deletes, Commit
          <6> QED
            BY <1>2, <4>3, <5>2, <6>1, CommitFacts, CommitStep
        <5> QED
          BY <5>1, <5>2
      <4> QED
        BY <4>2, <4>3
    <3>3. ASSUME NEW k \in Referred PROVE ~Deletes(k)'
      BY <1>2, <2>5, OnlyDeleteDeletes DEF UsageHasKey
    <3> QED
      BY <2>5, <3>1, <3>2, <3>3 DEF UsageHasKey
  <2> QED
    BY <1>2, <2>3, <2>4, <2>5 DEF ChatNext, WorkStep, EditStep, Next
<1>3. CInv /\ WInv /\ UsageHasKey /\ [ChatNext]_chatVars => UsageHasKey'
  BY <1>2
<1> QED
  BY <1>1, <1>3, ConfigurationInductive, ClientInductive, PTL DEF ChatSpec
=============================================================================
