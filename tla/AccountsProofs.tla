--------------------------- MODULE AccountsProofs ----------------------------
(***************************************************************************)
(* Theorems about Accounts, for any accounts, calls and asks, overlapping  *)
(* or not.  IInv says what each session has written by its stage, that the *)
(* rows two sessions hold differ, and what the committed rows imply; what  *)
(* holds besides of calls that do not overlap makes their links those of   *)
(* ResetLinks.                                                             *)
(***************************************************************************)
EXTENDS Accounts, TLAPS

(* What a call may have written at its stage.                              *)
Written(c) ==
  /\ tx[c].role # None =>
       /\ pc[c] = "commit"
       /\ \/ req[c].kind = "create"
          \/ /\ req[c].kind = "update"
             /\ \E e \in tx[c].audit :
                  /\ e.name = "role_changed" /\ e.of = req[c].of /\ e.to = tx[c].role
                  /\ \/ overlap
                     \/ users[req[c].of] # None /\ e.from = users[req[c].of].role
  /\ tx[c].active = FALSE =>
       /\ pc[c] = "commit" /\ req[c].kind = "update"
       /\ \E e \in tx[c].audit : e.name = "deactivated" /\ e.of = req[c].of
  /\ pc[c] = "commit" /\ req[c].kind = "create" =>
       /\ tx[c].role \in Role /\ tx[c].active = TRUE
       /\ users[req[c].of] = None /\ req[c].of \in tx[c].holds
  /\ \A e \in tx[c].audit : e.call = c
  /\ tx[c].role # None => req[c].kind = "create" \/ tx[c].role = req[c].role
  /\ tx[c].active # None => req[c].kind = "create" \/ tx[c].active = req[c].active
  /\ tx[c].pass # None =>
       /\ req[c].kind = "complete" /\ tx[c].pass = c
       /\ pc[c] = "commit" => tx[c].links[req[c].link] = "used"
  /\ \A l \in Call :
       /\ tx[c].links[l] \in {None, "open", "used"}
       /\ tx[c].links[l] = "open" =>
            l = c /\ pc[c] = "commit" /\ req[c].kind = "initiate"
       /\ tx[c].links[l] = "used" => links[l] # None

(* What a call asks for, and what it has read.                             *)
Staged(c) ==
  /\ pc[c] # "idle" => req[c] \in Ask
  /\ pc[c] \notin {"send", "mark", "commit"} => tx[c] = NoWrites
  /\ pc[c] = "idle" => seen[c] = Nobody
  /\ pc[c] = "insert" => req[c].kind = "create"
  /\ pc[c] \in {"invalidate", "send"} => req[c].kind = "initiate"
  /\ pc[c] = "mark" => req[c].kind = "complete"
  /\ pc[c] \in {"loaded", "mark", "commit"} /\ req[c].kind = "complete" => links[req[c].link] # None
  /\ pc[c] = "loaded" /\ req[c].kind = "update" => seen[c][req[c].of] # None
  /\ ~overlap /\ Open(c) =>
       \A u \in Account : seen[c][u] # None => seen[c][u] = users[u]

Session(c) == Written(c) /\ Staged(c)

(* No two sessions hold a row, and without overlap only one is open.       *)
Apart ==
  /\ \A c, d \in Call : c # d => tx[c].holds \cap tx[d].holds = {}
  /\ ~overlap => \A c, d \in Call : Open(c) /\ Open(d) => c = d

(* What was committed was committed by calls that are done.                *)
Committed ==
  /\ \A e \in audit : pc[e.call] = "done"
  /\ \A l \in Call : links[l] # None => pc[l] = "done" /\ req[l] \in Ask /\ req[l].kind = "initiate"
  /\ \A u \in Account :
       users[u] # None /\ users[u].pass # None =>
         /\ pc[users[u].pass] = "done" /\ req[users[u].pass].kind = "complete"
         /\ links[req[users[u].pass].link] = "used"

IInv ==
  /\ TypeOK
  /\ \A c \in Call : Session(c)
  /\ Apart
  /\ Committed

-----------------------------------------------------------------------------

(* Nothing written is no value, no row and no link.                        *)
LEMMA NothingWritten ==
  /\ NoWrites \in Writes
  /\ NoWrites.role = None /\ NoWrites.pass = None /\ NoWrites.active = None
  /\ NoWrites.active # FALSE /\ None # FALSE /\ None # TRUE
  /\ NoWrites.holds = {} /\ NoWrites.audit = {}
  /\ \A l \in Call : NoWrites.links[l] = None /\ None # "open" /\ None # "used"
<1>1. None # FALSE /\ None # TRUE
  BY DistinctAssumption
<1> QED
  BY <1>1, DistinctAssumption DEF NoWrites, NoLinks, LinkState, Writes

(* A session that does nothing keeps its part of IInv while others go on.  *)
LEMMA Frame ==
  ASSUME IInv, NEW d \in Call, overlap' = overlap,
         req'[d] = req[d], pc'[d] = pc[d], seen'[d] = seen[d], tx'[d] = tx[d],
         \A l \in Call : links[l] # None => links'[l] # None,
         \/ users' = users
         \/ ~Open(d)
         \/ overlap /\ (pc[d] = "commit" /\ req[d].kind = "create"
                          => users'[req[d].of] = users[req[d].of])
  PROVE  Session(d)'
<1>1. Session(d)
  BY DEF IInv
<1>a. \A q \in Ask : q.kind = "complete" => q.link \in Call
  BY AskAssumption DEF AskRecord
<1>2. CASE ~Open(d)
  <2>1. tx[d] = NoWrites /\ ~Open(d)'
    BY <1>1, <1>2 DEF Session, Staged, Open
  <2>2. Written(d)'
    BY <2>1, <1>2, NothingWritten DEF Written, Open
  <2>3. Staged(d)'
    BY <1>1, <1>2, <1>a, <2>1 DEF Session, Staged, Open
  <2> QED
    BY <2>2, <2>3 DEF Session
<1>3. CASE users' = users
  BY <1>1, <1>3, <1>a DEF Session, Written, Staged, Open
<1>4. CASE overlap /\ (pc[d] = "commit" /\ req[d].kind = "create"
                          => users'[req[d].of] = users[req[d].of])
  <2>1. Written(d)'
    BY <1>1, <1>4 DEF Session, Written
  <2>2. Staged(d)'
    BY <1>1, <1>4, <1>a DEF Session, Staged, Open
  <2> QED
    BY <2>1, <2>2 DEF Session
<1> QED
  BY <1>2, <1>3, <1>4

(* A step within a session disturbs nothing but this session.              *)
LEMMA WithinStep ==
  ASSUME IInv, NEW c \in Call, Within, Open(c), Open(c)', TypeOK', Session(c)',
         \A d \in Call \ {c} : pc'[d] = pc[d] /\ seen'[d] = seen[d] /\ tx'[d] = tx[d],
         \A d \in Call \ {c} : tx'[c].holds \cap tx[d].holds = {}
  PROVE  IInv'
<1>1. ASSUME NEW d \in Call PROVE Session(d)'
  BY <1>1, Frame DEF Within, tables
<1>2. Apart'
  <2>1. ASSUME NEW d \in Call, NEW e \in Call, d # e
        PROVE  tx'[d].holds \cap tx'[e].holds = {}
    BY <2>1 DEF IInv, Apart
  <2>2. \A d \in Call : Open(d)' <=> Open(d)
    BY DEF Open
  <2> QED
    BY <2>1, <2>2 DEF IInv, Apart, Within
<1>3. ASSUME NEW d \in Call, pc[d] = "done" PROVE pc'[d] = "done"
  BY <1>3 DEF Open
<1>4. Committed'
  <2>1. /\ \A e \in audit : e.call \in Call
        /\ \A u \in Account : users[u] # None /\ users[u].pass # None => users[u].pass \in Call
    BY DEF IInv, TypeOK, Event, Row
  <2> QED
    BY <1>3, <2>1 DEF IInv, Committed, Within, tables
<1> QED
  BY <1>1, <1>2, <1>4 DEF IInv

(* A session ends without a commit.                                        *)
LEMMA CloseStep ==
  ASSUME IInv, NEW c \in Call, Open(c), Close(c), events' \in 0..MaxEvents,
         UNCHANGED <<overlap, tables, tokens, req>>
  PROVE  IInv'
<1>1. /\ pc' = [pc EXCEPT ![c] = "done"] /\ seen' = [seen EXCEPT ![c] = Nobody]
      /\ tx' = [tx EXCEPT ![c] = NoWrites] /\ hits' = [hits EXCEPT ![c] = {}]
  BY DEF Close, Goto
<1>2. TypeOK'
  BY <1>1, NothingWritten DEF IInv, TypeOK, Nobody, Stage, tables, tokens
<1>3. tx'[c] = NoWrites /\ pc'[c] = "done"
  BY <1>1 DEF IInv, TypeOK
<1>4. \A d \in Call \ {c} : pc'[d] = pc[d] /\ seen'[d] = seen[d] /\ tx'[d] = tx[d]
  BY <1>1 DEF IInv, TypeOK
<1>5. ASSUME NEW d \in Call PROVE Session(d)'
  <2>1. CASE d = c
    <3>1. Written(c)'
      BY <1>3, NothingWritten DEF Written
    <3>2. req[c] \in Ask
      BY DEF IInv, Session, Staged, Open
    <3>3. Staged(c)'
      BY <1>3, <3>2 DEF Staged, Open
    <3> QED
      BY <2>1, <3>1, <3>3 DEF Session
  <2>2. CASE d # c
    BY <1>4, <2>2, Frame DEF tables
  <2> QED
    BY <2>1, <2>2
<1>6. Apart'
  <2>1. ASSUME NEW d \in Call, NEW e \in Call, d # e
        PROVE  tx'[d].holds \cap tx'[e].holds = {}
    BY <2>1, <1>3, <1>4, NothingWritten DEF IInv, Apart
  <2>2. \A d \in Call : Open(d)' => Open(d)
    BY <1>3, <1>4 DEF Open
  <2> QED
    BY <2>1, <2>2 DEF IInv, Apart
<1>7. Committed'
  <2>1. /\ \A e \in audit : e.call \in Call
        /\ \A u \in Account : users[u] # None /\ users[u].pass # None => users[u].pass \in Call
    BY DEF IInv, TypeOK, Event, Row
  <2>2. \A d \in Call : pc[d] = "done" => pc'[d] = "done"
    BY <1>3, <1>4
  <2> QED
    BY <2>1, <2>2 DEF IInv, Committed, tables
<1> QED
  BY <1>2, <1>5, <1>6, <1>7 DEF IInv

LEMMA LeaveStep == \A c \in Call : IInv /\ Open(c) /\ Leave(c) => IInv'
BY CloseStep DEF Leave, IInv, TypeOK

(* A call begins with nothing written and nobody seen.                     *)
LEMMA BeginStep ==
  ASSUME IInv, NEW c \in Call, NEW q \in Ask, Begin(c, q),
         pc' = [pc EXCEPT ![c] = pc'[c]], pc'[c] \in {"body", "done"},
         seen' = [seen EXCEPT ![c] = seen'[c]], TypeOK',
         ~overlap => \A u \in Account : seen'[c][u] # None => seen'[c][u] = users[u]
  PROVE  IInv'
<1>1. /\ pc[c] = "idle" /\ req'[c] = q /\ tx'[c] = tx[c] /\ tx[c] = NoWrites
      /\ UNCHANGED <<overlap, users, links, audit, tx>>
      /\ ~overlap => \A d \in Call : ~Open(d)
  BY DEF IInv, TypeOK, Begin, tables, Session, Staged
<1>2. \A d \in Call \ {c} :
        pc'[d] = pc[d] /\ seen'[d] = seen[d] /\ tx'[d] = tx[d] /\ req'[d] = req[d]
  BY DEF IInv, TypeOK, Begin
<1>3. ASSUME NEW d \in Call PROVE Session(d)'
  <2>1. CASE d = c
    <3>1. Written(c)'
      BY <1>1, NothingWritten DEF Written
    <3>2. Staged(c)'
      BY <1>1 DEF Staged, Open
    <3> QED
      BY <2>1, <3>1, <3>2 DEF Session
  <2>2. CASE d # c
    BY <1>1, <1>2, <2>2, Frame
  <2> QED
    BY <2>1, <2>2
<1>4. Apart'
  BY <1>1, <1>2 DEF IInv, Apart, Open
<1>5. Committed'
  <2>1. /\ \A e \in audit : e.call \in Call
        /\ \A u \in Account : users[u] # None /\ users[u].pass # None => users[u].pass \in Call
    BY DEF IInv, TypeOK, Event, Row
  <2>2. \A d \in Call : pc[d] = "done" => pc'[d] = "done" /\ req'[d] = req[d]
    BY <1>1, <1>2
  <2> QED
    BY <1>1, <2>1, <2>2 DEF IInv, Committed
<1> QED
  BY <1>3, <1>4, <1>5 DEF IInv

LEMMA AdmitStep == \A c \in Call : IInv /\ Admit(c) => IInv'
<1> SUFFICES ASSUME NEW c \in Call, IInv, Admit(c) PROVE IInv'
  OBVIOUS
<1>1. PICK q \in Ask :
        /\ q.by # None /\ users[q.by] # None /\ Begin(c, q)
        /\ IF users[q.by].active /\ (q.kind = "logout" \/ users[q.by].role = "admin")
           THEN Goto(c, "body") /\ Load(c, q.by)
           ELSE Goto(c, "done") /\ UNCHANGED seen
  BY DEF Admit
<1>2. q.by \in Account
  BY <1>1, AskAssumption DEF AskRecord
<1>3. seen[c] = Nobody
  BY <1>1 DEF IInv, Session, Staged, Begin
<1>4. /\ pc' \in [Call -> Stage] /\ pc' = [pc EXCEPT ![c] = pc'[c]] /\ pc'[c] \in {"body", "done"}
  BY <1>1 DEF Goto, IInv, TypeOK, Stage
<1>5. CASE Load(c, q.by)
  <2>1. seen' = [seen EXCEPT ![c] = [seen[c] EXCEPT ![q.by] = users[q.by]]]
    BY <1>2, <1>3, <1>5 DEF Load, Nobody
  <2>2. seen'[c] = [seen[c] EXCEPT ![q.by] = users[q.by]]
    BY <2>1 DEF IInv, TypeOK
  <2>3. seen' = [seen EXCEPT ![c] = seen'[c]] /\ seen' \in [Call -> [Account -> Row \cup {None}]]
    BY <1>2, <2>1, <2>2 DEF IInv, TypeOK
  <2>4. TypeOK'
    BY <1>1, <1>4, <2>3 DEF IInv, TypeOK, Begin, tables, tokens
  <2>5. \A u \in Account : seen'[c][u] # None => seen'[c][u] = users[u]
    BY <1>2, <1>3, <2>2 DEF Nobody
  <2> QED
    BY <1>1, <1>4, <2>3, <2>4, <2>5, BeginStep
<1>6. CASE UNCHANGED seen
  <2>1. TypeOK'
    BY <1>1, <1>4, <1>6 DEF IInv, TypeOK, Begin, tables, tokens
  <2>2. \A u \in Account : seen'[c][u] = None
    BY <1>3, <1>6 DEF Nobody
  <2>3. seen' = [seen EXCEPT ![c] = seen'[c]]
    BY <1>6 DEF IInv, TypeOK
  <2> QED
    BY <1>1, <1>4, <2>1, <2>2, <2>3, BeginStep
<1> QED
  BY <1>1, <1>5, <1>6

LEMMA ArriveStep == \A c \in Call : IInv /\ Arrive(c) => IInv'
<1> SUFFICES ASSUME NEW c \in Call, IInv, Arrive(c) PROVE IInv'
  OBVIOUS
<1>1. PICK q \in Ask : Begin(c, q) /\ Goto(c, "body") /\ UNCHANGED seen
  BY DEF Arrive
<1>2. seen[c] = Nobody
  BY <1>1 DEF IInv, Session, Staged, Begin
<1>3. pc' \in [Call -> Stage] /\ pc' = [pc EXCEPT ![c] = pc'[c]] /\ pc'[c] = "body"
  BY <1>1 DEF Goto, IInv, TypeOK, Stage
<1>4. TypeOK'
  BY <1>1, <1>3 DEF IInv, TypeOK, Begin, tables, tokens
<1>5. \A u \in Account : seen'[c][u] = None
  BY <1>1, <1>2 DEF Nobody
<1>6. seen' = [seen EXCEPT ![c] = seen'[c]]
  BY <1>1 DEF IInv, TypeOK
<1> QED
  BY <1>1, <1>3, <1>4, <1>5, <1>6, BeginStep

(* Tokens and links that expire, and a refresh.                            *)
LEMMA OutsideStep ==
  ASSUME IInv, TypeOK', UNCHANGED <<overlap, users, audit, req, pc, seen, tx>>,
         \A l \in Call :
           links'[l] = links[l] \/ (links[l] = "open" /\ links'[l] = "expired")
  PROVE  IInv'
<1>1. \A l \in Call :
        /\ links[l] # None <=> links'[l] # None
        /\ links'[l] = "open" => links[l] = "open"
        /\ links[l] = "used" => links'[l] = "used"
  BY DistinctAssumption DEF LinkState
<1>2. \A d \in Call : Session(d)'
  BY <1>1, Frame
<1>3. Apart'
  BY DEF IInv, Apart, Open
<1>4. Committed'
  <2>1. \A u \in Account :
          users[u] # None /\ users[u].pass # None => req[users[u].pass].link \in Call
    <3> SUFFICES ASSUME NEW u \in Account, users[u] # None, users[u].pass # None
                 PROVE  req[users[u].pass].link \in Call
      OBVIOUS
    <3>1. users[u].pass \in Call
      BY DEF IInv, TypeOK, Row
    <3>2. req[users[u].pass] \in Ask /\ req[users[u].pass].kind = "complete"
      BY <3>1 DEF IInv, Committed, Session, Staged
    <3> QED
      BY <3>2, AskAssumption DEF AskRecord
  <2> QED
    BY <1>1, <2>1 DEF IInv, Committed
<1> QED
  BY <1>2, <1>3, <1>4 DEF IInv

-----------------------------------------------------------------------------
(* The steps of a session.                                                 *)

LEMMA AskFacts ==
  \A q \in Ask :
    /\ q.kind = "complete" => q.link \in Call
    /\ q.kind # "complete" => q.of \in Account
    /\ q.kind = "create" => q.role \in Role
    /\ q.role \in Role \cup {None} /\ q.active \in BOOLEAN \cup {None}
BY AskAssumption DEF AskRecord

(* A session that writes at most its own writes, at a stage of its own.    *)
LEMMA WriteStep ==
  ASSUME IInv, NEW c \in Call, Within, UNCHANGED <<seen, hits>>,
         Open(c), NEW s \in Stage \ {"idle", "done"}, Goto(c, s),
         tx' \in [Call -> Writes], \A d \in Call \ {c} : tx'[d] = tx[d],
         \A d \in Call \ {c} : tx'[c].holds \cap tx[d].holds = {},
         Session(c)'
  PROVE  IInv'
<1>1. /\ pc' \in [Call -> Stage] /\ pc'[c] = s
      /\ \A d \in Call \ {c} : pc'[d] = pc[d]
  BY DEF Goto, IInv, TypeOK
<1>2. TypeOK'
  BY <1>1 DEF IInv, TypeOK, Within, tables, tokens
<1>3. Open(c)'
  BY <1>1 DEF Open
<1> QED
  BY <1>1, <1>2, <1>3, WithinStep

(* What a stage tells of the session, before its step.                     *)
LEMMA DoingFacts ==
  ASSUME IInv, NEW c \in Call, pc[c] \in Stage \ {"idle", "done"}
  PROVE  /\ Open(c) /\ req[c] \in Ask /\ tx[c] \in Writes
         /\ Written(c) /\ Staged(c)
         /\ pc[c] \notin {"send", "mark", "commit"} => tx[c] = NoWrites
BY DEF IInv, TypeOK, Session, Staged, Open

(* Nothing is written yet: only what is read or asked for has to be shown. *)
LEMMA UnwrittenStep ==
  ASSUME IInv, NEW c \in Call, Within, UNCHANGED <<hits, tx>>, Open(c),
         NEW s \in {"body", "loaded", "insert", "invalidate"}, Goto(c, s),
         tx[c] = NoWrites, seen' \in [Call -> [Account -> Row \cup {None}]],
         \A d \in Call \ {c} : seen'[d] = seen[d],
         s = "insert" => req[c].kind = "create",
         s = "invalidate" => req[c].kind = "initiate",
         s = "loaded" /\ req[c].kind = "complete" => links[req[c].link] # None,
         s = "loaded" /\ req[c].kind = "update" => seen'[c][req[c].of] # None,
         ~overlap => \A u \in Account : seen'[c][u] # None => seen'[c][u] = users[u]
  PROVE  IInv'
<1>1. /\ pc' \in [Call -> Stage] /\ pc'[c] = s
      /\ \A d \in Call \ {c} : pc'[d] = pc[d]
  BY DEF Goto, IInv, TypeOK, Stage
<1>2. TypeOK'
  BY <1>1 DEF IInv, TypeOK, Within, tables, tokens
<1>3. Written(c)'
  BY <1>1, NothingWritten DEF Written
<1>4. req[c] \in Ask
  BY DEF IInv, Session, Staged, Open
<1>5. Staged(c)'
  BY <1>1, <1>4 DEF Staged, Within, tables, Open
<1>6. \A d \in Call \ {c} : tx'[c].holds \cap tx[d].holds = {}
  BY NothingWritten
<1> QED
  BY <1>1, <1>2, <1>3, <1>5, <1>6, WithinStep DEF Session, Open

LEMMA CheckEmailStep == \A c \in Call : IInv /\ CheckEmail(c) => IInv'
<1> SUFFICES ASSUME NEW c \in Call, IInv, CheckEmail(c) PROVE IInv'
  OBVIOUS
<1>1. pc[c] = "body" /\ req[c].kind = "create"
  BY DEF CheckEmail, Doing
<1>2. Open(c) /\ tx[c] = NoWrites /\ Staged(c)
  BY <1>1, DoingFacts DEF Stage
<1>3. CASE Leave(c)
  BY <1>2, <1>3, LeaveStep
<1>4. CASE Goto(c, "insert") /\ Within /\ UNCHANGED <<seen, hits, tx>>
  <2>1. \A d \in Call : seen'[d] = seen[d]
    BY <1>4
  <2> QED
    BY <1>1, <1>2, <1>4, <2>1, UnwrittenStep DEF IInv, TypeOK, Staged
<1> QED
  BY <1>3, <1>4 DEF CheckEmail

(* Loading a user sees the committed row, or the one seen before.          *)
LEMMA LoadFacts ==
  ASSUME IInv, NEW c \in Call, Open(c), NEW u, Load(c, u)
  PROVE  /\ seen' \in [Call -> [Account -> Row \cup {None}]]
         /\ \A d \in Call \ {c} : seen'[d] = seen[d]
         /\ u \in Account /\ users[u] # None => seen'[c][u] # None
         /\ ~overlap => \A v \in Account : seen'[c][v] # None => seen'[c][v] = users[v]
<1>1. \A v \in Account : users[v] \in Row \cup {None}
  BY DEF IInv, TypeOK
<1>2. seen \in [Call -> [Account -> Row \cup {None}]]
  BY DEF IInv, TypeOK
<1>3. seen' = [seen EXCEPT ![c] = [seen[c] EXCEPT ![u] = IF seen[c][u] = None THEN users[u] ELSE seen[c][u]]]
  BY DEF Load
<1>4. /\ seen'[c] = [seen[c] EXCEPT ![u] = IF seen[c][u] = None THEN users[u] ELSE seen[c][u]]
      /\ \A d \in Call \ {c} : seen'[d] = seen[d]
  BY <1>2, <1>3
<1>5. seen'[c] \in [Account -> Row \cup {None}]
  <2> DEFINE R == Row \cup {None}
             x == IF seen[c][u] = None THEN users[u] ELSE seen[c][u]
  <2>1. /\ u \in Account => users[u] \in R /\ seen[c][u] \in R
        /\ x = users[u] \/ x = seen[c][u]
        /\ seen[c] \in [Account -> R] /\ seen'[c] = [seen[c] EXCEPT ![u] = x]
    BY <1>1, <1>2, <1>4
  <2> HIDE DEF R, x
  <2>2. seen'[c] \in [Account -> R]
    BY <2>1
  <2> QED
    BY <2>2 DEF R
<1>6. seen' \in [Call -> [Account -> Row \cup {None}]]
  BY <1>2, <1>3, <1>4, <1>5
<1>7. \A v \in Account : seen'[c][v] = seen[c][v] \/ (v = u /\ seen'[c][v] = users[v])
  BY <1>2, <1>4
<1>8. ~overlap => \A v \in Account : seen[c][v] # None => seen[c][v] = users[v]
  BY DEF IInv, Session, Staged
<1>9. ASSUME u \in Account, users[u] # None PROVE seen'[c][u] # None
  BY <1>2, <1>4, <1>9
<1> QED
  BY <1>4, <1>6, <1>7, <1>8, <1>9

LEMMA LoadUserStep == \A c \in Call : IInv /\ LoadUser(c) => IInv'
<1> SUFFICES ASSUME NEW c \in Call, IInv, LoadUser(c) PROVE IInv'
  OBVIOUS
<1>1. pc[c] = "body" /\ req[c].kind \in {"update", "initiate"}
  BY DEF LoadUser
<1>2. Open(c) /\ tx[c] = NoWrites /\ req[c] \in Ask
  BY <1>1, DoingFacts DEF Stage
<1>3. CASE Leave(c)
  BY <1>2, <1>3, LeaveStep
<1>4. CASE ~Leave(c)
  <2>1. /\ users[req[c].of] # None /\ Goto(c, "loaded") /\ Load(c, req[c].of)
        /\ Within /\ UNCHANGED <<hits, tx>>
    BY <1>4 DEF LoadUser
  <2>2. req[c].of \in Account
    BY <1>1, <1>2, AskFacts
  <2> QED
    BY <1>1, <1>2, <2>1, <2>2, LoadFacts, UnwrittenStep
<1> QED
  BY <1>3, <1>4

LEMMA FindLinkStep == \A c \in Call : IInv /\ FindLink(c) => IInv'
<1> SUFFICES ASSUME NEW c \in Call, IInv, FindLink(c) PROVE IInv'
  OBVIOUS
<1>1. pc[c] = "body" /\ req[c].kind = "complete"
  BY DEF FindLink, Doing
<1>2. Open(c) /\ tx[c] = NoWrites
  BY <1>1, DoingFacts DEF Stage
<1>3. CASE Leave(c)
  BY <1>2, <1>3, LeaveStep
<1>4. CASE ~Leave(c)
  <2>1. /\ links[req[c].link] = "open" /\ Goto(c, "loaded") /\ Load(c, Owner(req[c].link))
        /\ Within /\ UNCHANGED <<hits, tx>>
    BY <1>4 DEF FindLink
  <2>2. links[req[c].link] # None
    BY <2>1, NothingWritten
  <2> QED
    BY <1>1, <1>2, <2>1, <2>2, LoadFacts, UnwrittenStep
<1> QED
  BY <1>3, <1>4

LEMMA FindOpenLinksStep == \A c \in Call : IInv /\ FindOpenLinks(c) => IInv'
<1> SUFFICES ASSUME NEW c \in Call, IInv, FindOpenLinks(c) PROVE IInv'
  OBVIOUS
<1>1. /\ pc[c] = "loaded" /\ req[c].kind = "initiate" /\ Goto(c, "invalidate")
      /\ Within /\ UNCHANGED <<seen, tx>>
      /\ hits' = [hits EXCEPT ![c] = {l \in Call : links[l] = "open" /\ Owner(l) = req[c].of}]
  BY DEF FindOpenLinks, Doing
<1>2. Open(c) /\ tx[c] = NoWrites /\ Staged(c) /\ req[c] \in Ask
  BY <1>1, DoingFacts DEF Stage
<1>3. /\ pc' \in [Call -> Stage] /\ pc'[c] = "invalidate"
      /\ \A d \in Call \ {c} : pc'[d] = pc[d]
  BY <1>1 DEF Goto, IInv, TypeOK, Stage
<1>4. TypeOK'
  BY <1>1, <1>3 DEF IInv, TypeOK, Within, tables, tokens
<1>5. Written(c)'
  BY <1>1, <1>2, <1>3, NothingWritten DEF Written
<1>6. Staged(c)'
  BY <1>1, <1>2, <1>3 DEF Staged, Within, tables, Open
<1>7. \A d \in Call \ {c} : tx'[c].holds \cap tx[d].holds = {}
  BY <1>1, <1>2, NothingWritten
<1> QED
  BY <1>1, <1>2, <1>3, <1>4, <1>5, <1>6, <1>7, WithinStep DEF Session, Open

(* What an audit row of a call looks like.                                 *)
LEMMA AuditRows ==
  ASSUME IInv, NEW c \in Call, Open(c),
         req[c].kind = "complete" => links[req[c].link] # None
  PROVE  /\ Target(c) \in Account
         /\ req[c].kind # "complete" => Target(c) = req[c].of
         /\ \A name, u, from, to :
              LET e == Audited(c, name, u, from, to) IN
              e.name = name /\ e.call = c /\ e.of = u /\ e.from = from /\ e.to = to
         /\ \A name \in {"login", "login_failed", "logout", "created", "role_changed",
                         "deactivated", "updated", "reset_initiated", "reset_completed"} :
              /\ Plain(c, name) \in Event
              /\ \A from \in Role, to \in Role : Audited(c, name, Target(c), from, to) \in Event
         /\ \A name : Plain(c, name).call = c /\ Plain(c, name).name = name
                     /\ Plain(c, name).of = Target(c)
<1>1. req[c] \in Ask
  BY DEF IInv, Session, Staged, Open
<1>2. Target(c) \in Account
  <2>1. CASE req[c].kind = "complete"
    BY <2>1, <1>1, AskFacts DEF IInv, Committed, Target, Owner
  <2>2. CASE req[c].kind # "complete"
    BY <2>2, <1>1, AskFacts DEF Target
  <2> QED
    BY <2>1, <2>2
<1> QED
  BY <1>2 DEF Audited, Plain, Event, Target

(* The first writes of a session.                                          *)
W(role, active, pass, holds, audited) ==
  [role |-> role, active |-> active, pass |-> pass, links |-> NoLinks,
   holds |-> holds, audit |-> audited]

LEMMA NothingFirst == NoWrites = W(None, None, None, {}, {})
BY DEF W, NoWrites

LEMMA RoleWritten == \A role, active, pass, holds, audited, x :
  [W(role, active, pass, holds, audited) EXCEPT !.role = x] = W(x, active, pass, holds, audited)
BY SMTT(30) DEF W

LEMMA ActiveWritten == \A role, active, pass, holds, audited, x :
  [W(role, active, pass, holds, audited) EXCEPT !.active = x] = W(role, x, pass, holds, audited)
BY SMTT(30) DEF W

LEMMA PassWritten == \A role, active, pass, holds, audited, x :
  [W(role, active, pass, holds, audited) EXCEPT !.pass = x] = W(role, active, x, holds, audited)
BY SMTT(30) DEF W

LEMMA HoldsWritten == \A role, active, pass, holds, audited, x :
  [W(role, active, pass, holds, audited) EXCEPT !.holds = x] = W(role, active, pass, x, audited)
BY SMTT(30) DEF W

LEMMA AuditWritten == \A role, active, pass, holds, audited, x :
  [W(role, active, pass, holds, audited) EXCEPT !.audit = x] = W(role, active, pass, holds, x)
BY SMTT(30) DEF W

LEMMA FirstWrites ==
  ASSUME NEW c \in Call,
         NEW role \in Role \cup {None}, NEW active \in BOOLEAN \cup {None},
         NEW pass \in Call \cup {None}, NEW holds \in SUBSET (Account \cup Call),
         NEW audited \in SUBSET Event,
         TypeOK, tx' = [tx EXCEPT ![c] = W(role, active, pass, holds, audited)]
  PROVE  /\ tx' \in [Call -> Writes] /\ \A d \in Call \ {c} : tx'[d] = tx[d]
         /\ tx'[c].role = role /\ tx'[c].active = active /\ tx'[c].pass = pass
         /\ tx'[c].holds = holds /\ tx'[c].audit = audited
         /\ \A l \in Call : tx'[c].links[l] = None
<1>1. W(role, active, pass, holds, audited) \in Writes
  BY DEF W, Writes, NoLinks
<1>2. tx'[c] = W(role, active, pass, holds, audited)
  BY DEF TypeOK
<1>3. tx' \in [Call -> Writes] /\ \A d \in Call \ {c} : tx'[d] = tx[d]
  BY <1>1 DEF TypeOK
<1> QED
  BY <1>2, <1>3 DEF W, NoLinks

(* A login or logout writes audit rows only, and holds at most its user.   *)
LEMMA TokenStep ==
  ASSUME IInv, NEW c \in Call, pc[c] \in {"body", "loaded"},
         req[c].kind \in {"login", "logout"},
         Within, UNCHANGED <<seen, hits>>, Goto(c, "commit"),
         NEW holds \in SUBSET Account, Free(c, holds),
         NEW A \in SUBSET Event, \A e \in A : e.call = c,
         tx' = [tx EXCEPT ![c] = W(None, None, None, holds, A)]
  PROVE  IInv'
<1>1. Open(c) /\ tx[c] = NoWrites /\ Staged(c)
  BY DoingFacts DEF Stage
<1>2. /\ tx' \in [Call -> Writes] /\ \A d \in Call \ {c} : tx'[d] = tx[d]
      /\ tx'[c].role = None /\ tx'[c].active = None /\ tx'[c].pass = None
      /\ tx'[c].holds = holds /\ tx'[c].audit = A
      /\ \A l \in Call : tx'[c].links[l] = None
  BY FirstWrites DEF IInv
<1>3. pc'[c] = "commit"
  BY DEF Goto, IInv, TypeOK
<1>4. Written(c)'
  BY <1>2, <1>3, NothingWritten DEF Written, Within
<1>5. Staged(c)'
  BY <1>1, <1>3 DEF Staged, Within, tables, Open
<1>6. \A d \in Call \ {c} : tx'[c].holds \cap tx[d].holds = {}
  BY <1>2 DEF Free
<1> QED
  BY <1>1, <1>2, <1>4, <1>5, <1>6, WriteStep DEF Session, Stage, IInv, TypeOK

LEMMA CheckPasswordStep == \A c \in Call : IInv /\ CheckPassword(c) => IInv'
<1> SUFFICES ASSUME NEW c \in Call, IInv, CheckPassword(c) PROVE IInv'
  OBVIOUS
<1>1. pc[c] = "body" /\ req[c].kind = "login" /\ Within /\ UNCHANGED <<hits>>
  BY DEF CheckPassword, Doing
<1>2. Open(c) /\ tx[c] = NoWrites
  BY <1>1, DoingFacts DEF Stage
<1>3. CASE Goto(c, "loaded") /\ Load(c, req[c].of) /\ UNCHANGED tx
  BY <1>1, <1>2, <1>3, LoadFacts, UnwrittenStep
<1>4. CASE /\ Goto(c, "commit") /\ UNCHANGED seen
           /\ tx' = [tx EXCEPT ![c].audit = {Plain(c, "login_failed")}]
  <2> DEFINE A == {Plain(c, "login_failed")}
  <2>1. A \in SUBSET Event /\ \A e \in A : e.call = c
    BY <1>1, <1>2, AuditRows
  <2>2. tx' = [tx EXCEPT ![c] = [tx[c] EXCEPT !.audit = A]]
    BY <1>4
  <2> HIDE DEF A
  <2>3. [tx[c] EXCEPT !.audit = A] = W(None, None, None, {}, A)
    BY <1>2, NothingFirst, AuditWritten
  <2>4. tx' = [tx EXCEPT ![c] = W(None, None, None, {}, A)] /\ Free(c, {})
    BY <2>2, <2>3 DEF Free
  <2> QED
    BY <1>1, <1>4, <2>1, <2>4, TokenStep
<1> QED
  BY <1>3, <1>4 DEF CheckPassword

LEMMA StampLoginStep == \A c \in Call : IInv /\ StampLogin(c) => IInv'
<1> SUFFICES ASSUME NEW c \in Call, IInv, StampLogin(c) PROVE IInv'
  OBVIOUS
<1> DEFINE A == {Plain(c, "login")}
           H == {req[c].of}
<1>1. pc[c] = "loaded" /\ req[c].kind = "login"
  BY DEF StampLogin, Doing
<1>2. Open(c) /\ tx[c] = NoWrites /\ req[c] \in Ask
  BY <1>1, DoingFacts DEF Stage
<1>3. A \in SUBSET Event /\ (\A e \in A : e.call = c) /\ H \in SUBSET Account
  BY <1>1, <1>2, AuditRows, AskFacts
<1>4. tx' = [tx EXCEPT ![c] = [tx[c] EXCEPT !.holds = H, !.audit = A]] /\ Free(c, H)
  BY DEF StampLogin
<1> HIDE DEF A, H
<1>5. [tx[c] EXCEPT !.holds = H, !.audit = A] = W(None, None, None, H, A)
  <2>1. [tx[c] EXCEPT !.holds = H] = W(None, None, None, H, {})
    BY <1>2, NothingFirst, HoldsWritten
  <2>2. [W(None, None, None, H, {}) EXCEPT !.audit = A] = W(None, None, None, H, A)
    BY AuditWritten
  <2> QED
    BY <2>1, <2>2
<1>6. tx' = [tx EXCEPT ![c] = W(None, None, None, H, A)]
  BY <1>4, <1>5
<1>7. Goto(c, "commit") /\ Within /\ UNCHANGED <<seen, hits>>
  BY DEF StampLogin
<1> QED
  BY <1>1, <1>3, <1>4, <1>6, <1>7, TokenStep

LEMMA LogoutStep == \A c \in Call : IInv /\ Logout(c) => IInv'
<1> SUFFICES ASSUME NEW c \in Call, IInv, Logout(c) PROVE IInv'
  OBVIOUS
<1> DEFINE A == {Plain(c, "logout")}
<1>1. pc[c] = "body" /\ req[c].kind = "logout"
  BY DEF Logout, Doing
<1>2. Open(c) /\ tx[c] = NoWrites
  BY <1>1, DoingFacts DEF Stage
<1>3. A \in SUBSET Event /\ (\A e \in A : e.call = c)
  BY <1>1, <1>2, AuditRows
<1>4. tx' = [tx EXCEPT ![c] = [tx[c] EXCEPT !.audit = A]] /\ Free(c, {})
  BY DEF Logout, Free
<1> HIDE DEF A
<1>5. [tx[c] EXCEPT !.audit = A] = W(None, None, None, {}, A)
  BY <1>2, NothingFirst, AuditWritten
<1>6. tx' = [tx EXCEPT ![c] = W(None, None, None, {}, A)]
  BY <1>4, <1>5
<1>7. Goto(c, "commit") /\ Within /\ UNCHANGED <<seen, hits>>
  BY DEF Logout
<1> QED
  BY <1>1, <1>3, <1>4, <1>6, <1>7, TokenStep

LEMMA WeakPasswordStep == \A c \in Call : IInv /\ WeakPassword(c) => IInv'
BY LeaveStep, DoingFacts DEF WeakPassword, Stage

LEMMA InsertUserStep == \A c \in Call : IInv /\ InsertUser(c) => IInv'
<1> SUFFICES ASSUME NEW c \in Call, IInv, InsertUser(c) PROVE IInv'
  OBVIOUS
<1> DEFINE A == {Plain(c, "created")}
           H == {req[c].of}
           yes == TRUE
<1>1. pc[c] = "insert" /\ req[c].kind = "create" /\ Free(c, H)
  BY DEF InsertUser, Doing
<1>2. Open(c) /\ tx[c] = NoWrites /\ req[c] \in Ask /\ Staged(c)
  BY <1>1, DoingFacts DEF Stage
<1>3. CASE Leave(c)
  BY <1>2, <1>3, LeaveStep
<1>4. CASE ~Leave(c)
  <2>1. /\ users[req[c].of] = None /\ Goto(c, "commit") /\ Within
        /\ UNCHANGED <<seen, hits>>
        /\ tx' = [tx EXCEPT ![c] = [tx[c] EXCEPT !.role = req[c].role, !.active = yes,
                                                 !.holds = H, !.audit = A]]
    BY <1>4 DEF InsertUser
  <2>3. /\ A \in SUBSET Event /\ (\A e \in A : e.call = c)
        /\ H \in SUBSET (Account \cup Call) /\ req[c].role \in Role
    BY <1>1, <1>2, AuditRows, AskFacts
  <2>4. req[c].of \in H /\ yes = TRUE
    OBVIOUS
  <2>a. yes \in BOOLEAN \cup {None}
    OBVIOUS
  <2> HIDE DEF A, H, yes
  <2>2. [tx[c] EXCEPT !.role = req[c].role, !.active = yes, !.holds = H, !.audit = A]
          = W(req[c].role, yes, None, H, A)
    <3>1. [tx[c] EXCEPT !.role = req[c].role] = W(req[c].role, None, None, {}, {})
      BY <1>2, NothingFirst, RoleWritten
    <3>2. [W(req[c].role, None, None, {}, {}) EXCEPT !.active = yes]
            = W(req[c].role, yes, None, {}, {})
      BY ActiveWritten
    <3>3. [W(req[c].role, yes, None, {}, {}) EXCEPT !.holds = H] = W(req[c].role, yes, None, H, {})
      BY HoldsWritten
    <3>4. [W(req[c].role, yes, None, H, {}) EXCEPT !.audit = A] = W(req[c].role, yes, None, H, A)
      BY AuditWritten
    <3> QED
      BY <3>1, <3>2, <3>3, <3>4
  <2>5. /\ tx' \in [Call -> Writes] /\ \A d \in Call \ {c} : tx'[d] = tx[d]
        /\ tx'[c].role = req[c].role /\ tx'[c].active = yes /\ tx'[c].pass = None
        /\ tx'[c].holds = H /\ tx'[c].audit = A
        /\ \A l \in Call : tx'[c].links[l] = None
    <3>1. tx' = [tx EXCEPT ![c] = W(req[c].role, yes, None, H, A)]
      BY <2>1, <2>2
    <3>2. TypeOK /\ req[c].role \in Role \cup {None} /\ None \in Call \cup {None}
      BY <2>3 DEF IInv
    <3> QED
      BY <2>3, <2>a, <3>1, <3>2, FirstWrites
  <2>6. pc'[c] = "commit"
    BY <2>1 DEF Goto, IInv, TypeOK
  <2>7. Written(c)'
    BY <1>1, <2>1, <2>3, <2>4, <2>5, <2>6, NothingWritten DEF Written, Within, tables
  <2>8. Staged(c)'
    BY <1>1, <1>2, <2>1, <2>6 DEF Staged, Within, tables, Open
  <2>9. \A d \in Call \ {c} : tx'[c].holds \cap tx[d].holds = {}
    BY <1>1, <2>5 DEF Free
  <2> QED
    BY <1>2, <2>1, <2>5, <2>7, <2>8, <2>9, WriteStep DEF Session, Stage, IInv, TypeOK
<1> QED
  BY <1>3, <1>4

(* What update_user writes and audits, given the row it has loaded.        *)
LEMMA UpdateWrites ==
  ASSUME NEW c, NEW old \in Row, NEW role \in Role, NEW active \in BOOLEAN
  PROVE  /\ Changed(role, old.role) \in Role \cup {None}
         /\ Changed(active, old.active) \in BOOLEAN \cup {None}
         /\ Changed(role, old.role) # None =>
              /\ Changed(role, old.role) = role
              /\ Audited(c, "role_changed", req[c].of, old.role, role)
                   \in UpdateAudits(c, old, role, active)
         /\ Changed(active, old.active) = FALSE =>
              Plain(c, "deactivated") \in UpdateAudits(c, old, role, active)
<1>1. old.active \in BOOLEAN /\ old.role \in Role
  BY DEF Row
<1>2. Changed(role, old.role) \in Role \cup {None}
  BY <1>1 DEF Changed
<1>3. Changed(active, old.active) \in BOOLEAN \cup {None}
  BY <1>1 DEF Changed
<1>4. ASSUME Changed(role, old.role) # None
      PROVE  /\ Changed(role, old.role) = role
             /\ Audited(c, "role_changed", req[c].of, old.role, role)
                  \in UpdateAudits(c, old, role, active)
  <2>1. role # old.role /\ Changed(role, old.role) = role
    BY <1>4 DEF Changed
  <2> QED
    BY <2>1 DEF UpdateAudits
<1>5. ASSUME Changed(active, old.active) = FALSE
      PROVE  Plain(c, "deactivated") \in UpdateAudits(c, old, role, active)
  <2>1. CASE active = old.active
    BY <2>1, <1>5, NothingWritten DEF Changed
  <2>2. CASE active # old.active
    <3>1. active = FALSE
      BY <2>2, <1>5 DEF Changed
    <3>2. old.active = TRUE
      BY <3>1, <2>2, <1>1
    <3> QED
      BY <3>1, <3>2 DEF UpdateAudits
  <2> QED
    BY <2>1, <2>2
<1> QED
  BY <1>2, <1>3, <1>4, <1>5

LEMMA UpdateUserStep == \A c \in Call : IInv /\ UpdateUser(c) => IInv'
<1> SUFFICES ASSUME NEW c \in Call, IInv, UpdateUser(c) PROVE IInv'
  OBVIOUS
<1> DEFINE u == req[c].of
           old == seen[c][u]
           role == Given(req[c].role, old.role)
           active == Given(req[c].active, old.active)
           R == Changed(role, old.role)
           B == Changed(active, old.active)
           A == UpdateAudits(c, old, role, active)
           H == {u}
<1>1. pc[c] = "loaded" /\ req[c].kind = "update"
  BY DEF UpdateUser, Doing
<1>2. Open(c) /\ tx[c] = NoWrites /\ req[c] \in Ask /\ Staged(c)
  BY <1>1, DoingFacts DEF Stage
<1>3. CASE Leave(c)
  BY <1>2, <1>3, LeaveStep
<1>4. CASE ~Leave(c)
  <2>1. /\ Free(c, H) /\ Goto(c, "commit") /\ Within /\ UNCHANGED <<seen, hits>>
        /\ tx' = [tx EXCEPT ![c] = [tx[c] EXCEPT !.role = R, !.active = B, !.holds = H, !.audit = A]]
    BY <1>4 DEF UpdateUser
  <2>2. u \in Account /\ old \in Row /\ old # None /\ (overlap \/ old = users[u])
    <3>1. u \in Account /\ seen[c][u] # None /\ seen[c][u] \in Row \cup {None}
      BY <1>1, <1>2, AskFacts DEF Staged, IInv, TypeOK
    <3> QED
      BY <3>1, <1>2 DEF Staged
  <2>3. role \in Role /\ active \in BOOLEAN
    <3>1. req[c].role \in Role \cup {None} /\ req[c].active \in BOOLEAN \cup {None}
      BY <1>2, AskFacts
    <3>2. old.role \in Role /\ old.active \in BOOLEAN
      BY <2>2 DEF Row
    <3>3. role \in Role
      BY <3>1, <3>2 DEF Given
    <3>4. active \in BOOLEAN
      BY <3>1, <3>2 DEF Given
    <3> QED
      BY <3>3, <3>4
  <2>4. /\ R \in Role \cup {None} /\ B \in BOOLEAN \cup {None}
        /\ R # None => R = role /\ Audited(c, "role_changed", u, old.role, role) \in A
        /\ B = FALSE => Plain(c, "deactivated") \in A
    <3> HIDE DEF old, role, active
    <3> QED
      BY <2>2, <2>3, UpdateWrites
  <2>5. A \in SUBSET Event /\ \A e \in A : e.call = c
    <3>1. /\ A \subseteq {Audited(c, "role_changed", Target(c), old.role, role),
                          Plain(c, "deactivated"), Plain(c, "updated")}
          /\ old.role \in Role
      BY <1>1, <2>2 DEF UpdateAudits, Target, Row
    <3> HIDE DEF A, old, role
    <3> QED
      BY <1>1, <1>2, <2>3, <3>1, AuditRows
  <2>6. R # None => \E e \in A :
          e.name = "role_changed" /\ e.of = u /\ e.from = old.role /\ e.to = R
    <3> HIDE DEF A, R, old, role, u
    <3> QED
      BY <1>1, <1>2, <2>4, AuditRows
  <2>7. B = FALSE => \E e \in A : e.name = "deactivated" /\ e.of = u
    <3>1. Target(c) = u
      BY <1>1 DEF Target
    <3> HIDE DEF A, B, u
    <3> QED
      BY <1>1, <1>2, <2>4, <3>1, AuditRows
  <2>8. H \in SUBSET (Account \cup Call)
    BY <2>2
  <2>9. R \in {None, req[c].role} /\ B \in {None, req[c].active}
    BY DEF Changed, Given
  <2> HIDE DEF A, B, R, H, old, role, active
  <2>10. tx' = [tx EXCEPT ![c] = W(R, B, None, H, A)]
    <3>1. [tx[c] EXCEPT !.role = R] = W(R, None, None, {}, {})
      BY <1>2, NothingFirst, RoleWritten
    <3>2. [W(R, None, None, {}, {}) EXCEPT !.active = B] = W(R, B, None, {}, {})
      BY ActiveWritten
    <3>3. [W(R, B, None, {}, {}) EXCEPT !.holds = H] = W(R, B, None, H, {})
      BY HoldsWritten
    <3>4. [W(R, B, None, H, {}) EXCEPT !.audit = A] = W(R, B, None, H, A)
      BY AuditWritten
    <3> QED
      BY <2>1, <3>1, <3>2, <3>3, <3>4
  <2>11. /\ tx' \in [Call -> Writes] /\ \A d \in Call \ {c} : tx'[d] = tx[d]
         /\ tx'[c].role = R /\ tx'[c].active = B /\ tx'[c].pass = None
         /\ tx'[c].holds = H /\ tx'[c].audit = A
         /\ \A l \in Call : tx'[c].links[l] = None
    <3>1. TypeOK /\ None \in Call \cup {None}
      BY DEF IInv
    <3> QED
      BY <2>4, <2>5, <2>8, <2>10, <3>1, FirstWrites
  <2>12. pc'[c] = "commit" /\ req' = req /\ users' = users /\ overlap' = overlap /\ links' = links
    BY <2>1 DEF Goto, IInv, TypeOK, Within, tables
  <2>13. users[u] # None \/ overlap
    BY <2>2
  <2>14. Written(c)'
    BY <1>1, <2>2, <2>5, <2>6, <2>7, <2>9, <2>11, <2>12, <2>13, NothingWritten DEF Written
  <2>15. Staged(c)'
    BY <1>1, <1>2, <2>1, <2>12 DEF Staged, Open
  <2>16. \A d \in Call \ {c} : tx'[c].holds \cap tx[d].holds = {}
    BY <2>1, <2>11 DEF Free
  <2> QED
    BY <1>2, <2>1, <2>11, <2>14, <2>15, <2>16, WriteStep DEF Session, Stage, IInv, TypeOK
<1> QED
  BY <1>3, <1>4

(* Closing links, issuing one and spending one write links.                *)
LEMMA InvalidateStep == \A c \in Call : IInv /\ Invalidate(c) => IInv'
<1> SUFFICES ASSUME NEW c \in Call, IInv, Invalidate(c) PROVE IInv'
  OBVIOUS
<1> DEFINE found == {l \in hits[c] : links[l] = "open"}
           L == [l \in Call |-> IF l \in found THEN "used" ELSE None]
<1>1. /\ pc[c] = "invalidate" /\ req[c].kind = "initiate" /\ Free(c, hits[c])
      /\ Goto(c, "send") /\ Within /\ UNCHANGED <<seen, hits>>
      /\ tx' = [tx EXCEPT ![c] = [tx[c] EXCEPT !.links = L, !.holds = found]]
  BY DEF Invalidate, Doing
<1>2. Open(c) /\ tx[c] = NoWrites /\ Staged(c) /\ tx[c] \in Writes
  BY <1>1, DoingFacts DEF Stage
<1>3. found \subseteq Call /\ found \subseteq hits[c]
  BY DEF IInv, TypeOK
<1>4. L \in [Call -> LinkState \cup {None}]
  BY DEF LinkState
<1>5. \A l \in Call : L[l] = None \/ (L[l] = "used" /\ links[l] = "open")
  OBVIOUS
<1> HIDE DEF found, L
<1>6. /\ tx'[c] \in Writes /\ tx'[c].links = L /\ tx'[c].holds = found
      /\ tx'[c].role = None /\ tx'[c].active = None /\ tx'[c].pass = None /\ tx'[c].audit = {}
  <2> DEFINE r == [tx[c] EXCEPT !.links = L]
             w == [r EXCEPT !.holds = found]
  <2>1. r \in Writes /\ r.links = L
        /\ r.role = None /\ r.active = None /\ r.pass = None /\ r.audit = {}
    BY <1>2, <1>4, NothingWritten DEF Writes
  <2> HIDE DEF r
  <2>2. /\ w \in Writes /\ w.links = L /\ w.holds = found
        /\ w.role = None /\ w.active = None /\ w.pass = None /\ w.audit = {}
    BY <1>3, <2>1 DEF Writes
  <2>3. tx'[c] = w
    BY <1>1 DEF IInv, TypeOK, r
  <2> QED
    BY <2>2, <2>3
<1>7. tx' \in [Call -> Writes] /\ \A d \in Call \ {c} : tx'[d] = tx[d]
  BY <1>1, <1>6 DEF IInv, TypeOK
<1>8. pc'[c] = "send" /\ req' = req /\ links' = links /\ overlap' = overlap /\ users' = users
  BY <1>1 DEF Goto, IInv, TypeOK, Within, tables
<1>9. Written(c)'
  BY <1>1, <1>5, <1>6, <1>8, NothingWritten DEF Written
<1>10. Staged(c)'
  BY <1>1, <1>2, <1>8 DEF Staged, Open
<1>11. \A d \in Call \ {c} : tx'[c].holds \cap tx[d].holds = {}
  BY <1>1, <1>3, <1>6 DEF Free
<1> QED
  BY <1>1, <1>2, <1>7, <1>9, <1>10, <1>11, WriteStep DEF Session, Stage, IInv, TypeOK

LEMMA SendLinkStep == \A c \in Call : IInv /\ SendLink(c) => IInv'
<1> SUFFICES ASSUME NEW c \in Call, IInv, SendLink(c) PROVE IInv'
  OBVIOUS
<1> DEFINE A == {Plain(c, "reset_initiated")}
           L == [tx[c].links EXCEPT ![c] = "open"]
<1>1. /\ pc[c] = "send" /\ req[c].kind = "initiate"
      /\ Goto(c, "commit") /\ Within /\ UNCHANGED <<seen, hits>>
      /\ tx' = [tx EXCEPT ![c] = [tx[c] EXCEPT !.links = L, !.audit = A]]
  BY DEF SendLink, Doing
<1>2. Open(c) /\ Written(c) /\ Staged(c) /\ tx[c] \in Writes
  BY <1>1, DoingFacts DEF Stage
<1>3. /\ L \in [Call -> LinkState \cup {None}] /\ L[c] = "open"
      /\ \A l \in Call \ {c} : L[l] = tx[c].links[l]
  BY <1>2 DEF Writes, LinkState
<1>4. A \in SUBSET Event /\ \A e \in A : e.call = c
  BY <1>1, <1>2, AuditRows
<1> HIDE DEF A, L
<1>5. /\ tx'[c] \in Writes /\ tx'[c].links = L /\ tx'[c].audit = A
      /\ tx'[c].role = tx[c].role /\ tx'[c].active = tx[c].active
      /\ tx'[c].pass = tx[c].pass /\ tx'[c].holds = tx[c].holds
  <2> DEFINE r == [tx[c] EXCEPT !.links = L]
             w == [r EXCEPT !.audit = A]
  <2>1. r \in Writes /\ r.links = L /\ r.role = tx[c].role /\ r.active = tx[c].active
        /\ r.pass = tx[c].pass /\ r.holds = tx[c].holds
    BY <1>2, <1>3 DEF Writes
  <2> HIDE DEF r
  <2>2. /\ w \in Writes /\ w.links = L /\ w.audit = A /\ w.role = tx[c].role
        /\ w.active = tx[c].active /\ w.pass = tx[c].pass /\ w.holds = tx[c].holds
    BY <1>4, <2>1 DEF Writes
  <2>3. tx'[c] = w
    BY <1>1 DEF IInv, TypeOK, r
  <2> QED
    BY <2>2, <2>3
<1>6. tx' \in [Call -> Writes] /\ \A d \in Call \ {c} : tx'[d] = tx[d]
  BY <1>1, <1>5 DEF IInv, TypeOK
<1>7. pc'[c] = "commit" /\ req' = req /\ links' = links /\ overlap' = overlap /\ users' = users
  BY <1>1 DEF Goto, IInv, TypeOK, Within, tables
<1>8. Written(c)'
  BY <1>1, <1>2, <1>3, <1>4, <1>5, <1>7 DEF Written
<1>9. Staged(c)'
  BY <1>1, <1>2, <1>7 DEF Staged, Open
<1>10. \A d \in Call \ {c} : tx'[c].holds \cap tx[d].holds = {}
  BY <1>5 DEF IInv, Apart
<1> QED
  BY <1>1, <1>2, <1>6, <1>8, <1>9, <1>10, WriteStep DEF Session, Stage, IInv, TypeOK

LEMMA SetPasswordStep == \A c \in Call : IInv /\ SetPassword(c) => IInv'
<1> SUFFICES ASSUME NEW c \in Call, IInv, SetPassword(c) PROVE IInv'
  OBVIOUS
<1> DEFINE H == {Target(c)}
<1>1. /\ pc[c] = "loaded" /\ req[c].kind = "complete" /\ Free(c, H)
      /\ Goto(c, "mark") /\ Within /\ UNCHANGED <<seen, hits>>
      /\ tx' = [tx EXCEPT ![c] = [tx[c] EXCEPT !.pass = c, !.holds = H]]
  BY DEF SetPassword, Doing
<1>2. Open(c) /\ tx[c] = NoWrites /\ Staged(c)
  BY <1>1, DoingFacts DEF Stage
<1>3. H \in SUBSET (Account \cup Call)
  BY <1>1, <1>2, AuditRows DEF Staged
<1> HIDE DEF H
<1>4. tx' = [tx EXCEPT ![c] = W(None, None, c, H, {})]
  <2>1. [tx[c] EXCEPT !.pass = c] = W(None, None, c, {}, {})
    BY <1>2, NothingFirst, PassWritten
  <2>2. [W(None, None, c, {}, {}) EXCEPT !.holds = H] = W(None, None, c, H, {})
    BY HoldsWritten
  <2> QED
    BY <1>1, <2>1, <2>2
<1>5. /\ tx' \in [Call -> Writes] /\ \A d \in Call \ {c} : tx'[d] = tx[d]
      /\ tx'[c].role = None /\ tx'[c].active = None /\ tx'[c].pass = c
      /\ tx'[c].holds = H /\ tx'[c].audit = {}
      /\ \A l \in Call : tx'[c].links[l] = None
  <2> DEFINE none == None
             E == {}
  <2>1. /\ TypeOK /\ c \in Call \cup {None} /\ none \in Role \cup {None}
        /\ none \in BOOLEAN \cup {None} /\ E \in SUBSET Event
        /\ tx' = [tx EXCEPT ![c] = W(none, none, c, H, E)]
    BY <1>4 DEF IInv
  <2> HIDE DEF none, E
  <2>2. /\ tx' \in [Call -> Writes] /\ \A d \in Call \ {c} : tx'[d] = tx[d]
        /\ tx'[c].role = none /\ tx'[c].active = none /\ tx'[c].pass = c
        /\ tx'[c].holds = H /\ tx'[c].audit = E
        /\ \A l \in Call : tx'[c].links[l] = None
    BY <1>3, <2>1, FirstWrites
  <2> QED
    BY <2>2 DEF none, E
<1>6. pc'[c] = "mark" /\ req' = req /\ links' = links /\ overlap' = overlap /\ users' = users
  BY <1>1 DEF Goto, IInv, TypeOK, Within, tables
<1>7. Written(c)'
  BY <1>1, <1>5, <1>6, NothingWritten DEF Written
<1>8. Staged(c)'
  BY <1>1, <1>2, <1>6 DEF Staged, Open
<1>9. \A d \in Call \ {c} : tx'[c].holds \cap tx[d].holds = {}
  BY <1>1, <1>5 DEF Free
<1> QED
  BY <1>1, <1>2, <1>5, <1>7, <1>8, <1>9, WriteStep DEF Session, Stage, IInv, TypeOK

LEMMA MarkUsedStep == \A c \in Call : IInv /\ MarkUsed(c) => IInv'
<1> SUFFICES ASSUME NEW c \in Call, IInv, MarkUsed(c) PROVE IInv'
  OBVIOUS
<1> DEFINE k == req[c].link
           A == {Plain(c, "reset_completed")}
           L == [tx[c].links EXCEPT ![k] = "used"]
           H == tx[c].holds \cup {k}
<1>1. /\ pc[c] = "mark" /\ req[c].kind = "complete" /\ Free(c, {k})
      /\ Goto(c, "commit") /\ Within /\ UNCHANGED <<seen, hits>>
      /\ tx' = [tx EXCEPT ![c] = [tx[c] EXCEPT !.links = L, !.holds = H, !.audit = A]]
  BY DEF MarkUsed, Doing
<1>2. Open(c) /\ Written(c) /\ Staged(c) /\ tx[c] \in Writes /\ k \in Call /\ links[k] # None
  BY <1>1, DoingFacts, AskFacts DEF Stage, Staged
<1>3. /\ L \in [Call -> LinkState \cup {None}] /\ L[k] = "used"
      /\ \A l \in Call \ {k} : L[l] = tx[c].links[l]
  BY <1>2 DEF Writes, LinkState
<1>4. A \in SUBSET Event /\ \A e \in A : e.call = c
  BY <1>1, <1>2, AuditRows
<1>5. H \in SUBSET (Account \cup Call)
  BY <1>2 DEF Writes
<1>6. \A d \in Call \ {c} : H \cap tx[d].holds = {}
  BY <1>1 DEF Free, IInv, Apart
<1> HIDE DEF A, L, H
<1>7. /\ tx'[c] \in Writes /\ tx'[c].links = L /\ tx'[c].audit = A /\ tx'[c].holds = H
      /\ tx'[c].role = tx[c].role /\ tx'[c].active = tx[c].active /\ tx'[c].pass = tx[c].pass
  <2> DEFINE r == [tx[c] EXCEPT !.links = L]
             s == [r EXCEPT !.holds = H]
             w == [s EXCEPT !.audit = A]
  <2>1. r \in Writes /\ r.links = L /\ r.role = tx[c].role /\ r.active = tx[c].active
        /\ r.pass = tx[c].pass
    BY <1>2, <1>3 DEF Writes
  <2> HIDE DEF r
  <2>2. s \in Writes /\ s.links = L /\ s.role = tx[c].role /\ s.active = tx[c].active
        /\ s.pass = tx[c].pass /\ s.holds = H
    BY <1>5, <2>1 DEF Writes
  <2> HIDE DEF s
  <2>3. /\ w \in Writes /\ w.links = L /\ w.audit = A /\ w.role = tx[c].role
        /\ w.active = tx[c].active /\ w.pass = tx[c].pass /\ w.holds = H
    BY <1>4, <2>2 DEF Writes
  <2>4. tx'[c] = w
    BY <1>1 DEF IInv, TypeOK, r, s
  <2> QED
    BY <2>3, <2>4
<1>8. tx' \in [Call -> Writes] /\ \A d \in Call \ {c} : tx'[d] = tx[d]
  BY <1>1, <1>7 DEF IInv, TypeOK
<1>9. pc'[c] = "commit" /\ req' = req /\ links' = links /\ overlap' = overlap /\ users' = users
  BY <1>1 DEF Goto, IInv, TypeOK, Within, tables
<1>10. Written(c)'
  BY <1>1, <1>2, <1>3, <1>4, <1>7, <1>9 DEF Written
<1>11. Staged(c)'
  BY <1>1, <1>2, <1>9 DEF Staged, Open
<1>12. \A d \in Call \ {c} : tx'[c].holds \cap tx[d].holds = {}
  BY <1>6, <1>7
<1> QED
  BY <1>1, <1>2, <1>8, <1>10, <1>11, <1>12, WriteStep DEF Session, Stage, IInv, TypeOK

-----------------------------------------------------------------------------
(* The commit.                                                             *)

(* A commit inserts the row of a create, or sets the columns written.      *)
LEMMA CommitRows ==
  ASSUME IInv, NEW c \in Call, Commit(c)
  PROVE  /\ Open(c) /\ Written(c) /\ Staged(c) /\ req[c] \in Ask /\ tx[c] \in Writes
         /\ pc[c] = "commit" /\ Target(c) \in Account
         /\ req[c].kind # "complete" => Target(c) = req[c].of
         /\ users' \in [Account -> Row \cup {None}]
         /\ \A v \in Account : users'[v] # users[v] => v = Target(c)
         /\ users[Target(c)] = None /\ users' # users => req[c].kind = "create"
         /\ users[Target(c)] = None => users'[Target(c)] = None \/ users'[Target(c)].pass = tx[c].pass
         /\ users[Target(c)] # None =>
              users'[Target(c)] = [role |-> Given(tx[c].role, users[Target(c)].role),
                                   active |-> Given(tx[c].active, users[Target(c)].active),
                                   pass |-> Given(tx[c].pass, users[Target(c)].pass)]
<1> DEFINE u == Target(c)
           w == tx[c]
           new == [role |-> w.role, active |-> w.active, pass |-> w.pass]
           old == users[u]
           set == [role |-> Given(w.role, old.role), active |-> Given(w.active, old.active),
                   pass |-> Given(w.pass, old.pass)]
<1>1. pc[c] = "commit"
  BY DEF Commit
<1>2. Open(c) /\ Written(c) /\ Staged(c) /\ req[c] \in Ask /\ w \in Writes
  BY <1>1, DoingFacts DEF Stage
<1>3. u \in Account /\ (req[c].kind # "complete" => u = req[c].of)
  BY <1>1, <1>2, AuditRows DEF Staged
<1>4. users \in [Account -> Row \cup {None}]
  BY DEF IInv, TypeOK
<1>5. users' = IF users[u] = None
               THEN IF req[c].kind = "create" THEN [users EXCEPT ![u] = new] ELSE users
               ELSE [users EXCEPT ![u] = set]
  BY DEF Commit
<1>6. req[c].kind = "create" => new \in Row
  BY <1>1, <1>2 DEF Written, Row, Writes
<1>7. old # None => set \in Row
  <2> SUFFICES ASSUME old # None PROVE set \in Row
    OBVIOUS
  <2>1. old \in Row
    BY <1>3, <1>4
  <2>2. old.role \in Role /\ old.active \in BOOLEAN /\ old.pass \in Call \cup {None}
    BY <2>1 DEF Row
  <2>3. w.role \in Role \cup {None} /\ w.active \in BOOLEAN \cup {None} /\ w.pass \in Call \cup {None}
    BY <1>2 DEF Writes
  <2>4. Given(w.role, old.role) \in Role
    BY <2>2, <2>3 DEF Given
  <2>5. Given(w.active, old.active) \in BOOLEAN
    BY <2>2, <2>3 DEF Given
  <2>6. Given(w.pass, old.pass) \in Call \cup {None}
    BY <2>2, <2>3 DEF Given
  <2> QED
    BY <2>4, <2>5, <2>6 DEF Row
<1>8. new.pass = w.pass
  OBVIOUS
<1> HIDE DEF u, new, set
<1>9. /\ users' \in [Account -> Row \cup {None}]
      /\ \A v \in Account : users'[v] # users[v] => v = u
      /\ users[u] = None /\ users' # users => req[c].kind = "create"
      /\ users[u] = None => users'[u] = None \/ users'[u].pass = w.pass
      /\ users[u] # None => users'[u] = set
  <2>1. CASE users[u] = None /\ req[c].kind = "create"
    <3>1. users' = [users EXCEPT ![u] = new] /\ new \in Row
      BY <1>5, <1>6, <2>1
    <3> QED
      BY <1>3, <1>4, <1>8, <2>1, <3>1
  <2>2. CASE users[u] = None /\ req[c].kind # "create"
    <3>1. users' = users
      BY <1>5, <2>2
    <3> QED
      BY <1>4, <2>2, <3>1
  <2>3. CASE users[u] # None
    <3>1. users' = [users EXCEPT ![u] = set] /\ set \in Row
      BY <1>5, <1>7, <2>3
    <3> QED
      BY <1>3, <1>4, <2>3, <3>1
  <2> QED
    BY <2>1, <2>2, <2>3
<1> QED
  BY <1>1, <1>2, <1>3, <1>9 DEF u, set

LEMMA CommitStep == \A c \in Call : IInv /\ Commit(c) => IInv'
<1> SUFFICES ASSUME NEW c \in Call, IInv, Commit(c) PROVE IInv'
  OBVIOUS
<1> DEFINE u == Target(c)
           w == tx[c]
<1>1. /\ Open(c) /\ Written(c) /\ Staged(c) /\ req[c] \in Ask /\ w \in Writes
      /\ pc[c] = "commit" /\ u \in Account /\ (req[c].kind # "complete" => u = req[c].of)
      /\ users' \in [Account -> Row \cup {None}]
      /\ \A v \in Account : users'[v] # users[v] => v = u
      /\ users[u] = None /\ users' # users => req[c].kind = "create"
      /\ users[u] = None => users'[u] = None \/ users'[u].pass = w.pass
      /\ users[u] # None => users'[u].pass = Given(w.pass, users[u].pass)
  <2>1. users[u] # None =>
          users'[u] = [role |-> Given(w.role, users[u].role),
                       active |-> Given(w.active, users[u].active),
                       pass |-> Given(w.pass, users[u].pass)]
    BY CommitRows
  <2>2. users[u] # None => users'[u].pass = Given(w.pass, users[u].pass)
    BY <2>1
  <2> HIDE DEF u
  <2> QED
    BY <2>2, CommitRows DEF u
<1> HIDE DEF u
<1>2. /\ pc' = [pc EXCEPT ![c] = "done"] /\ seen' = [seen EXCEPT ![c] = Nobody]
      /\ tx' = [tx EXCEPT ![c] = NoWrites] /\ hits' = [hits EXCEPT ![c] = {}]
      /\ links' = [l \in Call |-> Given(w.links[l], links[l])]
      /\ audit' = audit \cup w.audit
      /\ UNCHANGED <<overlap, req, events>>
  BY DEF Commit, Close, Goto
<1>3. access' \subseteq Account /\ refresh' \subseteq Account
  <2>1. PICK granted \in SUBSET {Target(c)} : access' = access \cup granted /\ refresh' = refresh \cup granted
    BY DEF Commit
  <2> QED
    BY <1>1, <2>1 DEF IInv, TypeOK, u
<1>4. \A l \in Call :
        /\ w.links[l] \in LinkState \cup {None} /\ links[l] \in LinkState \cup {None}
        /\ links'[l] = IF w.links[l] = None THEN links[l] ELSE w.links[l]
  BY <1>1, <1>2 DEF Writes, IInv, TypeOK, Given
<1>5. TypeOK'
  <2>1. links' \in [Call -> LinkState \cup {None}]
    BY <1>2, <1>4
  <2>2. pc' \in [Call -> Stage] /\ seen' \in [Call -> [Account -> Row \cup {None}]]
        /\ tx' \in [Call -> Writes] /\ hits' \in [Call -> SUBSET Call]
    BY <1>2, NothingWritten DEF IInv, TypeOK, Nobody, Stage
  <2>3. audit' \in SUBSET Event
    BY <1>1, <1>2 DEF IInv, TypeOK, Writes
  <2> QED
    BY <1>1, <1>2, <1>3, <2>1, <2>2, <2>3 DEF IInv, TypeOK
<1>6. tx'[c] = NoWrites /\ pc'[c] = "done"
  BY <1>2 DEF IInv, TypeOK
<1>7. \A d \in Call \ {c} : pc'[d] = pc[d] /\ seen'[d] = seen[d] /\ tx'[d] = tx[d]
  BY <1>2 DEF IInv, TypeOK
<1>8. ASSUME NEW d \in Call PROVE Session(d)'
  <2>1. CASE d = c
    <3>1. Written(c)'
      BY <1>6, NothingWritten DEF Written
    <3>2. Staged(c)'
      BY <1>1, <1>2, <1>6 DEF Staged, Open
    <3> QED
      BY <2>1, <3>1, <3>2 DEF Session
  <2>2. CASE d # c
    <3>1. \A l \in Call : links[l] # None => links'[l] # None
      BY <1>4
    <3>2. ~overlap => ~Open(d)
      BY <1>1, <2>2 DEF IInv, Apart
    <3>3. pc[d] = "commit" /\ req[d].kind = "create" => users'[req[d].of] = users[req[d].of]
      <4> SUFFICES ASSUME pc[d] = "commit", req[d].kind = "create",
                          users'[req[d].of] # users[req[d].of]
                   PROVE  FALSE
        OBVIOUS
      <4>1. /\ users[req[d].of] = None /\ req[d].of \in tx[d].holds
            /\ req[d] \in Ask
        BY DEF IInv, Session, Written, Staged
      <4>2. req[d].of \in Account
        BY <4>1, AskFacts
      <4>3. u = req[d].of /\ req[c].kind = "create"
        BY <1>1, <4>1, <4>2
      <4>4. u \in tx[c].holds
        BY <1>1, <4>3 DEF Written
      <4> QED
        BY <2>2, <4>1, <4>3, <4>4 DEF IInv, Apart
    <3>4. overlap \in BOOLEAN
      BY DEF IInv, TypeOK
    <3> QED
      BY <1>2, <1>7, <2>2, <3>1, <3>2, <3>3, <3>4, Frame
  <2> QED
    BY <2>1, <2>2
<1>9. Apart'
  <2>1. ASSUME NEW d \in Call, NEW e \in Call, d # e
        PROVE  tx'[d].holds \cap tx'[e].holds = {}
    BY <2>1, <1>6, <1>7, NothingWritten DEF IInv, Apart
  <2>2. \A d \in Call : Open(d)' => Open(d)
    BY <1>6, <1>7 DEF Open
  <2> QED
    BY <1>2, <2>1, <2>2 DEF IInv, Apart
<1>10. \A d \in Call : pc[d] = "done" => pc'[d] = "done"
  BY <1>6, <1>7
<1>11. \A l \in Call : links[l] = "used" => links'[l] = "used"
  <2> SUFFICES ASSUME NEW l \in Call, links[l] = "used" PROVE links'[l] = "used"
    OBVIOUS
  <2>1. w.links[l] # "open"
    <3> SUFFICES ASSUME w.links[l] = "open" PROVE FALSE
      OBVIOUS
    <3>1. l = c
      BY <1>1 DEF Written
    <3>2. pc[l] = "done"
      BY NothingWritten DEF IInv, Committed
    <3> QED
      BY <1>1, <3>1, <3>2
  <2> QED
    BY <1>1, <1>4, <2>1 DEF Written
<1>12. Committed'
  <2>1. \A e \in audit' : pc'[e.call] = "done"
    <3>1. \A e \in audit : e.call \in Call
      BY DEF IInv, TypeOK, Event
    <3> QED
      BY <1>1, <1>2, <1>6, <1>10, <3>1 DEF Written, IInv, Committed
  <2>2. ASSUME NEW l \in Call, links'[l] # None
        PROVE  pc'[l] = "done" /\ req'[l] \in Ask /\ req'[l].kind = "initiate"
    <3>1. CASE links[l] # None
      BY <1>2, <1>10, <3>1 DEF IInv, Committed
    <3>2. CASE links[l] = None
      <4>1. l = c /\ req[c].kind = "initiate"
        BY <1>1, <1>4, <2>2, <3>2 DEF Written
      <4> QED
        BY <1>1, <1>2, <1>6, <4>1
    <3> QED
      BY <3>1, <3>2
  <2>3. ASSUME NEW v \in Account, users'[v] # None, users'[v].pass # None
        PROVE  /\ pc'[users'[v].pass] = "done" /\ req'[users'[v].pass].kind = "complete"
               /\ links'[req'[users'[v].pass].link] = "used"
    <3>1. CASE users'[v].pass = w.pass
      <4>1. w.pass = c /\ req[c].kind = "complete" /\ w.links[req[c].link] = "used"
        BY <1>1, <2>3, <3>1 DEF Written
      <4>2. req[c].link \in Call
        BY <1>1, <4>1, AskFacts
      <4>3. links'[req[c].link] = "used"
        BY <1>4, <4>1, <4>2, NothingWritten
      <4> QED
        BY <1>2, <1>6, <3>1, <4>1, <4>3
    <3>2. CASE users'[v].pass # w.pass
      <4>1. users[v] # None /\ users[v].pass = users'[v].pass
        BY <1>1, <2>3, <3>2 DEF Given
      <4> DEFINE p == users[v].pass
      <4>2. p \in Call /\ pc[p] = "done" /\ req[p].kind = "complete" /\ links[req[p].link] = "used"
        BY <2>3, <4>1 DEF IInv, TypeOK, Committed, Row
      <4>3. req[p] \in Ask
        BY <4>2 DEF IInv, Session, Staged
      <4>4. req[p].link \in Call
        BY <4>2, <4>3, AskFacts
      <4> QED
        BY <1>2, <1>10, <1>11, <4>1, <4>2, <4>4
    <3> QED
      BY <3>1, <3>2
  <2> QED
    BY <2>1, <2>2, <2>3 DEF Committed
<1> QED
  BY <1>5, <1>8, <1>9, <1>12 DEF IInv

-----------------------------------------------------------------------------

LEMMA InitIInv == Init => IInv
<1> SUFFICES ASSUME Init PROVE IInv
  OBVIOUS
<1>1. TypeOK
  <2>1. users \in [Account -> Row \cup {None}]
    <3>1. \A v \in Account :
            users[v] = None \/ (users[v] \in Row /\ users[v].pass = None)
      BY DEF Init, Row, Role
    <3> QED
      BY <3>1 DEF Init
  <2> QED
    BY <2>1, NothingWritten, AccountAssumption, EventAssumption DEF Init, TypeOK, NoLinks, Nobody, Stage
<1>2. \A c \in Call : Session(c)
  BY NothingWritten DEF Init, Session, Written, Staged, Open
<1>3. Apart
  BY NothingWritten DEF Init, Apart, Open
<1>4. Committed
  BY DEF Init, Committed, NoLinks
<1> QED
  BY <1>1, <1>2, <1>3, <1>4 DEF IInv

LEMMA NextIInv == IInv /\ [Next]_vars => IInv'
<1> SUFFICES ASSUME IInv, [Next]_vars PROVE IInv'
  OBVIOUS
<1>1. CASE UNCHANGED vars
  <2>1. TypeOK'
    BY <1>1 DEF vars, tables, tokens, IInv, TypeOK
  <2> QED
    BY <1>1, <2>1, OutsideStep DEF vars, tables, tokens
<1>2. ASSUME NEW c \in Call, Serve(c) PROVE IInv'
  BY <1>2, CheckPasswordStep, StampLoginStep, LogoutStep, WeakPasswordStep, CheckEmailStep,
     InsertUserStep, LoadUserStep, UpdateUserStep, FindOpenLinksStep, InvalidateStep,
     SendLinkStep, FindLinkStep, SetPasswordStep, MarkUsedStep, CommitStep DEF Serve
<1>3. events < MaxEvents /\ events \in 0..MaxEvents => events + 1 \in 0..MaxEvents
  BY EventAssumption
<1>4. ASSUME NEW c \in Call, Abort(c) PROVE IInv'
  BY <1>3, <1>4, CloseStep DEF Abort, Happens, IInv, TypeOK
<1>5. ASSUME NEW u \in Account, Refresh(u) \/ AccessExpires(u) \/ RefreshExpires(u) PROVE IInv'
  <2>1. TypeOK'
    BY <1>3, <1>5 DEF Refresh, AccessExpires, RefreshExpires, Happens, IInv, TypeOK, tables
  <2> QED
    BY <1>5, <2>1, OutsideStep DEF Refresh, AccessExpires, RefreshExpires, tables
<1>6. ASSUME NEW l \in Call, LinkExpires(l) PROVE IInv'
  <2>1. links' = [links EXCEPT ![l] = "expired"] /\ links[l] = "open"
    BY <1>6 DEF LinkExpires
  <2>2. TypeOK'
    BY <1>3, <1>6, <2>1 DEF LinkExpires, Happens, IInv, TypeOK, tokens, LinkState
  <2>3. \A k \in Call : links'[k] = links[k] \/ (links[k] = "open" /\ links'[k] = "expired")
    BY <2>1 DEF IInv, TypeOK
  <2> QED
    BY <1>6, <2>2, <2>3, OutsideStep DEF LinkExpires
<1> QED
  BY <1>1, <1>2, <1>4, <1>5, <1>6, AdmitStep, ArriveStep DEF Next

LEMMA SpecIInv == Spec => []IInv
BY InitIInv, NextIInv, PTL DEF Spec

(* A link that has set the password never opens again, whatever overlaps.  *)
THEOREM SpentForGood == Spec => []ResetSpendsLink
<1>1. IInv => ResetSpendsLink
  BY DEF IInv, Committed, ResetSpendsLink
<1> QED
  BY <1>1, SpecIInv, PTL

(* Only a commit changes a row, and only that of its target.               *)
LEMMA OnlyCommitChangesUsers ==
  ASSUME IInv, [Next]_vars, users' # users
  PROVE  \E c \in Call : Commit(c)
<1>1. ~UNCHANGED vars
  BY DEF vars, tables
<1>2. ASSUME NEW c \in Call, Serve(c), ~Commit(c) PROVE FALSE
  BY <1>2 DEF Serve, CheckPassword, StampLogin, Logout, WeakPassword, CheckEmail, InsertUser,
     LoadUser, UpdateUser, FindOpenLinks, Invalidate, SendLink, FindLink, SetPassword, MarkUsed,
     Leave, Within, tables
<1>3. ASSUME NEW c \in Call, Admit(c) \/ Arrive(c) \/ Abort(c) PROVE FALSE
  BY <1>3 DEF Admit, Arrive, Abort, Begin, tables
<1>4. ASSUME NEW u \in Account, Refresh(u) \/ AccessExpires(u) \/ RefreshExpires(u) PROVE FALSE
  BY <1>4 DEF Refresh, AccessExpires, RefreshExpires, tables
<1>5. ASSUME NEW l \in Call, LinkExpires(l) PROVE FALSE
  BY <1>5 DEF LinkExpires
<1> QED
  BY <1>1, <1>2, <1>3, <1>4, <1>5 DEF Next

(* Every change of a role and every deactivation is in the audit log from  *)
(* the very commit on that makes it (user_service.update_user), although   *)
(* it is judged by an object loaded before other calls committed.          *)
THEOREM ChangesAudited == Spec => ChangesAreAudited
<1> DEFINE Told(u) ==
      users[u] # None /\ users'[u] # None =>
        /\ users'[u].role # users[u].role =>
             \E e \in audit' \ audit :
               /\ e.name = "role_changed" /\ e.of = u /\ e.to = users'[u].role
               /\ overlap \/ e.from = users[u].role
        /\ users[u].active /\ ~users'[u].active =>
             \E e \in audit' \ audit : e.name = "deactivated" /\ e.of = u
<1>1. ASSUME IInv, [Next]_vars, NEW u \in Account PROVE Told(u)
  <2> SUFFICES ASSUME users[u] # None, users'[u] # None, users'[u] # users[u] PROVE Told(u)
    OBVIOUS
  <2>1. PICK c \in Call : Commit(c)
    BY <1>1, OnlyCommitChangesUsers
  <2> DEFINE w == tx[c]
  <2>2. /\ Written(c) /\ pc[c] = "commit" /\ u = Target(c) /\ w \in Writes
        /\ req[c].kind # "complete" => u = req[c].of
        /\ users'[u] = [role |-> Given(w.role, users[u].role),
                        active |-> Given(w.active, users[u].active),
                        pass |-> Given(w.pass, users[u].pass)]
    BY <1>1, <2>1, CommitRows
  <2>3. audit' = audit \cup w.audit
    BY <2>1 DEF Commit
  <2>4. \A e \in w.audit : e \notin audit
    BY <1>1, <2>2 DEF Written, IInv, Committed
  <2>5. users'[u].role = Given(w.role, users[u].role) /\ users'[u].active = Given(w.active, users[u].active)
    BY <2>2
  <2>6. req[c].kind # "create"
    BY <2>2 DEF Written
  <2>7. ASSUME users'[u].role # users[u].role
        PROVE  \E e \in audit' \ audit :
                 /\ e.name = "role_changed" /\ e.of = u /\ e.to = users'[u].role
                 /\ overlap \/ e.from = users[u].role
    <3>1. w.role # None /\ users'[u].role = w.role
      BY <2>5, <2>7 DEF Given
    <3> QED
      BY <2>2, <2>3, <2>4, <2>6, <3>1 DEF Written
  <2>8. ASSUME users[u].active, ~users'[u].active
        PROVE  \E e \in audit' \ audit : e.name = "deactivated" /\ e.of = u
    <3>1. w.active # None /\ users'[u].active = w.active
      BY <2>5, <2>8 DEF Given
    <3>2. w.active \in BOOLEAN
      BY <2>2, <3>1 DEF Writes
    <3>3. w.active = FALSE
      BY <2>8, <3>1, <3>2
    <3> QED
      BY <2>2, <2>3, <2>4, <3>3 DEF Written
  <2> QED
    BY <2>7, <2>8
<1>2. IInv /\ [Next]_vars => [\A u \in Account : Told(u)]_vars
  BY <1>1
<1> QED
  BY <1>2, SpecIInv, PTL DEF Spec, ChangesAreAudited

(* A call changes of an account what it was asked to and nothing else      *)
(* (user_repository.update, update_password_hash), however stale the       *)
(* object it works on.                                                     *)
THEOREM ChangesAsAsked == Spec => OnlyWhatWasAsked
<1> DEFINE Asked(u) ==
      users[u] # None /\ users'[u] # users[u] =>
        \E c \in Call : /\ pc[c] = "commit" /\ pc'[c] = "done"
                        /\ Target(c) = u /\ users'[u] # None
                        /\ AsAsked(c, users[u], users'[u])
<1>1. ASSUME IInv, [Next]_vars, NEW u \in Account PROVE Asked(u)
  <2> SUFFICES ASSUME users[u] # None, users'[u] # users[u]
               PROVE  \E c \in Call : /\ pc[c] = "commit" /\ pc'[c] = "done"
                                      /\ Target(c) = u /\ users'[u] # None
                                      /\ AsAsked(c, users[u], users'[u])
    OBVIOUS
  <2>1. PICK c \in Call : Commit(c)
    BY <1>1, OnlyCommitChangesUsers
  <2> DEFINE w == tx[c]
             new == [role |-> Given(w.role, users[u].role),
                     active |-> Given(w.active, users[u].active),
                     pass |-> Given(w.pass, users[u].pass)]
  <2>2. /\ Written(c) /\ pc[c] = "commit" /\ u = Target(c)
        /\ req[c].kind # "complete" => u = req[c].of
        /\ users'[u] = new
        /\ users' \in [Account -> Row \cup {None}]
    BY <1>1, <2>1, CommitRows
  <2>3. pc'[c] = "done"
    BY <1>1, <2>1 DEF Commit, Close, Goto, IInv, TypeOK
  <2>4. req[c].kind # "create"
    BY <2>2 DEF Written
  <2>5. /\ w.role \in {None, req[c].role} /\ w.active \in {None, req[c].active}
        /\ w.pass # None => req[c].kind = "complete" /\ w.pass = c
    BY <2>2, <2>4 DEF Written
  <2>6. AsAsked(c, users[u], new)
    BY <2>5 DEF AsAsked, Given
  <2>7. new # None
    <3>1. users[u] \in Row /\ w \in Writes
      BY <1>1, <2>1, CommitRows DEF IInv, TypeOK
    <3>2. new \in Row
      BY <3>1 DEF Row, Writes, Given
    <3> QED
      BY <3>2, RowAssumption
  <2> QED
    BY <2>2, <2>3, <2>6, <2>7
<1>2. IInv /\ [Next]_vars => [\A u \in Account : Asked(u)]_vars
  BY <1>1
<1> QED
  BY <1>2, SpecIInv, PTL DEF Spec, OnlyWhatWasAsked

-----------------------------------------------------------------------------
(* Calls that do not overlap.                                              *)

(* What an open call has found and written of the links is what holds of   *)
(* them at its commit.                                                     *)
Serial(c) ==
  /\ req[c].kind = "initiate" /\ pc[c] = "invalidate" => hits[c] = WorkingLink(req[c].of)
  /\ req[c].kind = "initiate" /\ pc[c] \in {"send", "commit"} =>
       \A l \in Call : tx[c].links[l] = IF l \in WorkingLink(req[c].of) THEN "used"
                                        ELSE IF l = c /\ pc[c] = "commit" THEN "open" ELSE None
  /\ req[c].kind = "complete" /\ pc[c] \in {"loaded", "mark", "commit"} =>
       links[req[c].link] = "open"
  /\ req[c].kind = "complete" /\ pc[c] \in {"mark", "commit"} =>
       /\ tx[c].pass = c
       /\ \A l \in Call : tx[c].links[l] = IF l = req[c].link /\ pc[c] = "commit" THEN "used" ELSE None
  /\ req[c].kind \notin {"initiate", "complete"} => \A l \in Call : tx[c].links[l] = None

SerialInv ==
  ~overlap =>
    /\ \A u \in Account : \A k, l \in WorkingLink(u) : k = l
    /\ \A c \in Call : Open(c) => Serial(c)

(* Without overlap a session that goes on has nobody beside it.            *)
LEMMA SerialStep ==
  ASSUME IInv, SerialInv, NEW c \in Call, Open(c), UNCHANGED <<overlap, links, req>>,
         \A d \in Call \ {c} : pc'[d] = pc[d],
         ~overlap /\ Open(c)' => Serial(c)'
  PROVE  SerialInv'
<1>1. \A u : WorkingLink(u)' = WorkingLink(u)
  BY DEF WorkingLink, Owner
<1>2. ~overlap => \A d \in Call \ {c} : ~Open(d)'
  BY DEF IInv, Apart, Open
<1> QED
  BY <1>1, <1>2 DEF SerialInv

(* What is written first are no links, but for the reset.                  *)
LEMMA NoLinksYet ==
  \A x, y, z, v :
    /\ [NoWrites EXCEPT !.audit = x].links = NoLinks
    /\ [NoWrites EXCEPT !.holds = x, !.audit = y].links = NoLinks
    /\ [NoWrites EXCEPT !.role = x, !.active = y, !.holds = z, !.audit = v].links = NoLinks
BY DEF NoWrites

(* Calls that have nothing to do with links.                               *)
LEMMA SerialOther ==
  ASSUME IInv, SerialInv, NEW c \in Call,
         \/ CheckPassword(c) \/ StampLogin(c) \/ Logout(c) \/ WeakPassword(c) \/ CheckEmail(c)
         \/ InsertUser(c) \/ LoadUser(c) \/ UpdateUser(c) \/ Abort(c)
  PROVE  SerialInv'
<1>1. CASE Close(c) /\ Open(c) /\ UNCHANGED <<overlap, links, req>>
  <2>1. ~Open(c)' /\ \A d \in Call \ {c} : pc'[d] = pc[d]
    BY <1>1 DEF Close, Goto, Open, IInv, TypeOK
  <2> QED
    BY <1>1, <2>1, SerialStep
<1>2. CASE ~Close(c) /\ ~Abort(c)
  <2> DEFINE Onwards(stages, kinds) ==
               /\ pc[c] \in {"body", "loaded", "insert"} /\ UNCHANGED <<overlap, links, req>>
               /\ \E s \in stages : Goto(c, s)
               /\ req[c].kind \in kinds
  <2>1. /\ \/ Onwards({"commit", "insert", "loaded"}, {"login", "logout", "create", "update"})
           \/ Onwards({"loaded"}, {"initiate"})
        /\ \/ tx' = tx
           \/ \E x : tx' = [tx EXCEPT ![c].audit = x]
           \/ \E x, y : tx' = [tx EXCEPT ![c].holds = x, ![c].audit = y]
           \/ \E x, y, z, v : tx' = [tx EXCEPT ![c].role = x, ![c].active = y, ![c].holds = z,
                                              ![c].audit = v]
    <3>1. CASE CheckPassword(c)
      BY <3>1 DEF CheckPassword, Doing, Within, tables
    <3>2. CASE StampLogin(c) \/ Logout(c)
      BY <3>2 DEF StampLogin, Logout, Doing, Within, tables
    <3>3. CASE CheckEmail(c) \/ LoadUser(c)
      BY <1>2, <3>3 DEF CheckEmail, LoadUser, Leave, Doing, Within, tables
    <3>4. CASE InsertUser(c)
      <4>1. /\ pc[c] = "insert" /\ req[c].kind = "create" /\ Goto(c, "commit") /\ Within
            /\ tx' = [tx EXCEPT ![c].role = req[c].role, ![c].active = TRUE,
                                ![c].holds = {req[c].of}, ![c].audit = {Plain(c, "created")}]
        BY <1>2, <3>4 DEF InsertUser, Leave, Doing
      <4> QED
        BY <4>1 DEF Within, tables
    <3>5. CASE UpdateUser(c)
      <4> DEFINE u == req[c].of
                 old == seen[c][u]
                 role == Given(req[c].role, old.role)
                 active == Given(req[c].active, old.active)
      <4>1. /\ pc[c] = "loaded" /\ req[c].kind = "update" /\ Goto(c, "commit") /\ Within
            /\ tx' = [tx EXCEPT ![c].role = Changed(role, old.role),
                                ![c].active = Changed(active, old.active),
                                ![c].holds = {u},
                                ![c].audit = UpdateAudits(c, old, role, active)]
        BY <1>2, <3>5 DEF UpdateUser, Leave, Doing
      <4> HIDE DEF u, old, role, active
      <4> QED
        BY <4>1 DEF Within, tables
    <3> QED
      BY <1>2, <3>1, <3>2, <3>3, <3>4, <3>5 DEF WeakPassword, Leave
  <2>2. /\ \A d \in Call \ {c} : pc'[d] = pc[d]
        /\ pc[c] \in {"body", "loaded", "insert"} /\ UNCHANGED <<overlap, links, req>>
        /\ pc'[c] \in {"commit", "insert", "loaded"} /\ req[c].kind # "complete"
        /\ pc'[c] # "loaded" => req[c].kind # "initiate"
    BY <2>1 DEF Goto, IInv, TypeOK
  <2>3. tx'[c].links = NoLinks
    <3>1. tx[c] = NoWrites /\ tx \in [Call -> Writes] /\ NoWrites.links = NoLinks
      BY <2>2, DoingFacts DEF Stage, IInv, TypeOK, NoWrites
    <3>2. CASE tx' = tx
      BY <3>1, <3>2
    <3>3. ASSUME NEW x, tx' = [tx EXCEPT ![c].audit = x] PROVE tx'[c].links = NoLinks
      <4>1. tx'[c] = [NoWrites EXCEPT !.audit = x]
        BY <3>1, <3>3
      <4> QED
        BY <4>1, NoLinksYet
    <3>4. ASSUME NEW x, NEW y, tx' = [tx EXCEPT ![c].holds = x, ![c].audit = y]
          PROVE  tx'[c].links = NoLinks
      <4>1. tx'[c] = [NoWrites EXCEPT !.holds = x, !.audit = y]
        BY <3>1, <3>4
      <4> QED
        BY <4>1, NoLinksYet
    <3>5. CASE \E x, y, z, v : tx' = [tx EXCEPT ![c].role = x, ![c].active = y, ![c].holds = z,
                                                ![c].audit = v]
      <4>1. PICK x, y, z, v : tx' = [tx EXCEPT ![c].role = x, ![c].active = y, ![c].holds = z,
                                               ![c].audit = v]
        BY <3>5
      <4>2. tx'[c] = [NoWrites EXCEPT !.role = x, !.active = y, !.holds = z, !.audit = v]
        BY <3>1, <4>1
      <4> QED
        BY <4>2, NoLinksYet
    <3>6. \/ tx' = tx
          \/ \E x : tx' = [tx EXCEPT ![c].audit = x]
          \/ \E x, y : tx' = [tx EXCEPT ![c].holds = x, ![c].audit = y]
          \/ \E x, y, z, v : tx' = [tx EXCEPT ![c].role = x, ![c].active = y, ![c].holds = z,
                                             ![c].audit = v]
      <4> HIDE DEF Onwards
      <4> QED
        BY <2>1
    <3> QED
      BY <3>2, <3>3, <3>4, <3>5, <3>6
  <2>4. Serial(c)'
    BY <2>2, <2>3 DEF Serial, NoLinks
  <2>5. Open(c)
    BY <2>2 DEF Open
  <2> QED
    BY <2>2, <2>4, <2>5, SerialStep
<1>3. CASE Close(c) \/ Abort(c)
  <2>1. Close(c) /\ Open(c) /\ UNCHANGED <<overlap, links, req>>
    BY <1>3 DEF Abort, CheckPassword, StampLogin, Logout, WeakPassword, CheckEmail, InsertUser,
       LoadUser, UpdateUser, Leave, Doing, Open, Within, tables
  <2> QED
    BY <1>1, <2>1
<1> QED
  BY <1>2, <1>3

(* A reset request, from the search for open links to its own link.        *)
LEMMA SerialInitiate ==
  ASSUME IInv, SerialInv, NEW c \in Call,
         FindOpenLinks(c) \/ Invalidate(c) \/ SendLink(c)
  PROVE  SerialInv'
<1>1. /\ Open(c) /\ req[c].kind = "initiate" /\ UNCHANGED <<overlap, links, req>>
      /\ \E s : Goto(c, s)
  BY DEF FindOpenLinks, Invalidate, SendLink, Doing, Open, Within, tables
<1>2. \A d \in Call \ {c} : pc'[d] = pc[d]
  BY <1>1 DEF Goto, IInv, TypeOK
<1>3. WorkingLink(req[c].of)' = WorkingLink(req[c].of)
  BY <1>1 DEF WorkingLink, Owner
<1>4. tx[c] \in Writes /\ tx \in [Call -> Writes] /\ pc[c] # "done"
  BY <1>1 DEF IInv, TypeOK, Open
<1>5. ASSUME ~overlap PROVE Serial(c)'
  <2>1. Serial(c)
    BY <1>1, <1>5 DEF SerialInv
  <2>2. CASE FindOpenLinks(c)
    <3>1. hits'[c] = WorkingLink(req[c].of) /\ pc'[c] = "invalidate"
      BY <2>2 DEF FindOpenLinks, Goto, WorkingLink, IInv, TypeOK
    <3> QED
      BY <1>1, <1>3, <3>1 DEF Serial
  <2>3. CASE Invalidate(c)
    <3> DEFINE found == {l \in hits[c] : links[l] = "open"}
               L == [l \in Call |-> IF l \in found THEN "used" ELSE None]
    <3>1. /\ pc[c] = "invalidate" /\ pc'[c] = "send"
          /\ tx' = [tx EXCEPT ![c].links = L, ![c].holds = found]
      BY <2>3 DEF Invalidate, Doing, Goto, IInv, TypeOK
    <3>2. found = WorkingLink(req[c].of)
      BY <1>1, <2>1, <3>1 DEF Serial, WorkingLink
    <3>3. \A l \in Call : L[l] = IF l \in WorkingLink(req[c].of) THEN "used" ELSE None
      BY <3>2
    <3> HIDE DEF found, L
    <3>4. tx'[c].links = L
      BY <1>4, <3>1 DEF Writes
    <3> QED
      BY <1>1, <1>3, <3>1, <3>3, <3>4 DEF Serial
  <2>4. CASE SendLink(c)
    <3> DEFINE A == {Plain(c, "reset_initiated")}
    <3>1. /\ pc[c] = "send" /\ pc'[c] = "commit"
          /\ tx' = [tx EXCEPT ![c].links[c] = "open", ![c].audit = A]
      BY <2>4 DEF SendLink, Doing, Goto, IInv, TypeOK
    <3>2. c \notin WorkingLink(req[c].of)
      BY <1>4, NothingWritten DEF IInv, Committed, WorkingLink
    <3> HIDE DEF A
    <3>3. tx'[c].links = [tx[c].links EXCEPT ![c] = "open"]
      BY <1>4, <3>1 DEF Writes
    <3>4. tx[c].links \in [Call -> LinkState \cup {None}]
      BY <1>4 DEF Writes
    <3>5. \A l \in Call : tx'[c].links[l] = IF l = c THEN "open" ELSE tx[c].links[l]
      BY <3>3, <3>4
    <3> QED
      BY <1>1, <1>3, <2>1, <3>1, <3>2, <3>5 DEF Serial
  <2> QED
    BY <2>2, <2>3, <2>4
<1> QED
  BY <1>1, <1>2, <1>5, SerialStep

(* A reset, from the search for its link to the mark.                      *)
LEMMA SerialComplete ==
  ASSUME IInv, SerialInv, NEW c \in Call, FindLink(c) \/ SetPassword(c) \/ MarkUsed(c)
  PROVE  SerialInv'
<1>1. Open(c) /\ req[c].kind = "complete" /\ pc[c] \in {"body", "loaded", "mark"}
  BY DEF FindLink, SetPassword, MarkUsed, Doing, Open
<1>2. CASE Leave(c)
  <2>1. ~Open(c)' /\ \A d \in Call \ {c} : pc'[d] = pc[d]
    BY <1>2 DEF Leave, Close, Goto, Open, IInv, TypeOK
  <2> QED
    BY <1>1, <1>2, <2>1, SerialStep DEF Leave, tables
<1>3. CASE ~Leave(c)
  <2>1. UNCHANGED <<overlap, links, req>> /\ \E s : Goto(c, s)
    BY <1>3 DEF FindLink, SetPassword, MarkUsed, Within, tables
  <2>2. \A d \in Call \ {c} : pc'[d] = pc[d]
    BY <2>1 DEF Goto, IInv, TypeOK
  <2>3. tx[c] \in Writes /\ tx \in [Call -> Writes] /\ req[c].link \in Call
    BY <1>1, DoingFacts, AskFacts DEF IInv, TypeOK, Stage
  <2>4. ASSUME ~overlap PROVE Serial(c)'
    <3>1. Serial(c)
      BY <1>1, <2>4 DEF SerialInv
    <3>2. CASE FindLink(c)
      <4>1. pc'[c] = "loaded" /\ links[req[c].link] = "open"
        BY <1>3, <3>2 DEF FindLink, Doing, Goto, IInv, TypeOK
      <4> QED
        BY <1>1, <2>1, <4>1 DEF Serial
    <3>3. CASE SetPassword(c)
      <4> DEFINE H == {Target(c)}
      <4>1. /\ pc[c] = "loaded" /\ pc'[c] = "mark"
            /\ tx' = [tx EXCEPT ![c].pass = c, ![c].holds = H]
        BY <3>3 DEF SetPassword, Doing, Goto, IInv, TypeOK
      <4>2. tx[c] = NoWrites
        BY <4>1, DoingFacts DEF Stage
      <4> HIDE DEF H
      <4>3. tx'[c].pass = c /\ tx'[c].links = tx[c].links
        BY <2>3, <4>1 DEF Writes
      <4> QED
        BY <1>1, <2>1, <3>1, <4>1, <4>2, <4>3, NothingWritten DEF Serial
    <3>4. CASE MarkUsed(c)
      <4> DEFINE l == req[c].link
                 A == {Plain(c, "reset_completed")}
      <4>1. /\ pc[c] = "mark" /\ pc'[c] = "commit"
            /\ tx' = [tx EXCEPT ![c].links[l] = "used", ![c].holds = @ \cup {l}, ![c].audit = A]
        BY <3>4 DEF MarkUsed, Doing, Goto, IInv, TypeOK
      <4> HIDE DEF A
      <4>2. tx'[c].pass = tx[c].pass /\ tx'[c].links = [tx[c].links EXCEPT ![l] = "used"]
        BY <2>3, <4>1 DEF Writes
      <4>3. tx[c].links \in [Call -> LinkState \cup {None}]
        BY <2>3 DEF Writes
      <4>4. \A k \in Call : tx'[c].links[k] = IF k = l THEN "used" ELSE tx[c].links[k]
        BY <4>2, <4>3
      <4> QED
        BY <1>1, <2>1, <3>1, <4>1, <4>2, <4>4 DEF Serial
    <3> QED
      BY <3>2, <3>3, <3>4
  <2> QED
    BY <1>1, <2>1, <2>2, <2>4, SerialStep
<1> QED
  BY <1>2, <1>3

(* A call begins with no links written, and no link is named after it yet. *)
LEMMA SerialBegin ==
  ASSUME IInv, SerialInv, NEW c \in Call, Admit(c) \/ Arrive(c)
  PROVE  SerialInv' /\ \A u : WorkingLink(u)' = WorkingLink(u)
<1>1. PICK q : Begin(c, q) /\ (Goto(c, "body") \/ Goto(c, "done"))
  BY DEF Admit, Arrive
<1>2. /\ pc'[c] \in {"body", "done"} /\ \A d \in Call \ {c} : pc'[d] = pc[d] /\ req'[d] = req[d]
      /\ pc[c] = "idle" /\ UNCHANGED <<overlap, links, tx>>
      /\ ~overlap => \A d \in Call : ~Open(d)
  BY <1>1 DEF Goto, Begin, tables, IInv, TypeOK
<1>3. ASSUME NEW l \in Call, links[l] = "open" PROVE l # c
  BY <1>2, <1>3, NothingWritten DEF IInv, Committed
<1>4. \A u : WorkingLink(u)' = WorkingLink(u)
  BY <1>2, <1>3 DEF WorkingLink, Owner
<1>5. Serial(c)'
  <2>1. tx'[c] = NoWrites
    BY <1>2 DEF IInv, Session, Staged
  <2> QED
    BY <1>2, <2>1, NothingWritten DEF Serial
<1>6. ~overlap => \A d \in Call : Open(d)' => d = c
  BY <1>2 DEF Open
<1> QED
  BY <1>2, <1>4, <1>5, <1>6 DEF SerialInv

(* Time passes between the calls.                                          *)
LEMMA SerialExpiry ==
  ASSUME IInv, SerialInv, NEW l \in Call, LinkExpires(l)
  PROVE  /\ SerialInv'
         /\ \A u : WorkingLink(u)' = IF u = Owner(l) THEN WorkingLink(u) \ {l} ELSE WorkingLink(u)
         /\ l \in WorkingLink(Owner(l)) /\ \A k \in Call : links'[k] # None <=> links[k] # None
<1>1. /\ links[l] = "open" /\ UNCHANGED <<overlap, req, pc>>
      /\ ~overlap => \A d \in Call : ~Open(d)
      /\ \A k \in Call : links'[k] = IF k = l THEN "expired" ELSE links[k]
  BY DEF LinkExpires, IInv, TypeOK
<1>2. \A u : WorkingLink(u)' = IF u = Owner(l) THEN WorkingLink(u) \ {l} ELSE WorkingLink(u)
  BY <1>1 DEF WorkingLink, Owner
<1>3. \A d \in Call : Open(d)' <=> Open(d)
  BY <1>1 DEF Open
<1>4. SerialInv'
  BY <1>1, <1>2, <1>3 DEF SerialInv
<1>5. \A k \in Call : links'[k] # None <=> links[k] # None
  BY <1>1, DistinctAssumption DEF LinkState
<1> QED
  BY <1>1, <1>2, <1>4, <1>5 DEF WorkingLink

(* What a commit does to the links that work.                              *)
LEMMA CommitLinks ==
  ASSUME IInv, SerialInv, ~overlap, NEW c \in Call, Commit(c)
  PROVE  /\ UNCHANGED <<overlap, req>> /\ ~Open(c)' /\ \A d \in Call \ {c} : pc'[d] = pc[d]
         /\ req[c].kind = "initiate" =>
              /\ links[c] = None /\ links'[c] # None
              /\ \A u : WorkingLink(u)' = IF u = req[c].of THEN {c} ELSE WorkingLink(u)
              /\ \A l \in Call \ {c} : links'[l] # None <=> links[l] # None
         /\ req[c].kind = "complete" =>
              /\ WorkingLink(Target(c)) = {req[c].link} /\ tx[c].pass = c
              /\ \A u : WorkingLink(u)' = IF u = Target(c) THEN {} ELSE WorkingLink(u)
              /\ \A l \in Call : links'[l] # None <=> links[l] # None
         /\ req[c].kind \notin {"initiate", "complete"} => links' = links
         /\ req[c].kind # "complete" => tx[c].pass = None
<1>1. /\ Open(c) /\ Written(c) /\ req[c] \in Ask /\ pc[c] = "commit" /\ Serial(c)
      /\ Target(c) \in Account
  BY CommitRows DEF SerialInv
<1>2. /\ UNCHANGED <<overlap, req>> /\ ~Open(c)' /\ \A d \in Call \ {c} : pc'[d] = pc[d]
      /\ links' = [l \in Call |-> Given(tx[c].links[l], links[l])]
  BY DEF Commit, Close, Goto, Open, IInv, TypeOK
<1>3. \A l \in Call : links'[l] = IF tx[c].links[l] = None THEN links[l] ELSE tx[c].links[l]
  BY <1>2 DEF Given
<1>4. None # "open" /\ None # "used"
  BY DistinctAssumption DEF LinkState
<1>5. CASE req[c].kind = "initiate"
  <2> DEFINE O == WorkingLink(req[c].of)
  <2>1. \A l \in Call : tx[c].links[l] = IF l \in O THEN "used" ELSE IF l = c THEN "open" ELSE None
    BY <1>1, <1>5 DEF Serial
  <2>2. links[c] = None
    BY <1>1 DEF IInv, Committed
  <2>3. \A l \in Call : l \in O <=> links[l] = "open" /\ Owner(l) = req[c].of
    BY DEF WorkingLink
  <2>4. \A l \in Call : links'[l] = IF l \in O THEN "used" ELSE IF l = c THEN "open" ELSE links[l]
    BY <1>3, <1>4, <2>1
  <2> HIDE DEF O
  <2>5. c \notin O
    BY <1>4, <2>2, <2>3
  <2>6. \A u : WorkingLink(u)' = IF u = req[c].of THEN {c} ELSE WorkingLink(u)
    BY <1>2, <1>4, <2>2, <2>3, <2>4, <2>5 DEF WorkingLink, Owner
  <2>7. links'[c] # None /\ \A l \in Call \ {c} : links'[l] # None <=> links[l] # None
    BY <1>4, <2>3, <2>4, <2>5
  <2>8. tx[c].pass = None
    BY <1>1, <1>5 DEF Written
  <2> QED
    BY <1>2, <1>5, <2>2, <2>6, <2>7, <2>8
<1>6. CASE req[c].kind = "complete"
  <2> DEFINE k == req[c].link
  <2>1. /\ links[k] = "open" /\ tx[c].pass = c /\ k \in Call /\ Target(c) = Owner(k)
        /\ \A l \in Call : tx[c].links[l] = IF l = k THEN "used" ELSE None
    BY <1>1, <1>6, AskFacts DEF Serial, Target
  <2> HIDE DEF k
  <2>2. k \in WorkingLink(Target(c))
    BY <2>1 DEF WorkingLink
  <2>3. WorkingLink(Target(c)) = {k}
    BY <1>1, <2>2 DEF SerialInv
  <2>4. \A l \in Call : links'[l] = IF l = k THEN "used" ELSE links[l]
    BY <1>3, <1>4, <2>1
  <2>5. \A u : WorkingLink(u)' = WorkingLink(u) \ {k}
    BY <1>2, <2>4 DEF WorkingLink, Owner
  <2>6. \A u : u # Target(c) => k \notin WorkingLink(u)
    BY <2>1 DEF WorkingLink
  <2>7. \A u : WorkingLink(u)' = IF u = Target(c) THEN {} ELSE WorkingLink(u)
    BY <2>3, <2>5, <2>6
  <2>8. \A l \in Call : links'[l] # None <=> links[l] # None
    BY <1>4, <2>1, <2>4
  <2> QED
    BY <1>2, <1>6, <2>1, <2>3, <2>7, <2>8 DEF k
<1>7. CASE req[c].kind \notin {"initiate", "complete"}
  <2>1. \A l \in Call : tx[c].links[l] = None
    BY <1>1, <1>7 DEF Serial
  <2>2. links' = [l \in Call |-> links[l]]
    BY <1>2, <2>1 DEF Given
  <2>3. links' = links
    BY <2>2 DEF IInv, TypeOK
  <2>4. tx[c].pass = None
    BY <1>1, <1>7 DEF Written
  <2> QED
    BY <1>2, <1>7, <2>3, <2>4
<1> QED
  BY <1>5, <1>6, <1>7

LEMMA InitSerialInv == Init => SerialInv
BY DistinctAssumption DEF Init, SerialInv, WorkingLink, NoLinks, LinkState, Open

LEMMA NextSerialInv == IInv /\ SerialInv /\ [Next]_vars => SerialInv'
<1> SUFFICES ASSUME IInv, SerialInv, [Next]_vars PROVE SerialInv'
  OBVIOUS
<1>1. CASE UNCHANGED vars
  <2>1. UNCHANGED <<overlap, links, req, pc, tx, hits>>
    BY <1>1 DEF vars, tables
  <2>2. \A u : WorkingLink(u)' = WorkingLink(u)
    BY <2>1 DEF WorkingLink, Owner
  <2>3. \A c \in Call : Serial(c)' <=> Serial(c)
    BY <2>1, <2>2 DEF Serial
  <2> QED
    BY <2>1, <2>2, <2>3 DEF SerialInv, Open
<1>2. ASSUME NEW c \in Call, Admit(c) \/ Arrive(c) PROVE SerialInv'
  BY <1>2, SerialBegin
<1>3. ASSUME NEW c \in Call, Commit(c) PROVE SerialInv'
  <2> SUFFICES ASSUME ~overlap PROVE SerialInv'
    BY <1>3 DEF SerialInv, Commit
  <2>1. /\ overlap' = overlap /\ ~Open(c)' /\ \A d \in Call \ {c} : pc'[d] = pc[d]
        /\ \A u : \/ WorkingLink(u)' = WorkingLink(u) \/ WorkingLink(u)' = {}
                  \/ WorkingLink(u)' = {c}
    <3>1. links' = links /\ req' = req => \A u : WorkingLink(u)' = WorkingLink(u)
      BY DEF WorkingLink, Owner
    <3> QED
      BY <1>3, <3>1, CommitLinks
  <2>2. \A d \in Call : ~Open(d)'
    BY <1>3, <2>1, CommitRows DEF IInv, Apart, Open
  <2> QED
    BY <2>1, <2>2 DEF SerialInv
<1>4. ASSUME NEW c \in Call, Serve(c) \/ Abort(c), ~Commit(c) PROVE SerialInv'
  BY <1>4, SerialOther, SerialInitiate, SerialComplete DEF Serve
<1>5. ASSUME NEW u \in Account, Refresh(u) \/ AccessExpires(u) \/ RefreshExpires(u) PROVE SerialInv'
  <2>1. UNCHANGED <<overlap, links, req, pc, tx, hits>>
    BY <1>5 DEF Refresh, AccessExpires, RefreshExpires, tables
  <2>2. \A v : WorkingLink(v)' = WorkingLink(v)
    BY <2>1 DEF WorkingLink, Owner
  <2>3. \A c \in Call : Serial(c)' <=> Serial(c)
    BY <2>1, <2>2 DEF Serial
  <2> QED
    BY <2>1, <2>2, <2>3 DEF SerialInv, Open
<1>6. ASSUME NEW l \in Call, LinkExpires(l) PROVE SerialInv'
  BY <1>6, SerialExpiry
<1> QED
  BY <1>1, <1>2, <1>3, <1>4, <1>5, <1>6 DEF Next

(* The links and passwords as ResetLinks sees them.                        *)
Works == [u \in Account |-> IF overlap \/ WorkingLink(u) = {} THEN None
                            ELSE CHOOSE l \in WorkingLink(u) : TRUE]
Spent == [u \in Account |-> IF overlap \/ users[u] = None \/ users[u].pass = None THEN None
                            ELSE req[users[u].pass].link]
Issued == {l \in Call : ~overlap /\ links[l] # None}

Sole(S) == IF S = {} THEN None ELSE CHOOSE l \in S : TRUE
SetThrough(u) == IF users[u] = None \/ users[u].pass = None THEN None
                 ELSE req[users[u].pass].link

LEMMA SoleIs == Sole({}) = None /\ \A l : Sole({l}) = l
BY DEF Sole

LEMMA MappedAs ==
  /\ Works = [u \in Account |-> IF overlap THEN None ELSE Sole(WorkingLink(u))]
  /\ Works' = [u \in Account |-> IF overlap' THEN None ELSE Sole(WorkingLink(u)')]
  /\ Spent = [u \in Account |-> IF overlap THEN None ELSE SetThrough(u)]
  /\ Spent' = [u \in Account |-> IF overlap' THEN None ELSE SetThrough(u)']
BY DEF Works, Spent, Sole, SetThrough

(* A password stays set through its link: the request that set it is over. *)
LEMMA SameSpent ==
  ASSUME IInv, users' = users, \A d \in Call : pc[d] = "done" => req'[d] = req[d]
  PROVE  \A u \in Account : SetThrough(u)' = SetThrough(u)
BY DEF SetThrough, IInv, Committed, TypeOK, Row

LEMMA CommitSpent ==
  ASSUME IInv, NEW c \in Call, Commit(c)
  PROVE  /\ tx[c].pass = None \/ users[Target(c)] = None =>
              \A u \in Account : SetThrough(u)' = SetThrough(u)
         /\ tx[c].pass # None /\ users[Target(c)] # None =>
              \A u \in Account :
                SetThrough(u)' = IF u = Target(c) THEN req[c].link ELSE SetThrough(u)
<1> DEFINE t == Target(c)
<1>1. /\ t \in Account /\ Written(c) /\ users' \in [Account -> Row \cup {None}]
      /\ \A u \in Account : users'[u] # users[u] => u = t
      /\ users[t] = None /\ users' # users => req[c].kind = "create"
      /\ users[t] = None => users'[t] = None \/ users'[t].pass = tx[c].pass
  BY CommitRows
<1>2. users[t] # None => users'[t] # None /\ users'[t].pass = Given(tx[c].pass, users[t].pass)
  <2>1. users[t] # None =>
          users'[t] = [role |-> Given(tx[c].role, users[t].role),
                       active |-> Given(tx[c].active, users[t].active),
                       pass |-> Given(tx[c].pass, users[t].pass)]
    BY CommitRows
  <2>2. users[t] # None => users'[t] # None
    <3> SUFFICES ASSUME users[t] # None PROVE users'[t] # None
      OBVIOUS
    <3>1. users[t] \in Row /\ tx[c] \in Writes
      BY <1>1, CommitRows DEF IInv, TypeOK
    <3>2. /\ Given(tx[c].role, users[t].role) \in Role
          /\ Given(tx[c].active, users[t].active) \in BOOLEAN
          /\ Given(tx[c].pass, users[t].pass) \in Call \cup {None}
      BY <3>1 DEF Given, Row, Writes
    <3>3. users'[t] \in Row
      BY <2>1, <3>2 DEF Row
    <3> QED
      BY <3>3, RowAssumption
  <2> QED
    BY <2>1, <2>2
<1>3. req' = req
  BY DEF Commit
<1> HIDE DEF t
<1>4. ASSUME tx[c].pass = None \/ users[t] = None, NEW u \in Account
      PROVE  SetThrough(u)' = SetThrough(u)
  <2>1. CASE users[t] = None
    <3>1. users' = users \/ tx[c].pass = None
      BY <1>1, <2>1 DEF Written
    <3> QED
      BY <1>1, <1>3, <2>1, <3>1 DEF SetThrough
  <2>2. CASE users[t] # None
    BY <1>1, <1>2, <1>3, <1>4, <2>2 DEF SetThrough, Given
  <2> QED
    BY <2>1, <2>2
<1>5. ASSUME tx[c].pass # None, users[t] # None, NEW u \in Account
      PROVE  SetThrough(u)' = IF u = t THEN req[c].link ELSE SetThrough(u)
  <2>1. tx[c].pass = c
    BY <1>1, <1>5 DEF Written
  <2> QED
    BY <1>1, <1>2, <1>3, <1>5, <2>1, DistinctAssumption DEF SetThrough, Given
<1> QED
  BY <1>4, <1>5 DEF t

(* A step that leaves the links alone, or only closes some, and sets no    *)
(* password.                                                               *)
LEMMA MappedSame ==
  ASSUME overlap' = overlap, \A u : WorkingLink(u)' = WorkingLink(u),
         \A l \in Call : links'[l] # None <=> links[l] # None,
         \A u \in Account : SetThrough(u)' = SetThrough(u)
  PROVE  Works' = Works /\ Spent' = Spent /\ Issued' = Issued
BY MappedAs DEF Issued

(* What a commit is to ResetLinks: a link issued or used, or nothing; one  *)
(* that is used for an account without a row lapses.                       *)
LEMMA CommitIsPromise ==
  ASSUME IInv, SerialInv, ~overlap, NEW c \in Call, Commit(c)
  PROVE  Promise!Next \/ (Works' = Works /\ Spent' = Spent /\ Issued' = Issued)
<1>t. PICK t \in Account : t = Target(c)
  BY CommitRows
<1>1. /\ overlap' = overlap /\ req' = req /\ req[c] \in Ask
      /\ req[c].kind # "complete" => t = req[c].of
  BY <1>t, CommitRows, CommitLinks
<1>2. CASE req[c].kind = "initiate"
  <2>1. /\ t = req[c].of /\ links[c] = None /\ links'[c] # None /\ tx[c].pass = None
        /\ \A u : WorkingLink(u)' = IF u = t THEN {c} ELSE WorkingLink(u)
        /\ \A l \in Call \ {c} : links'[l] # None <=> links[l] # None
    BY <1>1, <1>2, CommitLinks
  <2>2. Issued' = Issued \cup {c} /\ c \notin Issued
    BY <1>1, <2>1 DEF Issued
  <2>3. Works' = [Works EXCEPT ![t] = c]
    BY <1>1, <2>1, SoleIs, MappedAs
  <2>4. Spent' = Spent
    BY <1>1, <2>1, CommitSpent, MappedAs
  <2>5. Promise!Issue(t, c)
    BY <2>2, <2>3, <2>4 DEF Promise!Issue, Works, Spent, Issued
  <2> QED
    BY <1>1, <2>5 DEF Promise!Next
<1>3. CASE req[c].kind = "complete"
  <2> DEFINE k == req[c].link
  <2>1. /\ WorkingLink(t) = {k} /\ tx[c].pass = c /\ k \in Call
        /\ \A u : WorkingLink(u)' = IF u = t THEN {} ELSE WorkingLink(u)
        /\ \A l \in Call : links'[l] # None <=> links[l] # None
    BY <1>t, <1>1, <1>3, CommitLinks, AskFacts
  <2> HIDE DEF k
  <2>2. Issued' = Issued
    BY <1>1, <2>1 DEF Issued
  <2>3. Works[t] = k /\ Works' = [Works EXCEPT ![t] = None] /\ k # None
    BY <1>1, <2>1, SoleIs, MappedAs, DistinctAssumption
  <2>4. CASE users[t] = None
    <3>1. Spent' = Spent
      BY <1>t, <1>1, <2>4, CommitSpent, MappedAs
    <3>2. Promise!Lapse(t)
      BY <2>2, <2>3, <3>1 DEF Promise!Lapse, Works, Spent, Issued
    <3> QED
      BY <1>1, <3>2 DEF Promise!Next
  <2>5. CASE users[t] # None
    <3>1. \A u \in Account : SetThrough(u)' = IF u = t THEN k ELSE SetThrough(u)
      BY <1>t, <2>1, <2>5, CommitSpent, DistinctAssumption DEF k
    <3>2. Spent' = [Spent EXCEPT ![t] = Works[t]]
      BY <1>1, <2>3, <3>1, MappedAs
    <3>3. Promise!Use(t)
      BY <2>2, <2>3, <3>2 DEF Promise!Use, Works, Spent, Issued
    <3> QED
      BY <1>1, <3>3 DEF Promise!Next
  <2> QED
    BY <2>4, <2>5
<1>4. CASE req[c].kind \notin {"initiate", "complete"}
  <2>1. links' = links /\ tx[c].pass = None
    BY <1>4, CommitLinks
  <2>2. \A u : WorkingLink(u)' = WorkingLink(u)
    BY <1>1, <2>1 DEF WorkingLink, Owner
  <2>3. \A u \in Account : SetThrough(u)' = SetThrough(u)
    BY <2>1, CommitSpent
  <2> QED
    BY <1>1, <2>1, <2>2, <2>3, MappedSame
<1> QED
  BY <1>2, <1>3, <1>4

LEMMA StepIsPromise ==
  ASSUME IInv, SerialInv, [Next]_vars
  PROVE  Promise!Next \/ (Works' = Works /\ Spent' = Spent /\ Issued' = Issued)
<1>1. CASE overlap
  <2>1. overlap' = overlap
    <3>1. ASSUME NEW c \in Call, Admit(c) \/ Arrive(c) \/ Abort(c) PROVE overlap' = overlap
      BY <3>1 DEF Admit, Arrive, Begin, Abort
    <3>2. ASSUME NEW c \in Call, Serve(c) PROVE overlap' = overlap
      BY <3>2 DEF Serve, CheckPassword, StampLogin, Logout, WeakPassword, CheckEmail, InsertUser,
         LoadUser, UpdateUser, FindOpenLinks, Invalidate, SendLink, FindLink, SetPassword,
         MarkUsed, Commit, Leave, Within
    <3>3. ASSUME NEW u \in Account, Refresh(u) \/ AccessExpires(u) \/ RefreshExpires(u)
          PROVE  overlap' = overlap
      BY <3>3 DEF Refresh, AccessExpires, RefreshExpires
    <3>4. ASSUME NEW l \in Call, LinkExpires(l) PROVE overlap' = overlap
      BY <3>4 DEF LinkExpires
    <3> QED
      BY <3>1, <3>2, <3>3, <3>4 DEF Next, vars
  <2> QED
    BY <1>1, <2>1 DEF Works, Spent, Issued
<1>2. CASE ~overlap
  <2>1. CASE UNCHANGED <<overlap, users, links, req>>
    <3>1. \A u : WorkingLink(u)' = WorkingLink(u)
      BY <2>1 DEF WorkingLink, Owner
    <3>2. \A u \in Account : SetThrough(u)' = SetThrough(u)
      BY <2>1 DEF SetThrough
    <3> QED
      BY <2>1, <3>1, <3>2, MappedSame
  <2>2. ASSUME NEW c \in Call, Admit(c) \/ Arrive(c)
        PROVE  Works' = Works /\ Spent' = Spent /\ Issued' = Issued
    <3>1. PICK q : Begin(c, q)
      BY <2>2 DEF Admit, Arrive
    <3>2. /\ pc[c] = "idle" /\ UNCHANGED <<overlap, users, links>>
          /\ \A d \in Call \ {c} : req'[d] = req[d]
      BY <3>1 DEF Begin, tables, IInv, TypeOK
    <3>3. \A u \in Account : SetThrough(u)' = SetThrough(u)
      BY <3>2, SameSpent
    <3>4. \A u : WorkingLink(u)' = WorkingLink(u)
      BY <2>2, SerialBegin
    <3> QED
      BY <3>2, <3>3, <3>4, MappedSame
  <2>3. ASSUME NEW l \in Call, LinkExpires(l) PROVE Promise!Next
    <3>1. UNCHANGED <<overlap, users, req>> /\ links[l] # None
      BY <2>3, DistinctAssumption DEF LinkExpires, LinkState
    <3>2. PICK t \in Account : t = Owner(l)
      BY <3>1, AskFacts DEF IInv, Committed, Owner
    <3>3. /\ l \in WorkingLink(t) /\ \A k \in Call : links'[k] # None <=> links[k] # None
          /\ \A u : WorkingLink(u)' = IF u = t THEN WorkingLink(u) \ {l} ELSE WorkingLink(u)
      BY <2>3, <3>2, SerialExpiry
    <3>4. WorkingLink(t) = {l} /\ WorkingLink(t)' = {}
      BY <1>2, <3>2, <3>3 DEF SerialInv
    <3>5. Works[t] # None /\ Works' = [Works EXCEPT ![t] = None]
      BY <1>2, <3>1, <3>2, <3>3, <3>4, SoleIs, MappedAs, DistinctAssumption
    <3>6. \A u \in Account : SetThrough(u)' = SetThrough(u)
      BY <3>1 DEF SetThrough
    <3>7. Spent' = Spent /\ Issued' = Issued
      BY <3>1, <3>3, <3>6, MappedAs DEF Issued
    <3>8. Promise!Lapse(t)
      BY <3>5, <3>7 DEF Promise!Lapse, Works, Spent, Issued
    <3> QED
      BY <3>2, <3>8 DEF Promise!Next
  <2>4. ASSUME NEW c \in Call, Serve(c) \/ Abort(c), ~Commit(c)
        PROVE  UNCHANGED <<overlap, users, links, req>>
    BY <2>4 DEF Serve, Abort, CheckPassword, StampLogin, Logout, WeakPassword, CheckEmail,
       InsertUser, LoadUser, UpdateUser, FindOpenLinks, Invalidate, SendLink, FindLink,
       SetPassword, MarkUsed, Leave, Within, tables
  <2>5. ASSUME NEW u \in Account, Refresh(u) \/ AccessExpires(u) \/ RefreshExpires(u)
        PROVE  UNCHANGED <<overlap, users, links, req>>
    BY <2>5 DEF Refresh, AccessExpires, RefreshExpires, tables
  <2>6. UNCHANGED vars => UNCHANGED <<overlap, users, links, req>>
    BY DEF vars, tables
  <2> QED
    BY <1>2, <2>1, <2>2, <2>3, <2>4, <2>5, <2>6, CommitIsPromise DEF Next
<1> QED
  BY <1>1, <1>2

(* As long as calls do not overlap, of the links of an account at most the *)
(* newest works, it works once, and the password is the one set through    *)
(* the link that was used last (password_reset_service), whatever aborts   *)
(* or expires in between.                                                  *)
THEOREM PromiseImplemented == Spec => PromiseSpec
<1>1. Init => Promise!Init
  <2> SUFFICES ASSUME Init PROVE Promise!Init
    OBVIOUS
  <2>1. Issued = {}
    BY DEF Init, Issued, NoLinks
  <2>2. \A u : WorkingLink(u) = {}
    BY DistinctAssumption DEF Init, WorkingLink, NoLinks, LinkState
  <2>3. Works = [u \in Account |-> None]
    BY <2>2 DEF Works
  <2>4. Spent = [u \in Account |-> None]
    BY DEF Init, Spent
  <2> QED
    BY <2>1, <2>3, <2>4 DEF Promise!Init, Works, Spent, Issued
<1>2. IInv /\ SerialInv /\ [Next]_vars =>
        [Promise!Next]_<<[u \in Account |->
                            IF overlap \/ WorkingLink(u) = {} THEN None
                            ELSE CHOOSE l \in WorkingLink(u) : TRUE],
                         [u \in Account |->
                            IF overlap \/ users[u] = None \/ users[u].pass = None THEN None
                            ELSE req[users[u].pass].link],
                         {l \in Call : ~overlap /\ links[l] # None}>>
  BY StepIsPromise DEF Works, Spent, Issued
<1>3. Spec => []SerialInv
  BY InitSerialInv, NextSerialInv, SpecIInv, PTL DEF Spec
<1> QED
  BY <1>1, <1>2, <1>3, SpecIInv, PTL DEF Spec, PromiseSpec, Promise!Spec, Promise!vars
=============================================================================
