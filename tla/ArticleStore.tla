---------------------------- MODULE ArticleStore ----------------------------
(***************************************************************************)
(* What the processor promises to the readers of the database, with no     *)
(* queue, no cache and no transaction in sight: the row of a raw item is   *)
(* ingested as PENDING, and from then on a single step either stores its   *)
(* article, with all of its chunks, and marks the row PROCESSED, or only   *)
(* settles the row as PROCESSED or FAILED.  Nothing is ever taken back.    *)
(***************************************************************************)
CONSTANTS
  Item,        \* raw items, one for each (source_id, content_hash)
  Schema       \* the partitions of processed_items (PROCESSED_ITEM_MODELS)

VARIABLES
  status,      \* what a reader sees in raw_items.status
  articles     \* <<item, schema>> pairs a reader finds complete with chunks

vars == <<status, articles>>

Init ==
  /\ status \in [Item -> {"ABSENT", "PENDING"}]
  /\ articles = {}

Ingest(i) ==
  /\ status[i] = "ABSENT"
  /\ status' = [status EXCEPT ![i] = "PENDING"]
  /\ UNCHANGED articles

Store(i, s) ==
  /\ status[i] # "ABSENT"
  /\ <<i, s>> \notin articles
  /\ status' = [status EXCEPT ![i] = "PROCESSED"]
  /\ articles' = articles \cup {<<i, s>>}

Settle(i, outcome) ==
  /\ status[i] # "ABSENT"
  /\ status' = [status EXCEPT ![i] = outcome]
  /\ UNCHANGED articles

Next ==
  \E i \in Item :
    \/ Ingest(i)
    \/ \E s \in Schema : Store(i, s)
    \/ \E outcome \in {"PROCESSED", "FAILED"} : Settle(i, outcome)

Spec == Init /\ [][Next]_vars
=============================================================================
