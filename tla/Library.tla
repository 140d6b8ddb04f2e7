------------------------------ MODULE Library --------------------------------
(***************************************************************************)
(* What becomes of the articles: the processor's steps behind the dedup    *)
(* (normalizer, gate, enricher, scorer, chunker) for one article after     *)
(* another, the items they leave, and the two readers of the items, the    *)
(* digest's selection (list_for_digest) and the chatbot's retrieval        *)
(* (similarity_search, ContextBuilder).  Processor has the queue, the      *)
(* reservations and the transactions around these steps.                   *)
(*                                                                         *)
(* Abstractions.  Of a text the keywords found in it as substrings and     *)
(* their counts in the content are kept, its length in tokens and whether  *)
(* the normalizer finds it too short.  All articles come from one source.  *)
(* Time is counted in ticks, Day of them a day.  Scores are in units of    *)
(* 1 / (25 * size of the keyword pool), where 0.6, 0.4 and the factors of  *)
(* freshness are whole numbers; the rounding to four digits is left out.   *)
(***************************************************************************)
EXTENDS Chunker, FiniteSets, FiniteSetsExt

CONSTANTS
  Article,        \* articles that may be processed
  Text,           \* article -> [short, tokens, published, found, hits]
  Keyword,        \* master_keyword_pool
  Category,       \* categories of content
  CategoryRules,  \* CATEGORY_RULES: category -> its keywords
  SchemaOf,       \* CATEGORY_TO_SCHEMA
  Fallback,       \* the category "macro"
  Config,         \* the configs the source may have: [mode, default]
  Origin,         \* categories the source itself may have
  Kind, Query,    \* kinds of digests and DIGEST_TYPE_QUERY_CONFIG
  Period,         \* periods a digest may be asked for, as <<first, last>> day
  Limit,          \* article_limit
  Question,       \* questions to the chatbot
  Similar(_, _, _),  \* similarity of a question and the n-th chunk of an article
  Thresholds,     \* values of the similarity threshold
  Candidates,     \* limit * CANDIDATE_MULTIPLIER
  Top,            \* chunks of a context
  ContextTokens,  \* tokens of a context
  Cutting,        \* <<max_tokens, overlap_tokens>> the chunker may be built with
  Day, MaxClock, MaxEdits,  \* ticks of a day; bounds on time and on edits of the source
  None

ASSUME TextAssumption ==
  /\ IsFiniteSet(Article)
  /\ \A a \in Article :
       /\ Text[a].short \in BOOLEAN /\ Text[a].tokens \in Nat
       /\ Text[a].found \subseteq Keyword /\ Text[a].hits \in [Text[a].found -> Nat]
ASSUME RulesAssumption ==
  /\ CategoryRules \in [Category -> SUBSET Keyword]
  /\ IsFiniteSet(Keyword) /\ IsFiniteSet(Category)
  /\ Fallback \in Category
ASSUME CuttingAssumption == Cutting \subseteq Nat \X Nat
ASSUME LimitAssumption ==
  /\ Limit \in Nat \ {0} /\ Top \in Nat \ {0} /\ Candidates >= Top /\ ContextTokens \in Nat
  /\ \A w \in Cutting : Top * w[1] <= ContextTokens
ASSUME ClockAssumption == Day \in Nat \ {0} /\ MaxClock \in Nat /\ MaxEdits \in Nat

VARIABLES
  clock,    \* the time
  config,   \* sources.config
  origin,   \* sources.category
  edits,    \* edits of the source so far
  step,     \* the processor's next step
  art,      \* the article it works on
  began,    \* when its transaction began
  extras,   \* what the steps have found out
  used,     \* configs the source has had since (history)
  items,    \* article -> its processed item, or None
  status,   \* article -> what became of it
  digest,   \* the digest generated last, if nothing was read since: [kind, period, articles]
  context   \* the last retrieval, likewise: [found, used], sets of chunks

source == <<config, origin, edits>>
process == <<step, art, began, extras, used>>
library == <<clock, source, process, items, status, digest, context>>
vars == <<library, chunker>>

NoExtras == [category |-> None, topics |-> {}, score |-> 0]

LibraryInit ==
  /\ ChunkerInit
  /\ clock = 0 /\ edits = 0
  /\ config \in Config /\ origin \in Origin
  /\ step = "idle" /\ art = None /\ began = 0
  /\ extras = NoExtras /\ used = {}
  /\ items = [a \in Article |-> None]
  /\ status = [a \in Article |-> "new"]
  /\ digest = None /\ context = None

-----------------------------------------------------------------------------
(* The source and the clock.                                               *)

Tick ==
  /\ clock < MaxClock
  /\ clock' = clock + 1
  /\ UNCHANGED <<source, process, items, status, digest, context, chunker>>

EditSource ==
  /\ edits < MaxEdits
  /\ edits' = edits + 1
  /\ config' \in Config /\ origin' \in Origin
  /\ used' = IF step = "idle" THEN {} ELSE used \cup {config'}
  /\ UNCHANGED <<clock, step, art, began, extras, items, status, digest, context, chunker>>

(* resolve_ingest_mode, and the default category of a config.              *)
Mode == IF config.mode \in {"all", "filtered"} THEN config.mode ELSE "filtered"
Default(c) == IF c.default = None THEN Fallback ELSE c.default

-----------------------------------------------------------------------------
(* The steps of the processor.                                             *)

To(s) == step' = s /\ UNCHANGED <<art, began, used>>

(* mark_processing opens the transaction; the hash is new.                 *)
Begin(a) ==
  /\ step = "idle" /\ status[a] = "new"
  /\ step' = "normalize"
  /\ art' = a /\ began' = clock /\ used' = {config} /\ extras' = NoExtras
  /\ digest' = None /\ context' = None
  /\ UNCHANGED <<clock, source, items, status, chunker>>

Ends(outcome) ==
  /\ status' = [status EXCEPT ![art] = outcome]
  /\ step' = "idle" /\ art' = None /\ began' = 0
  /\ extras' = NoExtras /\ used' = {}
  /\ Forget

(* Mutant of Drop: a dropped article is tried again at once.               *)
DropAndRetry ==
  /\ To("normalize")
  /\ UNCHANGED <<clock, source, extras, items, status, digest, context, chunker>>

(* A step that returns None.                                               *)
Drop == Ends("skipped") /\ UNCHANGED <<clock, source, items, digest, context>>

(* An exception in a step or in the transaction.                           *)
Fail ==
  /\ step # "idle"
  /\ Ends("failed")
  /\ UNCHANGED <<clock, source, items, digest, context>>

Normalize ==
  /\ step = "normalize"
  /\ IF Text[art].short
     THEN Drop
     ELSE To("gate") /\ UNCHANGED <<clock, source, extras, items, status, digest, context, chunker>>

Found == Text[art].found

Gate ==
  /\ step = "gate"
  /\ IF Mode = "all" \/ Found # {}
     THEN To("enrich") /\ UNCHANGED <<clock, source, extras, items, status, digest, context, chunker>>
     ELSE Drop

(* The categories with the most keywords.                                  *)
Matches(c, found) == Cardinality(CategoryRules[c] \cap found)
Winners(found) == {c \in Category : \A d \in Category : Matches(c, found) >= Matches(d, found)}

(* Mutant of Resolve: of several winners one is taken.                     *)
ResolveTies ==
  IF Mode = "all" \/ Found = {} THEN Default(config) ELSE CHOOSE c \in Winners(Found) : TRUE

(* resolve_content_category, with the config as it is by then.             *)
Resolve ==
  IF Mode = "filtered" /\ Found # {} /\ Cardinality(Winners(Found)) = 1
  THEN CHOOSE c \in Winners(Found) : TRUE
  ELSE Default(config)

Enrich ==
  /\ step = "enrich"
  /\ extras' = [extras EXCEPT !.category = Resolve, !.topics = Found]
  /\ To("score")
  /\ UNCHANGED <<clock, source, items, status, digest, context, chunker>>

(* calc_freshness, in tenths.                                              *)
Freshness(published) ==
  IF published = None THEN 2
  ELSE IF clock - published < Day THEN 10
  ELSE IF clock - published < 3 * Day THEN 5
  ELSE 2

(* The sum of n[x] for the x of S: the occurrences of each, put together.  *)
Tally(S, n) == Cardinality(UNION {{x} \X (1..n[x]) : x \in S})

(* calc_keyword_intensity: hits count in the content only, up to three for *)
(* every keyword that was matched.                                         *)
Intensity(topics, hits) ==
  LET total == Tally(topics, hits)
      most == 3 * Cardinality(topics)
  IN  IF total < most THEN total ELSE most

Score ==
  /\ step = "score"
  /\ extras' = [extras EXCEPT !.score =
       5 * Intensity(extras.topics, Text[art].hits)
         + Cardinality(Keyword) * Freshness(Text[art].published)]
  /\ To("chunk")
  /\ UNCHANGED <<clock, source, items, status, digest, context, chunker>>

StartChunks ==
  /\ step = "chunk"
  /\ \E w \in Cutting : Split(Text[art].tokens, w[1], w[2])
  /\ To("chunks")
  /\ UNCHANGED <<clock, source, extras, items, status, digest, context>>

CutChunk == step = "chunks" /\ Cut /\ UNCHANGED library

(* Without chunks the article is dropped; else the item and its chunks are *)
(* committed, processed_at being when the transaction began.               *)
Store ==
  /\ step = "chunks" /\ cutter = "idle"
  /\ IF chunks = <<>>
     THEN Drop
     ELSE /\ items' = [items EXCEPT ![art] =
               [schema |-> SchemaOf[extras.category], category |-> extras.category,
                topics |-> extras.topics, score |-> extras.score, configs |-> used,
                published |-> Text[art].published, processed |-> began, chunks |-> chunks]]
          /\ Ends("processed")
          /\ UNCHANGED <<clock, source, digest, context>>

-----------------------------------------------------------------------------
(* The readers.  They see committed items only, and between Begin and      *)
(* Store the items do not change: it is enough that they read at rest.     *)

(* The sets of the n first of S by value, ties in any order.               *)
Best(S, n, value) ==
  {T \in kSubset(IF n < Cardinality(S) THEN n ELSE Cardinality(S), S) :
     \A x \in T, y \in S \ T : value[x] >= value[y]}

(* Published, or else processed, between the first tick of the first day   *)
(* and the last one of the last.                                           *)
InPeriod(item, p) ==
  LET at == IF item.published = None THEN item.processed ELSE item.published IN
  p[1] * Day <= at /\ at <= (p[2] + 1) * Day - 1

(* The rows of the query, before its limit.  The least score a digest asks *)
(* for is 0.                                                               *)
Rows(k, p) ==
  {a \in Article :
     /\ items[a] # None /\ items[a].schema = Query[k].schema
     /\ InPeriod(items[a], p)
     /\ Query[k].source \in {None, origin}}

OnTopic(k, a) == Query[k].topics = {} \/ items[a].topics \cap Query[k].topics # {}

(* Mutant of Rank: the newest first.                                       *)
NewestFirst(a) == items[a].processed * 25 * Cardinality(Keyword) + items[a].score

(* By score, then by processed_at.                                         *)
Rank(a) == items[a].score * (MaxClock + 1) + items[a].processed

(* list_for_digest, for the articles of one source: the topics are looked  *)
(* at after the limit, and without articles no digest is made.             *)
Generate(k, p) ==
  /\ step = "idle"
  /\ \E rows \in Best(Rows(k, p), Limit, [a \in Rows(k, p) |-> Rank(a)]) :
       LET articles == {a \in rows : OnTopic(k, a)} IN
       /\ articles # {}
       /\ digest' = [kind |-> k, period |-> p, articles |-> articles]
  /\ context' = None
  /\ UNCHANGED <<clock, source, process, items, status, chunker>>

(* The chunks of the items, named by article and number.                   *)
Chunks == UNION {{<<a, i>> : i \in 1..Len(items[a].chunks)} : a \in {b \in Article : items[b] # None}}
Tokens(c) == items[c[1]].chunks[c[2]].to - items[c[1]].chunks[c[2]].from
Total(C) == Tally(C, [c \in C |-> Tokens(c)])

(* select_chunks: from the worst on, chunks are taken away until the rest  *)
(* fits.                                                                   *)
Fitting(found, value) ==
  {C \in SUBSET found :
     /\ \A x \in C, y \in found \ C : value[x] >= value[y]
     /\ Total(C) <= ContextTokens
     /\ C = found \/ \E y \in found \ C :
          /\ \A z \in found \ C : value[y] >= value[z]
          /\ Total(C \cup {y}) > ContextTokens}

Ask(q, threshold) ==
  LET similar == [c \in Chunks |-> Similar(q, c[1], c[2])]
      hybrid == [c \in Chunks |-> similar[c] * items[c[1]].score]
  IN
  /\ step = "idle"
  /\ \E near \in Best({c \in Chunks : similar[c] > threshold}, Candidates, similar) :
       \E found \in Best(near, Top, hybrid) :
         \E fitting \in Fitting(found, hybrid) :
           context' = [found |-> found, used |-> fitting]
  /\ digest' = None
  /\ UNCHANGED <<clock, source, process, items, status, chunker>>

-----------------------------------------------------------------------------

Process ==
  Normalize \/ Gate \/ Enrich \/ Score \/ StartChunks \/ CutChunk \/ Store

Next ==
  \/ Tick \/ EditSource
  \/ \E a \in Article : Begin(a)
  \/ Process \/ Fail
  \/ \E k \in Kind, p \in Period : Generate(k, p)
  \/ \E q \in Question, t \in Thresholds : Ask(q, t)

Spec == LibraryInit /\ [][Next]_vars

(* Lambda goes on with an article it has begun.                            *)
FairSpec == Spec /\ WF_vars(Process)

-----------------------------------------------------------------------------
(* Properties.                                                             *)

(* An item is there and filed for a reason, although the source may be     *)
(* edited between the gate and the enricher, which read its config again:  *)
(* it has a keyword or was admitted while the source took everything, and  *)
(* its category is the one that alone has the most of its keywords or the  *)
(* default the source had at some time in between.                         *)
FiledForAReason ==
  \A a \in Article : items[a] # None =>
    LET item == items[a] IN
    /\ item.topics # {} \/ \E c \in item.configs : c.mode = "all"
    /\ \/ Winners(item.topics) = {item.category} /\ item.topics # {}
       \/ \E c \in item.configs : item.category = Default(c)

(* A digest leaves out no article of its kind and period that scores       *)
(* higher than one it has.                                                 *)
BestOfPeriod ==
  [][digest' # None /\ digest' # digest =>
       \A a \in digest'.articles, b \in Rows(digest'.kind, digest'.period) :
         OnTopic(digest'.kind, b) /\ items[b].score > items[a].score => b \in digest'.articles]_vars

(* A context holds every chunk the search has ranked: as no chunk exceeds  *)
(* the window, the token limit never takes one away.                       *)
NothingIsCut == context # None => context.used = context.found

(* Whatever window and overlap, an article that was begun is settled.      *)
Settles == []<>(step = "idle")

-----------------------------------------------------------------------------
(* What the documents say and the code does not keep.                      *)

(* "Top N makale" (Docs/04): a digest has as many articles of its kind as  *)
(* there are, up to the limit.  Articles of other topics take the places.  *)
DigestIsFull ==
  [][digest' # None /\ digest' # digest =>
       \/ Cardinality(digest'.articles) = Limit
       \/ \A b \in Rows(digest'.kind, digest'.period) :
            OnTopic(digest'.kind, b) => b \in digest'.articles]_vars
=============================================================================
