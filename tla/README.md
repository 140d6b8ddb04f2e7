# YGIP: TLA+ models, model checks and proofs

YGIP collects articles from feeds, mailboxes and government sites, enriches and
stores them, writes periodic digests with an LLM, notifies the readers and
answers questions over the stored articles. The Python services of `services/`
and `apps/api/` share one PostgreSQL database, a Redis and SQS queues, and most
of what can go wrong in them happens *between* them: messages delivered twice,
Lambdas killed in the middle, background tasks that run before the request that
started them has committed, sessions that read a row and write it back later.
That is what the modules here describe.

Run a check with `tlc -config MCProcessor_race.cfg MCProcessor`, a proof with
`tlapm ProcessorProofs.tla`.

## 1. The system

| Component | State | Operations | Hard because |
|---|---|---|---|
| Collectors (`services/collectors/`) | `sources.status`, `error_count`; messages in SQS | load active sources, fetch with retries, validate, publish, record success or failure | overlapping Lambdas, Lambda timeouts, publishing that fails halfway, lost updates on the source row |
| Source administration (`source_service.py`, `source_repository.py`) | the `sources` row | PATCH status, DELETE, update, create | runs against the collectors' own sessions on the row |
| Ingestion (`collectors/persistence.py`) | `raw_items`, Redis set `dedup:hashes` | `ingest_message` | order of the Redis write and the commit; not wired outside the tests |
| Processor (`services/processor/`) | `raw_items.status`, `processed_items` in five schemas, `content_chunks`, Redis keys `processor:dedup:*` | `handle_sqs_event`, `PipelineOrchestrator.process` | at-least-once delivery, visibility timeout, retries that meet their own dedup key, kills, partial batches |
| Digest generation (`digest_service.py`, `digest_generator.py`, `digest_repository.py`) | `digests`, `digest_sections` | POST /digests/generate, the background task | two sessions per call, `create_task` before the commit, no unique key on the period |
| Article selection and retrieval (`processed_item_repository.py`, `chunk_repository.py`, `context_builder.py`) | none: they read `processed_items` and `content_chunks` | `list_for_digest`, `similarity_search`, `select_chunks` | limits applied before and after filters, scores that tie |
| Notifications (`notification_orchestrator.py`, mail and push services, `notification_service.py`) | `notification_logs`, `notification_preferences` with the FCM tokens | `send_digest_ready`, register a token, change the flags | irrevocable sends inside a transaction that commits later, retries of what was already taken, tokens cleared after the send |
| Rate limiter (`rate_limiter.py`, `core/deps.py`) | a Redis sorted set, or a list in memory, per caller and category | one check per request | the clock is read before Redis is awaited, pipelines overtake one another, edges of the window |
| Chatbot and LLM client (`rag_pipeline.py`, `chatbot_service.py`, `llm_client.py`, `providers/`) | chat history, usage logs, the client's index over its keys | ask; the sections of a digest | fallback while the index wraps, keys deleted while in use, usage rows that roll back |
| Accounts (`auth_service.py`, `password_reset_service.py`, `user_service.py`) | users, reset tokens, audit rows; the tokens clients hold | login, refresh, logout, reset, create, update | one-time links without locks, rows written and audited from stale objects |
| Configuration (`api_key_service.py`, `settings_service.py`, `prompt_service.py`, `source_service.py`) | one row per key, setting, template, source; audit rows | create, edit, delete | edits of rows loaded before others committed |

They interact through data only. The collectors put articles into SQS; the
processor takes them out and fills the tables that digest generation and the
chatbot read; digest generation calls the notifications inside its own
transaction; admins edit the rows of all of them through request sessions.
All sessions run READ COMMITTED through SQLAlchemy, which flushes an UPDATE with
the columns that changed and takes the row lock at the flush, not at the SELECT.
The models take that as given and name it where it is used.

What makes each correct: the processor stores each article once and with its
chunks, never leaves a row half done and loses no message; a period has one
digest that is either whole or not READY, and nobody is notified twice; a
source's error count means what it says, success means published, and a source
that keeps failing is parked; the rate limiter admits what it promises in every
window, no more and no less; chunks cover their text, items are filed for a
reason, and a digest takes the best there is; a reader gets no copy of a
notification that the log could have prevented; a reset link is used up by the
password it sets, and changes of accounts and configuration are in the audit log
as they are in the rows; an LLM answer that is committed is booked.

## 2. Modules

| Module | What it is | Models |
|---|---|---|
| `Processor` | the processor Lambda with SQS, Redis and PostgreSQL around it | `services/processor/` |
| `ArticleStore` | abstract: what readers of the database may rely on | the promise of the processor |
| `ProcessorProofs` | theorems about `Processor` | |
| `DigestGeneration` | request and task sessions of one period | `digest_service.py`, `digest_generator.py`, `digest_repository.py`, `notification_orchestrator.py` |
| `DigestBoard` | abstract: one digest, emptied and republished as a whole | the promise of Docs/04, 10 and Docs/01 |
| `DigestProofs` | theorems about `DigestGeneration` | |
| `SourceLifecycle` | collectors and admins on one source | `services/collectors/`, `source_service.py` |
| `SourceHealth` | abstract: what each update of a source does | the promise of Docs/01, 5.1 |
| `SourceProofs` | theorems about `SourceLifecycle` | |
| `RateLimiter` | the checks of requests, over Redis or in memory | `rate_limiter.py`, `core/deps.py` |
| `RateLimiterProofs` | theorems about `RateLimiter` | |
| `Chunker` | `split_text_into_chunks`, round by round | `chunker.py` |
| `Library` (with `Chunker`) | the processor's steps behind the dedup, and the readers of what they leave | `normalizer.py`, `gate_processor.py`, `enricher.py`, `scorer.py`, `keyword_pool.py`, `processed_item_repository.py`, `chunk_repository.py`, `context_builder.py` |
| `LibraryProofs` | theorems about `Chunker` and `Library` | |
| `Accounts` | calls on accounts, reset links and tokens | `auth_service.py`, `password_reset_service.py`, `user_service.py`, `core/security.py` |
| `ResetLinks` | abstract: at most one working link per account, used once | the promise of Docs/01 and Docs/06 |
| `AccountsProofs` | theorems about `Accounts` | |
| `Delivery` | one digest on its way to its readers | `notification_orchestrator.py`, `mail_service.py`, `push_service.py`, `notification_service.py` |
| `Users` | composes `Accounts` and `Delivery` | users that are created or deactivated meanwhile |
| `UsersProofs` | theorems about `Users` | |
| `Configuration` | admins' calls on keys, settings, templates, sources | `api_key_service.py`, `settings_service.py`, `prompt_service.py`, `source_service.py` |
| `Registry` | abstract: every edit applies as a whole to the object as it is | the promise of CRUD |
| `Chat` (with `Configuration`) | questions and digests that use the LLM keys admins edit | `llm_client.py`, `providers/`, `rag_pipeline.py`, `chatbot_service.py`, `api_usage_service.py` |
| `ChatProofs` | theorems about `Configuration` and `Chat` | |
| `MCProcessor`, `MCDigest`, `MCSource`, `MCRateLimiter`, `MCLibrary`, `MCAccounts`, `MCUsers`, `MCChat` | instances for TLC | |

### Processor
One worker is one Lambda invocation; `pc` is the place in
`PipelineOrchestrator.process` at which the session stands, and each action is
the code between two points where another process can interfere (a statement to
the database, a call of Redis). `tx` holds the flushed and uncommitted writes,
`lock` the row lock of `raw_items`, `reserved` the Redis keys, `delivery`,
`received` and `holder` the queue. `TakeRecord` to `Return` follow
`handle_sqs_event` record by record; `Commit`, `Unexpected` and `Crash` are the
ways `processor_db_session` ends. `Commit` may also report a record whose commit
went through unconfirmed. The processors behind dedup are one action with three
outcomes (discard, raise, route to a schema), because the properties do not
distinguish more. A raw item stands for its (source_id, content_hash); sources
are not deleted in this module.

### DigestGeneration
Each call of POST /digests/generate has two sessions, the request's and the
background task's. `digest`, `loaded` and `target` are the ORM object, the status
the ORM believes it has, and the rows a DELETE statement saw when it started;
`tx` and `rowLock` are what has been flushed. `Schedule` is `create_task`, after
which the task may run while the request is still to commit. `Abort` is every way
a session can vanish. `tried` remembers who was mailed, which no rollback undoes.

### SourceLifecycle
A collector goes from `LoadActive` through the attempts of `with_retry` and the
loop of `process_articles` to `record_success` or `record_failure`, each in a
session of its own (`Open...`, `Apply...`, `Commit...`). `seen` is the Source
object as loaded, `tx` the columns the UPDATE sets: those that differ from the
loaded ones. `TimesOut` is the Lambda's timeout during a fetch that hangs,
`Crash` and `SessionFails` are bounded by `MaxFaults`. Invalid articles are the
ones `validate` rejects; the collectors have no Redis client, so `dedup_check`
finds nothing.

### RateLimiter
A request is checked once: in one step in memory (nothing is awaited there), in
up to three over Redis: `Send` reads the clock, `Execute` is the transaction in
Redis, `ReadOldest` the second round trip for Retry-After. `stamp` is the local
`now`; between `Send` and `Execute` the clock moves by at most `Delay`, the time a
pipeline needs. The clock is one for all processes and never goes back. `hits`
holds what is stored under a key, `expireAt` the time to live. The middleware
runs before authentication, so only the chat dependency counts by user. Time is
in ticks smaller than a second, because Retry-After truncates.

### Library and Chunker
One article at a time goes from `Begin` through `Normalize`, `Gate`, `Enrich`,
`Score`, `StartChunks`, the rounds of `CutChunk` and `Store`; any step may
`Drop` it or `Fail`. The gate and the enricher read the source's config by a query
each, so `EditSource` may come between them; `used` remembers the configs in
between. `extras` is the dict the steps pass on. Of a text are kept the keywords
found in it, their hits in the content, its length in tokens and whether cleaning
leaves too few words. Scores are whole numbers in a unit in which the
weights 0.6 and 0.4 come out even; the code's rounding to four digits is left
out. `Generate` is `list_for_digest` (order, limit, then topics), `Ask` is
`similarity_search` and `select_chunks`; ties are broken in every way, as the
database may. `Processor` has the transactions around these steps.

### Accounts
Each call is a session: it loads the rows it needs (`seen` is its identity map),
flushes (`tx`, which holds row locks), and commits or aborts. `overlap`, fixed at
the start, says whether calls are served one at a time. `links` are the reset
tokens by the call that issued them, `hits` the links a statement found when it
began. The mailer of the links is a stub that leaves no trace in any state
(section 5): `SendLink` is the place of the call, where it may raise. A password is
named by the call that set it. `access` and `refresh` are the tokens somebody holds: nothing in the
database knows them.

### Delivery and Users
A task lists the recipients once and serves them one by one: e-mail with its
attempts, then push, each with the look into the log before and the row after.
`MailLate` and `PushLate` are errors after the transport took the message,
`TokenDies` FCM's decision that a device is gone. `cleared` are the tokens the
task has set to NULL, which it holds locked until its end. `Visit` are the
requests of readers and admins on preferences. The tasks of one digest follow each
other: `DigestGeneration` shows that they exclude each other from `mark_ready` on.
In `Users` the list of recipients is that of the active accounts, and a created
user gets its preferences in the same transaction.

### Configuration and Chat
A row is a record of columns; an edit compares with the object it loaded (`seen`),
flushes the columns that changed, refreshes (templates) and logs. `NameHeld` is
the unique index that makes a second session wait. `f ++ g` is Python's `{**g, **f}`,
by which a write lands on the row as it is at the commit; no row is the record
without columns (`None`). In `Chat` every transaction
builds a client over the keys that are active then (`Build`); `Refuse` is an
error that makes the client fall back, `ProviderBreaks` one that does not.
`LogUsage` refers to the key, which the foreign key then keeps from being deleted.

## 3. Runs

| Run | Question | Instance |
|---|---|---|
| `race` | Do concurrent invocations exclude one another, keep rows and chunks together, and lose nothing delivered once? Can they deadlock? | 2 invocations, 2 messages about one article, 2 schemas, 2 receives |
| `batch` | Is the processor an `ArticleStore`? Does every message end? | 1 invocation at a time, events of 2 records out of a good, a wrongly hashed and an unparsable message |
| `library` | Do the chunks tile the text, is an item filed for a reason, does a digest take the best, is a context ever cut, does every article come to an end? | 4 articles (a tie of categories, no keyword, no date, too short), 1 edit of the source, windows of 3 and 2 tokens, one with an overlap to be corrected, 2 kinds of digest, 1 question |
| `digest_overlap` | Notifications, publication and termination when sessions overlap freely | 2 calls (4 sessions), 2 recipients |
| `digest_serial` | Is it a `DigestBoard` when sessions do not overlap? | 3 calls, 2 recipients |
| `digest_stuck` | "herhangi bir hata durumunda `status = failed`" | violated |
| `source_overlap` | What can overlapping runs and admins do to a source, one deleting what another has loaded? Is a source that is down parked in the end? | 2 collectors, 2 admins, 1 article, threshold 2, 1 fault |
| `source_serial` | Is it `SourceHealth` when sessions do not overlap? Has a recorded success published what it fetched? | 2 collectors, 2 admins, a valid and an invalid article, fetches that time out, threshold 3, 1 fault |
| `limiter` | Does every window keep the limit, is nobody refused early or told to wait too long? | 3 backends, 4 logins of which 2 are allowed in 4 ticks (2 s), delays of 2 ticks, a health probe |
| `accounts` | Is a link spent by what it sets? Does a call with a stale object change only what it was asked? Is every change audited? One call at a time, is it `ResetLinks`? Does every call end? | 3 calls out of initiate, complete, login, logout, update (of the other, of oneself), create; 2 accounts and one to be created, 1 expiry, aborts |
| `users` | Which copies of a notification can a reader get, what do the log rows say, which tokens are lost? | 2 tasks in a row, 2 readers of whom one is created and one deactivated meanwhile, 2 tokens, 1 request on preferences, 2 SMTP attempts, 1 mishap |
| `chat` | Does the fallback ask every key once, does the rotation spread the load, is what is committed booked, do audit rows tell the truth? Are edits a `Registry`? | a question and a digest of 2 sections, 3 keys, 2 edits out of 10, 1 lost connection |

The bounds. Two invocations, calls or collectors are what an overlap needs; the
safety properties of every run are also theorems, for any number. Two receives
give a first delivery and a redelivery, and the count reaches the redrive limit.
Two schemas let a source be rerouted between two attempts. The threshold of a
source is the code's own 3 in `source_serial` and 2 in `source_overlap`, where two
runs that load one count already lose an update; attempts are at most 2 in place of 4 because an attempt in
the middle differs from the first one in nothing. `MaxFaults` is 1: it bounds
the faults of a liveness run, where without a bound a source whose every session
fails would rightly never be parked. In `limiter` a delay of two ticks is the smallest at
which a late pipeline makes a whole window exceed the limit, so that the
shortened window of `AdmittedWithinLimit` is not stated for nothing; six ticks let
a hit leave the window and a refused caller come back.

`library` has texts of 7, 4, 2 and 1 tokens: more than two windows, just over
one, exactly one and less. A limit of one article makes topics and order compete
for it; a candidate limit of three and a context of two chunks make both cuts of
the retrieval happen; time has a first and a second day, at which freshness
changes. That windows and limits are small does not matter to the safety
properties, which are proved; the bound that `NothingIsCut` needs
(`Top * window <= ContextTokens`) is an assumption that the code's 10 chunks of
512 tokens in 8000 satisfy. `accounts` has three calls because the worst case
of a link takes three: one issues it, two use it. Its four kinds of
stale object (role, state, link, password) come from the rows of two
accounts; a third account can only be created. `users` has two tasks, the
second of which meets what the first one committed or lost, and two SMTP attempts as
the code has them. `chat` has three keys, so that a refusal in the middle, at the
end and of all can happen while the index wraps, and a digest of two sections,
the least at which the rotation shows. Two edits are what a lost update needs.

`batch` shows that every message ends with crashes, failing records and retries,
but its invocations never meet. Two of them with two messages make the
graph of a liveness check too large; `MCProcessor_blocked.cfg` therefore has one
message, handed up to three times to two invocations that wait for each other on its
row while its source is recategorised. It passes (129 972 states); for more
messages with overlapping invocations nothing is claimed beyond safety.

Deadlock is checked in `race`; the other runs end by themselves (calls, articles
and tasks are finite, a source that is not ACTIVE stops its collectors, every
message settles, the clocks of `limiter` and `library` are bounded). That no
calls of `accounts` and `digest_overlap` wait for one another in a circle is
what `EveryCallEnds` and `EverySessionEnds` say.

Fairness. `Processor`: Lambda runs what it was handed (weak fairness of `Run`),
SQS hands out what is visible, lets visibility timeouts pass and moves messages
over the limit. Nothing obliges a step to succeed, and an invocation may crash
each time. `DigestGeneration`: the event loop runs every session that can move;
no call has to arrive. `SourceLifecycle`: EventBridge keeps starting collectors
(`construct.py`, a rate rule) and a call that has begun ends. `Library`: Lambda
goes on with an article it has begun. `Accounts`: the event loop runs every call
that can move; a call that waits for a row gets it when the row is free for ever,
and nothing obliges a call to arrive, a link to expire or a commit to succeed.

## 4. Proofs

Each proof module shows `Spec => []IInv` for an inductive invariant that TLC
checks as well (`IInv` in `race`, `digest_overlap`, `source_overlap`, `limiter`;
those of `LibraryProofs`, `AccountsProofs`, `UsersProofs` and `ChatProofs`, and the
ones for sessions that do not overlap, were checked on the instances of `library`,
`accounts`, `users`, `chat` and `digest_serial`), from the
named assumptions on the constants only. Each contains the module's type invariant.
Every invariant, action property and refinement of the passing runs is a theorem.

`ProcessorProofs`. `ExclusiveProcessing` is not inductive: that two workers are
not past dedup with one article follows from `ReservationHeld` (whoever is past
dedup holds the key) and from `ExpireKey`, which waits for the holder, since seven
days outlive an invocation. `ChunksWithItems` and `NeverStuckProcessing` need
`SessionWrites`: which writes a session can hold at each stage, so that what a
commit makes visible is an item with its chunks or neither, and never PROCESSING.
`StoreImplemented` then maps every commit to `Store` or `Settle` of
`ArticleStore` and every other step to `Ingest` or a stutter. `DeliveredOnceIsKept`
has an invariant of its own on top, `DeliveryInv`: an article that only one delivery
has reached finds its Redis key free or set by its own attempt, so no record of it
ends as a duplicate (`FirstDelivery`); and what a record reports as stored is in its
transaction or committed (`StoredIsThere`).

`DigestProofs`. `AtMostOnceNotified` rests on `NotifiesUnderLock` (a task that
notifies holds its digest's row from `mark_ready` to its end, and so reads the
committed log rows of everybody before it) and `TriedIsLogged` (what it tried is
in its transaction or committed). `ReadyComesWithSections` rests on
`PublishesItsSections`. `BoardShown` is stated for `Overlap = FALSE`. Its
`SerialInv` says that one session is open at a time, that there is one digest at
most, and what the open session has got from it (`Prepared`): the
rows its DELETE saw are the committed ones, what it deletes they all are, and
what it will commit is either an emptied GENERATING digest or a READY one with the
sections of its own generation. So every commit is a `Restart` or a `Publish`
of the board, and everything else, aborts included, shows a reader nothing.

`SourceProofs`. `CollectorsOnlyPark` rests on `WritersHoldTheRow` and
`FlushedByCollector`, `SuccessMeansPublished` on `Accounted` (what was fetched is
published or still in the list). `HealthImplemented` is stated under
`Overlap = FALSE`: a session then finds at its commit what it loaded
(an invariant of the serial system, proved there on top of `IInv`), and each
commit is a step of `SourceHealth`.

`RateLimiterProofs`. `AdmittedWithinLimit` rests on `RecentHitsStored` (nothing
younger than a window is forgotten, by trimming or by the time to live) and
`StampsLag` (a pipeline executes within `Delay` of its clock): what was admitted
in the shortened window is then in the set the next request counts. Without the
shortening it is false: a later request may trim the set before an earlier one
counts. `RefusedOnlyOverLimit` rests on `HitsAreRequests` and compares the hits
with the requests through a surjection. `RetryAfterIsNotPadded` is about a caller
who comes back, so its invariant `MemoryRetries` keeps for each refused request a
moment `o`: more than the limit have been counted since `o`, and Retry-After less
a second ends before `o` leaves the window. Who comes back before that
still finds all of them.

`LibraryProofs`. `ChunksTile` rests on `BetweenRounds`: while the loop runs, the next
window begins an overlap before the end of the last chunk, and the overlap
is smaller than the window; hence each chunk begins after the one before
it and the text ends in the last one. `Corrected` is what makes the overlap smaller, for windows
of one token too. `FiledWithReason` rests on `FilingIInv`: from the gate on the
article has a keyword or `used` holds a config that takes everything, and
from the enricher on its category is the only winner or the default of a config in `used`.
`ContextHoldsAll` adds `ReadersIInv`: every chunk that is stored fits one of the
windows a source may have, the chunks of an answer are at most `Top`, so their tokens inject
into a grid of `Top` rows and the tokens a context has for each of them (`TallyBound`), and
`select_chunks` never takes one away. `DigestTakesBest` needs that the
order of `list_for_digest` puts the score before the date, which the model
writes as one number (`Rank`): a date is never after the clock and the clock never after
`MaxClock`, so a higher score outweighs every date (`ScoreRanks`), and the topics only remove.

`AccountsProofs`. Everything rests on `Session`, which says for each stage of a
call what it may have loaded and flushed, on `Apart` (two sessions never hold one row),
and on `Committed` (what the tables hold came from calls that committed). `ChangesAsAsked`
rests on the part of `Session` (`Written`) that says that what a flush sets is what
the call was asked: the ORM writes only the columns that differ from the loaded
ones, so a stale object takes nothing back. `SpentForGood` holds although calls overlap because password and mark are in one
transaction and no call ever writes a link back to open. `ChangesAudited`
compares what `UpdateUser` flushes with what it logs: the ORM leaves out
columns equal to the loaded ones, and the row lock that the UPDATE takes comes
after the comparison, so `from` may be old but `to` is what the row gets.
`PromiseImplemented` is about the behaviours in which calls are served one at a time.
`SerialInv` says that an account then has at most one working link, and that what the open
call has found and flushed of the links is still so at its commit (`Serial`):
who asks for a link marks every working one as used in the transaction that adds his,
and who uses one still finds it open. So each commit is an `Issue` or a `Use`,
an expiry a `Lapse`, and nothing else touches a link. It assumes that `None` is no row.

`UsersProofs`. `Queue` says that one task sends at a time and that whoever it listed
is still in `todo`, being served, or has a row for every channel that is on; this is
`CommitSettles` once `todo` is empty. A row is only written when the look into the log
found none, and `Accounted` counts the copies against it: those not excused are one copy
with a SENT row, whatever the mishaps. `Preferences` is what
`LiveTokenStays` needs: the readers in `cleared` were listed with a token FCM
does not know, and no two sessions have written one preference row. An insert would
overwrite the row of a reader who has one, so it also says that inserts are of rows that
do not exist. `Rows`, a second invariant over the account rows, shows that an account
that exists goes on existing, so that the default row of `create_user` never meets an
older one. The assumptions are that `None` is no token, preference, recipient or row.

`ChatProofs`. `CInv` says what an open call has loaded and flushed, and against
what it stays true while others commit: nobody else writes a row that a call has written
(`Locked`), and nobody has got past looking for an object that is being
created (`Creates`). So what a call has flushed, laid over the row as it is *at that moment*,
is a row and is what the audit payload tells (`Written`), which gives
`AuditAlwaysShowsRow`; and on keys and settings, where all columns are written, or when
calls do not overlap, it is what the registry's edit makes of the row
(`ConfigurationIsRegistry`). `WInv` is about the client: counting from the index, the keys of the
first `attempt` places have refused, the last key that answered is the one before the
index, and every answer but the one being logged has its flushed row. That a
round through n places meets each place once (`Turns`, from arithmetic modulo n) and that
`ActiveKeys` holds every active key once (`Places`: the ranks of n keys are an
injection into n places, hence onto them) then give `NoKeyAskedTwice`,
`RotationIsFair` and `CommitsAreBooked`. `UsageKeepsItsKeys` needs both
invariants: a DELETE waits for sessions that refer to the key, an INSERT of a
usage row for a pending DELETE, and committed rows go with their key. The
assumptions are that the four kinds of objects are disjoint and finitely many,
that rows and bodies have the columns of their kind, and that ranks differ.

Only model-checked: the liveness properties (`EveryMessageSettles`,
`EverySessionEnds`, `FailingSourceIsParked`, `EveryCallEnds`, `Settles`), which need
fairness and ENABLED and so are out of the prover's reach.

## 5. Where code and documents disagree

Checked as a violation run, with its lines in `PROJECT.json`:

- `digest_stuck`: `db.rollback()` undoes `mark_failed`; the digest stays GENERATING
  (`digest_service.py:304`; Docs/01:525).

Further disagreements, each with a configuration in which TLC finds the
counterexample (`tlc -config <file> <module>`):

| Configuration | Property | What happens | Where |
|---|---|---|---|
| `MCProcessor_lost.cfg` | `FailedMessagesReachDlq` | the Redis key of the dedup step is never released when a later step fails, so the retry counts as a duplicate and the message is deleted | `dedup_processor.py:72`; Docs/04:786 |
| `MCProcessor_twice.cfg` | `OneItemPerRawItem` | after its source was recategorised a raw item is stored in a second schema | `persistence.py:91`; Docs/01:510 |
| `MCLibrary_full.cfg` | `DigestIsFull` | the topics are looked at after the limit, so articles of other topics take the places of a digest | `processed_item_repository.py:75`; Docs/04:761 |
| `MCDigest_two.cfg` | `OneDigestPerPeriod` | the background task may look for the digest before the request that created it has committed, and creates a second one; every later call for the period fails in `scalar_one_or_none` | `digest_service.py:225`; Docs/04:944 |
| `MCDigest_empty.cfg` | `ReadyHasSections` | a second call deletes the sections of the generation that has just become READY and leaves the status READY | `digest_repository.py:115`; Docs/01:525 |
| `MCDigest_empty.cfg`, with this INVARIANT in place of its own | `SectionsOfOneGeneration` | two tasks that reset one GENERATING digest both add their sections | `digest_repository.py:117`; Docs/08:600 |
| `MCSource_hang.cfg` | `FailingSourceIsParked` | the timeout of the RSS and government Lambdas is shorter than two fetch timeouts, so a source that hangs is never counted as failing | `schedules.py:19`; Docs/01:496 |
| `MCSource_count.cfg` | `ActiveBelowThreshold` | ERROR to INACTIVE to ACTIVE keeps the count, and the next failure parks the source | `source_service.py:237`; Docs/01:497 |
| `MCSource_parked.cfg` | `OnlyActiveIsParked` | a run that began before an admin passivated the source parks it in ERROR | `source_lifecycle.py:28`; Docs/01:580 |
| `MCRateLimiter_wait.cfg` | `WaitIsEnough` | refused requests count as hits, and Retry-After waits for the oldest hit only: who waits as told may be refused again | `rate_limiter.py:62`; Docs/07:388, Docs/06:123 |
| `MCAccounts_links.cfg` | `OneUsePerLink` | two overlapping requests both find the link unused and both set a password | `password_reset_repository.py:55`; Docs/01:489, Docs/06:143, Docs/03:124 |
| `MCAccounts_links.cfg`, with this PROPERTY in place of its INVARIANT | `LogoutEndsSession` | logout only writes an audit row; the refresh token goes on working | `auth_service.py:185`; Docs/03:92 |
| `MCUsers_fresh.cfg` | `FreshTokenStays` | a token registered while the digest is being delivered is cleared in place of the dead one the task had listed | `push_service.py:107` |
| `MCChat_version.cfg` | `VersionGrows` | of overlapping edits of a template two get one version, or the later commit takes the version back | `prompt_template_repository.py:104`; Docs/01:162, Docs/01:538 |
| `MCChat_booked.cfg` | `EveryAnswerBooked` | the usage row of an answer rolls back with the transaction that asked | `api_usage_service.py:65`; Docs/04:836 |

By reading alone: the mailer of reset links is a stub (`email_service.py:52`) that
outside development logs a line without the token, so no link reaches its owner,
where Docs/01:489, Docs/03:124 and the answer itself (`password_reset_service.py:80`)
say that it was sent; edits of a source leave no audit row (`source_service.py:181`),
where Docs/07:502 lists `source.updated`; general requests are limited by address, not by user as
Docs/03:1148 and Docs/07:385 say, since nothing sets `request.state.user_id` before
the middleware runs; outside development a Redis that cannot be reached
refuses every request, where Docs/07:390 describes fail-open; that an admin
does not deactivate himself (Docs/06:538) is a matter of the web page only, and
two admins may deactivate each other; and the setting `embedding_model` is
never read, the reindexing Docs/01:523 describes being a warning in the log
(`settings_service.py:110`).

## 6. Not modelled, and the plan

Done, in this order: the processor, digest generation, the source lifecycle, the
rate limiter; accounts and reset links, the delivery of notifications with the
accounts it depends on, configuration and the LLM client, the algorithms of the
processor with the readers of its items.

What is left:

1. Proofs about what the liveness properties rest on: that a session, call or article that
   has begun has only finitely many steps before it (a measure that every step lowers),
   which is a safety property although the conclusion is not.
2. Ingestion with a transaction of its own, as soon as the code says who commits
   it: today only tests call `ingest_message`, and `Processor` lets the row appear
   at any time.

Left out for good: the parsing of feeds, mails and LLM answers (data conversion:
`rss_collector.py`, `email_collector.py`, `gov_collector.py`, `digest_parser.py`; a fetch
or an answer succeeds with something or fails), the lists and statistics that
only read, the web user interface, provisioning code except the queue's redrive
policy and the Lambda timeouts, and migrations and seed data, which are run by
hand before the system starts.
