# nginz-token: a TLA+ model of the LLM gateway modules

nginz-token is nginx 1.30 with a set of modules written in Zig that turn it into a
gateway for LLM traffic: authentication, rate limits and budgets, provider
routing and fallback, metrics and cost accounting. The modules carry two C
libraries with them, cJSON and libinjection, through which every request body and
every upstream answer passes. This directory models the parts whose
correctness depends on more than one step of more than one actor, and the parts
of the libraries that are pointer and buffer work; it checks them with TLC on
small instances, and proves the central properties of the accounting writer, of
both ledgers, of cJSON's sibling lists and of its in-place minifier with TLAPS, for
all values of their parameters.

Paths below are relative to the repository; `R:n` is line n of
`src/modules/llm-ratelimit-nginx-module/ngx_http_llm_ratelimit.zig`, `C:n` of
`.../llm-cost-nginx-module/ngx_http_llm_cost.zig`, `P:n` of
`.../llm-proxy-nginx-module/ngx_http_llm_proxy.zig`, `M:n` of
`.../llm-metrics-nginx-module/ngx_http_llm_metrics.zig`, `J:n` of `src/c/cJSON.c`,
`S:n` of `src/c/libinjection/libinjection_sqli.c`.

## 1. Inventory

nginx runs one master and several single-threaded worker processes. A request
stays in one worker from its first byte to its LOG phase. Modules interact
through phase handlers (ACCESS, content, filters, LOG), through request contexts
that other modules read with `ngx_http_llm_*_observe()`, and through shared
memory zones guarded by slab mutexes. LOG handlers run in forward registration
order: rate limit, proxy, auth, metrics, fallback, cost (`src/ngz_modules.zig`).
cJSON and libinjection are called synchronously inside a handler and share
nothing between workers.

| component | state it keeps | operations | what makes it hard | what makes it correct |
|---|---|---|---|---|
| cost: PostgreSQL writer (C:219-257, 753-1094, 1617-1641) | per worker: ring of 512 events, connection state, kick timer, I/O timers, isolation counter, drain deadline | enqueue in LOG, connect, send a batch, finish, retry, drain, exit | callbacks interleave with LOG handlers; ambiguous commits; refused batches; reload and kill | FIFO, at-most-once rows, popped only if stored, dropped only if refused alone, no lost wake-up, bounded drain |
| rate limit: request/token ledger (R:121-200, 651-840, 1145-1330) | shared: 64 stripes of entries (request and token counts, window, cooldown) and a mutex | find/create/evict entry, check and consume, reconcile tokens, set cooldown, return slot | processes die between two stores; cached time; eviction; LOG in another window than ACCESS | counts match the requests of the window, budgets hold, cooldowns are honoured, the mutex is freed |
| rate limit: spend budgets (R:202-262, 323-649) | shared: entries per scope, unit and month | reserve several scopes, release, reconcile | one lock per scope; month change; the cost unit changes after fallback | spend of a month covers its requests; all scopes or none |
| rate limit: quota resolution (R:1038-1140) | configuration | tier overrides by model, provider, translation | precedence of overrides | equals a reference definition |
| proxy: request life cycle (P:245-423, 981-1018, 1360-1529, 3958-4596) | request context; provider catalogue | body, access and header handlers, resolution, fallback detection | values of one request stored in configuration shared by all | outcome agrees with routing; a non-idempotent request is not replayed |
| proxy: SSE stream (P:2371-3954) | per response: parser and dialect state | body filter over arbitrary chunk boundaries | split events, truncation, errors mid-stream | result independent of chunking |
| metrics (M) | shared: per-worker slots, label slots | observe in LOG, aggregate on export | lock-free readers, death while a label slot is claimed | totals never lose or double an observation |
| fallback (`llm-fallback`) | configuration | retry classes, duplicate and cycle checks | graph checks at configuration time | accepted configurations have no cycle |
| cost: computation (C:324-526, 661-751, 1667-1710) | request context | compute once, persist once, observe | read by several modules in several phases | computed at most once, eligible only if accepted |
| auth, security, cache | request context, configuration | key lookup, pattern matching through libinjection, nothing (stub) | - | - |
| cJSON tree (J:242-300, 1859-2760) | a heap of items and strings, the sibling lists | create, add, detach, insert, replace, duplicate, rename, delete; references | pointers of a circular list; ownership shared by references; allocations that fail half-way | lists whole, each string freed once, failed calls leave nothing |
| cJSON texts (J:180-1830, 2770-3080; `ngx_cjson.zig`) | parse and print buffers, the place of the last error, the pool | parse, print, encode, minify, compare | sizes computed before bytes are known; texts that end anywhere; reading and writing one buffer | accepts JSON and, but for its numbers, nothing else; stays in its buffers, printing and parsing undo each other |
| libinjection HTML and XSS (`libinjection_html5.c`, `libinjection_xss.c`) | tokenizer state: position, next state, token | next token, scan in five contexts | states hand over by position | tokens keep the text, the verdict is that of the tokens |
| libinjection SQL (`libinjection_sqli.c`) | tokenizer state, eight token places, statistics | tokenize, fold, fingerprint, five passes | rules that lower positions and restart the loop; passes share one state | loops get on, the fold fits the fingerprint, passes left out find nothing |

`PROJECT.json` lists the hazards of this code line by line and the properties
that answer them.

## 2. Modules

| module | role |
|---|---|
| `PgWriter` | the PostgreSQL writer of one worker, with the server and its connections |
| `AccountingLog` | what the writer promises: a line of events, stored before they leave it as written |
| `PgWriterProofs` | theorems about `PgWriter`, the refinement among them |
| `RateLedger` | one stripe of the request/token ledger, the worker processes on it, the mutex, the master |
| `RateLedgerProofs` | theorems about `RateLedger` |
| `SpendLedger` | one stripe of the monthly spend entries, with the handlers that reserve, release and record |
| `SpendLedgerProofs` | theorems about `SpendLedger` |
| `OrderLemmas` | smallest and largest elements of sets, which the searches of the code come down to |
| `CJSONList` | the operations on sibling lists, each as the memory it leaves behind |
| `CJSONListProofs` | theorems about `CJSONList` for lists of every length |
| `CJSONForest` | what arrays and objects promise: sequences of children, changed in one place |
| `CJSONTree` | the item store on top of `CJSONList`: ownership, keys, texts, references, failing allocations |
| `CJSONReader`, `CJSONParser` | the parser as operators; a caller that writes a text and parses it |
| `CJSONStrings` | string literals byte by byte, in and out |
| `CJSONPrinter` | the print buffer, the four ways to print, and the retry loop of `CJSON.encode` |
| `CJSONMinify`, `CJSONMinifyProofs` | minify in place, and theorems about it |
| `CJSONCompare` | equality of trees |
| `Html5Tokenizer`, `Html5Proofs` | the HTML state machine, and theorems about it |
| `XssScan` | the scan of its tokens in five contexts, character references |
| `SqliParse`, `SqliTokenizer` | the token parsers of the SQL scanner; its loop |
| `SqliFolding`, `SqliFold`, `SqliFoldProofs` | the rules of the fold, one to a step; a fold of any list of tokens; theorems about it |
| `SqliScan` | fingerprint, lookup, whitelist, and the five passes |
| `MCPgWriter`, `MCRateLedger`, `MCSpendLedger`, `MCCJSONTree`, `MCCJSONText`, `MCLibinjection` | the instances TLC checks |

`MCCJSONTree`, `MCCJSONText` and `MCLibinjection` are suites: a behaviour runs one of
several instances from its first state to its last, and the variables of the
others stay idle. Their properties are implications, one conjunct for each
instance.

### PgWriter

State: the fields of `struct PgWriter` (`queue`, `head`, `tail`, `count`,
`state`, `active_batch_count`, `single_fallback_remaining`, `stopping`,
`exit_deadline`), the kick timer (`kick`) and the watched socket with its I/O
timer (`watch`). `inflight`, `reply`, `orphans`, `rows` belong to PostgreSQL.
The history variables record where each accepted event went.

A worker is single-threaded, so one callback with everything it calls is one
action: `WriterEnqueue`, `WriterKickHandler`, `WriterSocketHandler`,
`GracefulExit`, `WriterInitProcess`. The functions they call are action operators
with the name of the function (`WriterRetry`, `WriterStartQuery`,
`WriterPollConnect`); they get the values their caller has already computed as
arguments, because a callback assigns the same field several times.

PostgreSQL is external: it commits an INSERT atomically or refuses it, once it
has been delivered. An INSERT whose connection is abandoned before the answer
may be committed later, even after it was sent again (`orphans`).

Abstracted: the 27 columns of a row (an event is its number, which stands for
the distinct `event_id`), the back-off delay, the DSN (valid). A full ring
refuses an event and changes nothing, which is a stutter. The INSERT is one
statement, hence atomic at the server.

### RateLedger

The 64 stripes share nothing but the mutex of the zone; one stripe is modelled.
A worker can be killed between any two stores, so a critical section is a
sequence of actions, one per store or group of stores that cannot be told
apart; `pc` names the next one. The order of the stores is that of the source;
the model does not consider reordering of plain stores by the compiler. A dead
worker keeps the mutex until the master releases it (`Reap`).

`now` is the time the worker cached at the start of its event-loop iteration
(R:281), which may be older than the window another worker published while it
waited for the lock. Time counts minutes; a cooldown ends on a minute. Early
returns of `access_handler` (no identity, no configuration, spend denied) leave
the ledger alone. With `dry_run` the LOG section is skipped; that branch is
among the `LogJobs` with nothing to do. `SlotReturns` says whether a request that
was admitted can be found rejected in LOG: in the static build `llm-proxy` rejects
such a request before the rate limit's ACCESS handler has seen it, with other
module load orders it does not.

Ghosts: `counted[k]` are the requests the entry of `k` counts, `charge[r]` what a
request is charged, `crossed[k]` says that a LOG handler lowered a counter for a
request the entry does not count (another window, an evicted entry), `cooled[k]`
is the longest cooldown given, `forgotten` the windows whose counts were evicted or
half reset by a worker that died.

### SpendLedger

The actions are those of the spend half of `access_handler` and `log_handler`:
`findSpendEntry`, `getOrCreateSpendEntry`, `checkSpendBudgets`,
`releaseSpendReservations`, `reconcileSpendCounters`. A request has a sequence of
scopes (organisation, project, client), and the handlers lock the zone once for
each, so requests of other workers run between two scopes of one request; `scope`
is the one a handler's loop has reached. A handler that finds its entry makes one
store others can observe, and is one action. LOG makes two for a request with a
reservation and a cost: it takes the reservation off (R:643) and then adds the cost
(R:644), holding the mutex (label `charge`); creating or evicting an entry takes
several stores too. The worker may die between them. The quota check that follows the
spend check in ACCESS is the choice whether the request is admitted or gives its
reservations back.

A key is a scope and a month. That the scopes of one request are distinct is an
assumption (`SpendAssumption`); `buildSpendKey` justifies it, which writes a
different prefix for each kind of scope (`spend:org:` and so on). Hash collisions,
keys too long to be built, and the cost unit as a part of the key are left
out: one unit stands for the location's, and a request that ends on a provider
with another unit has nothing to reconcile.

Ghosts: `taken[r]` is the month of each reservation of `r`, `stranded` are the requests
whose reservation nobody will release, `recorded[k]` the costs due, `forgotten`
the entries that were evicted, `crossed` those a reservation of another month was
taken off, `unpaid` those whose worker died between the two stores of LOG. The three
exceptions of `SpendIsAccounted` (`LostCount`) are what the code does: an eviction
forgets its counts, the code keeps no month with a reservation, and after such a
death the entry says neither the reservation nor the cost. Between the two stores
the amount lacks the cost (`Owed`), and nobody else can read it.

### cJSON: lists, forest, tree

`CJSONList` has one operator per C function (`add_item_to_array`, `cJSON_DetachItemViaPointer`,
`cJSON_InsertItemInArray`, `cJSON_ReplaceItemViaPointer`), each from a memory to the
memory it leaves; a memory maps an address to `next`, `prev` and `child`. `CJSONTree`
puts ownership on top: items and strings are allocated and freed, the caller
holds the roots, every call that allocates is given a number of allocations that
succeed. One call of the API is one action. `kids` is auxiliary, read off the
memory, and is what `CJSONForest` speaks of; `ImplementsForest` is the refinement.

Abstracted: numbers (a value of type "Number"), the functions that read or change
one field (`cJSON_SetNumberHelper`, the type predicates). An item used after it was
freed sets `bad`.

### cJSON: texts

`CJSONReader` has the parser's functions as operators on the C `parse_buffer` extended
with the allocations alive, so that `CJSONParser` needs one action for a call; a text
is written piece by piece first. The bytes that follow the text in memory are
chosen among those that would continue it, so that a byte read too many changes
the result. `CJSONStrings` treats literals over bytes 0..255, with surrogates and
the borders of the UTF-8 lengths. `CJSONPrinter` prints into cells that are unset
until written; `ensure`, the growth of the buffer, fixed buffers, and the loop of
`CJSON.encode` over doubled sizes are its steps. `CJSONMinify` has one action for a turn
of the loop. `CJSONCompare` compares an operator with equality of meaning.

The reference `AcceptsJSON` compares with is a grammar of its own, of JSON (RFC 8259)
with its numbers as JSON has them or as section 5 lists them; of `strtod` it knows nothing.

External: `strtod` (the longest prefix that is a decimal number), `malloc` (a quota), the digits
of a printed number (a word of given length).

### libinjection

Each state of `libinjection_html5.c` and each token parser of `libinjection_sqli.c` is an
operator with the name of the C function on a record with the fields of the C
structure; one action is one call of `libinjection_h5_next` or one turn of the SQL
tokenizer's loop, of the fold's loop, or of the scan over its tokens. `SqliFold` folds
any list of tokens of given kinds, whether or not a text leads to it, so that
every rule meets every neighbour. A loop that only passes over bytes is the first position
at which it stops: the slashes and white space `h5_state_before_attribute_name` goes
back to its start for are `Passed`.

The tables of keywords and of black-listed tags and attributes are parameters;
the instances have some rows of every kind. A text is made of classes of bytes. In the HTML
part `EofBytes` are those that `h5_skip_white`, which returns a `char` as an `int`, hands
to its callers as `CHAR_EOF` (html5.c:12, 117, 129): 0xFF where `char` is signed, as in the
runs, none elsewhere; the theorem holds for both. In the SQL part a class
stands for the bytes above seven bits and one for A0, and a NUL is in every set that
`strlenspn` and `strlencspn` look in, since `strchr` finds it there (S:171-195). `stats_folds`, `stats_comment_c` and
`reason`, which nothing in the scan reads back, and the lookup callback, which the modules do
not set, are left out.

## 3. Runs

| run | instance | question |
|---|---|---|
| `writer_safety` | ring 3, batch 2, 4 events, event 2 is always refused, 1 undecided abandoned INSERT | all safety properties of the writer |
| `writer_drain` | ring 2, batch 2, 3 events | does an exiting worker end although the server may never answer? |
| `writer_live` | ring 2, batch 2, 3 events | is every accepted event settled if the server can be reached? |
| `writer_refines` | ring 3, batch 2, 4 events | does the writer implement `AccountingLog`? |
| `ledger_safety` | 2 workers, 2 callers with 3 requests, 1 entry, limit 1, 2 minutes, 1 death, slots returned | counts, windows and request budget under eviction |
| `ledger_tokens` | 2 workers, 1 caller with 3 requests, 2 entries, limits 2 requests and 4 tokens, 2 minutes, 1 death | reservations, reconciliation, cooldowns, one entry per caller |
| `ledger_live` | 2 workers, 2 callers with 1 request each, 1 entry, 1 death | is the mutex released after a death? |
| `ledger_crossing` | as `ledger_tokens`, no death | counterexample, see section 6 |
| `spend_budgets` | 2 workers, 2 requests with a project and the organisation, 1 dry-run request, budgets 3 and 2, 3 entries, 2 months, 1 death | does an entry hold the reservations in flight and the costs, and does a reservation stay in the budget? |
| `cjson_tree` | five stores: 4 items in arrays; 3 items and a reference; 3 items with keys; 2 items with texts, keys `a` and `A`, 2 references; trees of 4 items with keys and texts, and their copies | are lists, ownership and failed calls right after any sequence of calls? |
| `cjson_text` | parser: four alphabets, 3 to 5 pieces, nesting limit 2; strings: 3 pieces; printer: 3 items, `INT_MAX` 26; minify: 4 pieces; compare: 5 items | is what is read and written right, inside its buffers, and freed? |
| `libinjection` | HTML: three alphabets, 4 to 5 pieces; XSS and scan: 4; SQL tokenizer: five alphabets, 4 pieces; fold: four sets of kinds, any number of tokens | do tokens keep the text, does the fold fit, do the passes agree? |

Bounds. Four events in a ring of three wrap around while a batch of two is in
flight and leave room for a batch after a refused one; the refused event can be
first or second in its batch. One abandoned INSERT that can commit before,
between or after later ones is the shape of every ambiguous commit; further ones
are rolled back at once. Two minutes give one window change, with a LOG or
an ACCESS handler on either side of it; one entry for two callers makes every
second lookup an eviction; one death can hit every store. The crash bound limits
deaths, not the recovery. Months of one minute put a month change between any two
steps of a request. The budget of the organisation is below that of its two
projects together, so the second scope of a request can be exhausted after the
first was reserved, and the first must be given back. Workers and interchangeable
requests are symmetric in the safety runs; the liveness runs use no symmetry.

Four items make every position of a list (first, inner, last, only) an end of
some operation; a reference needs two owners and one list; two or three
allocations fail at each place of an append. The store of copies has room for a tree of
four items and its copy (eight items, ten strings), so that a copied child is linked
behind another one (J:2723-2728), and each of the nine allocations of a duplicate fails,
also with a child already linked (J:2746); its items are only created, copied
and deleted. The pieces of a text
are single bytes, or words of which only whole and cut forms matter; they are chosen so
that every branch of the code is taken and so that a text can be cut in it. The five
alphabets of the SQL tokenizer (quotes, comments, words, literals and brackets, operators)
lead to every parser of `char_parse_map`, and a NUL and bytes above seven bits to those
that read on behind it. The
nesting limit 2 and `INT_MAX` 26 are limits of the code made small enough to
reach. What grows with a text is a loop over independent pieces, so a text of three
to five of them has each pair of neighbours and each border of the loop; that
argument is not a proof, and for minify, the fold and the HTML tokens the proofs below replace it. A
fold needs no bound on its tokens: it keeps eight of them and forgets the others,
so its states are finitely many, and `FoldEnds` says that its loop goes round none
of them.

`ledger_*` and `spend_budgets` end in a `Quiescent` stutter when all requests are done or
dead, so deadlock is checked in all runs but two: a state in which requests wait
and nobody can move would be reported. In `cjson_text` and `libinjection` a call ends and
nothing follows, so the runs turn the deadlock check off; `CallsEnd` and `GetsOn`
say there that a call does not end early or go round. `GetsOn` is an invariant: in every state
in which the tokenizer has text left, its next turn ends further on. (As an action property it
would let a turn pass that changes nothing.)

Fairness. `DrainSpec` assumes only what nginx's event loop gives: a set timer
fires, a watched socket becomes ready or times out after 5 s, the loop ends when
no timer holds it. `LiveSpec` adds that a writer that keeps trying gets a query
delivered, the server answers, and the answer arrives (strong fairness: attempts
may fail any number of times). `FairSpec` of the ledger assumes that a process
inside the critical section is scheduled and that the master reaps the dead; it
assumes nothing of the lock. `MCCJSONText` assumes weak fairness of a call that has
begun: it is a plain function and runs on. All other specifications assume none.

## 4. Proofs

All proofs are for every value of the constants; each module names its
assumptions.

### The writer (`PgWriterProofs`)

For every `QueueCapacity`, `BatchMax`, `MaxEvents`, `MaxOrphans` and `Poison` (the only
assumption is `WriterAssumption`, that they are numbers in range): `[]TypeOK`,
`[]RingIsFifo`, `[]AckedIsStored`, `[]DroppedWasRefusedAlone`, `[]NoLostWakeup`,
`[]AtMostOneRow`, `[]SuspectsGoAlone`, `GracefulExitLosesOnlyAfterDeadline`, and that the
writer implements `AccountingLog` (`WriterImplementsLog`). That is every safety property
of the writer's runs.

But for `AtMostOneRow` none of these is inductive. The invariant `IInv` adds

- `RingInv`: the `count` slots from `head` on hold the consecutive numbers that
  end with `enqueued`, and the events before them are exactly the settled ones;
- `ConnInv`: what each connection state implies: the INSERT on the connection is
  the front of that line (an interval, so appending behind it does not change
  it), a watched socket exists exactly in the busy states, a writer that gave up
  is disconnected and past its deadline, a dead process has an empty ring;
- `AnswerInv`: an answer "ok" means the INSERT is stored, an error for a single
  event means that event was refused alone;
- `HistoryInv`: what was popped as written is stored, what was dropped was refused
  alone, and an abandoned INSERT holds accepted events only.

The callbacks share their endings, so the proof factors through the action
predicate `Ends(c)`: whatever a callback popped, it leaves `c` events in line and
gives up, backs off, idles, connects, or has sent the front. `RetryEnds`,
`StartQueryEnds`, `PollConnectEnds` and `ProceedEnds` establish it for the nested
functions, `EndsKeepsIInv` shows once that it restores the invariant, and the
per-action lemmas only supply what was settled. `LineAdvances` and `BatchIsFront`
carry the ring arithmetic (modulo with a symbolic capacity).

`SuspectsGoAlone` needs `SuspectInv`: unless the writer is exiting, every suspect is
among the first `single_fallback_remaining` events of the line, and while that counter
is positive a statement that is under way holds one event. `AtMostOneRow` is inductive
with the type of `rows` (`RowsInv`): every row, of a first, a repeated or an abandoned INSERT,
comes from `Inserted`, which has the statement's `ON CONFLICT (event_id) DO NOTHING`.
For the refinement the line of the abstract log is the interval of unsettled
events (`LineOf`), and `Settles` and `Ends` map each callback to one step of it or to a stutter.

### The request and token ledger (`RateLedgerProofs`)

For every number of workers, requests, callers, entries and deaths, every limit
and every clock bound (`LedgerAssumption`): `[]TypeOK` (with it that only the holder of the mutex is inside the
section), `[]UniqueKey`, `[]SlotsExact`, `[]CountsBelongToWindow`, `[]RequestBudget`,
`[]TokensCoverCommitments`, `[]CooldownHonoured`, and the action property
`AdmissionWithinTokens`. That is every safety property of the ledger's passing runs.

The properties speak of moments when the mutex is free; a worker may die, and free it
so, at any store. The invariant `LInv` therefore holds after each store:

- `KeyInv`, per caller: one entry, or none and then no trace of the caller; the entry's
  counters cover the requests it counts (`CountsInv`); no request keeps a slot in a
  later window than the entry's, and the entry counts all that keep one in its own,
  unless a worker is just resetting it (`WindowsInv`); `BudgetInv` is the budget;
- `SectionInv`, per label: what the process inside knows (`CreateInv`: an entry that is being
  made cannot be found before its counters are zero; `ConsumeInv`: what `checkAndConsume`
  has compared still holds at the store that relies on it);
- `ReqInv`, `ChargeInv`, `CountedInv`: which worker a request belongs to, and the progress
  at which it is charged and counted.

The order of the stores is what makes it inductive: each lemma about a store
(`AppendKeyStep`, `EvictFieldsStep`, `ResetWindowStep` and so on) shows that a death right after it
leaves an entry that a successor can use. `StoreElsewhere` and `OthersKeep` say once that a
store to one entry leaves every other caller alone.

`RequestBudget` excepts windows whose counts the ledger lost (`forgotten`). The proof showed
that a slot given back in a window for a request admitted in another one loses
counts of that window for good, while a mark on the entry is cleared by the next
reset; `forgotten` therefore has these windows as well.

### The spend ledger (`SpendLedgerProofs`)

For every number of workers, requests, scopes, months, entries and deaths
(`SpendAssumption`, whose only part that is more than a type is that the scopes of one
request are distinct):
`[]SpendIsAccounted` and `ReservedWithinBudget`. `SInv` holds per key `Balanced` (one entry at
most, which says what the requests have committed unless it has lost count), per worker
`Handling` (on its way up a handler has reserved only scopes before the one it has reached,
on its way back those from it on are left) and `Evicting` (who evicts holds the mutex, and its
key has no entry yet), `Charging` (who is between the two stores of LOG holds it too, so that
the amount without the cost is read by nobody), per request `Settled` (what it has reserved
when no handler works on it), and that finitely many requests reserve, which the sum over them needs.
`HoldersChange` and `CommitmentChange` say once how a step that adds or removes one holder
changes the sum. Only the action that checks a hard budget adds a holder, so
`ReservedWithinBudget` follows from its guard and `Balanced`.

### Sibling lists (`CJSONListProofs`)

`AddItemToArrayKeepsLists`, `DetachItemKeepsLists`, `InsertItemKeepsLists` and
`ReplaceItemKeepsLists`: given a memory in which the children of each item are linked as a list
(`Chained`), and an item in no list, the memory after the call has the list of one item
changed as `CJSONForest` says (`Insert`, `Take`, `Replace`), at every position and for lists
of every length, and all other lists as they were; a detached item is loose again.
The proof follows the stores: what a store to one pointer changes (`PutNext`,
`PutPrev`, `PutChild`), which pointers an operation leaves alone, the changed list
rebuilt, and every other list chained again because it shares no item with it.

The hypothesis that lists of different items are disjoint leaves references out,
whose list is that of another item; they are model-checked. The theorems are about
`CJSONList`, which `CJSONTree` is built on; they are not carried up to the behaviours of
`CJSONTree`, because that module has RECURSIVE operators (deletion and duplication walk a
tree). That `Chain`, which follows `next`, yields the linked sequence is an
induction over it and is checked by `cjson_tree`.

### Minify (`CJSONMinifyProofs`)

For texts of every length over any bytes without a NUL: both pointers stay in the
buffer (`[]TypeOK`), and no byte is overwritten before it is read
(`[]InputUntouched`). `MInv` says that the output is behind the input and that from the input
pointer on the memory is the text given; `Skipped` and `CopiedOn` treat the turns that
drop bytes and those that copy them. The proof needs the NUL at the end only to show that
the searches for the end of a comment or of a string find one.

### The fold of the SQL tokens (`SqliFoldProofs`)

For every table of keywords (`KeywordAssumption`: sorted, as the binary search needs it),
every token size and all sets of kinds of tokens (`KindsAssumption`):

- `[]FoldFitsFingerprint` (`FoldFits`): the fold writes none but its eight places and what it
  leaves is at most five tokens with a kind, or the six of the case in section 5. The
  invariant has two parts. `IInv` holds of each turn: the phase of the fold and the number
  of tokens it may hold there, the places below `pos` hold tokens as the tokenizer prints
  them, `left <= pos`, and a comment is held only when one was seen. That does not bound
  `pos` in a list of operands joined by `,` or by operators, where the rules of S:1503 let
  the fold go on past its fifth place. `ListInv` says what the places of such a list hold
  (`InList`), from which the one rule that can apply there follows. Both were model-checked
  before they were proved.
- `FoldEnds` (`FoldLoopEnds`): each turn that asks for no token lowers `Variant`, although rules move
  `pos` down and `left` to 0 and start the loop again. There is one lemma for each rule
  (`Descends`); the turn that asks for a third token is where a simpler measure fails.
- `SearchFindsKeyword`: the binary search of a sorted table finds a word exactly if the table
  has it. Induction over the spans is out of reach, so the proof first shows that the
  recursive function satisfies its equation at every span, and then halves a shortest
  span for which the statement would fail.

### The HTML tokenizer (`Html5Proofs`)

`HtmlKeepsText` states what `HtmlTokensKeepText` checks for texts of every length over any
bytes, from any of the five contexts (`AlphabetsAreTexts`): the position stays in the
text and no call fails; the tokens lie in the text one behind the other; each is `Whole`,
that is, it starts where its kind starts and goes up to the first byte or word that ends
its kind, or to the end of the text (values by their quote, comments by what opened them, text up
to the next tag or to the end of CDATA); a text of n bytes has n + 1 tokens at most; and once the
scan is over, a byte that is in no token is one of `Marks` (white space, quotes and the bytes of
markup), one of `![CDATA[`, or stands behind a byte of `EofBytes` at which the scan
stopped (section 5). It holds for any set `EofBytes`.

A state function is called where nothing from a position b on is in a token and all up to the
call may be left out (`Called`). `Handed` says what it hands over: a token between b and
the position of the next call with nothing lost before or after it (`Found`), or no token
and nothing left but what a byte taken for the end hides (`Ended`). One lemma for each function shows this from the
lemmas of the functions it calls; the calls have no cycle once the slashes are passed over.
The bound on the tokens is why a contract on positions is not enough: a token may have no
bytes (an empty value, an empty comment). What pays for it is a byte of markup that no
token has, and where that byte stands just before the next call (`Lee`: after `<`, after the
`/` or `=` that ends a name) it must not be spent twice. `HInv` therefore counts the
tokens against `Room`, the position less that byte, and says up to where the tokens
reach (`FrontOf`), that they are `Ordered`, and that everything before the call was `Seen`.

### Only model-checked

- All liveness: `DrainTerminates`, `EventuallySettled`, `MutexIsFreed`, `CallsEnd`. Liveness
  under fairness is beyond the proof system's backends.
- The cJSON store, parser, strings, printer and comparison, and what minify
  leaves (`MinifiesText`): trees and texts are recursive data, and induction over them
  is out of reach; so are modules with RECURSIVE operators.
- Of libinjection the XSS scan (`VerdictIsOfTokens`), the SQL tokenizer
  (`SqlTokensAsWritten`, `GetsOn`) and the five passes of the scan
  (`SkippedPassesFindNothing`). They compare a whole text with what was read of it.

## 5. What the code does that a reader may not expect

These are consequences of the code found while modelling it; the properties are
stated so that they hold of it.

- A request for whose cost nothing is ever reported keeps its spend reservation
  until the month ends; a release after the month has changed is taken off the new
  month's entry.
- A worker that is killed between R:643 and R:644 has released the reservation of its
  request and not yet added its cost: the month's entry then says less than was spent, and
  later requests are judged against that.
- The return of a slot and the reconciliation of tokens find the entry by caller, whatever
  window it is in by then, see section 6.
- `AddItemReferenceToObject` loses the reference it has made if the key cannot be
  copied (`OwnedOnce`, a part of `ListsWhole`, excepts it).
- An invalid hexadecimal digit in `\uXXXX` parses as the code point 0.
- The length `CJSON.encode` returns is the length of the text for arrays and objects only.
- Encode attempts that failed stay in the pool until the request ends.
- An object in which a name occurs twice with different values is not equal to its own copy.
- A byte-order mark is skipped only if at least two bytes follow it (J:1020).
- The parser takes more than JSON. Its numbers are those `strtod` reads after a digit or a
  minus: also `01`, `1.` and `-.1` (J:247-321; `AcceptsJSON` shows that these three liberties
  are all). Every byte up to 32 is white space (J:996), and a string may hold
  control characters as they are (J:721); the model shares both with the code.
- Minify takes a quote after an escaped backslash as escaped (J:2795).
- Where `char` is signed, a byte 0xFF between the attributes of a tag, after an attribute's name,
  or before its value ends the HTML scan: `h5_skip_white` returns it as -1, which is
  `CHAR_EOF` (html5.c:12, 117, 129), and the rest of the text is in no token.
- In the SQL tokenizer `strlenspn` passes a NUL in money, binary and hexadecimal literals
  (S:171-182), and `strlencspn` stops at one in a word or a variable (S:184-195).
- A fold may end with six tokens if `{` and an empty name meet at the fifth (S:1678);
  the fingerprint is then the catch-all `X`. The branch for `pos` beyond the maximum in a fold
  of five tokens is never reached.
- The binary search for a keyword needs its table sorted by `cstrcasecmp`, which the table in
  `libinjection_sqli_data.h` is.

## 6. Disagreements with the documentation

`ledger_crossing`: `reconcileTokens` finds the caller's entry by key and subtracts
`reservation - actual` from its current counter. A request admitted in minute 0
that ends in minute 1, after another request of the same caller reset the window
and reserved its own tokens, thus takes tokens off the other request's
reservation. The comment at R:1231 says the reservation is replaced by the actual
count, the one at R:784 that an admitted request is never without its token
commitment. `TokensCoverCommitments` holds with exactly this exception.

## 7. Not modelled

See the components of `PROJECT.json`. Quota resolution, the computation of a cost and
the fallback configuration are functions of the configuration with no state. The
proxy's request life cycle and its SSE stream need a model of nginx's upstream
module. The metrics' counters and label slots are shared without a lock and would
make a module of their own. Left out for good: `llm-auth` and `llm-security`, which keep
no state, the cache stub, the nginx bindings and the build.

The wall clock of the ledgers never goes back; the code takes no step against it,
and the window then stays in the future until the clock has caught up.

## 8. Plan

1. Proofs about `CJSONForest` (the tree built of the four list operations stays a forest).
2. `MetricsSlots`: label slots and per-worker counters, a reader in between, a death.
3. `QuotaResolution`, `FallbackConfig`, `CostRates`: operators against reference definitions.
4. `ProxyRequest` and `SseStream`, with nginx's upstream module as their environment.
