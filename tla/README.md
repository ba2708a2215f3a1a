# A TLA+ model of Moseby

Moseby is a concierge agent for hotel staff: a terminal conversation whose turns
are driven by `runtime/loop.py`, tools that read and change hotel data, and an
HTTP gateway over the same services. Everything is kept in one SQLite database.
This directory holds TLA+ modules of its parts, the configurations TLC checks
them with, and proofs for TLAPS. Paths below are relative to `src/moseby/`.

## How the code runs, and what a step is

- Every write goes through `transaction(engine, write=True)`
  (`db/transaction.py`), which issues `BEGIN IMMEDIATE` (`db/connection.py`).
  Write transactions are therefore atomic and happen one at a time, across
  threads and processes. **One transaction is one action.** A call that raises
  rolls its savepoint back and is no step of the database.
- Between two transactions anything may happen: other processes run, the
  process dies, Ctrl-C arrives, the wall clock (`time_ns`) is set back.
- Within a process there is one event loop, but tools hand their database work
  to threads (`asyncio.to_thread`). A timeout or a cancellation ends the wait
  for such a thread, never the thread.

## Inventory

| Component | State it keeps | Operations | What is hard | What makes it correct |
|---|---|---|---|---|
| Work queue (`db/repositories/{jobs,tasks,task_claims}.py`, `db/operations/job_completions.py`) | jobs, tasks, leases with token and deadline, completion outbox | accept, add, claim, claim next, renew, guard, succeed, fail, retry, finish | leases that run out, workers that come back, the clock set back | only the latest attempt saves anything; outcomes cover their tasks, are final, and are saved with their delivery |
| Turn loop (`runtime/loop.py`, `runtime/storage.py`, `db/operations/conversations.py`) | threads, records, projection, runs, inference requests, request ledger; the loop's locals | begin a turn, build the context, prepare, generate, accept the reply, run the batch, finish | several processes on one thread; repeated requests; errors and death between transactions | one run at a time, the model sees the whole thread, every call is answered, runs end |
| Tool worker (`runtime/tool_worker.py`, `runtime/tool_writes.py`, `tools/`) | the claim in hand, the batch, threads still running | claim, execute, time out, cancel, skip, settle and deliver | late writes of abandoned threads, cancelled batches, lost claims | a result is the last word on its call; cancelled batches are complete |
| Notes and guest references (`runtime/guest_references.py`) | notes, classifier requests, decision records | save the note and ask, save the decision, repeat | it appends to the thread in the middle of a batch; guests change while the classifier is asked; each of its writes may be refused | one call per note; note, inference and decision agree; references are about the guests that were shown |
| Stays, activities, keys (`db/operations/stays.py`, `db/repositories/{bookings,room_reservations,activity_reservations,room_keys}.py`, `services/`) | bookings, room reservations with revisions, activity reservations, keys | create, add room, amend, move, cancel, complete, reserve, issue, deactivate | cross-table rules that each operation must check again | no room let twice, coverage and capacity all along the stay, the last place taken once, keys that stop with the reservation |
| Commands (`db/operations/commands.py`, `gateway/writes.py`) | request ledger | execute once, replay | repeats, differing input, timestamps taken before the lock | effect once, same answer again |
| Guest and party edits | guests, notes | update from an expected version | lost updates | an edit is based on what it names |
| Authority (`services/authority.py`, `agents/agent.py`) | staff roles; the ceiling saved with the thread | resolve, create agent, require | access revoked between check and use | nothing is done without permission that held while the command was under way |
| Pagination (`db/pagination.py`) | none | read a page after a cursor | rows added between pages | nothing skipped or repeated |
| Schema (`db/migrations`) | constraints and triggers | | | the last line of defence for the rules above |
| Provider, terminal, contracts, seed data | none of their own | | | |

Components call each other directly and share the database; there are no
messages between them. The gateway and the tools meet only in the services.
`PROJECT.json` lists every component with its status and every hazard with the
properties that cover it, or the reason why none does.

## Modules

| Module | What it is |
|---|---|
| `LeasedWork` | abstract: what the queue promises, without tokens, leases and time |
| `WorkQueue` | the queue at repository level, one action per operation |
| `MCWorkQueue` | instances for TLC |
| `WorkQueue_proofs` | the queue's theorems |
| `ThreadTurns` | abstract: what one thread promises, without processes and records |
| `Conversation` | one thread, the processes that drive turns on it, and the tool worker |
| `MCConversation` | instances for TLC |
| `Journal` | abstract: what a thread promises about the outcomes of jobs |
| `Delivery` | the outbox, prepared summaries, repeated deliveries, readers of the history |
| `Coverage` | arithmetic of half-open ranges: overlap, the covering sweep, spans |
| `Calendar` | abstract: cells of the hotel's calendar, free or held by one allocation |
| `Stays` | bookings, parties, rooms, keys, activities and the places in them |
| `OnceOnly` | abstract: a command takes effect at most once |
| `Permissions` | grants and their intersection |
| `Commands` | a command with its ledger, version check and authority, over HTTP and from a tool |
| `Pages` | cursor pages and a reader who follows them; used by the next and by `Delivery` |
| `GuestReferences` | notes, their classification and a reader of notes |
| `MCDelivery`, `MCStays`, `MCCommands`, `MCGuestReferences` | instances for TLC |
| `Permissions_proofs`, `Commands_proofs`, `Conversation_proofs`, `Delivery_proofs`, `GuestReferences_proofs`, `Stays_proofs` | their theorems |
| `Facts` | lemmas about numbers, sets and sequences that several of these use |

### WorkQueue

The variables are columns: `jobStatus`/`jobUpdated`, `taskStatus`/`attempts`/
`availableAt`/`taskUpdated`, `claim[t]` (the `task_claims` row), `outbox[j]` (the
payload of the `completion_outbox` row). `run[r]` is as much of a run as the queue
reads. `lease[w]` is what a worker remembers, valid or not; `lastWriter` records
which attempt last saved something, so that it can be compared with the promise.
`clock` is the caller's `now`: it moves anywhere within `Time` at any moment.

`Runnable`, `Claimable`, `Owns` and `Blocks` are the `WHERE` clauses of
`_work_queries.py`, `_claimable_tasks` and `jobs.finish`; every action uses the
one its function uses. `ClaimTask` and `ClaimNext` share `StartAttempt` as `claim`
and `claim_next` share `_claim`. A token is the number of the attempt it was drawn
for, since a random token never repeats.

Left out: who owns a job (all callers act for one staff member), the WAITING
states of jobs and tasks and CANCELLED tasks, which nothing in the code sets, input and result
payloads, `started_at`, and the tie-break of `claim_next`. A worker remembers one
lease at a time.

### Conversation

A record's ID is its position in the history, a run's ID the position of the
user message that began it, an inference's the position of its marker, and a tool
call (with its job and its task) is `<<reply, index>>`. `driver[p]` is where a
process stands in `run_turn`, with the local variables it still needs: `sent` is
`inference_id`, `todo` the rest of `work`, `skip` the `except CancelledError` branch
of `execute_tool_batch`. `handler[c]` is a thread that runs a call's write;
`broken` remembers runs whose batch an error cut short.

The path of a turn, one action per transaction or await:

    Submit, CheckExchange, Begin (or ReadSaved for a repeated request)
      loop: BuildContext, Prepare, Generate, Accept
        per call: ClaimCall, StartHandler, HandlerWrite, HandlerReturns, Settle
        or, for a note: ClaimCall, SaveNote, Decide, Settle
      FinishRun

with `Stop` for the turn limit and the budget, `Abandon` for a timeout, a
cancellation or a refused tool, `LoseDecision` for a decision that cannot be saved,
`Raise` for any other error, which leads through `FailInference` to `FinishRun`, and
`Crash` at any moment. The two writes of that error path are guarded by nothing: when
one of them raises (the clock was set back, the database stays locked), `LoseRun`
leaves the run active and the process goes on. `lost` remembers the runs that were
left so, or whose process died. `SaveNote` is refused, as `_prepare` refuses it, when
the tokens the run has used are unknown (`UsageKnown`); a budget that is merely spent
is, like its size, the environment's choice. Either way the call fails with nothing saved, like
any refused tool (`Abandon`). `ClaimCall` to `Settle` use the queue with one task per job
and one attempt per task; the lease is reduced to the status of the task, and that
it may have run out, or the clock been set back, is one of the reasons for `Raise`.

Questions are saved and settled by `SendInference` and `FinishInference`, which are
`prepare` with `start`, and `finish`, of `db/repositories/inference_requests.py`.

Left out: message texts, the number of tokens (a run may find its budget spent or
unreported before any turn; that a question without a response makes it unknown
*is* modelled), permissions (a revoked one is a `Raise`, an `Abandon` or a
`LoseDecision`; see `Commands`), the delivery of jobs that are no tool calls (see
`Delivery`). A second Ctrl-C can
also strike between a commit and the assignment after it; the model has no such
points. FAILED and CANCELLED runs are both STOPPED: nothing here reads the
difference.

### Delivery

`outbox[j]` is the row of `completion_outbox`, with the position of the delivered
record as its receipt. `projection` is `projection_sequence` with the history that
the saved summary describes, so that a summary which misses a record can be told
from one that does not. `deliver` takes a summary its caller prepared
(`ProjectionUpdate`): `ReadSummary` and `ReadRecords` are the two reads it is
prepared from, `Deliver` the transaction, whose comparison of both positions is
`Current`, `ReturnReceipt` the answer to a repetition. `FinishTool` is the tool
worker, which reads, finishes and delivers in one transaction. In the repository
only the tool worker calls `deliver`; the other callers are those the operation is
written for and the tests play (`db/tests/test_job_completions.py`).

`Journal` has outcomes, entries, the summary and what each deliverer was told. The
refinement maps each transaction to `Finish`, `Say` or `Deliver`, and reading to a
stutter.

### Stays

Rows are records, revisions are folded into the row they revise: an allocation has
its latest dates, whether it was cancelled, and the times the code compares with.
Every action is one command in one transaction, checked in full against the state it
would leave, as the code inserts first, checks afterwards and rolls back. Shared
checks have the name of what they check: `Occupied` (`_check_allocation`),
`AreCovered` (`check_reserved_activities`), `Sleeps` (`check_room_capacity`),
`Counts` and `Effective` (the views `current_...` of the schema). `now` is any member
of `Clock`, since a command's time is taken before it waits for the write lock.

`Coverage` computes as the code does: a sweep over the intervals in order of
arrival, and spans between successive arrivals and departures. `ByArrival` is a list
as the query may return it: sorted by arrival, with the order of ties open. The sweep
is a recursive function of the position in that list; the code's early exits, at a gap
and at the end of the dates, are where nothing more can change (both are proved). The properties speak of
single moments instead (`Moments`, `BedsAt`, `Holders`), so that they are
no restatement of the computation. `Calendar` knows only cells (a room at a moment):
a step exchanges free cells for cells of one stay's allocations.

Left out: hotels other than one (every query filters by hotel), prices and quotes,
revision numbers, `rooms.in_service` and staff (which no code changes), full-text search,
and the replay of repeated commands (`Commands`). `UpdateActivity` and `CancelRoom`
are repository operations without a service that calls them; they are modelled
because their checks are part of the rules.

### Commands

The command is `services.guests.update`, the one with a version check. `Receive` is
an HTTP request whose dependencies have resolved the caller; `LoadTool`,
`StartWrite` and `Recheck` are the tool's way: the agent is built from definition and
saved ceiling, `execute_tool` offers the tool or not, and `claimed_write` resolves the
role again. Then both share one transaction: `Apply`, `Replay` or `Refuse`.
`ChangeRole` may come between any two. `edits` is a history of what was done;
`read` is the guest's last edit that the client had seen when it took the version, 0
if there was none.
`OnceOnly` has the effects per key and what callers were told.

### GuestReferences

`Prepare` and `Settle` are the two transactions of `record`; `Repeat` is the key seen
before; `SettleFailed` a provider error, an unusable answer or a cancellation;
`Abandon` a second transaction that is refused, or a process that dies. `asked` is the
frozen list of candidates. Answers are any answers for the candidates; `Resolve`
turns them into a status and guests. The lease of the job is in `WorkQueue`, the role
in `Commands`, thread and budget in `Conversation` (the guard of `SaveNote`); an
attempt they refuse saves nothing and is no step here. A reader pages through the
notes with the cursor arithmetic of `Pages` at the same time.

## Runs

| Run | Question | Bounds |
|---|---|---|
| `work_queue` | Do outcomes cover their tasks, are they delivered, is it a LeasedWork? | 1 tool job, 2 tasks, 2 workers, clock 0..2, 2 attempts each |
| `work_queue_leases` | Are leases kept to their deadline, and no longer? Do stamps only grow? | 1 task, 2 workers, clock 0..4, 3 attempts |
| `conversation` | Is the history a sequence of whole turns under two processes? | 2 processes, 2 requests, 1 turn, 2 calls |
| `conversation_batch` | Are batches complete whatever interrupts them? | 2 processes, 1 request, 2 turns, 3 calls, the first and the last of them notes |
| `conversation_ends` | Does every run end that is not lost? | 2 processes, 1 request, 1 turn, 2 calls |
| `conversation_repeat` | Does a repeated request always read its outcome? (It does not.) | 2 processes, 2 requests, 1 turn, 1 call |
| `stays` | Is a room ever let twice, a key good for too long, a stay short of beds, something that ended revived? | 2 bookings, 2 guests, 2 rooms (2 beds and 1), 3 allocations, 1 key, dates 0..3, commands at 1 |
| `stays_activities` | Are reserved places covered, within capacity, single and for the old enough? Had completed stays ended, whatever the order of the commands' times? | 2 bookings, 2 guests, 2 equal rooms, 2 allocations, 1 activity of 2 settings, 2 seats, dates 0..2, commands at -1 and 1, ages 0 and 1 |
| `stays_capacity` | Does a stay always have beds for its party? (It does not.) | 1 booking, 2 guests, 2 rooms, 2 allocations, dates 0..3 |
| `commands` | Is every command applied once, on the version it names, with authority? | 3 callers, 3 keys, 2 guests, times 1 and 2, 2 definitions, 4 ceilings |
| `guest_references` | Do note, inference and decision agree, and is every note asked about once? Are pages whole? | 1 guest with 2 sets of details, 3 notes, 3 keys, 3 attempts, times 1 and 2, parties of 1 classified, pages of 1; until a reader has finished |
| `delivery` | Is every outcome entered once, in a history with an up-to-date summary? | 2 jobs, 2 outcomes, 3 deliverers, at most 3 records before a message, pages of 1 |

Why these bounds are enough: two workers and three attempts give a lease that
runs out, a takeover, a return of the old worker and a takeover of the taker-over;
five clock values give a claim, a renewal, its deadline, the instant before it and
a step back. Two tasks are what `jobs.finish` and `claim_next` can tell apart from
one. Two processes on two requests cover every pairing of a running, a refused and
a repeated turn, and two calls the first, the interrupted and the skipped one. Two
turns are needed for a question that follows a tool batch, and two notes in one batch,
with a call between them, for one that is refused because the first was never
answered. `MaxLength` is never
reached: `MCConversation` assumes it large enough. Symmetry is used where no
liveness is checked; workers, tasks of one job, processes and requests are
interchangeable. There is no symmetry in `conversation_ends`.

Two stays and two rooms are what a double booking needs, and three allocations let a
stay have two rooms, or move, while the other competes. Four dates give ranges that
are apart, touch, overlap and nest. Commands at 1 fall before, inside and after such
ranges; in `stays_activities` -1 is before every activity, 1 after the first night, and since
commands may come in any order of their times, that run is the one that asks whether
a completed stay is extended by an older command. The single time of `stays` makes
races of timestamps impossible there (a second one multiplies its states beyond what
TLC finishes); the theorems about the same properties hold for any clock.
The two settings of an activity, a short one with a single place and a longer one with
an age limit and any number of places, exchange all of these in both directions. Three callers are an original, its repetition and a rival under the same
or another key; two times allow equal timestamps and two successive edits.
In `guest_references` a guest joins an empty party, or is edited, while the classifier
is asked about a frozen list; three attempts with three keys are an original with its
repetition and another note, or three notes. Two notes give a reader a cursor, and
the third is then saved with a time and an ID that put it before the cursor, at its
time, or after it. The run's constraint `StillReading` does not go on once a reader has
finished: no guard reads what was read, so all that could follow also follows a
reader who has not begun. A party too large to be classified does not occur in the
run; the proofs cover it, with any number of guests. Three deliverers are two rivals and a late repetition.

`CHECK_DEADLOCK FALSE` is set where the system may come to rest: in the runs above
that have no clock of their own every row, key or attempt is eventually used up, and
nothing in the code polls or restarts it.

What fairness is assumed: `FairSpec` asks that a process that has called
`run_turn` goes on taking steps of its own (`WF` of `Drive(p)`). Each of them ends:
a transaction by SQLite's busy timeout, the provider's answer by its 60 s timeout,
a tool by its 45 s. Nothing is assumed of users, handler threads, the clock or
crashes, and nothing of the writes of the error path, which may raise: `LoseRun` is no
part of `Drive`, so that it is neither forced nor forbidden. The queue has no fairness: no code in the repository polls it.

### What does not hold

`conversation_repeat`: the docstring of `run_turn` says "A repeated request reads
its saved outcome and never drives that run again". The second half holds
(`OneDriver`). The first does not: the check for an incomplete exchange
(`loop.py:61`) comes before the request is looked up, so a repeat is refused while
another turn's tool call is being executed, and for ever once a run was cut short in
the middle of a batch.

`stays_capacity`: `docs/04-design-review.md:39` asks that capacity cover the party
throughout the stay. Creating, amending and adding guests check it; `add_room`
(`services/stays.py:313`) does not. A room added for other days leaves moments
between the stay's arrival and departure at which the party has too few beds.
`BedsAreOnlyLostByAddingRooms` shows that this is the only way.

Things that hold only as stated, and that a reader may expect otherwise:

- `RunsEnd` has two exceptions: the process dies, or it cannot save the end of its
  run. Such a run stays active for ever, and nobody drives its thread again: that is
  the theorem `LostRunsStayActive`. Recovery is deferred (`docs/11-follow-ups.md:46`).
- A guest's age may be lowered below the limit of an activity the guest has a place
  in; `OnlyGuestEditsAdmitTheYoung` says that nothing else does it.
- A note whose second transaction is refused, or whose process died, stays pending;
  a repeated command is then refused (`GuestReferences.Repeat`).
- A row with an older `created_at` than the cursor, committed late, is skipped by a
  reader. `PagesAreWhole` promises only the rows that were there at the first page.
- A role withdrawn between the check and the write lock does not stop the write:
  `AnswersAreAuthorised` promises a role that covered the command at some time since
  it arrived, or since the tool's handler began.

## Proofs

Every theorem holds for any values of the constants: any number of jobs, processes,
requests, stays, rooms, dates, callers and so on. What is assumed of the constants is
named and checked by TLC on every instance:

- `WorkQueueAssumption`: links between jobs, runs and threads that the schema's CHECK
  constraints impose. `ConversationAssumption`, `DeliveryAssumption`,
  `GuestReferencesAssumption`, `CommandsAssumption`: bounds are numbers, timestamps
  are numbers (of commands, later than the guests' creation), notes save a call of a
  reply, grants are permissions.
- `StaysAssumption`: beds, dates, ages and settings are numbers; an activity begins
  before it ends, as the schema requires; there are finitely many IDs of allocations and
  of seats, since an ID has a fixed length (`identifiers.py`). Without the
  last, counting those who attend would mean nothing.
- `SentinelAssumption` and `NoRowAssumption`: the value that stands for "no row" is not a row.

All seven invariants of `Conversation`, all of the queue, of stays, commands, notes
and delivery that the runs check, all action properties and all five refinements are
theorems. The arguments:

**`WorkQueue_proofs`.** `ClaimFollowsAttempt` is not inductive alone: that a returning
worker is harmless needs that its remembered token is its own attempt's number, and
that work exists only under a job that exists. `IInv` adds this to the invariants.
`Refinement` (`ImplementsLeasedWork`) rests on `OwnerIsLatest`: whoever passes the
ownership check holds the latest attempt. `StampsAreMonotonic` needs that a claim row
has a heartbeat, and `QueuedAreUntouched` is part of `IInv`.

**`Conversation_proofs`.** No single property of the thread is inductive, since what
a process may do next depends on where it stands in `run_turn`. `IInv` has three
parts. `TypeOK`. `RowsInv`, about the database: the saved length is the length of the
history, each request began one run, a result ends the task of a call that exists, and
five of the properties. `DriversInv`, about the processes: at most one is past
`Begin`, and every one of them *stands* somewhere: it drives the one active run,
`OpenQuestionIsSent` (the run's only open question is in `inference_id`),
`OpenCallsAreInHand` (its unanswered calls are the rest of the batch), `Batch` (these
are the last calls of one reply, and what follows the reply are the results of
the first ones), `ReadingHolds` (nobody appends between building the context and
saving the question), `SuccessHasWritten`. Each action keeps all three. From there
`ResultsFollow`, `ContextsAreWhole`, `BudgetsAreKnown`, `OneDriverOnly`,
`NothingIsWrittenBehind` and `FinishedAreSettled` follow. `BudgetsAreKnown` is about
questions of the loop and of notes: where either is saved, no earlier question of
the run is open or failed (`UsageKnown`). `LostRunsStayActive` adds to `IInv` that
nobody is busy once a run is lost, since only its driver could have ended it. With `RunsInv` (a run
cut short had begun; one run is active, driven or not) follows
`ConversationImplementsThreadTurns`: each transaction is a step of `ThreadTurns`, all
else a stutter.

**`Commands_proofs`.** `NoUpdateIsLost` from `VersionsInv` (a guest's edits have
growing timestamps, none later than its version, and what a client expects is the
timestamp of the last edit it saw): equality of the versions then means that nothing
came between. `ServiceImplementsOnceOnly` from `LedgerInv` (a key has a saved command
exactly when one edit was made under it), which also gives `TypeCorrect` its second
part: a saved response is that of an edit under its key. `AnswersAuthorised` from `AuthorityInv`, how far
a command is authorised in each phase. `SharedGrantsExact` from
`Permissions_proofs.IntersectionIsExact`: for paths of any length, the intersection
of definition and ceiling allows exactly what both allow. The role is not part of the
intersection: the agent is refused unless the role covers the whole ceiling
(`Offered`), and then, covering being transitive, it covers what the two share.

**`Delivery_proofs`.** `DeliveryImplementsJournal` needs that what a deliverer has read
is still the beginning of the history (`DeliverersHaveRead`), so that a summary
prepared from it and accepted by `Current` is one of the whole history
(`SummaryIsWhole`), and that every record of a job has its receipt
(`RecordsHaveReceipts`), so that there is no second. `PagesFollow` adds `ReadingInv`: what
a reader has read is a prefix of the growing history.

**`GuestReferences_proofs`.** Note, inference and decision agree because a pending note
is untouched, receipts and attempts are about saved notes, and only an attempt with a
frozen list waits (`IInv`). `PagesWhole` needs `ReaderInv`: what was read so far are
the rows up to the cursor, each once, out of those there now; it rests on lemmas
about sorting and cutting pages that use a least-counterexample argument. With the cursor
known to be a saved row or none, `TypeCorrect` types the reader too.

**`Stays_proofs`.** `RowsStay` says what every command keeps of every row: references,
cancellations, finished bookings. It gives `NothingRevived`, and that a seat that
counts after a step counted before it or is new. `NoDoubleBooking` (allocations that
count and share a room do not overlap) is inductive with `TypeOK`, one argument per
command, and gives `KeysDoNotClash` and `RefinesCalendar` (`ImplementsCalendar`).
`CompletedHadEnded` needs that only allocations of confirmed bookings change.
`CapacityHolds` and `OnePlaceEach` need that a group names nobody twice, which is
where finite IDs come in (equally many names and guests).
`BedsAreKept`: every moment between two arrivals or departures lies between two
*successive* ones (`SuccessiveBoundaries`), at which `Sleeps` has counted the beds.
`CoversIsExact`: the sweep accepts dates exactly when each of their moments is in a
range. By induction along the list what has been passed is covered
(`SweptIsCovered`), and once a range begins later nothing changes any more
(`SweepStops`); that there is a list at all is an induction over the number of
ranges. `ActivitiesStayCovered` follows with `ChangedRoomsServe`: whoever changes or
gives up a room of a stay has run the sweep on what is left.

Induction is done with sets of numbers: `Facts.SetInduction` and `Facts.LeastNumber`
are statements about sets, so they can be cited with any set.

What stays with TLC: `RunsEnd` (liveness under fairness is beyond the prover) and the two
runs that show what does not hold. The recursive sum of beds is never unfolded:
`BedsAreKept` only needs that `Sleeps` and `Housed` add up the same allocations.

## Not modelled

- Wire formats, routing, serialisation, prompts, terminal output, data classes and
  the demo rows: they keep no state the rules above depend on.
- Prices and quotes, full-text search, dietary requirements: single-row data.
- More than one hotel or staff member: every query is filtered by both, and nothing
  moves a row from one to another.
- States that the schema allows and no operation sets (WAITING and CANCELLED work).
- Migrations: they run once, before any process, and have no concurrent steps.

## Plan

Everything the runs check, liveness apart, is proved. What could be added:

1. Facts that say more than the runs do about the same code: that a stay without gaps
   between its rooms is housed at every moment; that `Calendar`, `OnceOnly` and
   `Journal` imply what their readers take for granted (a cell keeps its holder until
   it is freed, one entry per job).
2. `ThreadTurns` and `LeasedWork` on their own: that requests begin once and
   outcomes are final, as theorems of the abstract specifications, so that they carry over to the
   detailed ones by refinement.
3. What the sum of beds is for a given list of rooms.
