# Verification of swoop-go

swoop-go holds the two services that run the actions of a SWOOP deployment.
The *conductor* (`pkg/conductor`) takes processable actions from the swoop
database and hands each to a handler: a workflow is submitted to Argo, a
callback is sent over HTTP. The *caboose* (`pkg/caboose`) watches the Argo
workflows in the cluster, records how they start and end, stores their
resources, and inserts the callback actions of those that are done, which the
conductor then takes.

This directory models both in TLA+, checks them with TLC on small instances,
and proves the central safety properties for any instance with TLAPS.
`PROJECT.json` maps every definition to the lines it models and lists the
runs, the hazards and the theorems.

## 1. Inventory

| part | state | operations | interacts with |
|---|---|---|---|
| handler loop (`conductor/handler.go`, `conductor.go`) | one loop and one `*pgx.Conn` per handler, the one-slot channel `isNotified`, the goroutines of the current batch | `Run`, `Start`, `Notify`, `poller`, `HandleActionWrapper`, `SignalHandler` | database (queries, events, locks), handler clients, listener |
| wakeups (`db/listener.go`) | one LISTEN connection per process | `Listen`, `listen` | database notifications, `Handler.Notify` |
| database access (`db/`) | none of its own; the tables, transactions and advisory locks of the server | `GetProcessableThreads`, `Unlock`, `Event.Insert`, `CallbackAction.Insert`, `Connect` | both services |
| HTTP handler client (`conductor/http.go`, `config/http/`) | none | read the parameters, render and send a request, match the response, log it | object storage, the callback's server |
| Argo handler client (`conductor/argo.go`) | none | submit a workflow named by the action's uuid | the cluster |
| caboose runner (`caboose/argo/argo.go`) | four workers, their wait group, the channel `wfChan`, backoff timers, a connection pool | informer handlers, `worker`, `wfStart`, `wfDone`, `backoff`, `Run`, `SignalHandler` | informer, database, object storage, the cluster |
| callback executor (`caboose/callback.go`) | none between calls | `ProcessCallbacks`, `processCallback`, `failCallback` | database, object storage |
| workflow properties (`caboose/workflowproperties.go`) | one record per event | `ToStartEvent`, `ToEndEvent`, `LookupName` | database |
| configuration (`config/`) | workflows, handlers, callbacks, conductors, linked once at start | unmarshal, `LinkAndValidate`, `CallbackWhen`, parameter schemas | read by both services |
| templates, JSON paths, regular expressions | none | wrappers of libraries | configuration |
| object storage (`s3/`) | objects by uuid | get and put JSON | both services |
| states (`states/`), errors, application context, utilities | none | names of states, `RequestError`, `IntPow`, ... | everything |
| commands (`cmd/`, `cmdutil/`) | the cancelled context | start a service, forward signals | both services |

What is hard, and what makes each part correct:

* **Handler loop.** The goroutines of a batch share the loop's connection, so
  in the server they share one transaction, and a statement fails while
  another is in flight. Sessions are lost and processes crash with locks held.
  Correct means: no action is worked on by two live sessions; no session stays
  in a transaction, and no thread stays locked, after its goroutine; what is
  recorded is what `handleFn` returned; a success is not repeated; a shutdown
  completes.
* **Wakeups.** Notifications are dropped when the slot is full, the listener
  may die for good, a batch may be cut off. Correct means: no work without a
  wakeup while the process listens, and with the poller, none is forgotten.
* **Caboose.** A workflow is deleted as the last step of many calls, each of
  which may fail, after which all of them are tried again; the callbacks are
  written outside the transaction; the pool, the channel and the context each
  can block a worker. Correct means: what is deleted was recorded completely;
  what a retry repeats is bounded; a completed workflow is processed in the
  end; a shutdown completes.
* **Actions end to end.** A callback can be taken before its parameters exist;
  a request or a submission may take effect although its answer is lost; an
  attempt may be cut off after it succeeded; the caboose writes the status of a
  workflow while a conductor does. Correct means: the status says what
  happened outside; what is settled stays settled; an action is answered once,
  but for faults; everything is settled in the end.
* **Configuration.** Clauses become sets of states; links are dereferenced.
  Correct means: each callback is mapped to exactly the states its `when`
  means; what loads does not fail later for what the file says; a sound file
  is accepted.
* **Backoff of the caboose.** A power of two in 64 bits. Correct means: the
  pauses double up to their maximum and stay there.

`PROJECT.json` lists the hazards one by one, at their lines, with the
properties that cover them.

## 2. Plan

The order in which the modules were written, each with the abstract
specification or the question it was written for.

1. `SwoopDB` and `Conductor`, with `ActionLifecycle`, the abstract life of an
   action that `Conductor` implements. `SharedConnection` adds which actions the
   goroutines of a batch got in the way of, and `ConductorHistory` what `handleFn`
   returned.
2. `Notification`: is a wakeup ever lost?
3. `Callbacks` and `Caboose`, which extends it: what can have happened to a
   workflow that is gone from the cluster? `WorkflowLife` is the abstract life of
   a workflow that `Caboose` implements.
4. `Clients`, which composes `SharedConnection` with what its handlers call and with
   the caboose at the other end: `Conductor!Handle` returns anything, here it is
   replaced by the steps of the two clients.
5. `Config` and `Backoff`: the table the caboose works from, the clients a
   conductor gets, and the pauses.
6. The proofs: type correctness and safety of each of these for every value of
   the constants, and the refinements of `ActionLifecycle` and `WorkflowLife`.

All of it is done: every invariant, action property and refinement that a
passing run checks is also a theorem, of batches of any size. What stays with
TLC is named at the end of section 5, what is not modelled in section 7. Left to
do, if a property needs it: the lines of `config/argo.go` and `s3/` that are
choices today (whether the options of a workflow are accepted, whether an object
is found) could be told apart further, and a handler without `responses` could
be a configuration of its own.

## 3. The modules

| module | models | state |
|---|---|---|
| `SwoopDB` | the statements of `pkg/db` and their effect in the server | status, due backoffs, thread locks with their counts, sessions, one transaction per session with its uncommitted events |
| `Conductor` | `handler.go`, `conductor.go` | the position of each loop and of each goroutine, full slots, cancelled contexts |
| `ActionLifecycle` | nothing: the specification of an action's life | free, held, spent |
| `SharedConnection` (extends `Conductor`) | nothing: history variables | the actions whose transaction another goroutine crossed, and those whose unlock was refused |
| `ConductorHistory` (extends `SharedConnection`) | nothing: a history variable | what `handleFn` returned last |
| `Notification` | `listener.go` and the wakeups of `handler.go` | listener, notifications on the way, slots, loops, work |
| `Callbacks` | `callback.go`, `callbackaction.go` | the callback actions of each workflow, what is left to do of them |
| `WorkflowLife` | nothing: the specification of a workflow's life | the cluster, what is recorded, what is answered |
| `Caboose` (extends `Callbacks`) | `caboose/argo/argo.go` | cluster, process, workers, where each event is, events, stored resources |
| `Clients` (extends `SharedConnection`) | `conductor/http.go`, `conductor/argo.go`, `config/http/`, and the writes of the caboose that meet them | parameters, the cluster, what was answered |
| `Config` | `pkg/config` from the file to `MapConfigCallbacks` and `NewHandlerFromConfig` | the file, how far loading is, the table of callbacks, the clients |
| `Backoff` | `argoCabooseRunner.backoff`, `utils.IntPow` | retries, the pause in 64 bits |
| `MC*` | constants of the runs | |
| `*Proofs` | inductive invariants and theorems | |

`Conductor` and `Notification` model the same loops from two sides:
`Conductor` allows a wakeup at any time and follows every statement,
`Notification` allows one only where the code sends it and has a query and a
batch as single steps. `Caboose` and `Clients` model the end of a workflow from
two sides: `Caboose` follows every call of `wfDone` and leaves the conductor
out, `Clients` has of the caboose only the writes a conductor can meet.

**Conductor.** `pc[s][a]` is where the goroutine of thread `a` is that the loop
of session `s` has started. `Begin`, `Insert`, `Handle`, `Commit` or
`HandleError` and `RecordError`, `Undo`, `Unlock` are the calls of
`HandleActionWrapper` in their order, the deferred ones included, and each has
the branch in which it fails. A call fails only for a reason: the session is
lost, the context is cancelled, or another goroutine of the batch is at a
statement too ("conn busy"). pgx closes the connection when BEGIN, COMMIT or
ROLLBACK fails inside a transaction. `Run` is `Handler.Run` up to its
goroutines, `BatchDone` its `wg.Wait`. An error of a loop is a panic of the
process (`Exit`).

**SharedConnection.** With more than one goroutine in a batch some promises of
`HandleActionWrapper` do not hold, as `conductor_lock_leak` and
`conductor_refused` show. The module says how they come to fail, and the
properties hold of everything else. An action is *crossed* when another goroutine ends the
transaction that its own has begun (`TxTaken`: its BEGIN joined a transaction
that was there, and the other's COMMIT or ROLLBACK was for both), or when the
error of its `handleFn` is recorded inside another's transaction (`ErrorAstray`).
It is *stuck* when its deferred Unlock was refused because the connection was in
use (`UnlockRefused`). Both are read off the steps of `Conductor`, and neither
changes what it does. A goroutine that merely shares the connection, is refused a
statement, or loses the session is not exempt from anything. With batches of one
nothing is ever crossed or stuck.

**Caboose.** `at[kind][w]` is where the started or completed event of `w` is:
with the informer's handler (`queued`, `lookup`, `send`), with a worker
(`Working`), or waiting for its next try (`backoff`, `resend`). The workers
have no identity: a worker is busy for every event at a `Working` position, and
`workers` is how many the wait group counts. Each call of `wfDone` is an
action, and `StepFails` is its failure; where `LostReplies` holds a call may
also fail after it took effect. A worker inside `wfDone` holds a connection of
the pool, and any statement needs one more (`ConnFree`). Nothing a try did is
undone by its failure: the executor is handed the pool, and the transaction of
`wfDone` holds no statement. `Life` maps this to `WorkflowLife`: its `recorded`
are the stored events and the resource, its `answered` the items that have an
action which is not left without parameters, and everything else the caboose
does, retries and second rows of an item included, is a stutter.

**Clients.** A goroutine at `handle` takes one step of its client instead of
`Conductor!Handle`. An HTTP callback reads its parameters (`ParamsUnread`: any
error is final), renders its request (`NotRendered`: final), sends it
(`RequestLost`: worth a retry, and the server may have acted on it), and has
the response judged by the first matcher that fits (`Respond`, `Check`,
`Verdict`). A workflow the client does not know is refused for good; any error
of the cluster is worth a retry (`SubmitFails`), also the refusal of a name it
already has. `answers` is a history: what the server or the cluster answered
for good. The caboose is `SettleCallback`, which stores the parameters after
the action is inserted, fails the action, or leaves it, and `WorkflowStarts`,
`WorkflowEnds`, `WorkflowRemoved`.

Two things the module makes visible. A callback can be claimed between
`insertCallback` and `PutCallbackParams`, and is then failed for good without any
fault (`blind` in `StatusIsTrue`); `src/bin/conductor-test.bash` stores the
parameters first, so nothing in the repository says otherwise. And after a
submission whose answer was lost, the action backs off while its workflow runs:
every further submission is refused, until the caboose's events settle it, or
until the workflow is removed and submitted again, which runs it twice
(`AnsweredOnce` counts that as paid for by a fault).

**Config.** A file is a record of functions. `Unmarshal`, `LinkConductors` and
`LinkWorkflows` are `SwoopConfig.UnmarshalYAML` and what it calls; since the
code ranges over maps, a step that meets an error and a panic may end in
either. `MapConfigCallbacks` is the caboose's table, with how often a callback
is in the list of a state; `RunConductor` is `PgConductor.Run` up to `Listen`.
A handler gets no loop when there is no client for it, and `conductor.go:52` only
logs that: its type has none (`cirrus`, `noop`); the cluster options of the file,
with what they name outside it, do not make a client or give no namespace
(`argo.go:84` and `:89` of the conductor; `conf` is "bad"); or a workflow's name
cannot be a label, which silences the whole handler, since `workflow.go:19` drops
the error of `setId` and `NewArgoClient` then fails. Options that are not there are a
nil pointer, and a panic. `ClientsKnowTheirWorkflows` says that there is no other
reason, and that a loop can submit every workflow of its handler. An unknown
instance ends with an error. A conductor without handlers, or with none left,
does too.

**Backoff.** A word is the set of its one bits, since the integers of TLC are
narrower than the 64 bits of the code. From the 34th pause on the product
no longer fits: some pauses are negative, and from the 55th on they are zero, so
a workflow that keeps failing for more than two hours is then retried without a
pause. `PausesAreKept` states both.

## 4. The runs

| run | instance | shows |
|---|---|---|
| `conductor_rivals` | 2 processes, 2 actions, batches of 1 | whatever fails, is lost or crashes, live sessions exclude each other (`ExclusiveAttempt`), a recorded success is not repeated, and an action lives as `ActionLifecycle` says |
| `conductor_batch` | 1 process, 2 actions, batches of 2 | however the goroutines of a batch interleave on one connection, no transaction outlives them (`BatchLeavesNoTransaction`), a lock stays behind only if its unlock was refused (`LocksReturned`), and an action that was not crossed is recorded as `handleFn` left it, not repeated, and lives as `ActionLifecycle` says |
| `conductor_process` | 1 process, 2 handlers, batches of 2 | after a signal every loop returns, or the process panics |
| `conductor_lock_leak` | 1 process, batches of 2 | **violation**: an unlock that meets a busy connection is lost, and a running conductor keeps the thread locked |
| `conductor_refused` | 1 process, batches of 2 | **violation**: an action that was refused is recorded as successful, because another goroutine committed the shared transaction |
| `notification` | 2 conductors, 3 actions, batches of 2 | no wakeup is lost, batches are waited for, and with a dead listener work is still found |
| `caboose` | 2 workers, 2 workflows, 3 callback actions, 2 faults | what is gone is accounted for; what a retry repeats is bounded |
| `caboose_served` | 2 workers, 2 workflows, 3 callback actions, 1 fault, 3 connections | completed workflows are removed in the end, the caboose stops when it is told to, and it implements `WorkflowLife` |
| `caboose_pool` | the same, 2 connections, no fault | **violation**: all workers hold a connection and wait for another |
| `caboose_retried` | 2 callbacks, one of them faulty, 1 fault | **violation**: a fatal callback is inserted and failed again by the retry of its workflow |
| `clients` | 2 conductors and a workflow, or 2 conductors and a callback; 2 faults | statuses are true, what is settled stays settled, an action is answered once but for faults, and is settled in the end |
| `config` | some 12000 files; 60 pauses | what loads validates, the table of callbacks means what `when` says, loops can submit the workflows of their handlers, a sound file is accepted, pauses are kept for 33 retries |

Every property of a passing run has a mutant: a plausible bug, written next to
the definition it changes, which makes TLC find that property violated.

### Bounds

* Two conductors and two actions: exclusion, leaks and shared transactions are
  about pairs (two sessions on one action, two goroutines on one session). The
  pairs are checked apart: two sessions with batches of one in
  `conductor_rivals`, two goroutines of one session in `conductor_batch`. Both
  together are many millions of states; the theorems cover them, and the code's
  batches of a hundred. Batches of two are full and not full, so renotification happens;
  `notification` has a third action so that a full batch leaves one behind.
* `MaxDepth` bounds how often one session may take the same lock. With 1 a
  session is not given a thread again whose lock it has leaked; the theorems
  hold for any bound.
* The two workflows of `caboose` have a callback for each of two features and
  the same callback without features, so both ways of making an item, and a
  try cut off between two items, occur. `MaxFaults` counts everything that
  goes wrong: with 2, a fault meets a retry of what an earlier fault broke, a
  crash meets a lost reply, a restart meets rows of an earlier life.
* `MaxWorkers` is 2 for the code's 4; `PoolSize` is one more than that, or
  equal to it in `caboose_pool`, which is what pgxpool's default is to
  `maxWorkers` on up to four CPUs.
* Symmetry is used in `caboose` (the two features of one output), which checks
  invariants only.
* `clients` starts two conductors on one action: either both serve the workflow
  or both serve the callback (`Deployments`), so that the two instances do not
  multiply. An action nobody serves is not looked at (`Served`). With two faults
  a lost answer meets a lost session or a crash, and a success that was not
  recorded meets another one. The five responses and three matchers have two
  matchers that overlap, one without a result, and a status that none fits.
  Its batches hold one thread, since each conductor has one action to serve; the
  theorems about `Clients` hold for batches of any size. `MaxDepth` is 1, which
  with batches of one is no bound.
* The files of `config` differ from a sound file in one respect at a time:
  every `when` of up to three clauses over two states, an unknown one and an
  empty one, each negated or not; every schema and every choice of parameters
  over two names; every way of linking two handlers, a conductor and two
  workflows, with cluster options that are good, bad or not there. The theorems
  hold for any set of files.
* `MaxRetries` is 60, past the last change of the pauses, at the 55th.
* `config` does not check for deadlock: a file is read once.
* The runs of the caboose do not check for deadlock: a caboose that has
  processed every workflow and spent its faults has nothing left to do. The
  deadlock that matters, workers waiting for each other, is a violation of
  `CompletedAreRecorded`.

### Fairness

Weak fairness of goroutines that can run, calls that return (with a result or an
error), and timers that fire. Not assumed: that a `handleFn` returns before its
context is cancelled (the HTTP client has no timeout), that a notification is
delivered, that anything restarts a process. In `Caboose` a failure is never
forced, and the fairness of `wfDone` is that of the worker as a whole: the step
it is at is taken or fails. An acquire of the pool that finds no connection is
simply not enabled, so a stuck pool stays stuck.

`Clients` asks for more, since it promises more: the poller wakes its loops, a
process that ended is started again (the deployment restarts it), calls return,
the caboose settles the callbacks it inserted and records and removes its
workflows, and a server that is asked again and again answers for good in the
end (strong fairness of `FinalResponse`, the only one). Without the last, a
callback that is answered "later" for ever backs off for ever, as it should.

## 5. The proofs

The theorems hold for every value of the constants that satisfies the named
assumptions, and are checked by TLAPS to the last leaf. Most are of the form
`Spec => []P`; `SettledAreKept` is about an action property,
`LifecycleImplemented` and `WorkflowLifeImplemented` are about refinements. None
of them bounds the size of a batch.

**`ConductorProofs`** (assumes `NoSessionAssumption`, `ActionsAssumption`,
`NoEventAssumption`, `ConductorAssumption`). `ExclusiveAttempt` is not
inductive: it follows from *a goroutine of an open session holds the lock of its
thread* (`AttemptsOK`), for an advisory lock has one holder. That needs that a lock's count is zero
exactly when nobody holds it, and that only open sessions hold locks
(`LocksOK`), and that goroutines exist during a batch only, since a query gives
its batch fresh goroutines (`LoopsOK`). The unlock of one goroutine gives back
one count of its own thread and leaves the others alone.
`BatchLeavesNoTransaction` is a conjunct of the invariant: a goroutine leaves
its window only with a statement that ends the transaction, or with the
session.

**`SharedConnectionProofs`.** What a goroutine may rely on while others use its
connection is the invariant `SharedInv`: a lock is held once, unless it is stuck
(`DepthOK`); a goroutine that nobody crossed is inside the transaction it began
(`TxOK`), with its own event in it and no other (`EventsOK`); and
`LocksReturned`. The step that matters is the end of a transaction
(`TakenIsCrossed`): the goroutines whose transaction that was are crossed by it,
and the others have nothing in it that a commit could publish or a rollback
lose. A refused COMMIT or ROLLBACK ends the session, so that only a refused
INSERT or Unlock leaves the goroutine with a session, and each of these is
covered: the insert is undone, the unlock is stuck. The status of an action
that is held (`ClaimOK`) is kept apart, for it fails in `Clients`, where the
caboose writes statuses too; the rest is used there again. The three history
invariants follow from `HistInv`: at `commit` of an open session the last outcome
is a success (`CommitOK`), and a success that is not recorded is about to be, or
was lost with its session.

**`LifecycleProofs`.** Each step of `Conductor` maps, for each action that has not
gone astray, to `Claim` (the query that takes the batch), `Decide` (the commit,
or the recorded error), `GiveUp` (a failure before either), `Release` (an unlock,
or the end of a session), `Elapse`, or to a stutter; a step that is one action's
commit is a stutter of the others (`LifeGoesOn`). The mapping (`Phase`) reads from
the lock of an action who holds it, so an unlock must give it back: that is why
`LifecycleImplemented` rests on `SharedInv`, and a decision must find the action
open, which is `ClaimOK`.

**`NotificationProofs`** (`NotificationAssumption`). `NoLostWakeup` with *the
handlers of a conductor run only once it has listened* (`ListensFirst`). The
step that matters is the query: it consumes the wakeup, and either the batch is
everything processable or it is full and the loop notifies itself.
`BatchesAreWaitedFor` with *a claimed thread is in one batch* (`OneHolder`).

**`CabooseProofs`** (`CallbacksAssumption`, `CabooseAssumption`).
`GoneIsAccountedFor` is the end of a chain: for each workflow the invariant says
what has been done when its event is at a given step (`Progress`): after the
start event it is recorded, after the end event that too, and so on; while
items are made, every item that is not left in `todo` is answered; at `delete`
and after it everything is. An answer is never taken back, because rows are
only appended and only the last one, which waits, is settled. A failure at any
step empties `todo` and forgets the progress, never the writes. Type
correctness carries the counting of workers: started and not yet started
together never exceed `MaxWorkers`, and a worker is busy for at most one event.
From this counting follows `PoolSuffices`, the other half of what `caboose_pool`
shows: a transaction is held by a busy worker that is processing a completed
event, so that with more connections than workers one is always free.

**`WasteProofs`** (the same). `WasteIsBounded` is a budget: the actions of an
item are at most as many as the faults, and one more only while the present
try, or the last one there will be, has made the item (`Made`); so a try that
is to be repeated must spend a fault first. `Need` is what has to be left: once
the context is cancelled tries fail for free, and one fault of the cancellation
is kept for that. The actions without parameters are counted the same way.

`WorkflowLifeImplemented` maps each step of the caboose to a step of
`WorkflowLife` or to a stutter. The steps that write are few: an inserted event,
the stored resource, an action made or settled, the deletion. That each maps to
an entry *in its turn* needs the order of what is stored (`Ordered`: no end
without a start, no resource without an end), and, for an entry repeated by a
retry or inserted by a late started event, that it is there already: a late
event finds a workflow whose history goes on (`Progress`), or is gone and
`Complete`. An item's second action answers nothing that was not answered, and
no row is taken back.

`PausesKept` evaluates the pauses. The bits of 5^9 and of 75
times 5^9 are computed one by one (`FiveBits`, `SeventyFiveBits`), and doubling
moves all bits up by one (`BitsDouble`); from these the pauses of the first eight
retries are what they should be (`EarlyPauses`), the product wins over five
minutes until its highest bit reaches that of the sign (`LatePauses`), and no bit
is left in the 64 after 54 doublings (`NoPause`). These are pure facts about the
function, so that the theorem holds for any number of retries.

**`ConfigProofs`** (`ConfigAssumption`). `LoadInv` says what each phase has
checked: after unmarshalling every `when` is well formed, after linking every
conductor, workflow and callback is. The theorems then compare two definitions:
what the code computes (`Times`, `CallbackOutcomes`) with what is meant
(`Meant`, `Validates`), for clauses of any length and any order of errors; the
first bad clause exists because a nonempty set of numbers has a least element.
`ClientsAreComplete` needs what linking has checked as well: a workflow's handler
is of a type that can run it, so that an HTTP client never has one to know.

**`ClientsProofs`** (`ClientsAssumption`). Each step of `Clients` is a step of
the conductor, a call of a client that is a case of `Conductor!Handle`, or a
write of the caboose that touches neither locks nor transactions, so that the
invariants `Inv` and `SharedInv` carry over. `ClientsKeepApart` and
`ClientsReturnLocks` are the promises of the conductor, kept in the composition.
`StatusIsTrue` needs that a goroutine at `commit` was accepted, one that is
refused was refused or could not read its parameters, and what is in the cluster
was accepted (`ToldInv`); it assumes `Understood`, that the matchers of the
handler take a response for what the server means by it. `SettledStays` needs
that only a callback whose parameters are stored is ever tried again
(`StoredOK`), that an attempt finds its action open unless the caboose has failed
it or something has gone wrong (`OpenOK`), and that until then a workflow in
the cluster is settled or about to be (`CalmOK`). It assumes nothing of the
configuration.

`ActionsAreAnsweredOnce` is a ledger (`LedgerInv`). On the one side are the
answers an action has had, one more if it may still be asked (`Rest`), and one
for each loop that may still get an answer it cannot record (`Extra`): it is at a
call with its session or its context gone (`Late`), or belongs to a process that
will panic when another of its loops looks at its lost session (`Vain`). On the
other side are one, and the faults. An orderly step (`Orderly`) never adds to the
first side: a loop that claims an action takes over the need to ask, an answer
for good replaces it, and a record closes the action. A lost session, a
cancelled context or a refused statement adds one on both sides (`Balanced`).
That a signal to a process can cut off one loop only, since no action has two loops in it, is the
hypothesis `OneLoopPerAction`: if a conductor lists a handler twice
(`conductor.go:50`), TLC finds two answers more for one fault. `Final` is the
hypothesis that an answer for good is not worth a retry.

`Understood`, `Final` and `OneLoopPerAction` are about the configuration of a
deployment: nothing in the code checks them, and with matchers that call a
refusal a success no code could keep a status true. They are hypotheses of the
theorems that name them and of no other.

**Model-checked only:** the liveness properties (`ShutdownCompletes`,
`WorkIsFound`, `CompletedAreRecorded`, `StopsWhenTold`, `Settles`), since
fairness and ENABLED are beyond the prover; and the four violations. The
theorems about batches say nothing of a crossed action's record and nothing of a
stuck lock: what becomes of these is what `conductor_refused` and
`conductor_lock_leak` show. The theorems with `Understood`, `Final` or
`OneLoopPerAction` say nothing where these fail. The matchers and responses of
`MCClients` are ones for which `Understood` and `Final` hold, and TLC evaluates
`OneLoopPerAction` there.

## 6. What is external

* The swoop database: `get_processable_actions` returns pending and due actions
  whose lock it could take, at most its limit, atomically; advisory locks are
  re-entrant and end with their session; an inserted action notifies the
  channel of its handler, a backoff that elapses notifies nobody.
* PostgreSQL and pgx: one transaction per session, nested BEGIN and stray COMMIT
  are warnings, a connection in use refuses a second statement, a cancelled
  context lets no further call succeed.
* The informer: each filter reports a workflow that starts to match it once, and
  on start what the cluster holds; a resync reports nothing new.
* Workflows whose phase or name is not the platform's own are ignored by both
  filters or dropped, and are not modelled. One caboose watches the cluster.
* The cluster refuses a second workflow of one name as long as the first is
  there. What a server means by a response (`means`) is its own affair; the code
  sees the status and the body.
* An event is the status of its action only if nothing newer is there: the end
  event of a workflow carries the time it finished, and may change nothing.
* Go's `int` has 64 bits and wraps.

## 7. What is not modelled, and why

* JSON paths, templates and regular expressions: wrappers of libraries. A path
  finds what it should or fails, a template renders or does not, a matcher has
  the set of bodies it accepts.
* The feature of the last per-feature callback is left in the data from which a
  later single callback extracts its parameters (`callback.go:252`). What a
  parameter's value is, no property tells apart.
* A handler without `responses`: the checker is a nil pointer then
  (`config/http/response.go:70`), and the first answer is a panic of the conductor.
  `Matchers` is the list of a handler that has one.
* A handler that is listed twice in a conductor gets two loops, of which the
  listener wakes only one (`conductor.go:50`). The handlers of a conductor are a
  set in `Config`, and a slot has one loop in `Notification`; the other loop
  has the poller.
* A callback named twice for one state makes its action twice. `Config` counts
  it, `Callbacks` has a set and does not follow the second one.
* A callback without a type loads, and each of its actions is then failed. It is
  a type of its own in `Callbacks`, accounted for as failed.
* What YAML and JSON schema themselves refuse, and null where an object belongs
  (but for a callback's parameter).
* Labels, parameters and annotations of a submission (`config/argo.go`):
  formatted once, and whether they are accepted is one choice in `Config`. The
  mapping of Argo's phases and times (`workflowproperties.go`) is data.
* Flags, credentials, buckets (`s3/driver.go`), the HTTP transport, logging:
  input and output, whose calls succeed or fail in the models.
* Argo's own execution of a workflow: it appears as the changes of `cluster`.
