# A TLA+ verification project for MediaGo Drama

MediaGo Drama is a local workbench for producing animated comic dramas: a Go server
(`src/services/server`), a React/Electron workspace (`src/apps/workspace`) and shared packages
(`src/packages`). A user writes documents, an Agent works on them through tools, and images and
video clips are generated by external providers. What can go wrong in an order nobody tested is
where several parties write the same thing around slow calls. This project models six such places.

In the server:

* the **Agent execution ledger** (`internal/repository/agent_*`): workflow scopes and outboxes with
  leases, kept in SQLite, built for retries, crashes and stale callers;
* the **video generation queue** (`internal/service/generation`, `internal/app/generation_worker.go`):
  HTTP calls, background goroutines and a poller that overwrite the same rows around slow provider
  calls.

In the workspace front end and its desktop shell:

* the **document store** (`domains/documents`): typing, autosave, optimistic mutations with rollback,
  and whatever polls, deltas and the Agent bring;
* the **Agent's chat panel** (`domains/agent`): an event log that reaches the page by a live stream, a
  resumed stream, a status poll and a transcript, all overtaking each other;
* the **generation workspace** (`domains/generation/hooks`): optimistic entries against the list of
  tasks, with submits, checks and deletions under way;
* the **prompt pack editor** (`electron/src/main.ts`, `pages/PromptPackEditor.tsx`): a window of its own
  with persistent drafts, saved under a revision.

The files here are TLA+ modules, the TLC configurations that check them on small instances, eight
modules of TLAPS proofs, and `PROJECT.json`, which maps every definition to the source lines it
translates and lists hazards, runs, faults, findings and theorems. Paths below are relative to the
repository root; `server/` stands for `src/services/server/internal/` and `web/` for
`src/apps/workspace/src/`.

Contents: 1 inventory, 2 modules and code, 3 runs, 4 bounds, 5 fairness, 6 proofs, 7 what the code does
not do as it says, 8 what is left out, 9 plan, 10 running the checks.

## 1. Inventory

### 1.1 The Agent execution ledger

**Root final delivery outbox** (`server/repository/agent_execution_repo.go`). *State:* a row of
`agent_root_final_deliveries` (phase pending, journaled, published or failed; revision; lease owner,
expiry and fence token; attempt count and next attempt; journal range) and command events under
`root-final:<id>:<command>`. *Operations:* `ClaimRootFinalDelivery`,
`ClaimFailedRootFinalDeliveryForReconcile`, `TransitionRootFinalDelivery`, `GetRootFinalDelivery`.
*Interaction:* `ReplaceWorkflow` keeps a session behind a barrier until the predecessor's final
answer has been published. *Hard:* publishers that lose their lease and go on; a commit whose answer
was lost and is retried after others moved the row; two goroutines with one owner string; a claim
that is an UPDATE and a SELECT. *Correct when:* two workers never hold the row; one command has one
effect and one answer; the revision counts the commands; a journaled row names its records; a failed
row is only moved by the reconcile claim; a published row is final.

**Continuations** (same file) and the **root-run lease** (`agent_session_repo.go`) lease a row of
`agent_workflow_events` and the session itself with the same columns and WHERE clauses as the two
outboxes. They have no module of their own; the acknowledgement of a continuation and its discard at
the end of a workflow are part of the unit of work below.

**Workflow handoff outbox** (`agent_execution_repo.go`). *State:* a row of `agent_workflow_handoffs`
(pending, leased, sending, unknown, started, cancelled, failed_definite; lease and its mode;
revision) and command events. *Operations:* `ClaimWorkflowHandoff` in the modes dispatch and
reconcile_only, `TransitionWorkflowHandoff`, `GetWorkflowHandoff`. *Hard:* the dispatcher dies while
it sends, so nobody knows whether the coordinator got the request. *Correct when:* the request is
sent again only after a reconciler returned the row; doubt is never erased by anybody else; a handoff
that may have been sent is never declared definitely failed.

**Workflow unit of work and projections** (`agent_workflow_uow.go`, `agent_execution_repo.go`,
`agent_session_repo.go`). *State:* workflows, tasks, invocations, continuations and selections of a
session, and the session's active workflow and final-delivery barrier. *Operations:*
`CreateWorkflowEnvelope`, `ReplaceWorkflow`, `TerminateWorkflow`, `CompareAndSwapWorkflow`, `...Task`,
`...Invocation`, `...WorkflowState`, `ApplyProjectionWriteSet`. *Hard:* every caller writes from a
copy it read earlier, and the scope may have ended meanwhile; a replace command is repeated after its
successor is itself history. *Correct when:* one scope is active and the session points to it; a
closed scope has nothing alive in it; a repeated command gets its own first answer; no third scope
begins behind an unlifted barrier; what ended stays as it ended.

**Agent selections** (`agent_selection_repo.go`): questions to the user, pending until decided,
superseded, cancelled or expired, and claimed once for a generation. Only their meeting with a
workflow's end is modelled.

### 1.2 Generation

**The Jimeng Seedance queue** (`server/service/generation/generation_jimeng_queue.go`,
`generation_runtime_tasks.go`, `generation_tasks_service.go`, `server/app/generation_worker.go`).
*State:* generation task rows (status, provider task ID, `updated_at`), `jimengSeedanceQueueMu`, goroutines, and
jobs at the provider. *Operations:* create, retry, refresh (`GetGenerationVideo`) and delete from
users; the goroutine that submits; the poller, every 20 s, which polls submitted tasks, submits
queued ones and repeats submissions lost in a crash. *Interaction:* all of them write whole rows from
copies; `UpsertExisting` spares deleted rows; the queue's decision and the row that records it are
under the mutex, the provider calls are not. *Hard:* all the interleavings of these, a crash
between "submitting" and the answer, and a poller that looks at a fixed number of rows. *Correct
when:* the provider has one clip at a time; a finished task is not reopened; a deleted one does not
come back; every queued task has its turn and every task ends.

**Image generation, assets, conversations** share the same services: inline generation with progress
callbacks, handoff of the result to documents, asset slots, notifications. Hard: a progress write
that lands after the final one; rows and their side tables written without a transaction. Not modelled; the
list of tasks is, as the generation workspace sees it.

### 1.3 The front end and the desktop shell

**Document store** (`web/domains/documents/stores`, `components/DocumentStateSync.tsx`; the other side
is `server/service/document/store.go`). *State:* the documents with version and dirty flag, a save
task per document, the operation log, the snapshots that mutations would roll back to. *Operations:*
typing, the save loop (PATCH with version, rebase after a conflict, retries), moves, category, create,
delete, operations and undo, polls and deltas, streamed edits, leaving the project. *Hard:* every
answer is merged into a store that has moved on. *Correct when:* typed text is kept until the server
has it, a clean document shows what the server held, and saving ends.

**Agent chat panel** (`web/domains/agent`, `web/shared/lib/sse`; `server/service/events/broker.go`,
`http/handlers/agent_events.go`, `agent_chat.go`). *State:* the cursor into the event log, the runs'
conversations, the delta buffer, two event sources, a prompt, requests for status and transcript.
*Operations:* `runAgentPrompt`, `stopAgentRun`, events, replay, reconnection, the 1 s poll, transcript
refresh, load and reset of `AgentStateSync`. *Hard:* the four ways of hearing from the server overtake
each other, and history is replayed. *Correct when:* nothing is taken for a duplicate that was not
shown, history ends nothing, no prompt waits for ever, and a question to the user is shown.

**Generation workspace** (`web/domains/generation/hooks`, `GenerationNotificationSync.tsx`;
`CreateGenerationMessage`, `ListGenerationTasks`, `DeleteGenerationTask` in the server). *State:* local
messages (kept in localStorage), the cached task list, submits and deletions under way. *Operations:*
submit, stream start, answer, failure, list, poll, notification, video check, sweep of stale local
messages, deletion with the search for the task behind a local entry. *Hard:* one submit has two
identities, the local one and its task's. *Correct when:* entries leave only for a reason, deleted ones
stay away, ended tasks do not spin, and only what was asked for is deleted.

**Prompt pack editor** (`src/apps/workspace/electron/src/main.ts`, `preload.ts`,
`web/pages/PromptPackEditor.tsx`, `web/domains/settings`; `server/service/promptpack/service.go`).
*State:* window and pending close of the main process, drafts in localStorage, an SWR cache of packs,
one save. *Operations:* open, load, close, quit, select, edit, abandon, save, delete; the settings of
the main window edit the same packs. *Hard:* wishes to close and to quit cross with messages; a save
outlives its page; a draft outlives the contents it was started from. *Correct when:* a stale draft
overwrites nothing, a draft is not lost, and a wish to leave is carried out.

### 1.4 The rest

| Part | State | Hard behaviours | Here |
| --- | --- | --- | --- |
| MCP generation confirmation | a confirmed selection claimed for one generation | double confirmation, crash between claim and completion | not modelled |
| Agent runtime and sessions | runs behind the event bus | cancel against completion | as far as the chat panel sees them |
| Workspace event broker, file watcher | subscribers, debounced file events | slow subscribers, own writes coming back | its events, in DocumentStore |
| Document history, edit streams | history entries, files on disk | synchronisation with files | not modelled |
| Approvals and choices | pending questions with waiters | answer against timeout | not modelled |
| Codex runner and app sessions | an external process, pending requests | answers after the process died | not modelled |
| Settings, media store, project assets | configuration rows, texts, files | single writers, I/O | not modelled |
| Desktop shell but for the editor window | a child process, updates | start and stop of a process | not modelled |
| Pages and views of the front end | what hooks and stores hold | rendering | not modelled |
| HTTP routes, provider adapters, Jianying export, MCP tool texts | none, or outside | decoding, external services, file formats | not modelled |

`PROJECT.json` lists each with its files and status; its `hazards` give the line where each hard
behaviour bites and the properties that would catch it going wrong, or why none does.

## 2. Modules and how they correspond to the code

```
 Lease <----------- RootFinalDelivery, WorkflowHandoff     (EXTENDS)
 FencedRow <------- RootFinalDelivery, WorkflowHandoff     (refinement)
 SessionScopes <--- AgentWorkflow                          (refinement)
 SeedanceQueue   DocumentStore   AgentChat   GenerationEntries   PromptPackEditor
 RootFinalDeliveryProofs extends RootFinalDelivery
 WorkflowHandoffProofs extends WorkflowHandoff
 AgentWorkflowProofs extends AgentWorkflow
 SeedanceQueueProofs extends SeedanceQueue
 PromptPackEditorProofs extends PromptPackEditor
 DocumentStoreProofs extends DocumentStore
 AgentChatProofs extends AgentChat
 GenerationEntriesProofs extends GenerationEntries
 MC* instantiate for TLC
```

**Lease** is the three lease columns and the SQL assignments that occur on them (`Leased`, `Released`, `Revoked`)
with their two WHERE clauses (`LeaseFree`, `LeaseHeld`). A NULL expiry is 0; both clauses answer the
same for it.

**FencedRow** is the abstract promise of a leased row: a status that moves along given edges and only
while somebody holds the row, and a generation that a new holder always advances. Clocks, retries,
stale callers and command records are gone. Two detailed modules implement it, each under its own
refinement mapping (phase or status, token as generation, lease owner as holder). What the
refinement rules out is a transition of a row that nobody holds or along no edge, and a takeover that
does not advance the token. It does not say who moves the row: a transition of somebody who lost it
to the present holder would be an `Advance` too, and is what `ExclusiveFence` is about.

**RootFinalDelivery.** Variables: `delivery` (the row), `result` (the command events that record a
transition), `now`, and per worker `seen` (the token, revision and phase it remembers) and `reading`
(it is between the UPDATE and the SELECT of a claim). `claimedIn` and `answers` are history. A
*worker* is one goroutine; several may pass the same owner string, as goroutines of one process do.
`claimRootFinalDelivery` is the UPDATE; `ReadClaim` the SELECT. `TransitionRootFinalDelivery` is the
whole transaction: validation, fence, compare-and-swap of revision and phase, update and command
event; its caller may or may not hear the answer. It passes the time it sampled before the call,
any `at <= now`, as the code takes the time as a parameter. `ReplayRootFinalCommand` is the same call for a recorded
command, which is answered before any fence is looked at. `Crash` forgets a worker's memory and
leaves its lease behind.

**WorkflowHandoff** is built the same way. `sends` and `returns` are history: how often the handoff
entered sending, and how often a reconciler returned it to be sent again.

**SessionScopes** and **AgentWorkflow.** The abstract module is one open scope that may be closed or
replaced and is never reopened. The detailed one has all the rows one session's workflows touch.
Every operation is one transaction, so one step; what interleaves is `Read(k)`, which copies a row
into `memory[k]`, and a later write from this copy. `CloseScope` is what `ReplaceWorkflow` and
`TerminateWorkflow` share, with every call they make: tasks cancelled, continuations discarded,
selections superseded. Each workflow has a root task, at most one child, one invocation,
one continuation and one selection: the code treats the rows of a workflow alike, so one of each
shows what happens to it.

**SeedanceQueue.** A *thread* is the poller's goroutine for one task or an HTTP call together with
the goroutine it starts. `pc` runs gate, claim, submit, call, answer (queueing and submitting) or
get, save (asking the provider), and between any two of these steps every other thread may act.
`thread[h].row` is the copy of the row the thread will write. `order` lists the rows by `updated_at`;
each write moves a row to its end, as GORM's `updated_at` does (`Without` takes it from its place). `stale` are the submitting rows older
than `submittingGenerationRetryDelay`. The provider (`job`, `Call`, `JobEnds`) is external: it
accepts a job and answers with its ID and state, or the call fails, with or without a job accepted.

The four modules of the front end have the same step: **JavaScript runs a callback to its end**, so
what happens between two awaits is one step, and everything else may happen at an await. A request is
on its way, or the server has acted and the answer is on its way back, or the page has the answer;
these are separate steps wherever the page can tell them apart.

**DocumentStore.** `docs` is the store, `server` the server's documents, `task[d]` the save loop of a
document (`at`: idle, patch, rebase, sleep; `rerun`, `timer` and `attempts` are the fields of the
code's save task), `mutation` the optimistic mutation under way with the snapshots `before` and
`after` it, `fetch` a poll or delta. A text is a number, and each write by anybody takes a new one;
a *place* stands for parent, folder, order, category and draft, which a PATCH without a version may
change. History: `typed[d]` is typed text that has not reached the server, `held[d]` what the server
has ever held. The guards of the merges are the code's: `mergeIncomingDocument`,
`mergeWorkspaceDocuments`, `acknowledgeDocumentSave` and `isCurrentWorkspaceMutationSnapshot`
carry its names. The server side (`PatchArrives`, `MutationArrives`) is `store.go`'s versioned update,
its update without a version, and the PUT of the whole list. A mutation may fail before the server
acted or after it, when the answer is lost (`MutationFails`). Writes by others raise the version, or
leave it alone, as an edit of the file on disk does (`ServerChanges`).

**AgentChat.** `log` is the persisted event log, `store` the panel's store with its `cursor`,
`conv[c]` the conversation of each run and of the placeholder `Pending` that a new prompt shows until
its run has a name. `stream` has the two event sources: the `live` one of a prompt and the `resumed`
one of a panel that was opened during a run; `at`, `id`, `mark`, `sending`, `replaying` are how far the
server has sent, `lastEventId`, the replay marker, whether this connection still sends history, and the
client's flag, which a reconnection does not set again. `ReplayCompleted` is sent when the history has
been, and also when a page of it could not be read; the connection is then `cut`. `prompt.at` follows
`runAgentPrompt` through its awaits, and `status` and `chat` are the requests for status and
transcript. `handleStreamingAgentEvent` is one operator with every effect of an event, in the code's
order: sequence, binding, flush, end. History, which no guard reads: `since`, the marker of the first
connection; `cut`; `missed`, the output a gap jumped over, for which a transcript is fetched; and
`early`, the output before the first event of an empty store, which the code does not call a gap.

**GenerationEntries.** A submit makes at most one task, so both have one name `s`; `local[s]` is the
page's message (which has the local id or its task's), `recent` the cached task list, `request[s]`
the POST, `fetch` the request for the list, `deletion[s]` where `deleteGenerationEntry` is. What the
page shows is computed from these (`LocalEntry`, `TaskEntry`, `Spins`) as `mergeConversationMessages`
does, and every step ends with the effect that sweeps local messages (`Synced`). `old` and `before`
stand for the clock: submits older than the grace period, and tasks that had ended before a submit.

**PromptPackEditor.** `packs` is the server, `drafts` localStorage, `cache`, `selected`, `isEditing`,
`saving`, `deleting` the page, `closing`, `wire`, `app` the main process and its channel to the page. The
contents of a pack are a set of entries and their own revision, as the code's revision is a hash of the
contents. `orphans` are saves that were sent by a page that is gone: the server carries them out all
the same. A deletion is two steps, the server's (`DeletePack`) and the answer that takes the draft
along (`PackDeleted`); its dialog keeps the page from selecting a pack in between, but not the window
from going. `PageGone` is what every load, close and kill of the page has in common.

Definitions called *Fault* in the comments are plausible bugs. They are used by no specification;
`PROJECT.json` names for each property the definition such a fault replaces, and TLC then finds the
property violated.

## 3. Runs

| Run | Module, cfg | Distinct states | What it shows |
| --- | --- | --- | --- |
| `delivery` | MCRootFinalDelivery | 44 k | With two goroutines of one process, prompt reads, crashes and lost answers: `ExclusiveFence`, `JournaledHasRange`, `RevisionCountsCommands`, `OneAnswerPerCommand`, `FailedWaitsForReconcile`, `PublishedIsFinal`, and the row implements `FencedRow`. |
| `handoff` | MCWorkflowHandoff | 92 k | Dispatchers and reconcilers with four commands: `OneSendPerReturn`, `DoubtIsNeverErased`, `OneAnswerPerCommand`, and the row implements `FencedRow`. |
| `scopes` | MCAgentWorkflow, MCAgentScopes | 96 k | Three commands create, replace and terminate scopes while a publisher lifts the barrier from a stale copy: `OneActiveWorkflow`, `ReplaceAnswersAgree`, `BarrierHolds`, `SessionScopes` is implemented. |
| `rows` | MCAgentWorkflow, MCAgentRows | 449 k | Two callers' writes of workflow, tasks, invocation, selection and projections from stale copies race with each other and with the end of their scope: `ClosedScopeIsQuiet`, `OutcomesStand`. |
| `queue` | MCSeedanceQueue | 268 k | Two HTTP calls that create, retry, refresh and delete, the poller, one crash or failed poll, under fairness: `OneActiveTask`, `DeletedStaysDeleted`, `EveryTaskEnds`. |
| `queue_starved` | MCSeedanceQueue, MCSeedanceStarved | violation | One task more than the poller lists in a round: `QueuedIsSubmitted` fails, the queue stops for ever (finding 1). |
| `documents` | MCDocumentStore | 195 k | Typing, autosave, a mutation, a fetch and one disturbance (write by others, failed request, streamed edit, change of project): `TypedIsKept`, `CleanIsHeld`, and under fairness `TypedIsSaved`. |
| `documents_rollback` | MCDocumentStore, MCDocumentRollback | violation | A mutation fails after the user has typed into another document: `NeverRolledBack` fails (finding 2). |
| `chat` | MCAgentChat | 195 k | Two prompts and one disturbance (lost event, broken connection, failed request or page of history, stop, change of route): `UnshownWasJumped`, `HistoryEndsNothing`, and under fairness `EveryWaitEnds`, `PermissionIsShown`. |
| `packs` | MCPromptPackEditor | 193 k | Drafts of two packs in a window that is closed, loaded again and quit, a lost save, a deletion or an edit by the settings: `OthersStand`, `DraftIsKept`, and under fairness `LeavingEnds`. |
| `generation` | MCGenerationEntries | 520 k | Two submits of different words, a deletion, a reload or failed request: `EntriesAreKept`, `DeletedStaysAway`, and under fairness `SpinningEnds`. |
| `generation_orphan` | MCGenerationEntries, MCGenerationOrphan | violation | Two submits of the same words: deleting the first entry deletes the second's task, `DeletesWhatWasAsked` fails (finding 3). |

The runs that pass, but for `scopes` and `rows`, also check the `TypeOK` of their module.

Deadlock is not checked: the bounds on clocks, attempts, revisions, jobs, gestures and troubles let
every model stop when they are used up, and a settled row, an ended task or a user who does nothing
is a legitimate end.

### Properties worth a comment

* `ExclusiveFence` says more than "tokens differ": no two workers could both have a call accepted. In
  `delivery` both workers pass *the same* owner string, so only the token separates them.
* `OneAnswerPerCommand` collects every answer a command ever got, over retries by any worker after
  any number of later transitions.
* `OneSendPerReturn` is the promise of the handoff outbox: never a second send but after a
  reconciler knows about the first.
* `BarrierHolds` needs the barrier column, the handoff rows and the active workflow together; a stale
  write of the publisher, or a third scope, breaks it.
* `ClosedScopeIsQuiet` is about writers who read before and write after the scope's end. It holds
  because ending a scope raises the revision of the workflow and of each task it cancels.
* `OneActiveTask` is a promise of the queue, not of its users: `RetryGenerationTask` submits a task
  that may itself be at the provider, and `GetGenerationVideo` may write an old status back, so the
  property speaks of behaviours without such a call. An open page makes the second call by itself,
  every 30 seconds, so what is promised is the server's part with no such page open. The property
  needs the mutex *and* the row that is written under it.
* `DeletedStaysDeleted` is about the background writers only. A user's own retry or refresh may recreate
  a deleted task (section 7).
* `TypedIsKept` is the document store's core: a text is followed from the key press to the moment the
  server has it, over every merge. It is silent about text that the user's project change, a streamed
  edit or a rollback has already dropped; the rollback is what `NeverRolledBack` is about.
* `CleanIsHeld` is the converse: whoever sees a document without the dirty flag sees something the
  server held or streamed. A late acknowledgement would break it.
* `UnshownWasJumped` relates the cursor to what is on the screen. The cursor may go back, when an
  older transcript is put in place; the property says that then the events between come again. It
  excepts what an event jumped over. For a gap the code asks for a transcript, which need not bring the
  output back before the run ends, and the jump of the first event of an empty store (`early`) goes
  unnoticed (section 7 on both). The latter takes two changes of route, so it does not
  occur in the run with its one trouble, where the property holds without it.
* `HistoryEndsNothing` is why `replaying` exists: the live stream of a new prompt begins with the ends
  of earlier runs, and the prompt's own run has no name yet. It excepts a connection whose history
  the server could not read, which needs two troubles to do harm (section 7).
* `OthersStand` follows one value, the base revision, through draft, cache, request and a dead page.
* `DraftIsKept` names all ways in which a draft with changes goes. Two of them a user will not expect:
  what was typed while a save was under way goes with the draft, and a draft is replaced when contents
  are filed under another pack's key (section 7).
* `EntriesAreKept` and `DeletedStaysAway` pull in opposite directions: whoever makes deletion stronger
  by sweeping more loses entries, and the other way round.

## 4. Bounds

Every bound is a constant. A bound is large enough when each of the property's parties can act twice
and be overtaken once.

* `MaxTime`, `MaxAttempt` (3 and 3): 3 claims and 4 instants let a lease be taken, lapse,
  be taken over and lapse again while its first holder still acts. Leases may end at any instant
  after the claim.
* Workers: two with one owner string, the case in which least keeps them apart. Every property
  relates at most two workers.
* Commands: a deliverable row needs two transitions to be published, a handoff four to be sent,
  doubted, returned and sent again: hence two and four. With two commands and several fingerprints
  `delivery` also has the reuse of a command with another fingerprint, which is refused.
* `Workflow`, `Command`: three in `scopes` give a replaced replacement; in `rows` one scope and the
  command that ends it. `MaxRevision` (2 and 3) leaves room for a write, and for the write that comes
  too late. `Kinds` splits the rows over the runs, because rows of different kinds meet only in the
  transactions that end a scope.
* `Task`, `PollLimit`: two tasks in `queue`, one in front and one behind it. `PollLimit` stands
  for `defaultGenerationWorkerLimit` (5); the starved queue needs one task more than this limit, with
  any value. `MaxJob` is one job per task, `MaxMishap` bounds retries, refreshes, crashes and failed
  polls together, so a behaviour has finitely many errors and liveness can be asked.
* `documents`: two documents, one of them to be created; two actions of the user (type and mutate,
  type twice, create and type), one fetch and one trouble; two attempts per burst for
  `maxSaveAttemptsPerBurst`. Rollback of one document over another needs two documents, a late
  acknowledgement two texts.
* `chat`: two runs, because an earlier run's end must be in the history of a later one; a log of three
  events and the ends, which leaves room for output or a question before and after a disturbance.
* `packs`: two packs, because answers are misfiled between packs; two entries of the editor, one of
  them not valid, and one of the settings; two gestures (a wish to close and one to quit, or two
  edits) and one trouble.
* `generation`: two submits, one deletion, one trouble, for texts and videos; images are submitted
  like videos without the status check and are the kind of the `generation_orphan` run. Submits of the
  same words are left to that run, since their entries may be taken for each other.
* Model values are permuted (SYMMETRY) where a run has no liveness property: workers with the same
  owner, fingerprints, and commands together with the workflow IDs derived from them.

## 5. Fairness

Five modules have liveness properties, each under a `FairSpec` that names what the code's scheduling
gives. Users owe nothing anywhere: typing, submitting, stopping, deleting and closing are not fair.
Troubles may happen or not, and boundedly often, so "eventually" means "once errors stop".

* `SeedanceQueue`: weak fairness of `Step(h)` (goroutines run on, and a provider call returns, bounded
  by a timeout of 1000 s), `StartRound` (the worker's 20-second ticker starts a round once the one
  before has ended, because the worker waits for its goroutines), `GoesStale(t)` (the clock goes on)
  and `JobEnds(j)` (the external provider finishes what it accepted).
* `DocumentStore`: weak fairness of `SaveLoop(d)`: the PATCH and the GET of the rebase are answered,
  and the timers between attempts fire.
* `AgentChat`: weak fairness of `syncAgentSessionStatus` and `PollElsewhere` and strong fairness of
  `Poll`. The interval of `waitForStreamingRun` ticks every second for as long as the prompt waits;
  one status request is under way at a time in the model, so a tick finds it busy now and then, and
  the request is answered. Events, transcripts and the user owe nothing: the poll alone ends a wait.
* `GenerationEntries`: weak fairness of `ListRead` and `Poll`, and strong fairness of `ListTaken`. What
  makes the page drop an answer and ask anew comes 30 s apart or a bounded number of times, so an
  answer gets through.
* `PromptPackEditor`: weak fairness of `Deliver` and `CompleteClose`: a message between two processes
  of one application arrives, and the handler runs.

The ledger has no liveness property: nothing in the repository drives its workers yet, so no fairness
would be justified.

## 6. Proofs

`RootFinalDeliveryProofs` proves, for every set of workers, owners, commands, fingerprints and ranges
and every bound, under the named assumptions `LeaseAssumption` and `DeliveryAssumption` alone:

| Theorem | States |
| --- | --- |
| `TypeCorrect` | `Spec => []TypeOK` |
| `FencesExclude` | `FenceSafe` implies `Spec => []ExclusiveFence` |
| `OnlyClaimsGrant` | `Spec => HeldByClaimOnly`, defined beside it |
| `JournalRange` | `Spec => []JournaledHasRange` |
| `RevisionsAreCommands` | `Spec => []RevisionCountsCommands` |
| `AnswersAgree` | `Spec => []OneAnswerPerCommand` |
| `FailedStays` | `Spec => FailedWaitsForReconcile` |
| `PublishedStays` | `Spec => PublishedIsFinal` |
| `RefinesFencedRow` | `Spec => ImplementsFencedRow` |

*Exclusive fences.* `ExclusiveFence` is not inductive: nothing in it says where tokens come from. The
invariant that is, `FenceInv`, adds `TokensIssued` (nobody remembers a token the row has not issued,
so a claim's new token is new to everybody) and `ReadingIsLeased` (under `PromptRead`, while somebody
is between the two statements of a claim its lease is alive, so nobody else can claim; the row still
has the token of that claim, and nobody else has that token). Then a claim makes every other worker
lose the row, and the read that ends it makes only the claimant hold it. `FenceSafe` is the
circumstance this needs: reads are prompt, *or* every worker has an owner string of its own, in which
case `LeaseHeld` already separates them. Section 7 says what happens otherwise. `OnlyClaimsGrant` says
what does not depend on the circumstance: from `TokensIssued` alone, whoever lost the row gets it
back only by ending another claim of its own. Together: two workers can share the row only when each
of them has read a claim back since it last lost it.

*Failed rows.* `FailedLeaseInv`, that a leased failed row was leased by the reconcile claim, holds
because a transition to failed revokes the lease. It is the strengthening behind `FailedStays`.

*Commands.* `RecordOrNot` splits every step into one that records exactly one command with the
revision it made, and one that changes neither. Both command theorems are inductions over it.

*Refinement.* Claims map to `Claim`, first transitions to `Advance`, everything else to stuttering.
`Advance` needs a holder, which the fence provides because its owner is in `Owner`.

`WorkflowHandoffProofs` proves, for every set of workers, owners and commands and every bound, under
`LeaseAssumption` and `HandoffAssumption`:

| Theorem | States |
| --- | --- |
| `TypeCorrect` | `Spec => []TypeOK` |
| `SendsFollowReturns` | `Spec => []OneSendPerReturn` |
| `DoubtStays` | `Spec => DoubtIsNeverErased` |
| `AnswersAgree` | `Spec => []OneAnswerPerCommand` |
| `RefinesFencedRow` | `Spec => ImplementsFencedRow` |

*Doubt.* `DoubtIsNeverErased` speaks of the lease mode at the moment of the transition, and nothing in
it says what modes a doubtful row can have. `UnknownLeaseInv` adds that a held row of status unknown
was claimed for reconciling, which is so because entering unknown releases the lease and the ordinary
claim does not take unknown rows. `OneSendPerReturn` is inductive with the types alone: its
second and third conjuncts tie `sends` to the status, which is why they are stated.

`AgentWorkflowProofs` proves, for every set of workflows, commands and callers, every terminal status
and every bound, under `WorkflowAssumption` alone:

| Theorem | States |
| --- | --- |
| `TypeCorrect`, `Invariant` | `Spec => []Types`, `Spec => []Inv` |
| `OneScopeIsActive` | `Spec => []OneActiveWorkflow` |
| `ClosedScopesStayQuiet` | `Spec => []ClosedScopeIsQuiet` |
| `BarrierIsKept` | `Spec => []BarrierHolds` |
| `OneAnswer` | `Spec => []ReplaceAnswersAgree` |
| `EndedRowsStand` | `Spec => OutcomesStand` |
| `RefinesSessionScopes` | `Spec => ImplementsSessionScopes` |

*Copies are old.* None of the first three is inductive: a compare-and-swap writes back the status its
caller read, so whether it may reopen something depends on what callers remember. The inductive `Inv`
adds `CopiesAreOld`: a caller's copy is not newer than its row, and a copy of the row's own revision
was taken of an active workflow, or running task, that is so still. That holds because every
transaction that changes a row raises its revision (`RowsGrow`), the cancellation of the tasks of an
ending scope included; a cancellation that left the revision alone would break it. `UnopenedIsEmpty`,
that a workflow never created has no rows, keeps the rows of a new scope newer than every copy.
Then a write that passes the comparison finds its row as it was (`WorkflowCopyMatches`,
`TaskCopyMatches`), and each step is a few lines.

*Refinement.* `open` is the session's active workflow, `used` the workflows whose row exists. Writes by
revision leave `used` alone because rows are never deleted; only the unit of work changes `open`.

`PromptPackEditorProofs` proves, for every set of packs and entries and every bound, under
`PackAssumption` alone:

| Theorem | States |
| --- | --- |
| `TypeCorrect` | `Spec => []TypeOK` |
| `SavesLeaveOthersAlone` | `Spec => OthersStand` |
| `DraftsAreKept` | `Spec => DraftIsKept` |

*Others' entries.* `OthersStand` compares two states, and says nothing of what a request carries. The
inductive invariant `IInv` adds to the types `OthersAside`: each draft, the save under way and each
orphaned save have the others' entries as their base has them, whatever the user typed. The server
accepts only a save whose base is what it holds, so what it writes has the others' entries it had.

*Drafts.* Given the types, `DraftIsKept` is a case distinction over the steps: only `BeginEdit`, `Type`,
`Abandon`, `PackDeleted` and `Saved` touch the drafts, and `Type` changes working copies only.

`SeedanceQueueProofs` proves, for every set of tasks and callers, every poll limit and every number of
jobs, under `QueueAssumption`:

| Theorem | States |
| --- | --- |
| `BaseAlways` | `Spec => []Base` |
| `DeletedAreGone` | `Spec => DeletedStaysDeleted` |
| `OneAtATime` | `SlowSubmission = FALSE` implies `Spec => []OneActiveTask` |
| `TypeCorrect` | `Spec => []TypeOK` |

*Roles.* `Base` holds the types of rows, threads and jobs and the `Role` of each thread: what a goroutine
of the poller may be doing and what a call may, and on which task. With it `DeletedAreGone` is a case
distinction over who writes: the poller's goroutines go through `UpsertExisting`.

*One clip.* `OneActiveTask` says nothing of the threads that are about to write. `QueueInv` adds, while
no user has retried or refreshed: the `Stage` of each thread (at claim it holds the mutex, and its row
is queued or not there; from submit to answer its row is submitting, or deleted), `Alone` (no two
threads work on a task) and `OneBusy`, which counts as busy a task whose row is active or about to be
claimed for submission. A claim then changes nothing that `Gate` saw, since the mutex keeps the others
from claiming. A round of the poller takes up rows, not threads: what keeps it off the task of a
call that is still submitting is that this row is not stale, the clause on `stale` in `Stage`.
`SlowSubmission = FALSE` is that circumstance: a submission does not last longer than
`submittingGenerationRetryDelay`. Without it the poller and the call submit the same task twice.

*The order of the rows.* `TypeOK` says that the list which decides who is in front names each row
exactly once. `Base` does not mention the list, since the decisions above hold in any order. `OrderInv`
says that it is injective with the rows as its range (`WithoutOne` and `AtTheEnd`: a write takes the
row out and puts it at the end), that stale rows are submitting, that jobs and mishaps keep their bounds,
and `RowOk`: a thread that is about to write has a row that is there, so that no write empties a row
and leaves its name in the list.

`DocumentStoreProofs` proves, for every set of documents and every bound, and wherever the rollback
of a mutation may fall, under `DocumentAssumption` alone:

| Theorem | States |
| --- | --- |
| `Invariant` | `Spec => []Inv` |
| `TypedStays` | `Spec => []TypedIsKept` |
| `CleanStays` | `Spec => []CleanIsHeld` |
| `TypeCorrect` | `Spec => []TypeOK` |
| `GuardKeepsTyping` | `Spec => [][GuardedRollback]_vars` |

*What is under way.* Neither property says anything of the copies that will be written into the store
later: the payload of a poll or delta, the answer of a PATCH, the answer of a mutation and the snapshot
its failure puts back. `Inv` has one part per variable and says it of each. A payload holds texts the
server has held (`FetchOk`, `MutationOk`), and a PATCH that was accepted sent such a text (`TaskGood`).
Text that was typed is new to the server (`TypedOk`), so an acknowledgement of something held is not
one of it and cannot lower its flag. In a rollback snapshot what is clean was held, and text typed before
the mutation is there and dirty; text typed after it is not there, which is the second finding of
section 7, and why `typed` forgets it in that step. A store that was left is empty, so what answers
late finds no project to write to. The types bound every text by `used.text`, the number of
texts written so far: a new text is then new to all of these copies at once. `TypeOK` has the bounds of a run
in their place; `BudgetOk`, that every text is on the account of the user or of trouble, closes the gap.

*Guarded rollbacks.* `NeverRolledBack` is false (finding 2). `GuardedRollback` is the same statement for
moves and new chapters, which ask `isCurrentWorkspaceMutationSnapshot` before they roll back, and it
holds: text typed since differs from what the mutation left (`TypedSince`) and is on the screen
(`TypedIsKept`), so the snapshot is not current.

`AgentChatProofs` proves, for every number of runs, events and troubles, under `ChatAssumption` alone:

| Theorem | States |
| --- | --- |
| `TypeCorrect`, `Invariant` | `Spec => []TypeOK`, `Spec => []Inv` |
| `OnlyJumpsHide` | `Spec => []UnshownWasJumped` |
| `HistoryIsHarmless` | `Spec => HistoryEndsNothing` |

*Types* are over the length of the log, and `Widen` carries them over an event put to its end (`NewEvent`);
all other steps leave the log alone (`SameLog`). `TypeOK` is silent on how far a transcript on its way
reaches; `Inv` has it in the log, which a hydrated store needs.

*Jumps.* `UnshownWasJumped` is inductive with the types. The step that matters is `Counted`: an event that
is no duplicate either follows the cursor, so that it alone becomes counted, or jumps over output, which
goes to `missed` or, in an empty store, to `early`; `Handled` then finds the event itself in the buffer. A
transcript shows all it counts (`Hydrated`). The theorem says that nothing else hides output: no
reconnection, replay or older transcript makes it pass for a duplicate. It does not say that output
jumped over comes back, which it need not (section 7).

*History.* `HistoryEndsNothing` rests on `Honest`: a connection that does not say that it replays, and was
never cut, has received everything that was there when the prompt opened it (`id >= since`). That is not
true of `at` alone, because a connection that breaks starts again behind, at `id`; it is true of `id`
because events are dropped only behind the history a connection sends (`sending`), so `id` falls behind
`at` only from there on. After a failed page (`cut`) the client is told that the history is complete and
has not got it: the theorem claims nothing then, and a second trouble does break the promise.

`GenerationEntriesProofs` proves, for every set of submits, all words, kinds and bounds, under
`GenerationAssumption` alone:

| Theorem | States |
| --- | --- |
| `TypeCorrect` | `Spec => []TypeOK` |
| `EntriesKept` | `Spec => EntriesAreKept` |
| `DeletedDoNotReturn` | `Spec => DeletedStaysAway` |
| `DistinctWordsSuffice` | if no words are submitted twice, `Spec => DeletesWhatWasAsked` |

*What the page knows.* The properties compare two states of the page and say nothing of what is on its
way to it. The inductive `PageInv` does. `Taken`: a submit has a task exactly from the moment the
server took it, so a deleted task's submit is not sent again. `Named`: no message, list or deletion
names a task that never was. `Unnamed`: a message has the local id until an answer or a start came; so
a message that is swept as an orphan was a local entry before the step, and a failed submit leaves the
kind of its entry alone. `DropsDeleted`: a list under way drops from the cache only what is deleted, which
gives `EntriesKept` its hardest case, an outdated list taken late. `ListedLate`: a list that still names
a deleted task is under way only while the deletion's answer is, because that answer asks for the
list anew and drops the old one; `DeletedStaysAway` would be false without this.

*One lemma for the messages.* Every step that shows anything ends with a render. `PageStep` says of all
steps at once what the messages become before it (`Becomes`) and `SyncedEntry` what the render may
take; both theorems about entries follow from these two without looking at an action again.

*Distinct words.* `DeletesWhatWasAsked` is false (finding 3). `AskedOnly`, that whatever is to be deleted
belongs to a submit of which the user deleted an entry, is inductive once equal words mean equal
submits. So the words are the whole of the problem: no order of answers and lists leads to the
finding without them.

*Only model-checked:* the six liveness properties of the passing runs (`EveryTaskEnds`, `TypedIsSaved`,
`EveryWaitEnds`, `PermissionIsShown`, `LeavingEnds`, `SpinningEnds`), which the prover does not treat. Every
invariant and every other action property of a passing run is a theorem. Of the three refuted
properties two have a theorem that says where they do hold (`GuardKeepsTyping`,
`DistinctWordsSuffice`); the third is liveness.

## 7. Where code and text disagree

1. **A long queue stops** (`queue_starved`). `ListPending` returns the rows updated the longest ago,
   at most `limit` (`generation_tasks_service.go:287`), and a queued row is not touched while it
   waits. With at least as many queued tasks as the limit, the submitted task in front of them is
   never listed, so never polled, so never seen to have ended, and no queued task is ever submitted,
   although the message says it "will be submitted automatically"
   (`generation_jimeng_queue.go:42`). A refresh of the front task unblocks it: by the user, or by an
   open page, which refreshes the videos it shows as pending every 30 seconds; no page need be open.
2. **A rollback takes typed text away** (`documents_rollback`). A mutation that fails puts back the
   snapshot of all documents it took when it began (`document-actions.ts:354`, `store.ts:57`). Text
   typed into any document meanwhile is gone, although the save queue promises that it "is never
   rolled back to an older snapshot" (`document-save-queue.ts:19`). Moves ask first whether the store
   is still as they left it, and then nothing typed is lost (`GuardKeepsTyping`); category, folder,
   create, delete and the operations do not.
3. **A deletion takes another task** (`generation_orphan`). The user submits some words, the request
   fails, and submits them again. Deleting the failed entry looks for a task with the same words that
   no message of the click shows; the second submit's task, listed after the click, is the only such
   task, and it is deleted. The comment says that the search is strict "so a real, visible task is
   never deleted by mistake" (`useGenerationTaskActions.ts:344`). Without equal words it is so
   (`DistinctWordsSuffice`).

A fourth disagreement is in the behaviours of `AgentChat` and has no run. An event of the agent is
dropped from a full buffer; the next one leaves a gap, sets the cursor to itself and asks for the
transcript (`streaming-events.ts:358`), the "authoritative re-sync" of the comments
(`streaming-events.ts:113`, `:354`). The transcript is discarded while the run goes on unless it reaches
further than the cursor (`chat-sync.ts:93`), which has already jumped the gap: if the server has
nothing newer by then, `store.missed` stays outside `store.shown` until the transcript that is fetched
when the run has ended.

Known behaviours that no text of the repository excludes; the models have them, and the properties
above state what holds beside them:

* *Claims.* A claim raises the token in an UPDATE and reads the row with a separate SELECT
  (`agent_execution_repo.go:701` and `:849`). A claimant suspended between them for longer than its
  lease reads the token of whoever claimed next. `PromptRead` excludes this in the runs and appears in
  `FencesExclude` as a hypothesis.
* *Slow submissions.* A provider call may last 1000 s, a submitting row is listed again after two
  minutes, and the poller then calls the provider without asking the queue
  (`generation_runtime_tasks.go:775`): two clips at a time. `SlowSubmission` is FALSE in the runs.
* *Documents.* `moveDocument` raises the version of siblings it does not patch, so that a clean
  sibling refuses older news until the server catches up; `applyOperations` and undo PUT the whole
  list without versions and remove documents created elsewhere; a streamed edit clears the dirty flag;
  leaving a project drops its dirty documents.
* *Queue.* `RetryGenerationTask` and `GetGenerationVideo` write a whole row from a copy read before the
  provider call (`generation_runtime_tasks.go:66`): a task deleted meanwhile comes back, a finished one
  is reopened.
* *Chat.* A delta flushed after the end of its run reopens the run's conversation; the answer of a
  status request sent for the last run may end a new prompt on the screen. When a page of the history
  cannot be read, the stream is told that its history is complete (`agent_events.go:101`, `:130`), and
  after a broken connection the rest of it, with the ends of earlier runs, comes as if live. When the
  user leaves a project and returns during a run, an event may reach the emptied store before the
  load; it is no gap (`lifecycle-actions.ts:354`), a load that reaches no further is discarded, and the
  earlier output stays away until the run ends.
* *Packs.* A page that is loading does not hear the request to close, and later requests are merged
  into the one that nobody heard; what is typed during a save goes with the draft; the answer of a
  save is filed under the key of the pack selected by then; the draft of a deleted pack stays when the
  answer is lost or the page goes first.

## 8. Assumptions, and what is left out

*Ledger.* Calls that end in an error write nothing (their transactions roll back) and
are stuttering steps; SQLite's own failures are left out, as are those of `Upsert`. `PromptRead` is
TRUE where a run or a theorem says so. A command reused with another fingerprint is refused. Callers of
`ApplyProjectionWriteSet` are taken to include the compare-and-swap of the workflow they read as active;
the repository does not force this, and a write set without it could add a task to a closed scope. The
ledger is so far called by tests only; how callers behave is taken from those tests and from the design
document (`src/docs/plans/2026-07-17-end-to-end-agent-orchestration-design.md`). Left out:
`CreateWorkflowEvent` by itself, explicit event sequences, artifacts and their versions, root
proposals, queued inputs, `current_invocation_id`; the claim of a continuation and the root-run lease,
which use `Lease`'s columns and clauses once more.

*Queue.* The two scans of a decision are one step, since whoever holds the mutex is not between them;
other kinds of tasks, which share the poller's limit, are left out; the worker's concurrency equals its
limit, so each listed task has its goroutine; the provider's successful answers always carry an ID; the
side tables of a task are left out.

*Documents.* One mutation and one fetch are under way at a time, and a rebase asks and answers in one
step. The server keeps the ID of a created document. Titles are part of texts. Folders and assets as
objects of their own, comments and the selection are left out; the code also compares comments, by
reference, before it clears a dirty flag, so a document may be saved once more than in the model.

*Chat.* The user's message and the start of its run are one event; any output is a delta. A lost event
is dropped from a full buffer, evicted from it (a run's end too, for another guaranteed event) or
overtaken, which to the panel is the same; there is one such loss in the run. There is one
request for the status and one for the transcript at a time, and only prompts wait for runs. Document
edits and proposals carried by events, other sessions, the session list and the composer's text are
left out.

*Generation.* A task ends well or badly with the same effect on entries. A video's check asks and is
answered in one step. A task that still ran when a submit was made counts as its sibling, as it does
for the code, whose times are those of the last update. The search for an orphan may run somewhat
after the list has come. One workspace with one scope and one kind is open; prompt optimisation,
batches, retry, preferences, asset deletion and the notification bell are left out.

*Packs.* The answer of a save has the contents of the moment it was accepted. Electron closes the
windows in the step that quits. The list of packs is up to date. Import, export and creation of packs
are left out.

*Not modelled at all.* The parts of section 1.4 marked so: configuration, text processing, file
formats, HTTP plumbing, rendering and external processes, most of which have no state whose order of
changes could go wrong in a way a model would show; those that have (approvals, Codex sessions,
image generation, MCP confirmation) are in the plan.

## 9. Plan

Done: the ledger's outboxes and scopes, the video queue, and the four front-end modules. What is left,
in order of worth:

| Module | Models | Properties |
| --- | --- | --- |
| GenerationTasks | create, progress, completion, handoff and asset slots of image tasks | a late progress write does not reopen an ended task; the handoff happens once |
| AgentSelection | `agent_selection_repo.go`, `app/mcp/generation_confirmation.go` | a confirmed selection starts at most one generation; a decided one is not expired |
| AgentRuns | start, cancel and completion of runs, approvals and choices with their waiters | a cancelled run does not complete; every waiter is answered or times out |
| EventBroker | buffers and eviction of `events/broker.go` | guaranteed events survive a full buffer |

*Theorems*: for a claim whose read is not prompt, which of two workers that share the row is told so
by its next write; and for `SlowSubmission`, how often a submission can be repeated.

## 10. Running the checks

```
tlc -workers 2 -config MCRootFinalDelivery.cfg MCRootFinalDelivery
tlapm RootFinalDeliveryProofs.tla
tlapm WorkflowHandoffProofs.tla
tlapm AgentWorkflowProofs.tla
tlapm PromptPackEditorProofs.tla
tlapm SeedanceQueueProofs.tla
tlapm DocumentStoreProofs.tla
tlapm AgentChatProofs.tla
tlapm GenerationEntriesProofs.tla
```

The other runs are in the table of section 3. The longest, `generation`, takes about two minutes on
two cores.
