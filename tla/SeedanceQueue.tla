--------------------------- MODULE SeedanceQueue ---------------------------
(***************************************************************************)
(* The local queue in front of the Jimeng Seedance video provider, which   *)
(* is to work on one clip at a time: creating, retrying, refreshing and    *)
(* deleting a task, the goroutine that submits it and the background       *)
(* poller (service/generation and app/generation_worker.go).               *)
(*                                                                         *)
(* Rows are overwritten whole from copies read earlier; only the queue's   *)
(* decisions are under jimengSeedanceQueueMu.  A thread is the poller's    *)
(* goroutine for one task (named by the task) or an HTTP call together     *)
(* with the goroutine it starts (a Caller).  The two scans of a queue      *)
(* decision are one step: nothing that holds the mutex runs between them.  *)
(***************************************************************************)
EXTENDS Naturals, FiniteSets, SequencesExt

CONSTANTS Task,            \* generation task IDs
          Caller,          \* HTTP calls running at a time
          NoThread,
          PollLimit,       \* defaultGenerationWorkerLimit
          UserOps,         \* which of delete, retry, refresh users call
          SlowSubmission,  \* TRUE: a submission may outlast the retry delay
          MaxJob,          \* bound on the jobs the provider accepts
          MaxMishap        \* bound on the mishaps of a run

Thread == Task \cup Caller

ASSUME QueueAssumption ==
  /\ Task \cap Caller = {} /\ NoThread \notin Thread
  /\ IsFiniteSet(Task)
  /\ PollLimit \in Nat \ {0} /\ MaxJob \in Nat /\ MaxMishap \in Nat
  /\ UserOps \subseteq {"delete", "retry", "refresh"}
  /\ SlowSubmission \in BOOLEAN

VARIABLES task,     \* the rows: status and provider task ID (0: none)
          order,    \* the rows' IDs by updated_at, oldest first
          stale,    \* submitting rows not updated for the retry delay
          created,  \* history: the IDs given out
          mutex,    \* the holder of jimengSeedanceQueueMu
          thread,   \* where each thread is, and the row it is to write
          job,      \* the jobs the provider accepted; the index is the ID
          mishaps   \* history: which of retry, refresh, crash and poll error there were

vars == <<task, order, stale, created, mutex, thread, job, mishaps>>

Ended == {"completed", "failed"}
JobStatus == {"submitted"} \cup Ended
Status == {"absent", "queued", "submitting"} \cup JobStatus
Absent == [status |-> "absent", provider |-> 0]
Idle == [pc |-> "idle", op |-> "none", of |-> NoThread, row |-> Absent]

Init ==
  /\ task = [t \in Task |-> Absent]
  /\ order = <<>>
  /\ stale = {} /\ created = {}
  /\ mutex = NoThread
  /\ thread = [h \in Thread |-> Idle]
  /\ job = <<>>
  /\ mishaps = {}

Exists(t) == task[t].status # "absent"

\* What does not have to happen happens once, and MaxMishap such things do.
Mishap(what) ==
  /\ what \notin mishaps /\ Cardinality(mishaps) < MaxMishap
  /\ mishaps' = mishaps \cup {what}

-----------------------------------------------------------------------------
(* Writing rows *)

\* Fault: a row is inserted without looking for its ID.
InsertAgain(t, row) ==
  /\ task' = [task EXCEPT ![t] = row]
  /\ order' = Append(order, t)
  /\ stale' = stale \ {t}

\* The list without t.
Without(list, t) ==
  LET at == {i \in DOMAIN list : list[i] = t} IN
  IF at = {} THEN list ELSE RemoveAt(list, CHOOSE i \in at : TRUE)

\* Upsert: the row is written whole and becomes the last updated.
Upsert(t, row) ==
  /\ task' = [task EXCEPT ![t] = row]
  /\ order' = Append(Without(order, t), t)
  /\ stale' = stale \ {t}

\* Fault: background writes recreate deleted rows.
RecreatesDeleted(t, row) == Upsert(t, row)

\* UpsertExisting: a row the user deleted is not written.
UpsertExisting(t, row) ==
  IF Exists(t) THEN Upsert(t, row) ELSE UNCHANGED <<task, order, stale>>

\* RecordError leaves the status and touches updated_at.
RecordError(t) == UpsertExisting(t, task[t])

Goes(h, pc, row) == thread' = [thread EXCEPT ![h].pc = pc, ![h].row = row]
Stops(h) == thread' = [thread EXCEPT ![h] = Idle]

-----------------------------------------------------------------------------
(* The queue *)

\* jimengSeedanceActiveStatuses; jimengSeedanceBlockingStatuses adds queued.
Active(t) == task[t].status \in {"submitting", "submitted"}
Queued(t) == task[t].status = "queued"

\* The tasks of S that were updated before t.
Older(S, t) ==
  {u \in S : \E i, j \in DOMAIN order : i < j /\ order[i] = u /\ order[j] = t}

\* Fault: a job the provider is working on does not block.
BlockedBySubmission(t) == \E u \in Task \ {t} : task[u].status \in {"queued", "submitting"}

\* jimengSeedanceSubmissionQueueBlocked(t): some other task is in front.
QueueBlocked(t) == \E u \in Task \ {t} : Active(u) \/ Queued(u)

\* jimengSeedanceQueuedTaskCanSubmit: nothing else is active, and t is the
\* queued task that was updated the longest ago.
QueuedTaskCanSubmit(t) ==
  /\ \A u \in Task \ {t} : ~Active(u)
  /\ Queued(t) /\ Older({u \in Task : Queued(u)}, t) = {}

\* Thread h locks the queue and looks at it: a new or retried task is to be
\* submitted or queued, a queued one to be submitted or left for later.
Gate(h) ==
  LET t == thread[h].of IN
  /\ thread[h].pc = "gate"
  /\ mutex = NoThread
  /\ IF thread[h].op = "queue" /\ ~QueuedTaskCanSubmit(t)
     THEN Stops(h) /\ UNCHANGED mutex
     ELSE /\ mutex' = h
          /\ Goes(h, "claim",
               [status |-> IF thread[h].op # "queue" /\ QueueBlocked(t)
                           THEN "queued" ELSE "submitting",
                provider |-> 0])
  /\ UNCHANGED <<task, order, stale, created, job, mishaps>>

\* It writes the row it decided on and unlocks the queue.
Claim(h) ==
  LET t == thread[h].of  row == thread[h].row IN
  /\ thread[h].pc = "claim"
  /\ mutex' = NoThread
  /\ IF thread[h].op = "queue" THEN UpsertExisting(t, row) ELSE Upsert(t, row)
  /\ IF row.status = "queued" \/ (thread[h].op = "queue" /\ ~Exists(t))
     THEN Stops(h) ELSE Goes(h, "submit", row)
  /\ UNCHANGED <<created, job, mishaps>>

-----------------------------------------------------------------------------
(* submitPendingGeneration *)

\* It says that it submits, unless the task is gone, and calls the provider.
Submit(h) ==
  LET t == thread[h].of  row == [thread[h].row EXCEPT !.status = "submitting"] IN
  /\ thread[h].pc = "submit"
  /\ UpsertExisting(t, row)
  /\ IF Exists(t) THEN Goes(h, "call", row) ELSE Stops(h)
  /\ UNCHANGED <<created, mutex, job, mishaps>>

\* The provider accepts a job and answers with its state and ID, or the call
\* fails, with or without a job.
Call(h) ==
  LET t == thread[h].of  row == thread[h].row IN
  /\ thread[h].pc = "call"
  /\ \/ /\ Len(job) < MaxJob
        /\ \E s \in JobStatus :
             /\ job' = Append(job, [of |-> t, status |-> s])
             /\ \/ Goes(h, "answer", [status |-> s, provider |-> Len(job) + 1])
                \/ Goes(h, "answer", [row EXCEPT !.status = "failed"])
     \/ /\ Goes(h, "answer", [row EXCEPT !.status = "failed"])
        /\ UNCHANGED job
  /\ UNCHANGED <<task, order, stale, created, mutex, mishaps>>

Answer(h) ==
  /\ thread[h].pc = "answer"
  /\ UpsertExisting(thread[h].of, thread[h].row)
  /\ Stops(h)
  /\ UNCHANGED <<created, mutex, job, mishaps>>

-----------------------------------------------------------------------------
(* Asking the provider: PollGenerationTask and GetGenerationVideo *)

Get(h) ==
  /\ thread[h].pc = "get"
  /\ Goes(h, "save", [thread[h].row EXCEPT !.status = job[thread[h].row.provider].status])
  /\ UNCHANGED <<task, order, stale, created, mutex, job, mishaps>>

\* The poll fails.  GetGenerationVideo records the error under the provider
\* task ID, that is for no row.
GetFails(h) ==
  /\ thread[h].pc = "get"
  /\ IF thread[h].op = "poll" THEN RecordError(thread[h].of) ELSE UNCHANGED <<task, order, stale>>
  /\ Stops(h)
  /\ Mishap("error")
  /\ UNCHANGED <<created, mutex, job>>

\* The poller writes existing rows only, GetGenerationVideo any.
Save(h) ==
  /\ thread[h].pc = "save"
  /\ IF thread[h].op = "poll" THEN UpsertExisting(thread[h].of, thread[h].row)
                              ELSE Upsert(thread[h].of, thread[h].row)
  /\ Stops(h)
  /\ UNCHANGED <<created, mutex, job, mishaps>>

-----------------------------------------------------------------------------
(* The background poller *)

\* Fault: a stale submission is not listed.
AlwaysWaits(t) == task[t].status = "submitting"

\* ListPending passes over submitting rows that are not stale yet.
WaitsForSubmission(t) == task[t].status = "submitting" /\ t \notin stale

\* The rows ListPending(PollLimit) returns.
ListPending ==
  LET pending == {t \in Task : Active(t) \/ Queued(t)}
      oldest == {t \in pending : Cardinality(Older(pending, t)) < 2 * PollLimit}
      listed == {t \in oldest : ~WaitsForSubmission(t)}
  IN {t \in listed : Cardinality(Older(listed, t)) < PollLimit}

\* What the poller's goroutine for a listed task is to do first.
Polled(t) ==
  LET at(pc, op) == [pc |-> pc, op |-> op, of |-> t, row |-> task[t]] IN
  CASE Queued(t)                                           -> at("gate", "queue")
    [] task[t].status = "submitting"                       -> at("submit", "poll")
    [] task[t].status = "submitted" /\ task[t].provider = 0 -> Idle
    [] OTHER                                               -> at("get", "poll")

\* PollPendingGenerationTasks: a round begins when the one before has ended.
StartRound ==
  /\ \A t \in Task : thread[t] = Idle
  /\ thread' = [h \in Thread |-> IF h \in ListPending THEN Polled(h) ELSE thread[h]]
  /\ UNCHANGED <<task, order, stale, created, mutex, job, mishaps>>

-----------------------------------------------------------------------------
(* Users *)

\* Callers and new IDs are alike: the first free one is taken.
Free(c) == thread[c] = Idle /\ c = CHOOSE k \in Caller : thread[k] = Idle
New(t) == t \notin created /\ t = CHOOSE u \in Task \ created : TRUE

CreateGenerationMessage(c, t) ==
  /\ Free(c)
  /\ New(t)
  /\ created' = created \cup {t}
  /\ thread' = [thread EXCEPT ![c] = [pc |-> "gate", op |-> "create", of |-> t, row |-> Absent]]
  /\ UNCHANGED <<task, order, stale, mutex, job, mishaps>>

\* RetryGenerationTask reads the row before it locks the queue, whatever its
\* status.
RetryGenerationTask(c, t) ==
  /\ "retry" \in UserOps /\ Mishap("retry")
  /\ Free(c)
  /\ Exists(t)
  /\ thread' = [thread EXCEPT ![c] = [pc |-> "gate", op |-> "retry", of |-> t, row |-> task[t]]]
  /\ UNCHANGED <<task, order, stale, created, mutex, job>>

GetGenerationVideo(c, t) ==
  /\ "refresh" \in UserOps /\ Mishap("refresh")
  /\ Free(c)
  /\ Exists(t) /\ task[t].provider # 0
  /\ thread' = [thread EXCEPT ![c] = [pc |-> "get", op |-> "refresh", of |-> t, row |-> task[t]]]
  /\ UNCHANGED <<task, order, stale, created, mutex, job>>

Delete(t) ==
  /\ "delete" \in UserOps
  /\ Exists(t)
  /\ task' = [task EXCEPT ![t] = Absent]
  /\ order' = Without(order, t)
  /\ stale' = stale \ {t}
  /\ UNCHANGED <<created, mutex, thread, job, mishaps>>

-----------------------------------------------------------------------------
(* The environment *)

Submitting(h, t) == thread[h].of = t /\ thread[h].pc \in {"submit", "call", "answer"}

\* submittingGenerationRetryDelay passes.
GoesStale(t) ==
  /\ task[t].status = "submitting" /\ t \notin stale
  /\ SlowSubmission \/ \A h \in Thread : ~Submitting(h, t)
  /\ stale' = stale \cup {t}
  /\ UNCHANGED <<task, order, created, mutex, thread, job, mishaps>>

JobEnds(j) ==
  /\ j \in DOMAIN job /\ job[j].status = "submitted"
  /\ \E s \in Ended : job' = [job EXCEPT ![j].status = s]
  /\ UNCHANGED <<task, order, stale, created, mutex, thread, mishaps>>

\* The server stops and starts again: goroutines and the lock are gone.
Crash ==
  /\ Mishap("crash")
  /\ thread' = [h \in Thread |-> Idle]
  /\ mutex' = NoThread
  /\ UNCHANGED <<task, order, stale, created, job>>

Step(h) == Gate(h) \/ Claim(h) \/ Submit(h) \/ Call(h) \/ Answer(h) \/ Get(h) \/ Save(h)

UserStep(c, t) ==
  \/ CreateGenerationMessage(c, t)
  \/ RetryGenerationTask(c, t)
  \/ GetGenerationVideo(c, t)

Next ==
  \/ StartRound
  \/ Crash
  \/ \E h \in Thread : Step(h) \/ GetFails(h)
  \/ \E c \in Caller, t \in Task : UserStep(c, t)
  \/ \E t \in Task : Delete(t) \/ GoesStale(t)
  \/ \E j \in 1 .. MaxJob : JobEnds(j)

Spec == Init /\ [][Next]_vars

\* Goroutines run on, the poller's timer and the clock go on, and the
\* provider finishes the jobs it accepted.
Fairness ==
  /\ WF_vars(StartRound)
  /\ \A h \in Thread : WF_vars(Step(h))
  /\ \A t \in Task : WF_vars(GoesStale(t))
  /\ \A j \in 1 .. MaxJob : WF_vars(JobEnds(j))

FairSpec == Spec /\ Fairness

-----------------------------------------------------------------------------
(* Properties *)

Row == [status : Status, provider : 0 .. MaxJob]

\* Every variable holds a value of its type.
TypeOK ==
  /\ task \in [Task -> Row]
  /\ IsInjective(order) /\ ToSet(order) = {t \in Task : Exists(t)}
  /\ stale \subseteq {t \in Task : task[t].status = "submitting"}
  /\ created \subseteq Task
  /\ mutex \in Thread \cup {NoThread}
  /\ thread \in [Thread -> [pc : {"idle", "gate", "claim", "submit", "call", "answer", "get", "save"},
                            op : {"none", "create", "retry", "refresh", "queue", "poll"},
                            of : Task \cup {NoThread}, row : Row]]
  /\ job \in Seq([of : Task, status : JobStatus])
  /\ mishaps \subseteq {"retry", "refresh", "crash", "error"}

\* A user's own retry or refresh writes a row that was read outside the queue.
Undisturbed == mishaps \cap {"retry", "refresh"} = {}

\* At most one task of the queue is being submitted or worked on, unless a user
\* retries or refreshes one meanwhile.
OneActiveTask == Undisturbed => \A t, u \in Task : Active(t) /\ Active(u) => t = u

\* "A task the user deleted mid-generation is not resurrected by a late
\* write": only a user's own retry or refresh brings a deleted task back.
DeletedStaysDeleted ==
  [][\A t \in Task : ~Exists(t) /\ task'[t].status # "absent" =>
       \E c \in Caller : thread[c].of = t /\ thread[c].pc \in {"claim", "save"}]_vars

\* "The queued task is submitted automatically once the one before it is
\* finished": no task waits in the queue for ever.
QueuedIsSubmitted == \A t \in Task : Queued(t) ~> ~Queued(t)

\* Every task ends or is deleted, whatever crashes and failures happen.
EveryTaskEnds == \A t \in Task : Exists(t) ~> task[t].status \in Ended \cup {"absent"}
=============================================================================
