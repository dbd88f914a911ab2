------------------------ MODULE SeedanceQueueProofs ------------------------
(***************************************************************************)
(* What TLAPS proves of SeedanceQueue, for every number of tasks, calls    *)
(* and jobs, every poll limit and every sequence of crashes and failures:  *)
(* one clip at a time while no user retries or refreshes, and no late      *)
(* write of the background brings a deleted task back.                     *)
(***************************************************************************)
EXTENDS SeedanceQueue, TLAPS

(***************************************************************************)
(* Types.  The order of the rows has a section of its own at the end: no   *)
(* decision that the other theorems are about depends on it.               *)
(***************************************************************************)

Pc == {"idle", "gate", "claim", "submit", "call", "answer", "get", "save"}
Op == {"none", "create", "retry", "refresh", "queue", "poll"}
Rows == [status : Status, provider : Nat]
Jobs == [of : Task, status : JobStatus]
Place == [pc : Pc, op : Op, of : Task \cup {NoThread}, row : Rows]

\* Every variable but `order` holds a value of its type, and rows name jobs
\* that the provider has.
Types ==
  /\ task \in [Task -> Rows]
  /\ thread \in [Thread -> Place]
  /\ created \subseteq Task
  /\ mutex \in Thread \cup {NoThread}
  /\ job \in Seq(Jobs)
  /\ \A t \in Task : task[t].provider <= Len(job)
  /\ \A h \in Thread : thread[h].row.provider <= Len(job)
  /\ \A h \in Thread : thread[h].pc = "get" => thread[h].row.provider >= 1

\* Statuses, and the idle thread.
LEMMA Statuses ==
  /\ {"absent", "queued", "submitting", "submitted", "completed", "failed"} = Status
  /\ Ended \subseteq JobStatus /\ JobStatus = {"submitted", "completed", "failed"}
  /\ Absent \in Rows /\ Absent.status = "absent" /\ Absent.provider = 0
  /\ Idle \in Place /\ Idle.pc = "idle" /\ Idle.op = "none" /\ Idle.row = Absent
  BY DEF Status, JobStatus, Ended, Absent, Rows, Idle, Place, Pc, Op

\* A row with another status.
LEMMA RowWith ==
  ASSUME NEW row \in Rows, NEW s \in Status
  PROVE  /\ [row EXCEPT !.status = s] \in Rows
         /\ [row EXCEPT !.status = s].status = s
         /\ [row EXCEPT !.status = s].provider = row.provider
  BY DEF Rows

\* What a thread's move changes.
LEMMA GoesEffect ==
  ASSUME Types, NEW h \in Thread, NEW pc \in Pc, NEW row \in Rows, Goes(h, pc, row)
  PROVE  /\ thread' \in [Thread -> Place]
         /\ thread'[h].pc = pc /\ thread'[h].row = row
         /\ thread'[h].op = thread[h].op /\ thread'[h].of = thread[h].of
         /\ \A k \in Thread \ {h} : thread'[k] = thread[k]
  BY DEF Goes, Types, Place

\* What a thread's end changes.
LEMMA StopsEffect ==
  ASSUME Types, NEW h \in Thread, Stops(h)
  PROVE  /\ thread' \in [Thread -> Place]
         /\ thread'[h] = Idle
         /\ \A k \in Thread \ {h} : thread'[k] = thread[k]
  BY Statuses DEF Stops, Types

\* What a write changes: one row, which is not stale then, or nothing.
LEMMA WriteEffect ==
  ASSUME Types, NEW t \in Task, NEW row \in Rows, row.provider <= Len(job),
         Upsert(t, row) \/ UpsertExisting(t, row)
  PROVE  /\ task' \in [Task -> Rows]
         /\ \A u \in Task : task'[u].provider <= Len(job)
         /\ \A u \in Task \ {t} : task'[u] = task[u]
         /\ \/ task'[t] = row /\ stale' = stale \ {t}
            \/ ~Exists(t) /\ UpsertExisting(t, row) /\ task' = task /\ stale' = stale
  BY DEF Upsert, UpsertExisting, Types

(***************************************************************************)
(* Who works on what.                                                      *)
(***************************************************************************)

SubmitPc == {"gate", "claim", "submit", "call", "answer"}

\* A goroutine of the poller works on its own task; calls do what they are
\* for; all work on tasks that were created.
Role(h) ==
  thread[h].pc # "idle" =>
    /\ thread[h].of \in created
    /\ h \in Task => thread[h].of = h
    /\ \/ h \in Task /\ thread[h].op = "queue" /\ thread[h].pc \in SubmitPc
       \/ h \in Task /\ thread[h].op = "poll"
          /\ thread[h].pc \in {"submit", "call", "answer", "get", "save"}
       \/ h \in Caller /\ thread[h].op \in {"create", "retry"} /\ thread[h].pc \in SubmitPc
       \/ h \in Caller /\ thread[h].op = "refresh" /\ thread[h].pc \in {"get", "save"}

Base ==
  /\ Types
  /\ \A h \in Thread : Role(h)
  /\ \A t \in Task : Exists(t) => t \in created

\* The queue starts empty, with no thread at work.
LEMMA BaseInit == Init => Base
  <1> SUFFICES ASSUME Init PROVE Base
    OBVIOUS
  <1>1. Types
    BY Statuses DEF Init, Types
  <1>2. QED
    BY <1>1, Statuses DEF Init, Base, Role, Exists

\* Thread h writes the row of its task, or none.
Writes(h) ==
  \/ UNCHANGED task
  \/ \E row \in Rows : /\ row.provider <= Len(job)
                       /\ \/ Upsert(thread[h].of, row)
                          \/ UpsertExisting(thread[h].of, row)

\* Thread h ends, or goes on to where its role lets it.
Moves(h) ==
  \/ Stops(h)
  \/ \E pc \in {"claim", "submit", "call", "answer", "save"}, row \in Rows :
       /\ Goes(h, pc, row) /\ row.provider <= Len(job')
       /\ pc # "save" => thread[h].pc \in SubmitPc
       /\ pc = "save" => thread[h].pc = "get"
       /\ pc = "claim" => thread[h].pc = "gate"

\* A thread that works has a task.
LEMMA Working ==
  ASSUME Base, NEW h \in Thread, thread[h].pc # "idle"
  PROVE  /\ thread[h].of \in Task /\ thread[h].of \in created
         /\ task[thread[h].of] \in Rows /\ task[thread[h].of].provider <= Len(job)
         /\ thread[h].row \in Rows /\ thread[h].row.provider <= Len(job)
  BY DEF Base, Role, Types, Place

\* A step of one thread.
LEMMA ThreadStepBase ==
  ASSUME Base, NEW h \in Thread, thread[h].pc # "idle", UNCHANGED created,
         job' \in Seq(Jobs), Len(job) <= Len(job'),
         mutex' \in Thread \cup {NoThread}, Writes(h), Moves(h)
  PROVE  Base'
  <1>1. thread[h].of \in Task /\ thread[h].of \in created
    BY DEF Base, Role, Types
  <1>2. Len(job) \in Nat /\ Len(job') \in Nat
    BY DEF Base, Types
  <1>3. /\ task' \in [Task -> Rows]
        /\ \A t \in Task : task'[t].provider <= Len(job')
        /\ \A t \in Task \ {thread[h].of} : task'[t] = task[t]
    <2>1. CASE UNCHANGED task
      BY <1>2, <2>1 DEF Base, Types, Rows
    <2>2. CASE \E row \in Rows : /\ row.provider <= Len(job)
                                 /\ \/ Upsert(thread[h].of, row)
                                    \/ UpsertExisting(thread[h].of, row)
      <3>1. /\ task' \in [Task -> Rows]
            /\ \A t \in Task : task'[t].provider <= Len(job)
            /\ \A t \in Task \ {thread[h].of} : task'[t] = task[t]
        BY <1>1, <2>2, WriteEffect DEF Base
      <3>2. QED
        BY <1>2, <3>1 DEF Rows
    <2>3. QED
      BY <2>1, <2>2 DEF Writes
  <1>4. /\ thread' \in [Thread -> Place]
        /\ \A k \in Thread \ {h} : thread'[k] = thread[k]
        /\ thread'[h].row.provider <= Len(job')
        /\ thread'[h].pc # "get"
        /\ Role(h)'
    <2>1. CASE Stops(h)
      BY <1>2, <2>1, StopsEffect, Statuses DEF Base, Role
    <2>2. ASSUME NEW pc \in {"claim", "submit", "call", "answer", "save"}, NEW row \in Rows,
                 Goes(h, pc, row), row.provider <= Len(job'),
                 pc # "save" => thread[h].pc \in SubmitPc,
                 pc = "save" => thread[h].pc = "get",
                 pc = "claim" => thread[h].pc = "gate"
          PROVE  /\ thread' \in [Thread -> Place]
                 /\ \A k \in Thread \ {h} : thread'[k] = thread[k]
                 /\ thread'[h].row.provider <= Len(job')
                 /\ thread'[h].pc # "get"
                 /\ Role(h)'
      <3>1. /\ thread' \in [Thread -> Place]
            /\ thread'[h].pc = pc /\ thread'[h].row = row
            /\ thread'[h].op = thread[h].op /\ thread'[h].of = thread[h].of
            /\ \A k \in Thread \ {h} : thread'[k] = thread[k]
        BY <2>2, GoesEffect DEF Base, Pc
      <3>2. Role(h)
        BY DEF Base
      <3>3. Role(h)'
        BY <2>2, <3>1, <3>2 DEF Role, SubmitPc, Pc
      <3>4. QED
        BY <2>2, <3>1, <3>3
    <2>3. QED
      BY <2>1, <2>2 DEF Moves
  <1>5. Types'
    <2>1. \A k \in Thread \ {h} : /\ thread'[k].row.provider <= Len(job')
                                  /\ thread'[k].pc = "get" => thread'[k].row.provider >= 1
      BY <1>2, <1>4 DEF Base, Types, Place, Rows
    <2>2. QED
      BY <1>3, <1>4, <2>1 DEF Base, Types
  <1>6. \A k \in Thread : Role(k)'
    BY <1>4 DEF Base, Role
  <1>7. \A t \in Task : Exists(t)' => t \in created'
    BY <1>1, <1>3 DEF Base, Exists
  <1>8. QED
    BY <1>5, <1>6, <1>7 DEF Base

\* What the poller's list has, and what it does with it.
LEMMA Listed ==
  ASSUME Base, NEW t \in ListPending
  PROVE  /\ t \in Task
         /\ Active(t) \/ Queued(t)
         /\ ~WaitsForSubmission(t)
  <1> DEFINE pending == {u \in Task : Active(u) \/ Queued(u)}
             oldest == {u \in pending : Cardinality(Older(pending, u)) < 2 * PollLimit}
             listed == {u \in oldest : ~WaitsForSubmission(u)}
  <1>1. t \in {u \in listed : Cardinality(Older(listed, u)) < PollLimit}
    BY Zenon DEF ListPending
  <1>2. t \in listed
    <2> HIDE DEF listed
    <2>1. QED
      BY <1>1
  <1>3. t \in oldest /\ ~WaitsForSubmission(t)
    <2> HIDE DEF oldest
    <2>1. QED
      BY <1>2
  <1>4. t \in pending
    <2> HIDE DEF pending
    <2>1. QED
      BY <1>3
  <1>5. t \in Task /\ (Active(t) \/ Queued(t))
    BY <1>4
  <1>6. QED
    BY <1>3, <1>5

\* Where a poll round puts the goroutine of a listed task.
LEMMA PolledPlace ==
  ASSUME Base, NEW t \in Task, Active(t) \/ Queued(t)
  PROVE  /\ Polled(t) \in Place
         /\ Polled(t).row.provider <= Len(job)
         /\ Polled(t).pc = "get" => Polled(t).row.provider >= 1
         /\ Polled(t).pc # "idle" =>
              /\ Polled(t).of = t
              /\ \/ Polled(t).op = "queue" /\ Polled(t).pc = "gate" /\ Queued(t)
                 \/ Polled(t).op = "poll" /\ Polled(t).pc = "submit" /\ task[t].status = "submitting"
                 \/ Polled(t).op = "poll" /\ Polled(t).pc = "get" /\ task[t].status = "submitted"
  <1>1. task[t] \in Rows /\ task[t].provider \in Nat /\ task[t].provider <= Len(job)
    BY DEF Base, Types, Rows
  <1>2. CASE Queued(t)
    <2>1. Polled(t) = [pc |-> "gate", op |-> "queue", of |-> t, row |-> task[t]]
      BY <1>2 DEF Polled, Queued
    <2>2. QED
      BY <1>1, <1>2, <2>1 DEF Place, Pc, Op
  <1>3. CASE task[t].status = "submitting"
    <2>1. Polled(t) = [pc |-> "submit", op |-> "poll", of |-> t, row |-> task[t]]
      BY <1>3 DEF Polled, Queued
    <2>2. QED
      BY <1>1, <1>3, <2>1 DEF Place, Pc, Op
  <1>4. CASE task[t].status = "submitted" /\ task[t].provider = 0
    <2>1. Polled(t) = Idle
      BY <1>4 DEF Polled, Queued
    <2>2. QED
      BY <1>1, <1>4, <2>1, Statuses
  <1>5. CASE task[t].status = "submitted" /\ task[t].provider # 0
    <2>1. Polled(t) = [pc |-> "get", op |-> "poll", of |-> t, row |-> task[t]]
      BY <1>5 DEF Polled, Queued
    <2>2. QED
      BY <1>1, <1>5, <2>1 DEF Place, Pc, Op
  <1>6. QED
    BY <1>2, <1>3, <1>4, <1>5 DEF Active

\* What a round changes.
LEMMA RoundEffect ==
  ASSUME Base, StartRound
  PROVE  /\ thread' \in [Thread -> Place]
         /\ \A h \in Thread :
              \/ thread'[h] = thread[h]
              \/ h \in ListPending /\ thread[h] = Idle /\ thread'[h] = Polled(h)
  <1>1. thread' = [h \in Thread |-> IF h \in ListPending THEN Polled(h) ELSE thread[h]]
    BY DEF StartRound
  <1>2. \A h \in ListPending : Polled(h) \in Place /\ thread[h] = Idle
    BY Listed, PolledPlace DEF StartRound
  <1>3. QED
    BY <1>1, <1>2 DEF Base, Types

\* A round starts goroutines on created tasks only.
LEMMA StartRoundBase == ASSUME Base, StartRound PROVE Base'
  <1>1. UNCHANGED <<task, created, mutex, job>>
    BY DEF StartRound
  <1>2. ASSUME NEW h \in ListPending, thread'[h] = Polled(h)
        PROVE  /\ thread'[h].row.provider <= Len(job)
               /\ thread'[h].pc = "get" => thread'[h].row.provider >= 1
               /\ Role(h)'
    <2>1. h \in Task /\ (Active(h) \/ Queued(h)) /\ h \in created
      BY Listed DEF Base, Active, Queued, Exists
    <2>2. QED
      BY <1>1, <1>2, <2>1, PolledPlace DEF Role, SubmitPc
  <1>3. \A h \in Thread : /\ thread'[h].row.provider <= Len(job)
                          /\ thread'[h].pc = "get" => thread'[h].row.provider >= 1
                          /\ Role(h)'
    BY <1>1, <1>2, RoundEffect DEF Base, Types, Role
  <1>4. QED
    BY <1>1, <1>3, RoundEffect DEF Base, Types, Exists

\* A caller that begins something.
LEMMA CallBase ==
  ASSUME Base, NEW c \in Caller, NEW t \in Task, NEW pc \in {"gate", "get"},
         NEW op \in {"create", "retry", "refresh"}, NEW row \in Rows, row.provider <= Len(job),
         thread' = [thread EXCEPT ![c] = [pc |-> pc, op |-> op, of |-> t, row |-> row]],
         pc = "get" <=> op = "refresh", pc = "get" => row.provider # 0,
         UNCHANGED <<task, mutex, job>>,
         created' \subseteq Task, created \subseteq created', t \in created'
  PROVE  Base'
  <1>1. c \in Thread /\ c \notin Task
    BY QueueAssumption DEF Thread
  <1>2. thread' \in [Thread -> Place]
    BY <1>1 DEF Base, Types, Place, Pc, Op
  <1>3. /\ thread'[c] = [pc |-> pc, op |-> op, of |-> t, row |-> row]
        /\ \A h \in Thread \ {c} : thread'[h] = thread[h]
    BY <1>1 DEF Base, Types
  <1>4. \A h \in Thread : /\ thread'[h].row.provider <= Len(job)
                          /\ thread'[h].pc = "get" => thread'[h].row.provider >= 1
    BY <1>3 DEF Base, Types, Rows
  <1>5. \A h \in Thread : Role(h)'
    BY <1>1, <1>3 DEF Base, Role, SubmitPc
  <1>6. QED
    BY <1>2, <1>4, <1>5 DEF Base, Types, Exists

\* A job that ends is the same job: no other is added or dropped.
LEMMA JobEndsEffect ==
  ASSUME job \in Seq(Jobs), NEW j \in 1 .. MaxJob, JobEnds(j)
  PROVE  job' \in Seq(Jobs) /\ Len(job') = Len(job)
  <1>1. j \in 1 .. Len(job) /\ job[j] \in Jobs
    BY DEF JobEnds
  <1>2. PICK s \in Ended : job' = [job EXCEPT ![j].status = s]
    BY DEF JobEnds
  <1>3. s \in JobStatus
    BY Statuses
  <1>4. [job[j] EXCEPT !.status = s] \in Jobs
    BY <1>1, <1>3 DEF Jobs
  <1>5. QED
    BY <1>1, <1>2, <1>4

\* No step takes a thread out of its role.
LEMMA BaseStep == ASSUME Base, [Next]_vars PROVE Base'
  <1>1. CASE StartRound
    BY <1>1, StartRoundBase
  <1>2. CASE Crash
    BY <1>2, Statuses DEF Crash, Base, Types, Role, Exists
  <1> /\ mutex \in Thread \cup {NoThread}
      /\ job \in Seq(Jobs)
      /\ Len(job) \in Nat /\ Len(job) <= Len(job)
    BY DEF Base, Types
  <1>3. ASSUME NEW h \in Thread, Gate(h) PROVE Base'
    <2>1. thread[h].pc = "gate" /\ UNCHANGED <<task, created, job>>
      BY <1>3 DEF Gate
    <2>2. \/ Stops(h) /\ mutex' = mutex
          \/ mutex' = h /\ \E s \in {"queued", "submitting"} :
                             Goes(h, "claim", [status |-> s, provider |-> 0])
      BY <1>3 DEF Gate
    <2>3. \A s \in {"queued", "submitting"} :
             [status |-> s, provider |-> 0] \in Rows /\ [status |-> s, provider |-> 0].provider = 0
      BY Statuses DEF Rows
    <2>4. Moves(h)
      BY <2>1, <2>2, <2>3 DEF Moves, SubmitPc
    <2>5. QED
      BY <2>1, <2>2, <2>4, ThreadStepBase DEF Writes
  <1>4. ASSUME NEW h \in Thread, Claim(h) PROVE Base'
    <2>1. thread[h].pc = "claim" /\ mutex' = NoThread /\ UNCHANGED <<created, job>>
      BY <1>4 DEF Claim
    <2>2. Writes(h)
      BY <1>4, <2>1, Working DEF Claim, Writes
    <2>3. Moves(h)
      BY <1>4, <2>1, Working DEF Claim, Moves, SubmitPc
    <2>4. QED
      BY <2>1, <2>2, <2>3, ThreadStepBase
  <1>5. ASSUME NEW h \in Thread, Submit(h) PROVE Base'
    <2>1. thread[h].pc = "submit" /\ UNCHANGED <<created, mutex, job>>
      BY <1>5 DEF Submit
    <2>2. /\ [thread[h].row EXCEPT !.status = "submitting"] \in Rows
          /\ [thread[h].row EXCEPT !.status = "submitting"].provider <= Len(job)
      <3>1. "submitting" \in Status /\ thread[h].row \in Rows /\ thread[h].row.provider <= Len(job)
        BY <2>1, Working, Statuses
      <3>2. QED
        BY <3>1, RowWith
    <2>3. Writes(h)
      BY <1>5, <2>2 DEF Submit, Writes
    <2>4. Moves(h)
      BY <1>5, <2>1, <2>2 DEF Submit, Moves, SubmitPc
    <2>5. QED
      BY <2>1, <2>3, <2>4, ThreadStepBase
  <1>6. ASSUME NEW h \in Thread, Call(h) PROVE Base'
    <2>1. thread[h].pc = "call" /\ UNCHANGED <<task, created, mutex>>
      BY <1>6 DEF Call
    <2>2. /\ job' \in Seq(Jobs)
          /\ Len(job) <= Len(job') /\ Len(job') \in Nat
      <3>1. ASSUME NEW s \in JobStatus, job' = Append(job, [of |-> thread[h].of, status |-> s])
            PROVE  /\ job' \in Seq(Jobs)
                   /\ Len(job') = Len(job) + 1
        <4>1. [of |-> thread[h].of, status |-> s] \in Jobs
          BY <2>1, Working DEF Jobs
        <4>2. QED
          BY <3>1, <4>1
      <3>2. job' = job \/ \E s \in JobStatus : job' = Append(job, [of |-> thread[h].of, status |-> s])
        BY <1>6 DEF Call
      <3>3. CASE job' = job
        BY <3>3
      <3>4. CASE \E s \in JobStatus : job' = Append(job, [of |-> thread[h].of, status |-> s])
        <4>1. job' \in Seq(Jobs) /\ Len(job') = Len(job) + 1
          BY <3>1, <3>4
        <4>2. QED
          BY <4>1
      <3>5. QED
        BY <3>2, <3>3, <3>4
    <2>3. /\ [thread[h].row EXCEPT !.status = "failed"] \in Rows
          /\ [thread[h].row EXCEPT !.status = "failed"].provider <= Len(job)
      <3>1. "failed" \in Status /\ thread[h].row \in Rows /\ thread[h].row.provider <= Len(job)
        BY <2>1, Working, Statuses
      <3>2. QED
        BY <3>1, RowWith
    <2>4. ASSUME Goes(h, "answer", [thread[h].row EXCEPT !.status = "failed"]) PROVE Moves(h)
      <3>1. [thread[h].row EXCEPT !.status = "failed"].provider <= Len(job')
        BY <2>2, <2>3 DEF Rows
      <3>2. QED
        BY <2>1, <2>3, <2>4, <3>1 DEF Moves, SubmitPc
    <2>5. ASSUME NEW s \in JobStatus, Len(job') = Len(job) + 1,
                 Goes(h, "answer", [status |-> s, provider |-> Len(job) + 1])
          PROVE  Moves(h)
      <3>1. /\ [status |-> s, provider |-> Len(job) + 1] \in Rows
            /\ [status |-> s, provider |-> Len(job) + 1].provider <= Len(job')
        BY <2>5, Statuses DEF Rows
      <3>2. QED
        BY <2>1, <2>5, <3>1 DEF Moves, SubmitPc
    <2>6. Moves(h)
      <3>1. ASSUME NEW s \in JobStatus,
                   job' = Append(job, [of |-> thread[h].of, status |-> s])
            PROVE  Len(job') = Len(job) + 1
        BY <3>1, <2>1, Working DEF Base, Types
      <3>2. QED
        BY <1>6, <2>4, <2>5, <3>1 DEF Call
    <2>7. QED
      BY <2>1, <2>2, <2>6, ThreadStepBase DEF Writes
  <1>7. ASSUME NEW h \in Thread, Answer(h) PROVE Base'
    <2>1. thread[h].pc = "answer" /\ UNCHANGED <<created, mutex, job>>
      BY <1>7 DEF Answer
    <2>2. Writes(h) /\ Moves(h)
      BY <1>7, <2>1, Working DEF Answer, Writes, Moves
    <2>3. QED
      BY <2>1, <2>2, ThreadStepBase
  <1>8. ASSUME NEW h \in Thread, Get(h) PROVE Base'
    <2>1. thread[h].pc = "get" /\ UNCHANGED <<task, created, mutex, job>>
      BY <1>8 DEF Get
    <2>2. thread[h].row.provider \in 1 .. Len(job)
      BY <2>1, Working DEF Base, Types, Rows
    <2>3. job[thread[h].row.provider].status \in Status
      <3>1. job[thread[h].row.provider] \in Jobs
        BY <2>2
      <3>2. QED
        BY <3>1, Statuses DEF Jobs
    <2>4. PICK row \in Rows :
            row = [thread[h].row EXCEPT !.status = job[thread[h].row.provider].status]
            /\ row.provider <= Len(job)
      <3>1. thread[h].row \in Rows /\ thread[h].row.provider <= Len(job)
        BY <2>1, Working
      <3>2. QED
        BY <2>3, <3>1, RowWith
    <2>5. Goes(h, "save", row) /\ row.provider <= Len(job')
      BY <1>8, <2>1, <2>4 DEF Get
    <2>6. Moves(h)
      BY <2>1, <2>5 DEF Moves
    <2>7. QED
      BY <2>1, <2>6, ThreadStepBase DEF Writes
  <1>9. ASSUME NEW h \in Thread, GetFails(h) PROVE Base'
    <2>1. thread[h].pc = "get" /\ UNCHANGED <<created, mutex, job>> /\ Stops(h)
      BY <1>9 DEF GetFails
    <2>2. Writes(h)
      BY <1>9, <2>1, Working DEF GetFails, RecordError, Writes
    <2>3. QED
      BY <2>1, <2>2, ThreadStepBase DEF Moves
  <1>10. ASSUME NEW h \in Thread, Save(h) PROVE Base'
    <2>1. thread[h].pc = "save" /\ UNCHANGED <<created, mutex, job>>
      BY <1>10 DEF Save
    <2>2. Writes(h) /\ Moves(h)
      BY <1>10, <2>1, Working DEF Save, Writes, Moves
    <2>3. QED
      BY <2>1, <2>2, ThreadStepBase
  <1>11. ASSUME NEW c \in Caller, NEW t \in Task, UserStep(c, t) PROVE Base'
    <2>1. task[t] \in Rows /\ task[t].provider <= Len(job) /\ 0 <= Len(job)
      BY DEF Base, Types
    <2>2. CASE CreateGenerationMessage(c, t)
      BY <2>1, <2>2, Statuses, CallBase DEF CreateGenerationMessage, Base, Types
    <2>3. CASE RetryGenerationTask(c, t)
      BY <2>1, <2>3, CallBase DEF RetryGenerationTask, Base, Types
    <2>4. CASE GetGenerationVideo(c, t)
      BY <2>1, <2>4, CallBase DEF GetGenerationVideo, Base, Types
    <2>5. QED
      BY <1>11, <2>2, <2>3, <2>4 DEF UserStep
  <1>12. ASSUME NEW t \in Task, Delete(t) PROVE Base'
    <2>1. task' = [task EXCEPT ![t] = Absent] /\ UNCHANGED <<created, mutex, thread, job>>
      BY <1>12 DEF Delete
    <2>2. task' \in [Task -> Rows] /\ \A u \in Task : task'[u].provider <= Len(job)
      BY <2>1, Statuses DEF Base, Types
    <2>3. \A u \in Task : Exists(u)' => Exists(u)
      BY <2>1, Statuses DEF Base, Types, Exists
    <2>4. QED
      BY <2>1, <2>2, <2>3 DEF Base, Types, Role
  <1>13. ASSUME NEW t \in Task, GoesStale(t) PROVE Base'
    BY <1>13 DEF GoesStale, Base, Types, Role, Exists
  <1>14. ASSUME NEW j \in 1 .. MaxJob, JobEnds(j) PROVE Base'
    <2>1. UNCHANGED <<task, created, mutex, thread>>
      BY <1>14 DEF JobEnds
    <2>2. job' \in Seq(Jobs) /\ Len(job') = Len(job)
      BY <1>14, JobEndsEffect
    <2>3. QED
      BY <2>1, <2>2 DEF Base, Types, Role, Exists
  <1>15. CASE UNCHANGED vars
    BY <1>15 DEF vars, Base, Types, Role, Exists
  <1>16. QED
    BY <1>1, <1>2, <1>3, <1>4, <1>5, <1>6, <1>7, <1>8, <1>9, <1>10, <1>11, <1>12, <1>13, <1>14,
       <1>15
       DEF Next, Step

\* The invariant that the theorems stand on.
THEOREM BaseAlways == Spec => []Base
  BY BaseInit, BaseStep, PTL DEF Spec

(***************************************************************************)
(* Deleted tasks.                                                          *)
(***************************************************************************)

\* A write to an existing row brings no task back.
LEMMA ExistingEffect ==
  ASSUME Types, NEW t \in Task, ~Exists(t), NEW u \in Task, NEW row, UpsertExisting(u, row)
  PROVE  task'[t] = task[t]
  <1>1. CASE Exists(u)
    BY <1>1 DEF UpsertExisting, Upsert, Types
  <1>2. CASE ~Exists(u)
    BY <1>2 DEF UpsertExisting
  <1>3. QED
    BY <1>1, <1>2

\* Only a call that claims or saves brings back a row that is not there.
LEMMA DeletedStep ==
  ASSUME Base, Next, NEW t \in Task, ~Exists(t), task'[t] # task[t]
  PROVE  \E c \in Caller : thread[c].of = t /\ thread[c].pc \in {"claim", "save"}
  <1> DEFINE ByCall == \E c \in Caller : thread[c].of = t /\ thread[c].pc \in {"claim", "save"}
  <1>1. ASSUME NEW h \in Thread, thread[h].pc # "idle", NEW row, UpsertExisting(thread[h].of, row)
        PROVE  FALSE
    BY <1>1, Working, ExistingEffect DEF Base
  <1>2. ASSUME NEW h \in Thread, thread[h].pc \in {"claim", "save"}, h \notin Task,
               NEW row, Upsert(thread[h].of, row)
        PROVE  ByCall
    <2>1. thread[h].of = t
      BY <1>2, Working DEF Upsert, Base, Types
    <2>2. QED
      BY <1>2, <2>1 DEF Thread
  <1>3. ASSUME NEW h \in Thread, Claim(h) PROVE ByCall
    <2>1. thread[h].pc = "claim" /\ Role(h)
      BY <1>3 DEF Claim, Base
    <2>2. CASE thread[h].op = "queue"
      BY <1>1, <1>3, <2>1, <2>2 DEF Claim
    <2>3. CASE thread[h].op # "queue"
      <3>1. h \notin Task
        BY <2>1, <2>3, QueueAssumption DEF Role
      <3>2. QED
        BY <1>2, <1>3, <2>1, <2>3, <3>1 DEF Claim
    <2>4. QED
      BY <2>2, <2>3
  <1>4. ASSUME NEW h \in Thread, Save(h) PROVE ByCall
    <2>1. thread[h].pc = "save" /\ Role(h)
      BY <1>4 DEF Save, Base
    <2>2. CASE thread[h].op = "poll"
      BY <1>1, <1>4, <2>1, <2>2 DEF Save
    <2>3. CASE thread[h].op # "poll"
      <3>1. h \notin Task
        BY <2>1, <2>3, QueueAssumption DEF Role, SubmitPc
      <3>2. QED
        BY <1>2, <1>4, <2>1, <2>3, <3>1 DEF Save
    <2>4. QED
      BY <2>2, <2>3
  <1>5. ASSUME NEW h \in Thread, Submit(h) \/ Answer(h) \/ GetFails(h) PROVE ByCall
    BY <1>1, <1>5 DEF Submit, Answer, GetFails, RecordError
  <1>6. ASSUME NEW u \in Task, Delete(u) PROVE ByCall
    <2>1. u = t
      BY <1>6 DEF Delete, Base, Types
    <2>2. QED
      BY <1>6, <2>1 DEF Delete
  <1>7. QED
    BY <1>3, <1>4, <1>5, <1>6
       DEF Next, Step, StartRound, Crash, Gate, Call, Get, UserStep, CreateGenerationMessage,
           RetryGenerationTask, GetGenerationVideo, GoesStale, JobEnds

\* Only a call of the user brings a deleted task back.
THEOREM DeletedAreGone == Spec => DeletedStaysDeleted
  <1>1. Base /\ [Next]_vars =>
          [\A t \in Task : ~Exists(t) /\ task'[t].status # "absent" =>
             \E c \in Caller : thread[c].of = t /\ thread[c].pc \in {"claim", "save"}]_vars
    <2>1. ASSUME Base, Next, NEW t \in Task, ~Exists(t), task'[t].status # "absent"
          PROVE  \E c \in Caller : thread[c].of = t /\ thread[c].pc \in {"claim", "save"}
      BY <2>1, DeletedStep DEF Exists
    <2>2. QED
      BY <2>1
  <1>2. QED
    BY BaseAlways, <1>1, PTL DEF Spec, DeletedStaysDeleted

(***************************************************************************)
(* One task at a time.                                                     *)
(***************************************************************************)

Works(h) == thread[h].pc # "idle"

\* Where a thread is tells what its task's row may say, unless it was deleted.
Stage(h) ==
  Works(h) =>
    /\ h \in Caller => thread[h].op = "create"
    /\ thread[h].pc = "claim" => mutex = h /\ thread[h].row.status \in {"queued", "submitting"}
    /\ thread[h].pc \in {"gate", "claim"} =>
         task[thread[h].of].status \in (IF thread[h].op = "queue" THEN {"queued", "absent"}
                                        ELSE {"absent"})
    /\ thread[h].pc \in {"submit", "call", "answer"} =>
         /\ task[thread[h].of].status \in {"submitting", "absent"}
         /\ h \in Caller => thread[h].of \notin stale
    /\ thread[h].pc \in {"get", "save"} => task[thread[h].of].status \in {"submitted", "absent"}

\* No two threads work on one task.
Alone == \A h, k \in Thread : Works(h) /\ Works(k) /\ thread[h].of = thread[k].of => h = k

\* A task that is active, or that a thread decided to submit.
Busy(t) ==
  \/ Active(t)
  \/ \E h \in Thread : /\ thread[h].pc = "claim" /\ thread[h].of = t
                       /\ thread[h].row.status = "submitting"

OneBusy == \A t, u \in Task : Busy(t) /\ Busy(u) => t = u

QueueInv == Undisturbed => (\A h \in Thread : Stage(h)) /\ Alone /\ OneBusy

\* What a step of a working thread leaves of the others.
LEMMA OthersStay ==
  ASSUME Base, \A k \in Thread : Stage(k), Alone, NEW h \in Thread, Works(h),
         \A k \in Thread \ {h} : thread'[k] = thread[k],
         \A t \in Task \ {thread[h].of} : task'[t] = task[t],
         stale' \subseteq stale,
         mutex' = mutex \/ mutex \in {h, NoThread},
         ~Works(h)' \/ thread'[h].of = thread[h].of
  PROVE  /\ \A k \in Thread \ {h} : Stage(k)'
         /\ Alone'
  <1>1. ASSUME NEW k \in Thread \ {h} PROVE Stage(k)'
    <2>1. CASE Works(k)
      <3>1. thread[k].of \in Task /\ thread[k].of # thread[h].of
        BY <2>1, Working DEF Alone, Works
      <3>2. mutex = k => mutex' = k
        BY QueueAssumption
      <3>3. QED
        BY <3>1, <3>2 DEF Stage, Works
    <2>2. CASE ~Works(k)
      BY <2>2 DEF Stage, Works
    <2>3. QED
      BY <2>1, <2>2
  <1>2. Alone'
    BY DEF Alone, Works
  <1>3. QED
    BY <1>1, <1>2

\* A step of a thread after its decision makes nothing busy that was not.
LEMMA BusyStays ==
  ASSUME Base, OneBusy, NEW h \in Thread, Works(h),
         \A k \in Thread \ {h} : thread'[k] = thread[k],
         \A t \in Task \ {thread[h].of} : task'[t] = task[t],
         thread'[h].pc # "claim",
         task'[thread[h].of].status \in {"submitting", "submitted"} => Busy(thread[h].of)
  PROVE  OneBusy'
  <1>1. ASSUME NEW t \in Task, Busy(t)' PROVE Busy(t)
    <2>1. CASE t = thread[h].of /\ Active(t)'
      BY <2>1 DEF Active
    <2>2. CASE t # thread[h].of /\ Active(t)'
      BY <2>2 DEF Active, Busy
    <2>3. CASE \E k \in Thread : /\ thread'[k].pc = "claim" /\ thread'[k].of = t
                                 /\ thread'[k].row.status = "submitting"
      BY <2>3 DEF Busy
    <2>4. QED
      BY <1>1, <2>1, <2>2, <2>3 DEF Busy
  <1>2. QED
    BY <1>1 DEF OneBusy

\* A write to the row of a task that exists.
LEMMA ExistingWrite ==
  ASSUME Base, NEW h \in Thread, Works(h), NEW row \in Rows, UpsertExisting(thread[h].of, row)
  PROVE  /\ \A t \in Task \ {thread[h].of} : task'[t] = task[t]
         /\ Exists(thread[h].of) =>
              task'[thread[h].of] = row /\ stale' = stale \ {thread[h].of}
         /\ ~Exists(thread[h].of) => task' = task /\ stale' = stale
  <1>1. thread[h].of \in Task
    BY Working DEF Works
  <1>2. QED
    BY <1>1 DEF UpsertExisting, Upsert, Base, Types

\* Gate leaves the rows alone, and one thread per task: who goes on to claim
\* has the mutex.
LEMMA GateQueue ==
  ASSUME Base, \A k \in Thread : Stage(k), Alone, OneBusy, NEW h \in Thread, Gate(h)
  PROVE  (\A k \in Thread : Stage(k)') /\ Alone' /\ OneBusy'
  <1>1. /\ thread[h].pc = "gate" /\ Works(h) /\ Stage(h)
        /\ mutex = NoThread /\ UNCHANGED <<task, stale>>
    BY DEF Gate, Works
  <1>2. CASE Stops(h) /\ mutex' = mutex
    <2>1. thread'[h] = Idle /\ \A k \in Thread \ {h} : thread'[k] = thread[k]
      BY <1>2, StopsEffect DEF Base
    <2>2. thread'[h].pc = "idle"
      BY <2>1, Statuses
    <2>3. Stage(h)' /\ ~Works(h)'
      BY <2>2 DEF Stage, Works
    <2>4. OneBusy'
      <3>1. task'[thread[h].of].status \in {"submitting", "submitted"} => Busy(thread[h].of)
        BY <1>1 DEF Active, Busy
      <3>2. QED
        BY <1>1, <2>1, <2>2, <3>1, BusyStays
    <2>5. QED
      BY <1>1, <1>2, <2>1, <2>3, <2>4, OthersStay
  <1>3. ASSUME NEW s \in {"queued", "submitting"}, mutex' = h,
               Goes(h, "claim", [status |-> s, provider |-> 0]),
               s = "submitting" => \A u \in Task \ {thread[h].of} : ~Active(u)
        PROVE  (\A k \in Thread : Stage(k)') /\ Alone' /\ OneBusy'
    <2>1. [status |-> s, provider |-> 0] \in Rows
      BY Statuses DEF Rows
    <2>2. /\ thread'[h].pc = "claim" /\ thread'[h].row.status = s
          /\ thread'[h].op = thread[h].op /\ thread'[h].of = thread[h].of
          /\ \A k \in Thread \ {h} : thread'[k] = thread[k]
      BY <1>3, <2>1, GoesEffect DEF Base, Pc
    <2>3. Stage(h)'
      BY <1>1, <1>3, <2>2 DEF Stage, Works
    <2>4. \A k \in Thread : thread[k].pc # "claim"
      BY <1>1, QueueAssumption DEF Stage, Works
    <2>5. CASE s = "queued"
      <3>1. \A t \in Task : Busy(t)' => Busy(t)
        BY <1>1, <2>2, <2>4, <2>5 DEF Busy, Active
      <3>2. QED
        BY <1>1, <1>3, <2>2, <2>3, <3>1, OthersStay DEF OneBusy
    <2>6. CASE s = "submitting"
      <3>1. \A t \in Task : Busy(t)' => t = thread[h].of
        BY <1>1, <1>3, <2>2, <2>4, <2>6 DEF Busy, Active
      <3>2. QED
        BY <1>1, <1>3, <2>2, <2>3, <3>1, OthersStay DEF OneBusy
    <2>7. QED
      BY <2>5, <2>6
  <1>4. QED
    <2>1. CASE thread[h].op = "queue" /\ ~QueuedTaskCanSubmit(thread[h].of)
      BY <1>2, <2>1 DEF Gate
    <2>2. CASE thread[h].op # "queue" /\ QueueBlocked(thread[h].of)
      <3>1. mutex' = h /\ Goes(h, "claim", [status |-> "queued", provider |-> 0])
        BY <2>2 DEF Gate
      <3>2. QED
        BY <1>3, <3>1
    <2>3. CASE \/ thread[h].op # "queue" /\ ~QueueBlocked(thread[h].of)
               \/ thread[h].op = "queue" /\ QueuedTaskCanSubmit(thread[h].of)
      <3>1. mutex' = h /\ Goes(h, "claim", [status |-> "submitting", provider |-> 0])
        BY <2>3 DEF Gate
      <3>2. \A u \in Task \ {thread[h].of} : ~Active(u)
        BY <2>3 DEF QueueBlocked, QueuedTaskCanSubmit
      <3>3. QED
        BY <1>3, <3>1, <3>2
    <2>4. QED
      BY <2>1, <2>2, <2>3

\* Claim makes its row submitting only where Gate saw no active row, and the
\* mutex kept it so.
LEMMA ClaimQueue ==
  ASSUME Base, \A k \in Thread : Stage(k), Alone, OneBusy, NEW h \in Thread, Claim(h)
  PROVE  (\A k \in Thread : Stage(k)') /\ Alone' /\ OneBusy'
  <1> DEFINE t == thread[h].of
             row == thread[h].row
  <1>1. /\ thread[h].pc = "claim" /\ Works(h) /\ Stage(h)
        /\ mutex' = NoThread /\ mutex = h
        /\ t \in Task /\ row \in Rows /\ row.provider <= Len(job)
        /\ row.status \in {"queued", "submitting"}
    BY Working DEF Claim, Works, Stage
  <1>2. /\ \A u \in Task \ {t} : task'[u] = task[u]
        /\ stale' \subseteq stale
        /\ \/ task'[t] = row /\ t \notin stale'
           \/ task'[t] = task[t] /\ ~Exists(t) /\ thread[h].op = "queue"
    <2>1. CASE thread[h].op = "queue"
      <3>1. UpsertExisting(t, row)
        BY <2>1 DEF Claim
      <3>2. QED
        BY <1>1, <2>1, <3>1, ExistingWrite
    <2>2. CASE thread[h].op # "queue"
      BY <1>1, <2>2 DEF Claim, Upsert, Base, Types
    <2>3. QED
      BY <2>1, <2>2
  <1>3. task'[t].status \in {"submitting", "submitted"} => Busy(t)
    BY <1>1, <1>2 DEF Busy, Exists
  <1>4. CASE row.status = "queued" \/ (thread[h].op = "queue" /\ ~Exists(t))
    <2>1. Stops(h)
      BY <1>4 DEF Claim
    <2>2. thread'[h].pc = "idle" /\ \A k \in Thread \ {h} : thread'[k] = thread[k]
      BY <2>1, StopsEffect, Statuses DEF Base
    <2>3. Stage(h)' /\ ~Works(h)'
      BY <2>2 DEF Stage, Works
    <2>4. OneBusy'
      BY <1>1, <1>2, <1>3, <2>2, BusyStays
    <2>5. QED
      BY <1>1, <1>2, <2>2, <2>3, <2>4, OthersStay
  <1>5. CASE ~(row.status = "queued" \/ (thread[h].op = "queue" /\ ~Exists(t)))
    <2>1. Goes(h, "submit", row)
      BY <1>5 DEF Claim
    <2>2. /\ thread'[h].pc = "submit" /\ thread'[h].of = t /\ thread'[h].op = thread[h].op
          /\ \A k \in Thread \ {h} : thread'[k] = thread[k]
      BY <1>1, <2>1, GoesEffect DEF Base, Pc
    <2>3. task'[t].status = "submitting" /\ t \notin stale'
      BY <1>1, <1>2, <1>5
    <2>4. Stage(h)'
      BY <1>1, <2>2, <2>3 DEF Stage, Works
    <2>5. OneBusy'
      BY <1>1, <1>2, <1>3, <2>2, BusyStays
    <2>6. QED
      BY <1>1, <1>2, <2>2, <2>4, <2>5, OthersStay
  <1>6. QED
    BY <1>4, <1>5

\* The steps after the decision, and those of a poll, write an existing row
\* only, and never one that was not active.
LEMMA WorkQueue ==
  ASSUME Base, \A k \in Thread : Stage(k), Alone, OneBusy, NEW h \in Thread, Works(h),
         NEW row \in Rows,
         UNCHANGED <<task, stale>> \/ UpsertExisting(thread[h].of, row),
         UNCHANGED mutex,
         thread[h].pc \in {"submit", "call", "answer", "get", "save"},
         \/ Stops(h)
         \/ \E pc \in Pc, next \in Rows :
              /\ Goes(h, pc, next)
              /\ \/ pc = "call" /\ thread[h].pc = "submit" /\ row.status = "submitting"
                 \/ pc = "answer" /\ thread[h].pc = "call" /\ UNCHANGED <<task, stale>>
                 \/ pc = "save" /\ thread[h].pc = "get" /\ UNCHANGED <<task, stale>>
  PROVE  (\A k \in Thread : Stage(k)') /\ Alone' /\ OneBusy'
  <1> DEFINE t == thread[h].of
  <1>1. Stage(h) /\ t \in Task
    BY Working DEF Works
  <1>2. Exists(t) => Active(t)
    BY <1>1 DEF Stage, Works, Exists, Active
  <1>3. /\ \A u \in Task \ {t} : task'[u] = task[u]
        /\ stale' \subseteq stale
        /\ Exists(t) \/ task'[t] = task[t]
    BY ExistingWrite
  <1>4. task'[t].status \in {"submitting", "submitted"} => Busy(t)
    BY <1>2, <1>3 DEF Busy, Exists
  <1>5. CASE Stops(h)
    <2>1. thread'[h].pc = "idle" /\ \A k \in Thread \ {h} : thread'[k] = thread[k]
      BY <1>5, StopsEffect, Statuses DEF Base
    <2>2. Stage(h)' /\ ~Works(h)'
      BY <2>1 DEF Stage, Works
    <2>3. OneBusy'
      BY <1>3, <1>4, <2>1, BusyStays
    <2>4. QED
      BY <1>3, <2>1, <2>2, <2>3, OthersStay
  <1>6. ASSUME NEW pc \in Pc, NEW next \in Rows, Goes(h, pc, next),
               \/ pc = "call" /\ thread[h].pc = "submit" /\ row.status = "submitting"
               \/ pc = "answer" /\ thread[h].pc = "call" /\ UNCHANGED <<task, stale>>
               \/ pc = "save" /\ thread[h].pc = "get" /\ UNCHANGED <<task, stale>>
        PROVE  (\A k \in Thread : Stage(k)') /\ Alone' /\ OneBusy'
    <2>1. /\ thread'[h].pc = pc /\ thread'[h].of = t /\ thread'[h].op = thread[h].op
          /\ \A k \in Thread \ {h} : thread'[k] = thread[k]
      BY <1>6, GoesEffect DEF Base
    <2>2. CASE pc = "call"
      <3>1. task'[t].status \in {"submitting", "absent"}
        BY <1>1, <1>6, <2>2, ExistingWrite DEF Stage, Works
      <3>2. QED
        BY <1>1, <1>3, <1>4, <1>6, <2>1, <2>2, <3>1, OthersStay, BusyStays DEF Stage, Works
    <2>3. CASE pc # "call"
      <3>1. Stage(h)'
        BY <1>1, <1>6, <2>1, <2>3 DEF Stage, Works
      <3>2. OneBusy'
        BY <1>3, <1>4, <1>6, <2>1, BusyStays
      <3>3. QED
        BY <1>3, <2>1, <3>1, <3>2, OthersStay
    <2>4. QED
      BY <2>2, <2>3
  <1>7. QED
    BY <1>5, <1>6

\* A round takes up no task that a call works on.
LEMMA RoundQueue ==
  ASSUME Base, \A k \in Thread : Stage(k), Alone, OneBusy, StartRound
  PROVE  (\A k \in Thread : Stage(k)') /\ Alone' /\ OneBusy'
  <1>1. UNCHANGED <<task, stale, mutex>>
    BY DEF StartRound
  <1>2. ASSUME NEW h \in ListPending, thread'[h] = Polled(h), Works(h)'
        PROVE  /\ h \in Task /\ thread'[h].of = h /\ thread'[h].pc # "claim"
               /\ Stage(h)'
    <2>1. h \in Task /\ (Active(h) \/ Queued(h)) /\ h \notin Caller
      BY Listed, QueueAssumption
    <2>2. QED
      BY <1>1, <1>2, <2>1, PolledPlace DEF Stage, Works, Queued
  <1>3. ASSUME NEW h \in ListPending, NEW k \in Thread, Works(k), thread[k].of = h
        PROVE  k = h
    <2>1. h \in Task /\ (Active(h) \/ Queued(h)) /\ ~WaitsForSubmission(h)
      BY Listed
    <2>2. CASE k \in Task
      BY <1>3, <2>2 DEF Base, Role, Works
    <2>3. CASE k \in Caller
      <3>1. thread[k].pc \in SubmitPc /\ thread[k].op = "create"
        BY <1>3, <2>3, QueueAssumption DEF Base, Role, Stage, Works
      <3>2. task[h].status \in {"absent"} \/ (task[h].status \in {"absent", "submitting"} /\ h \notin stale)
        BY <1>3, <2>3, <3>1 DEF Stage, Works, SubmitPc
      <3>3. QED
        BY <2>1, <3>2 DEF Active, Queued, WaitsForSubmission
    <2>4. QED
      BY <2>2, <2>3 DEF Thread
  <1>4. \A h \in Thread : Stage(h)'
    <2> TAKE h \in Thread
    <2>1. CASE thread'[h] = thread[h]
      BY <1>1, <2>1 DEF Stage, Works
    <2>2. CASE h \in ListPending /\ thread'[h] = Polled(h)
      BY <1>2, <2>2 DEF Stage, Works
    <2>3. QED
      BY <2>1, <2>2, RoundEffect
  <1>5. ASSUME NEW h \in Thread, NEW k \in Thread, Works(h)', Works(k)', thread'[h].of = thread'[k].of
        PROVE  h = k
    <2>1. CASE thread'[h] = thread[h] /\ thread'[k] = thread[k]
      BY <1>5, <2>1 DEF Alone, Works
    <2>2. CASE h \in ListPending /\ thread'[h] = Polled(h) /\ k \in ListPending /\ thread'[k] = Polled(k)
      BY <1>2, <1>5, <2>2
    <2>3. CASE h \in ListPending /\ thread'[h] = Polled(h) /\ thread'[k] = thread[k]
      BY <1>2, <1>3, <1>5, <2>3 DEF Works
    <2>4. CASE k \in ListPending /\ thread'[k] = Polled(k) /\ thread'[h] = thread[h]
      BY <1>2, <1>3, <1>5, <2>4 DEF Works
    <2>5. QED
      BY <2>1, <2>2, <2>3, <2>4, RoundEffect
  <1>6. \A t \in Task : Busy(t)' => Busy(t)
    <2>1. \A h \in Thread : thread'[h].pc = "claim" => thread'[h] = thread[h]
      BY <1>2, RoundEffect DEF Works
    <2>2. QED
      BY <1>1, <2>1 DEF Busy, Active
  <1>7. QED
    BY <1>4, <1>5, <1>6 DEF Alone, OneBusy

\* A new task is nobody's.
LEMMA CreateQueue ==
  ASSUME Base, \A k \in Thread : Stage(k), Alone, OneBusy, NEW c \in Caller, NEW t \in Task,
         CreateGenerationMessage(c, t)
  PROVE  (\A k \in Thread : Stage(k)') /\ Alone' /\ OneBusy'
  <1>1. /\ c \in Thread /\ t \notin created /\ UNCHANGED <<task, stale, mutex>>
        /\ task[t].status = "absent"
    BY DEF CreateGenerationMessage, New, Thread, Base, Exists
  <1>2. /\ thread'[c] = [pc |-> "gate", op |-> "create", of |-> t, row |-> Absent]
        /\ \A k \in Thread \ {c} : thread'[k] = thread[k]
    BY <1>1 DEF CreateGenerationMessage, Base, Types
  <1>3. \A k \in Thread : Works(k) => thread[k].of # t
    BY <1>1, Working DEF Works
  <1>4. \A k \in Thread : Stage(k)'
    BY <1>1, <1>2 DEF Stage, Works
  <1>5. Alone'
    BY <1>2, <1>3 DEF Alone, Works
  <1>6. \A u \in Task : Busy(u)' => Busy(u)
    BY <1>1, <1>2 DEF Busy, Active
  <1>7. QED
    BY <1>4, <1>5, <1>6 DEF OneBusy

\* No step makes two clips active while no user disturbs the queue.
LEMMA QueueStep ==
  ASSUME SlowSubmission = FALSE, Base, Undisturbed, Undisturbed',
         \A k \in Thread : Stage(k), Alone, OneBusy, Next
  PROVE  (\A k \in Thread : Stage(k)') /\ Alone' /\ OneBusy'
  <1> DEFINE Kept == (\A k \in Thread : Stage(k)') /\ Alone' /\ OneBusy'
  <1>1. CASE Crash
    <2>1. \A h \in Thread : thread'[h].pc = "idle"
      BY <1>1, Statuses DEF Crash
    <2>2. task' = task
      BY <1>1 DEF Crash
    <2>3. QED
      BY <2>1, <2>2 DEF Stage, Works, Alone, OneBusy, Busy, Active
  <1>2. ASSUME NEW h \in Thread, Submit(h) PROVE Kept
    <2>1. thread[h].pc = "submit" /\ Works(h) /\ UNCHANGED mutex
      BY <1>2 DEF Submit, Works
    <2>2. /\ [thread[h].row EXCEPT !.status = "submitting"] \in Rows
          /\ [thread[h].row EXCEPT !.status = "submitting"].status = "submitting"
      BY <2>1, Working, Statuses, RowWith
    <2>3. QED
      BY <1>2, <2>1, <2>2, WorkQueue DEF Submit, Pc
  <1>3. ASSUME NEW h \in Thread, Call(h) PROVE Kept
    <2>1. thread[h].pc = "call" /\ Works(h) /\ UNCHANGED <<task, stale, mutex>>
      BY <1>3 DEF Call, Works
    <2>2. /\ [thread[h].row EXCEPT !.status = "failed"] \in Rows
          /\ \A s \in JobStatus : [status |-> s, provider |-> Len(job) + 1] \in Rows
      <3>1. "failed" \in Status /\ JobStatus \subseteq Status /\ Len(job) + 1 \in Nat
        BY Statuses DEF Base, Types
      <3>2. QED
        BY <2>1, <3>1, Working, RowWith DEF Rows
    <2>3. PICK next \in Rows : Goes(h, "answer", next)
      BY <1>3, <2>2 DEF Call
    <2>4. QED
      BY <2>1, <2>3, Statuses, WorkQueue DEF Pc
  <1>4. ASSUME NEW h \in Thread, Answer(h) PROVE Kept
    BY <1>4, Working, WorkQueue DEF Answer, Works
  <1>5. ASSUME NEW h \in Thread, Get(h) PROVE Kept
    <2>1. thread[h].pc = "get" /\ Works(h) /\ UNCHANGED <<task, stale, mutex>>
      BY <1>5 DEF Get, Works
    <2>2. thread[h].row.provider \in 1 .. Len(job) /\ job \in Seq(Jobs)
      BY <2>1, Working DEF Base, Types, Rows
    <2>3. job[thread[h].row.provider] \in Jobs
      BY <2>2
    <2>4. [thread[h].row EXCEPT !.status = job[thread[h].row.provider].status] \in Rows
      BY <2>1, <2>3, Working, RowWith, Statuses DEF Jobs
    <2>5. PICK next \in Rows : Goes(h, "save", next)
      BY <1>5, <2>4 DEF Get
    <2>6. QED
      BY <2>1, <2>5, Statuses, WorkQueue DEF Pc
  <1>6. ASSUME NEW h \in Thread, GetFails(h) PROVE Kept
    <2>1. thread[h].pc = "get" /\ Works(h) /\ Stops(h) /\ UNCHANGED mutex
      BY <1>6 DEF GetFails, Works
    <2>2. UNCHANGED <<task, stale>> \/ UpsertExisting(thread[h].of, task[thread[h].of])
      BY <1>6 DEF GetFails, RecordError
    <2>3. QED
      BY <2>1, <2>2, Working, WorkQueue
  <1>7. ASSUME NEW h \in Thread, Save(h) PROVE Kept
    <2>1. thread[h].pc = "save" /\ Works(h) /\ Stops(h) /\ UNCHANGED mutex
      BY <1>7 DEF Save, Works
    <2>2. thread[h].op = "poll"
      BY <2>1, QueueAssumption DEF Base, Role, Stage, Works, SubmitPc
    <2>3. UpsertExisting(thread[h].of, thread[h].row)
      BY <1>7, <2>2 DEF Save
    <2>4. QED
      BY <2>1, <2>3, Working, WorkQueue
  <1>8. ASSUME NEW c \in Caller, NEW t \in Task, UserStep(c, t) PROVE Kept
    BY <1>8, CreateQueue DEF UserStep, RetryGenerationTask, GetGenerationVideo, Mishap, Undisturbed
  <1>9. ASSUME NEW t \in Task, Delete(t) PROVE Kept
    <2>1. /\ UNCHANGED <<mutex, thread>> /\ stale' \subseteq stale
          /\ \A u \in Task : task'[u] = task[u] \/ task'[u].status = "absent"
      BY <1>9, Statuses DEF Delete, Base, Types
    <2>2. \A k \in Thread : Stage(k)'
      BY <2>1, Working DEF Stage, Works
    <2>3. \A u \in Task : Busy(u)' => Busy(u)
      BY <2>1 DEF Busy, Active
    <2>4. QED
      BY <2>1, <2>2, <2>3 DEF Alone, OneBusy, Works
  <1>10. ASSUME NEW t \in Task, GoesStale(t) PROVE Kept
    <2>1. /\ UNCHANGED <<task, mutex, thread>> /\ stale' = stale \cup {t}
          /\ \A h \in Thread : ~Submitting(h, t)
      BY <1>10 DEF GoesStale
    <2>2. \A k \in Thread : Stage(k)'
      BY <2>1 DEF Stage, Works, Submitting
    <2>3. QED
      BY <2>1, <2>2 DEF Alone, OneBusy, Busy, Active, Works
  <1>11. ASSUME NEW j \in 1 .. MaxJob, JobEnds(j) PROVE Kept
    BY <1>11 DEF JobEnds, Stage, Alone, OneBusy, Busy, Active, Works
  <1>12. QED
    BY <1>1, <1>2, <1>3, <1>4, <1>5, <1>6, <1>7, <1>8, <1>9, <1>10, <1>11, RoundQueue, GateQueue,
       ClaimQueue
       DEF Next, Step

\* The provider works on one task of the queue at a time, unless a user
\* retries or refreshes one, as long as no submission outlasts the delay
\* after which it is tried again.
THEOREM OneAtATime == SlowSubmission = FALSE => (Spec => []OneActiveTask)
  <1> SUFFICES ASSUME SlowSubmission = FALSE PROVE Spec => []OneActiveTask
    OBVIOUS
  <1>1. Init => QueueInv
    <2> SUFFICES ASSUME Init PROVE QueueInv
      OBVIOUS
    <2>1. \A h \in Thread : thread[h].pc = "idle"
      BY Statuses DEF Init
    <2>2. \A t \in Task : ~Active(t)
      BY Statuses DEF Init, Active
    <2>3. QED
      BY <2>1, <2>2 DEF QueueInv, Stage, Works, Alone, OneBusy, Busy
  <1>2. Base /\ QueueInv /\ [Next]_vars => QueueInv'
    <2> SUFFICES ASSUME Base, QueueInv, [Next]_vars, Undisturbed'
                 PROVE  (\A h \in Thread : Stage(h)') /\ Alone' /\ OneBusy'
      BY DEF QueueInv
    <2>1. CASE UNCHANGED vars
      BY <2>1 DEF vars, QueueInv, Undisturbed, Stage, Works, Alone, OneBusy, Busy, Active
    <2>2. CASE Next
      <3>1. mishaps \subseteq mishaps'
        BY <2>2
           DEF Next, Step, Mishap, StartRound, Crash, Gate, Claim, Submit, Call, Answer, Get, Save,
               GetFails, UserStep, CreateGenerationMessage, RetryGenerationTask,
               GetGenerationVideo, Delete, GoesStale, JobEnds
      <3>2. Undisturbed
        BY <3>1 DEF Undisturbed
      <3>3. QED
        BY <2>2, <3>2, QueueStep DEF QueueInv
    <2>3. QED
      BY <2>1, <2>2
  <1>3. QueueInv => OneActiveTask
    BY DEF QueueInv, OneBusy, Busy, OneActiveTask
  <1>4. QED
    BY BaseAlways, <1>1, <1>2, <1>3, PTL DEF Spec

-----------------------------------------------------------------------------
(* The order of the rows *)

\* A list of different tasks without one of them.
LEMMA WithoutOne ==
  ASSUME NEW list \in Seq(Task), IsInjective(list), NEW t \in Task
  PROVE  /\ Without(list, t) \in Seq(Task) /\ IsInjective(Without(list, t))
         /\ ToSet(Without(list, t)) = ToSet(list) \ {t}
  <1> DEFINE at == {i \in DOMAIN list : list[i] = t}
  <1>1. CASE at = {}
    <2>1. Without(list, t) = list
      BY <1>1 DEF Without
    <2>2. t \notin ToSet(list)
      BY <1>1 DEF ToSet
    <2>3. QED
      BY <2>1, <2>2
  <1>2. CASE at # {}
    <2> DEFINE i == CHOOSE k \in at : TRUE
               rest == RemoveAt(list, i)
    <2>1. i \in at
      BY <1>2
    <2>2. Without(list, t) = rest
      BY <1>2 DEF Without
    <2> HIDE DEF i
    <2>3. i \in 1 .. Len(list) /\ list[i] = t /\ Len(list) \in Nat
      BY <2>1
    <2>4. /\ rest \in Seq(Task) /\ Len(rest) = Len(list) - 1
          /\ \A j \in 1 .. Len(list) - 1 : rest[j] = IF j < i THEN list[j] ELSE list[j + 1]
      <3> DEFINE a == SubSeq(list, 1, i - 1)
                 b == SubSeq(list, i + 1, Len(list))
      <3>1. /\ a \in Seq(Task) /\ Len(a) = i - 1
            /\ \A j \in 1 .. i - 1 : a[j] = list[j]
        BY <2>3
      <3>2. /\ b \in Seq(Task) /\ Len(b) = Len(list) - i
            /\ \A j \in 1 .. Len(list) - i : b[j] = list[i + j]
        BY <2>3
      <3>3. rest = a \o b
        BY DEF RemoveAt
      <3> HIDE DEF a, b, rest
      <3>4. rest \in Seq(Task) /\ Len(rest) = Len(list) - 1
        BY <2>3, <3>1, <3>2, <3>3
      <3>5. ASSUME NEW j \in 1 .. Len(list) - 1
            PROVE  rest[j] = IF j < i THEN list[j] ELSE list[j + 1]
        <4>1. CASE j < i
          BY <2>3, <3>1, <3>2, <3>3, <4>1
        <4>2. CASE ~(j < i)
          <5>1. rest[j] = b[j - (i - 1)] /\ j - (i - 1) \in 1 .. Len(list) - i
            BY <2>3, <3>1, <3>2, <3>3, <4>2
          <5>2. i + (j - (i - 1)) = j + 1
            BY <2>3
          <5>3. QED
            BY <3>2, <4>2, <5>1, <5>2
        <4>3. QED
          BY <4>1, <4>2
      <3>6. QED
        BY <3>4, <3>5
    <2> HIDE DEF rest, at
    <2>5. DOMAIN rest = 1 .. Len(list) - 1 /\ DOMAIN list = 1 .. Len(list)
      BY <2>4
    <2>6. IsInjective(rest)
      <3>1. ASSUME NEW j \in 1 .. Len(list) - 1, NEW k \in 1 .. Len(list) - 1, rest[j] = rest[k]
            PROVE  j = k
        <4> DEFINE at1 == IF j < i THEN j ELSE j + 1
                   at2 == IF k < i THEN k ELSE k + 1
        <4>1. at1 \in 1 .. Len(list) /\ at2 \in 1 .. Len(list) /\ list[at1] = list[at2]
          BY <2>3, <2>4, <3>1
        <4>2. at1 = at2
          BY <2>5, <4>1 DEF IsInjective
        <4>3. QED
          BY <2>3, <4>2
      <3>2. QED
        BY <2>5, <3>1 DEF IsInjective
    <2>7. ASSUME NEW u \in ToSet(rest)
          PROVE  u \in ToSet(list) \ {t}
      <3>1. PICK j \in 1 .. Len(list) - 1 : u = rest[j]
        BY <2>5 DEF ToSet
      <3>2. PICK k \in 1 .. Len(list) : u = list[k] /\ k # i
        BY <2>3, <2>4, <3>1
      <3>3. QED
        BY <2>3, <2>5, <3>2 DEF ToSet, IsInjective
    <2>8. ASSUME NEW u \in ToSet(list) \ {t}
          PROVE  u \in ToSet(rest)
      <3>1. PICK k \in 1 .. Len(list) : u = list[k]
        BY <2>5 DEF ToSet
      <3>2. PICK j \in 1 .. Len(list) - 1 : u = rest[j]
        <4>1. CASE k < i
          BY <2>3, <2>4, <3>1, <4>1
        <4>2. CASE k > i
          <5>1. k - 1 \in 1 .. Len(list) - 1 /\ ~(k - 1 < i) /\ (k - 1) + 1 = k
            BY <2>3, <3>1, <4>2
          <5>2. rest[k - 1] = list[k]
            BY <2>4, <5>1
          <5>3. QED
            BY <3>1, <5>1, <5>2
        <4>3. QED
          BY <2>3, <3>1, <4>1, <4>2
      <3>3. QED
        BY <2>5, <3>2 DEF ToSet
    <2>9. QED
      BY <2>2, <2>4, <2>6, <2>7, <2>8
  <1>3. QED
    BY <1>1, <1>2

\* And with it again, at the end.
LEMMA AtTheEnd ==
  ASSUME NEW list \in Seq(Task), IsInjective(list), NEW t \in Task, t \notin ToSet(list)
  PROVE  /\ Append(list, t) \in Seq(Task) /\ IsInjective(Append(list, t))
         /\ ToSet(Append(list, t)) = ToSet(list) \cup {t}
  <1> DEFINE more == Append(list, t)
  <1>1. /\ more \in Seq(Task) /\ Len(list) \in Nat /\ Len(more) = Len(list) + 1
        /\ more[Len(list) + 1] = t /\ \A i \in 1 .. Len(list) : more[i] = list[i]
    OBVIOUS
  <1> HIDE DEF more
  <1>2. DOMAIN more = 1 .. Len(list) + 1 /\ DOMAIN list = 1 .. Len(list)
    BY <1>1
  <1>3. IsInjective(more)
    BY <1>1, <1>2 DEF IsInjective, ToSet
  <1>4. ToSet(more) = ToSet(list) \cup {t}
    BY <1>1, <1>2 DEF ToSet
  <1>5. QED
    BY <1>1, <1>3, <1>4 DEF more

\* The rows are the list's tasks, each once; what is stale is being submitted;
\* jobs and mishaps keep their bounds.
OrderOk ==
  /\ order \in Seq(Task) /\ IsInjective(order) /\ ToSet(order) = {t \in Task : Exists(t)}
  /\ stale \subseteq {t \in Task : task[t].status = "submitting"}

BoundsOk ==
  /\ Len(job) <= MaxJob
  /\ mishaps \subseteq {"retry", "refresh", "crash", "error"}

\* A row that is about to be written is there.
RowOk(h) == thread[h].pc \in {"claim", "answer", "save"} => thread[h].row.status # "absent"

OrderInv == OrderOk /\ BoundsOk /\ \A h \in Thread : RowOk(h)

\* A write puts the row at the end of the list, or leaves the list alone.
LEMMA WriteOrder ==
  ASSUME Base, OrderOk, NEW t \in Task, NEW row \in Rows, row.status # "absent",
         Upsert(t, row) \/ UpsertExisting(t, row)
  PROVE  OrderOk'
  <1>1. task \in [Task -> Rows]
    BY DEF Base, Types
  <1>2. CASE Upsert(t, row)
    <2>1. /\ Without(order, t) \in Seq(Task) /\ IsInjective(Without(order, t))
          /\ ToSet(Without(order, t)) = ToSet(order) \ {t}
      BY WithoutOne DEF OrderOk
    <2>2. /\ order' \in Seq(Task) /\ IsInjective(order')
          /\ ToSet(order') = (ToSet(order) \ {t}) \cup {t}
      BY <1>2, <2>1, AtTheEnd DEF Upsert
    <2>3. task'[t] = row /\ \A u \in Task \ {t} : task'[u] = task[u]
      BY <1>1, <1>2 DEF Upsert
    <2>4. ToSet(order') = {u \in Task : Exists(u)'}
      BY <2>2, <2>3 DEF OrderOk, Exists
    <2>5. stale' \subseteq {u \in Task : task'[u].status = "submitting"}
      BY <1>2, <2>3 DEF OrderOk, Upsert
    <2>6. QED
      BY <2>2, <2>4, <2>5 DEF OrderOk
  <1>3. CASE UNCHANGED <<task, order, stale>>
    BY <1>3 DEF OrderOk, Exists
  <1>4. QED
    BY <1>2, <1>3 DEF UpsertExisting

\* A step that leaves the rows alone.
LEMMA RowsAlone ==
  ASSUME OrderOk, UNCHANGED <<task, order, stale>>
  PROVE  OrderOk'
  BY DEF OrderOk, Exists

\* A deleted row leaves the list.
LEMMA DeleteOrder ==
  ASSUME Base, OrderOk, NEW t \in Task, Delete(t)
  PROVE  OrderOk'
  <1>1. /\ order' \in Seq(Task) /\ IsInjective(order') /\ ToSet(order') = ToSet(order) \ {t}
    BY WithoutOne DEF OrderOk, Delete
  <1>2. task'[t] = Absent /\ \A u \in Task \ {t} : task'[u] = task[u]
    BY DEF Base, Types, Delete
  <1>3. ToSet(order') = {u \in Task : Exists(u)'}
    BY <1>1, <1>2, Statuses DEF OrderOk, Exists
  <1>4. stale' \subseteq {u \in Task : task'[u].status = "submitting"}
    BY <1>2 DEF OrderOk, Delete
  <1>5. QED
    BY <1>1, <1>3, <1>4 DEF OrderOk

\* Threads that do not move keep what they are about to write.
LEMMA RowsKept ==
  ASSUME \A h \in Thread : RowOk(h), NEW h \in Thread, RowOk(h)',
         \A k \in Thread \ {h} : thread'[k] = thread[k]
  PROVE  \A k \in Thread : RowOk(k)'
  BY DEF RowOk

\* A thread's step writes a row that is there, or none.
LEMMA StepOrder ==
  ASSUME Base, OrderInv, NEW h \in Thread, Step(h) \/ GetFails(h)
  PROVE  OrderInv'
  <1> DEFINE t == thread[h].of
  <1>1. /\ t \in Task /\ thread[h].row \in Rows /\ task[t] \in Rows
        /\ job \in Seq(Jobs) /\ Types /\ RowOk(h) /\ Len(job) \in Nat
    BY Working DEF Step, Gate, Claim, Submit, Call, Answer, Get, GetFails, Save, Base, Types,
                   OrderInv
  <1>2. ASSUME Stops(h) PROVE \A k \in Thread : RowOk(k)'
    BY <1>1, <1>2, StopsEffect, RowsKept, Statuses DEF RowOk, OrderInv
  <1>3. ASSUME NEW pc \in Pc, NEW row \in Rows, Goes(h, pc, row), row.status # "absent"
        PROVE  \A k \in Thread : RowOk(k)'
    BY <1>1, <1>3, GoesEffect, RowsKept DEF RowOk, OrderInv
  <1>4. CASE Gate(h)
    <2>1. OrderOk' /\ BoundsOk'
      BY <1>4, RowsAlone DEF Gate, OrderInv, BoundsOk
    <2>2. CASE Stops(h)
      BY <1>2, <2>1, <2>2 DEF OrderInv
    <2>3. ASSUME NEW s \in {"queued", "submitting"},
                 Goes(h, "claim", [status |-> s, provider |-> 0])
          PROVE  OrderInv'
      <3>1. /\ [status |-> s, provider |-> 0] \in Rows /\ "claim" \in Pc
            /\ [status |-> s, provider |-> 0].status # "absent"
        BY Statuses DEF Rows, Pc
      <3>2. QED
        BY <1>3, <2>1, <2>3, <3>1 DEF OrderInv
    <2>4. QED
      BY <1>4, <2>2, <2>3 DEF Gate
  <1>5. CASE Claim(h)
    <2>1. thread[h].row.status # "absent"
      BY <1>1, <1>5 DEF Claim, RowOk
    <2>2. OrderOk'
      BY <1>1, <1>5, <2>1, WriteOrder DEF Claim, OrderInv
    <2>3. BoundsOk'
      BY <1>5 DEF Claim, OrderInv, BoundsOk
    <2>4. \A k \in Thread : RowOk(k)'
      BY <1>1, <1>2, <1>3, <1>5, <2>1 DEF Claim, Pc
    <2>5. QED
      BY <2>2, <2>3, <2>4 DEF OrderInv
  <1>6. CASE Submit(h)
    <2> DEFINE row == [thread[h].row EXCEPT !.status = "submitting"]
    <2>1. row \in Rows /\ row.status # "absent"
      BY <1>1, RowWith, Statuses
    <2>2. (Goes(h, "call", row) \/ Stops(h)) /\ UpsertExisting(t, row)
      BY <1>6 DEF Submit
    <2> HIDE DEF row
    <2>3. OrderOk'
      BY <1>1, <2>1, <2>2, WriteOrder DEF OrderInv
    <2>4. BoundsOk'
      BY <1>6 DEF Submit, OrderInv, BoundsOk
    <2>5. \A k \in Thread : RowOk(k)'
      BY <1>2, <1>3, <2>1, <2>2 DEF Pc
    <2>6. QED
      BY <2>3, <2>4, <2>5 DEF OrderInv
  <1>7. CASE Call(h)
    <2>1. OrderOk'
      BY <1>7, RowsAlone DEF Call, OrderInv
    <2> DEFINE fails == Goes(h, "answer", [thread[h].row EXCEPT !.status = "failed"])
               goes(s) == Goes(h, "answer", [status |-> s, provider |-> Len(job) + 1])
    <2>5. \/ /\ Len(job) < MaxJob
             /\ \E s \in JobStatus :
                  job' = Append(job, [of |-> t, status |-> s]) /\ (goes(s) \/ fails)
          \/ fails /\ UNCHANGED job
      BY <1>7 DEF Call
    <2> HIDE DEF fails, goes
    <2>2. BoundsOk'
      <3>1. mishaps' = mishaps
        BY <1>7 DEF Call
      <3>2. Len(job') <= MaxJob
        <4>1. ASSUME Len(job) < MaxJob, NEW s \in JobStatus,
                     job' = Append(job, [of |-> t, status |-> s])
              PROVE  Len(job') <= MaxJob
          <5>1. Len(job') = Len(job) + 1
            BY <1>1, <4>1
          <5>2. QED
            BY <1>1, <4>1, <5>1, QueueAssumption
        <4>2. CASE UNCHANGED job
          BY <4>2 DEF OrderInv, BoundsOk
        <4>3. QED
          BY <2>5, <4>1, <4>2
      <3>3. QED
        BY <3>1, <3>2 DEF OrderInv, BoundsOk
    <2>3. \A k \in Thread : RowOk(k)'
      <3>1. ASSUME NEW s \in JobStatus, NEW n \in Nat,
                   Goes(h, "answer", [status |-> s, provider |-> n])
            PROVE  \A k \in Thread : RowOk(k)'
        <4>1. /\ [status |-> s, provider |-> n] \in Rows /\ "answer" \in Pc
              /\ [status |-> s, provider |-> n].status # "absent"
          BY Statuses DEF Rows, Pc
        <4>2. QED
          BY <1>3, <3>1, <4>1
      <3>2. ASSUME Goes(h, "answer", [thread[h].row EXCEPT !.status = "failed"])
            PROVE  \A k \in Thread : RowOk(k)'
        <4>1. /\ [thread[h].row EXCEPT !.status = "failed"] \in Rows /\ "answer" \in Pc
              /\ [thread[h].row EXCEPT !.status = "failed"].status # "absent"
          BY <1>1, RowWith, Statuses DEF Pc
        <4>2. QED
          BY <1>3, <3>2, <4>1
      <3>3. Len(job) + 1 \in Nat
        BY <1>1
      <3>4. ASSUME NEW s \in JobStatus, goes(s) PROVE \A k \in Thread : RowOk(k)'
        BY <3>1, <3>3, <3>4 DEF goes
      <3>5. QED
        BY <2>5, <3>2, <3>4 DEF fails
    <2>4. QED
      BY <2>1, <2>2, <2>3 DEF OrderInv
  <1>8. CASE Answer(h) \/ Save(h)
    <2>1. thread[h].row.status # "absent"
      BY <1>1, <1>8 DEF Answer, Save, RowOk
    <2>2. OrderOk'
      BY <1>1, <1>8, <2>1, WriteOrder DEF Answer, Save, OrderInv
    <2>3. BoundsOk'
      BY <1>8 DEF Answer, Save, OrderInv, BoundsOk
    <2>4. \A k \in Thread : RowOk(k)'
      BY <1>2, <1>8 DEF Answer, Save
    <2>5. QED
      BY <2>2, <2>3, <2>4 DEF OrderInv
  <1>9. CASE Get(h)
    <2> DEFINE s == job[thread[h].row.provider].status
               row == [thread[h].row EXCEPT !.status = s]
    <2>1. thread[h].row.provider \in 1 .. Len(job)
      BY <1>1, <1>9 DEF Get, Types, Rows
    <2>2. s \in JobStatus
      <3>1. job[thread[h].row.provider] \in Jobs
        BY <1>1, <2>1
      <3>2. QED
        BY <3>1 DEF Jobs
    <2>3. row \in Rows /\ row.status # "absent"
      BY <1>1, <2>2, RowWith, Statuses
    <2>4. Goes(h, "save", row)
      BY <1>9 DEF Get
    <2> HIDE DEF row
    <2>5. \A k \in Thread : RowOk(k)'
      BY <1>3, <2>3, <2>4 DEF Pc
    <2>6. OrderOk' /\ BoundsOk'
      BY <1>9, RowsAlone DEF Get, OrderInv, BoundsOk
    <2>7. QED
      BY <2>5, <2>6 DEF OrderInv
  <1>10. CASE GetFails(h)
    <2>1. OrderOk'
      <3>1. CASE UNCHANGED <<task, order, stale>>
        BY <3>1, RowsAlone DEF OrderInv
      <3>2. CASE Exists(t) /\ Upsert(t, task[t])
        BY <1>1, <3>2, WriteOrder DEF OrderInv, Exists
      <3>3. QED
        BY <1>10, <3>1, <3>2 DEF GetFails, RecordError, UpsertExisting
    <2>2. BoundsOk'
      BY <1>10 DEF GetFails, Mishap, OrderInv, BoundsOk
    <2>3. \A k \in Thread : RowOk(k)'
      BY <1>2, <1>10 DEF GetFails
    <2>4. QED
      BY <2>1, <2>2, <2>3 DEF OrderInv
  <1>11. QED
    BY <1>4, <1>5, <1>6, <1>7, <1>8, <1>9, <1>10 DEF Step

\* A round of the poller, and a call that begins, leave the rows alone and
\* are about to write none.
LEMMA BeginOrder ==
  ASSUME Base, OrderInv,
         StartRound \/ Crash \/ \E c \in Caller, t \in Task : UserStep(c, t)
  PROVE  OrderInv'
  <1>1. OrderOk'
    BY RowsAlone DEF OrderInv, StartRound, Crash, UserStep, CreateGenerationMessage,
                     RetryGenerationTask, GetGenerationVideo
  <1>2. BoundsOk'
    BY DEF OrderInv, BoundsOk, StartRound, Crash, UserStep, CreateGenerationMessage,
           RetryGenerationTask, GetGenerationVideo, Mishap
  <1>3. ASSUME NEW h \in Thread
        PROVE  thread'[h] = thread[h] \/ thread'[h].pc \notin {"claim", "answer", "save"}
    <2>1. CASE StartRound
      <3>1. thread'[h] = IF h \in ListPending THEN Polled(h) ELSE thread[h]
        BY <2>1 DEF StartRound
      <3>2. Polled(h).pc \notin {"claim", "answer", "save"}
        BY Statuses DEF Polled
      <3>3. QED
        BY <3>1, <3>2
    <2>2. CASE Crash
      BY <2>2, Statuses DEF Crash
    <2>3. CASE \E c \in Caller, t \in Task : UserStep(c, t)
      BY <2>3 DEF UserStep, CreateGenerationMessage, RetryGenerationTask, GetGenerationVideo,
                  Base, Types
    <2>4. QED
      BY <2>1, <2>2, <2>3
  <1>4. QED
    BY <1>1, <1>2, <1>3 DEF OrderInv, RowOk

\* The invariant holds at the start and of every step.
LEMMA OrderStep == ASSUME Base, OrderInv, [Next]_vars PROVE OrderInv'
  <1>1. CASE StartRound \/ Crash \/ \E c \in Caller, t \in Task : UserStep(c, t)
    BY <1>1, BeginOrder
  <1>2. CASE \E h \in Thread : Step(h) \/ GetFails(h)
    BY <1>2, StepOrder
  <1>3. ASSUME NEW t \in Task, Delete(t) PROVE OrderInv'
    <2>1. OrderOk'
      BY <1>3, DeleteOrder DEF OrderInv
    <2>2. QED
      BY <1>3, <2>1 DEF Delete, OrderInv, BoundsOk, RowOk
  <1>4. ASSUME NEW t \in Task, GoesStale(t) PROVE OrderInv'
    BY <1>4 DEF GoesStale, OrderInv, OrderOk, BoundsOk, RowOk, Exists
  <1>5. ASSUME NEW j \in 1 .. MaxJob, JobEnds(j) PROVE OrderInv'
    <2>1. Len(job') = Len(job)
      BY <1>5, JobEndsEffect DEF Base, Types
    <2>2. OrderOk'
      BY <1>5, RowsAlone DEF JobEnds, OrderInv
    <2>3. QED
      BY <1>5, <2>1, <2>2 DEF JobEnds, OrderInv, BoundsOk, RowOk
  <1>6. CASE UNCHANGED vars
    BY <1>6, RowsAlone DEF vars, OrderInv, BoundsOk, RowOk
  <1>7. QED
    BY <1>1, <1>2, <1>3, <1>4, <1>5, <1>6 DEF Next

\* At the start there are no rows and nobody is about to write one.
LEMMA OrderInit == Init => OrderInv
  <1> SUFFICES ASSUME Init PROVE OrderInv
    OBVIOUS
  <1>1. OrderOk
    <2>1. <<>> \in Seq(Task) /\ IsInjective(<<>>) /\ ToSet(<<>>) = {}
      BY DEF IsInjective, ToSet
    <2>2. QED
      BY <2>1, Statuses DEF Init, OrderOk, Exists
  <1>2. BoundsOk
    BY QueueAssumption DEF Init, BoundsOk
  <1>3. QED
    BY <1>1, <1>2, Statuses DEF Init, OrderInv, RowOk

\* Every variable holds a value of its type: the list that decides whom the
\* queue lets pass names each row exactly once, and only submitting rows are
\* stale.
THEOREM TypeCorrect == Spec => []TypeOK
  <1>1. ASSUME Base, OrderInv PROVE TypeOK
    <2>1. \A n \in Nat : n <= Len(job) => n \in 0 .. MaxJob
      BY <1>1, QueueAssumption DEF Base, Types, OrderInv, BoundsOk
    <2>2. task \in [Task -> Row]
      BY <1>1, <2>1 DEF Base, Types, Rows, Row
    <2>3. \A h \in Thread : thread[h] \in Place /\ thread[h].row \in Row
      BY <1>1, <2>1 DEF Base, Types, Place, Rows, Row
    <2>4. thread \in [Thread -> [pc : Pc, op : Op, of : Task \cup {NoThread}, row : Row]]
      BY <1>1, <2>3 DEF Base, Types, Place, Pc, Op
    <2>5. job \in Seq([of : Task, status : JobStatus])
      BY <1>1 DEF Base, Types, Jobs
    <2>6. QED
      BY <1>1, <2>2, <2>4, <2>5 DEF TypeOK, Base, Types, OrderInv, OrderOk, BoundsOk, Pc, Op
  <1>2. Spec => []OrderInv
    <2>1. Base /\ OrderInv /\ [Next]_vars => OrderInv'
      BY OrderStep
    <2>2. QED
      BY OrderInit, <2>1, BaseAlways, PTL DEF Spec
  <1>3. QED
    BY <1>1, <1>2, BaseAlways, PTL

=============================================================================
