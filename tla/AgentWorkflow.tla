--------------------------- MODULE AgentWorkflow ---------------------------
(***************************************************************************)
(* The Workflow scopes of one Agent session: AgentWorkflowUnitOfWork       *)
(* (repository/agent_workflow_uow.go), which creates, terminates and       *)
(* replaces scopes, together with the compare-and-swap writes and the      *)
(* projection write sets of repository/agent_execution_repo.go that        *)
(* callers prepare from rows they read earlier.                            *)
(*                                                                         *)
(* Every operation is one SQLite transaction, so one step; what            *)
(* interleaves is a caller's read and its later write.  A refused call     *)
(* (stale revision, conflict) writes nothing and is a stuttering step.  A  *)
(* command carries its fingerprint and its precomputed identities:         *)
(* EnvelopeOf[c] is the Workflow ID that command c creates, and a command  *)
(* reused with another fingerprint is refused before anything is written,  *)
(* so it is left out.                                                      *)
(***************************************************************************)
EXTENDS Naturals, FiniteSets

CONSTANTS Workflow, NoWorkflow,
          Command,
          EnvelopeOf,   \* [Command -> Workflow]
          Caller,       \* goroutines that read a row and write it later
          Kinds,        \* the kinds of rows that others touch: a bound of the run
          TerminalStatus,  \* completed, failed, cancelled (or two of them)
          MaxRevision   \* bound on the revisions CAS writes raise

ASSUME WorkflowAssumption ==
  /\ NoWorkflow \notin Workflow
  /\ EnvelopeOf \in [Command -> Workflow]
  /\ Kinds \subseteq {"workflow", "task", "invocation", "session", "selection"}
  /\ "cancelled" \in TerminalStatus
  /\ TerminalStatus \subseteq {"completed", "failed", "cancelled"}
  /\ MaxRevision \in Nat

VARIABLES session,       \* agent_sessions: active workflow, final barrier, revision
          workflow,      \* agent_workflows
          task,          \* agent_tasks: each workflow's root task and one child
          invocation,    \* agent_invocations: each workflow's root invocation
          continuation,  \* agent_workflow_events: each workflow's one delivery
          selection,     \* agent_selections: each workflow's one selection
          handoff,       \* agent_workflow_handoffs: successor by predecessor, command
          events,        \* command events each workflow has recorded
          memory,        \* the row each caller read and means to write
          answers        \* history: what each replace command was answered

vars == <<session, workflow, task, invocation, continuation, selection, handoff,
          events, memory, answers>>

scopeRows == <<workflow, task, invocation, continuation, selection>>

WorkflowStatus == {"absent", "active"} \cup TerminalStatus
TaskStatus == {"absent", "running"} \cup TerminalStatus
EndedInvocation == {"completed", "failed", "cancelled", "interrupted"}
InvocationStatus == {"absent", "pending", "running"} \cup EndedInvocation
ContinuationStatus == {"none", "live", "acked", "discarded"}
SelectionStatus == {"none", "pending", "decided", "superseded"}
Slot == {"root", "child"}

Absent == [status |-> "absent", revision |-> 0]
Fresh(status) == [status |-> status, revision |-> 1]
Raised(row, status) == [status |-> status, revision |-> row.revision + 1]
NoMemory == [kind |-> "nothing"]

Init ==
  /\ session = [active |-> NoWorkflow, pending |-> NoWorkflow, revision |-> 0]
  /\ workflow = [w \in Workflow |-> Absent]
  /\ task = [w \in Workflow |-> [s \in Slot |-> Absent]]
  /\ invocation = [w \in Workflow |-> Absent]
  /\ continuation = [w \in Workflow |-> "none"]
  /\ selection = [w \in Workflow |-> "none"]
  /\ handoff = [w \in Workflow |-> [c \in Command |-> NoWorkflow]]
  /\ events = [w \in Workflow |-> {}]
  /\ memory = [k \in Caller |-> NoMemory]
  /\ answers = [w \in Workflow |-> [c \in Command |-> {}]]

-----------------------------------------------------------------------------
(* Creating, replacing and terminating scopes *)

\* Faults: one of the two columns is not looked at.
NothingPending == session.pending = NoWorkflow
NothingActive == session.active = NoWorkflow

\* active_workflow_id IS NULL AND pending_final_delivery_id IS NULL
SessionIsFree == session.active = NoWorkflow /\ session.pending = NoWorkflow

\* CreateWorkflowEnvelope for a command that no workflow of the session has
\* recorded.  When the session has an active workflow that one is answered
\* and nothing is recorded, which changes no row.
CreateWorkflowEnvelope(c) ==
  LET w == EnvelopeOf[c] IN
  /\ \A v \in Workflow : <<"envelope", c>> \notin events[v]
  /\ SessionIsFree
  /\ workflow[w] = Absent
  /\ workflow' = [workflow EXCEPT ![w] = Fresh("active")]
  /\ task' = [task EXCEPT ![w]["root"] = Fresh("running")]
  /\ invocation' = [invocation EXCEPT ![w] = Fresh("pending")]
  /\ session' = [session EXCEPT !.active = w, !.revision = @ + 1]
  /\ events' = [events EXCEPT ![w] = @ \cup {<<"envelope", c>>}]
  /\ UNCHANGED <<continuation, selection, handoff, memory, answers>>

\* Fault: the cancellation leaves the task's revision as it was.
CancelledInPlace(row) ==
  IF row.status \in {"absent"} \cup TerminalStatus THEN row ELSE [row EXCEPT !.status = "cancelled"]

\* cancelNonterminalWorkflowTasksTx, for one task.  The revision moves, so a
\* caller that read the task before cannot write it back.
CancelledTask(row) ==
  IF row.status \in {"absent"} \cup TerminalStatus THEN row ELSE Raised(row, "cancelled")

\* discardWorkflowContinuationsTx
DiscardedContinuation(status) == IF status = "live" THEN "discarded" ELSE status

\* supersedePendingAgentSelectionsByWorkflow
SupersededSelection(status) == IF status = "pending" THEN "superseded" ELSE status

\* What a transaction leaves of workflow w's rows when it ends the scope and
\* opens that of the workflows in `opened` (one or none).
CloseScope(w, status, opened) ==
  /\ workflow' = [v \in Workflow |->
       IF v = w THEN Raised(workflow[w], status)
       ELSE IF v \in opened THEN Fresh("active") ELSE workflow[v]]
  /\ task' = [v \in Workflow |->
       IF v = w THEN [s \in Slot |-> CancelledTask(task[w][s])]
       ELSE IF v \in opened THEN [task[v] EXCEPT !["root"] = Fresh("running")] ELSE task[v]]
  /\ invocation' = [v \in Workflow |-> IF v \in opened THEN Fresh("pending") ELSE invocation[v]]
  /\ continuation' = [continuation EXCEPT ![w] = DiscardedContinuation(@)]
  /\ selection' = [selection EXCEPT ![w] = SupersededSelection(@)]

\* Whether a new handoff may take over from w: ReplaceWorkflow's own checks.
MayReplace(w) == session.active = w /\ session.pending = NoWorkflow

\* ReplaceWorkflow for a command without a handoff: w is cancelled and
\* EnvelopeOf[c] takes its place, behind the barrier of w's final delivery.
ReplaceWorkflow(w, c) ==
  LET successor == EnvelopeOf[c] IN
  /\ handoff[w][c] = NoWorkflow
  /\ workflow[w].status = "active"
  /\ MayReplace(w)
  /\ workflow[successor] = Absent
  /\ CloseScope(w, "cancelled", {successor})
  /\ handoff' = [handoff EXCEPT ![w][c] = successor]
  /\ session' = [active |-> successor, pending |-> w, revision |-> session.revision + 1]
  /\ answers' = [answers EXCEPT ![w][c] = @ \cup {successor}]
  /\ UNCHANGED <<events, memory>>

\* Fault: a replay answers with the session's workflow of today.
SuccessorOfToday(w, c) == session.active

\* The successor replaceResultFromHandoff takes from the recorded handoff.
replaceResultFromHandoff(w, c) == handoff[w][c]

\* ReplaceWorkflow for a command that has its handoff already.
ReplayReplace(w, c) ==
  /\ handoff[w][c] # NoWorkflow
  /\ answers' = [answers EXCEPT ![w][c] = @ \cup {replaceResultFromHandoff(w, c)}]
  /\ UNCHANGED <<session, scopeRows, handoff, events, memory>>

\* TerminateWorkflow for a command w has not recorded.  The barrier of an
\* earlier predecessor's final delivery stays.
TerminateWorkflow(w, c, status) ==
  /\ <<"terminate", c>> \notin events[w]
  /\ session.active = w
  /\ workflow[w].status = "active"
  /\ CloseScope(w, status, {})
  /\ session' = [session EXCEPT !.active = NoWorkflow, !.revision = @ + 1]
  /\ events' = [events EXCEPT ![w] = @ \cup {<<"terminate", c>>}]
  /\ UNCHANGED <<handoff, memory, answers>>

-----------------------------------------------------------------------------
(* Reads, and the writes computed from them *)

\* A caller reads a row; what it writes later is computed from this copy.
Read(k) ==
  /\ \E w \in Workflow :
       \/ /\ "workflow" \in Kinds /\ workflow[w].status = "active"
          /\ memory' = [memory EXCEPT ![k] =
                          [kind |-> "workflow", of |-> w, row |-> workflow[w]]]
       \/ \E s \in Slot :
            /\ "task" \in Kinds /\ task[w][s].status = "running"
            /\ memory' = [memory EXCEPT ![k] =
                            [kind |-> "task", of |-> w, slot |-> s, row |-> task[w][s]]]
       \/ /\ "invocation" \in Kinds /\ invocation[w] # Absent
          /\ memory' = [memory EXCEPT ![k] =
                          [kind |-> "invocation", of |-> w, row |-> invocation[w]]]
       \/ /\ "session" \in Kinds /\ session.pending = w
          /\ memory' = [memory EXCEPT ![k] = [kind |-> "session", row |-> session]]
  /\ UNCHANGED <<session, scopeRows, handoff, events, answers>>

\* The caller crashes, or gives its write up.
Forget(k) ==
  /\ memory[k] # NoMemory
  /\ memory' = [memory EXCEPT ![k] = NoMemory]
  /\ UNCHANGED <<session, scopeRows, handoff, events, answers>>

\* WHERE revision = expectedRevision
RevisionMatches(row, copy) == row.revision = copy.revision

\* CompareAndSwapWorkflow: callers revise the goal or the plan of an active
\* workflow; its status is only moved by the unit of work.
CompareAndSwapWorkflow(k) ==
  /\ memory[k].kind = "workflow"
  /\ LET w == memory[k].of IN
       /\ RevisionMatches(workflow[w], memory[k].row)
       /\ workflow[w].revision < MaxRevision
       /\ workflow' = [workflow EXCEPT ![w] = Raised(@, memory[k].row.status)]
  /\ memory' = [memory EXCEPT ![k] = NoMemory]
  /\ UNCHANGED <<session, task, invocation, continuation, selection, handoff, events, answers>>

\* CompareAndSwapTask, from a copy of a task that was not terminal.
CompareAndSwapTask(k, status) ==
  /\ memory[k].kind = "task"
  /\ LET w == memory[k].of  s == memory[k].slot IN
       /\ RevisionMatches(task[w][s], memory[k].row)
       /\ task[w][s].revision < MaxRevision
       /\ task' = [task EXCEPT ![w][s] = Raised(@, status)]
  /\ memory' = [memory EXCEPT ![k] = NoMemory]
  /\ UNCHANGED <<session, workflow, invocation, continuation, selection, handoff, events,
                 answers>>

\* Fault: an ended invocation takes another end.
AnyPreviousStatus(next) == InvocationStatus

allowedPreviousInvocationStatuses(next) ==
  CASE next = "pending" -> {"pending"}
    [] next = "running" -> {"pending", "running"}
    [] OTHER            -> {"pending", "running", next}

\* CompareAndSwapInvocation.  Callers propose any status, whatever they read.
CompareAndSwapInvocation(k, next) ==
  /\ memory[k].kind = "invocation"
  /\ LET w == memory[k].of IN
       /\ RevisionMatches(invocation[w], memory[k].row)
       /\ invocation[w].status \in allowedPreviousInvocationStatuses(next)
       /\ invocation[w].revision < MaxRevision
       /\ invocation' = [invocation EXCEPT ![w] = Raised(@, next)]
  /\ memory' = [memory EXCEPT ![k] = NoMemory]
  /\ UNCHANGED <<session, workflow, task, continuation, selection, handoff, events, answers>>

\* Fault: the publisher's stale copy is written without any comparison.
WriteStaleState(k) ==
  /\ memory[k].kind = "session"
  /\ session' = [active |-> memory[k].row.active, pending |-> NoWorkflow,
                 revision |-> session.revision + 1]
  /\ memory' = [memory EXCEPT ![k] = NoMemory]
  /\ UNCHANGED <<scopeRows, handoff, events, answers>>

\* CompareAndSwapWorkflowState, as the publisher of the final delivery calls
\* it: it keeps the active workflow it read and lifts the barrier.
CompareAndSwapWorkflowState(k) ==
  /\ memory[k].kind = "session"
  /\ RevisionMatches(session, memory[k].row)
  /\ session.active = memory[k].row.active
  /\ session' = [active |-> memory[k].row.active, pending |-> NoWorkflow,
                 revision |-> session.revision + 1]
  /\ memory' = [memory EXCEPT ![k] = NoMemory]
  /\ UNCHANGED <<scopeRows, handoff, events, answers>>

\* ApplyProjectionWriteSet for a command the workflow has not recorded: the
\* command event, the CAS of the workflow the caller read as active, and
\* either a new child task or an observation to deliver, all or nothing.
\* For a recorded command it writes nothing.
ApplyProjectionWriteSet(k, c) ==
  /\ memory[k].kind = "workflow"
  /\ LET w == memory[k].of IN
       /\ <<"projection", c>> \notin events[w]
       /\ RevisionMatches(workflow[w], memory[k].row)
       /\ workflow[w].revision < MaxRevision
       /\ workflow' = [workflow EXCEPT ![w] = Raised(@, memory[k].row.status)]
       /\ events' = [events EXCEPT ![w] = @ \cup {<<"projection", c>>}]
       /\ \/ /\ task[w]["child"] = Absent
             /\ task' = [task EXCEPT ![w]["child"] = Fresh("running")]
             /\ UNCHANGED continuation
          \/ /\ continuation[w] = "none"
             /\ continuation' = [continuation EXCEPT ![w] = "live"]
             /\ UNCHANGED task
  /\ memory' = [memory EXCEPT ![k] = NoMemory]
  /\ UNCHANGED <<session, invocation, selection, handoff, answers>>

-----------------------------------------------------------------------------
(* Rows of other components *)

\* AckContinuation; its lease and its fence are left out.
AckContinuation(w) ==
  /\ continuation[w] = "live"
  /\ continuation' = [continuation EXCEPT ![w] = "acked"]
  /\ UNCHANGED <<session, workflow, task, invocation, selection, handoff, events, memory, answers>>

\* CreateAgentSelection for a workflow, and the user's decision
\* (DecidePendingAgentSelection).  Nothing ties either to an active scope.
SelectionStep(w) ==
  /\ "selection" \in Kinds
  /\ workflow[w] # Absent
  /\ \/ selection[w] = "none" /\ selection' = [selection EXCEPT ![w] = "pending"]
     \/ selection[w] = "pending" /\ selection' = [selection EXCEPT ![w] = "decided"]
  /\ UNCHANGED <<session, workflow, task, invocation, continuation, handoff, events, memory,
                 answers>>

ScopeStep(w, c) ==
  \/ ReplaceWorkflow(w, c)
  \/ ReplayReplace(w, c)
  \/ \E status \in TerminalStatus : TerminateWorkflow(w, c, status)

CallerStep(k) ==
  \/ Read(k)
  \/ Forget(k)
  \/ CompareAndSwapWorkflow(k)
  \/ \E status \in TaskStatus \ {"absent"} : CompareAndSwapTask(k, status)
  \/ \E next \in InvocationStatus \ {"absent"} : CompareAndSwapInvocation(k, next)
  \/ CompareAndSwapWorkflowState(k)
  \/ \E c \in Command : ApplyProjectionWriteSet(k, c)

Next ==
  \/ \E c \in Command : CreateWorkflowEnvelope(c)
  \/ \E w \in Workflow, c \in Command : ScopeStep(w, c)
  \/ \E k \in Caller : CallerStep(k)
  \/ \E w \in Workflow : AckContinuation(w) \/ SelectionStep(w)

Spec == Init /\ [][Next]_vars

-----------------------------------------------------------------------------
(* Properties *)

\* The session points to the workflow that is active, so there is at most
\* one, and it points to none only when none is.
OneActiveWorkflow ==
  \A w \in Workflow : workflow[w].status = "active" <=> session.active = w

\* "The Task projections of every terminal Workflow are terminal" and its
\* unacked continuations are discarded: no write prepared before the scope
\* ended (a task update, a new task, an observation) lands after it.
ClosedScopeIsQuiet ==
  \A w \in Workflow : workflow[w].status \in TerminalStatus =>
    /\ \A s \in Slot : task[w][s].status \in {"absent"} \cup TerminalStatus
    /\ continuation[w] # "live"

\* "Replaying the replace command always returns the original successor",
\* however often the session was replaced or closed since.
ReplaceAnswersAgree ==
  \A w \in Workflow, c \in Command : Cardinality(answers[w][c]) <= 1

\* While the final answer of a replaced workflow is unpublished, the session
\* runs that workflow's successor or nothing: no third scope can begin.
BarrierHolds ==
  session.pending # NoWorkflow =>
    /\ workflow[session.pending].status = "cancelled"
    /\ session.active # NoWorkflow =>
         \E c \in Command : handoff[session.pending][c] = session.active

\* What has ended stays as it ended: ending the scope does not relabel a
\* finished task, a decided selection or an acknowledged delivery, and of
\* two racing reports of an invocation's end the first one stands.
OutcomesStand ==
  [][\A w \in Workflow :
       /\ \A s \in Slot : task[w][s].status \in TerminalStatus =>
            task'[w][s] = task[w][s]
       /\ invocation[w].status \in EndedInvocation =>
            invocation'[w].status = invocation[w].status
       /\ continuation[w] = "acked" => continuation'[w] = "acked"
       /\ selection[w] = "decided" => selection'[w] = "decided"]_vars

\* The session implements the abstract life of its scopes.
Scopes == INSTANCE SessionScopes WITH
  Scope <- Workflow, NoScope <- NoWorkflow,
  open <- session.active, used <- {w \in Workflow : workflow[w] # Absent}

ImplementsSessionScopes == Scopes!ScopesSpec
=============================================================================
