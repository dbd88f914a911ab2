------------------------ MODULE AgentWorkflowProofs ------------------------
(***************************************************************************)
(* What TLAPS proves of AgentWorkflow, for every set of workflows,         *)
(* commands and callers and any number of writes: one scope is active and  *)
(* quiet when it has ended, behind its barrier, and commands are answered  *)
(* once.  The reason is everywhere the same: a copy that a caller holds is *)
(* never newer than its row, and the row of a scope that has ended is      *)
(* newer than every copy of it.                                            *)
(***************************************************************************)
EXTENDS AgentWorkflow, FiniteSetTheorems, TLAPS

(***************************************************************************)
(* Types.                                                                  *)
(***************************************************************************)

Row(Status) == [status : Status, revision : Nat]
Session == [active : Workflow \cup {NoWorkflow}, pending : Workflow \cup {NoWorkflow},
            revision : Nat]
Memory == {NoMemory}
          \cup [kind : {"workflow"}, of : Workflow, row : Row(WorkflowStatus)]
          \cup [kind : {"task"}, of : Workflow, slot : Slot, row : Row(TaskStatus)]
          \cup [kind : {"invocation"}, of : Workflow, row : Row(InvocationStatus)]
          \cup [kind : {"session"}, row : Session]

\* Every variable holds a value of its type.
Types ==
  /\ session \in Session
  /\ workflow \in [Workflow -> Row(WorkflowStatus)]
  /\ task \in [Workflow -> [Slot -> Row(TaskStatus)]]
  /\ invocation \in [Workflow -> Row(InvocationStatus)]
  /\ continuation \in [Workflow -> ContinuationStatus]
  /\ selection \in [Workflow -> SelectionStatus]
  /\ handoff \in [Workflow -> [Command -> Workflow \cup {NoWorkflow}]]
  /\ memory \in [Caller -> Memory]
  /\ answers \in [Workflow -> [Command -> SUBSET Workflow]]

\* What a memory of each kind holds.
LEMMA MemoryOfKind ==
  ASSUME NEW m \in Memory
  PROVE  /\ m.kind = "workflow" => m.of \in Workflow /\ m.row \in Row(WorkflowStatus)
         /\ m.kind = "task" => m.of \in Workflow /\ m.slot \in Slot /\ m.row \in Row(TaskStatus)
         /\ m.kind = "invocation" => m.of \in Workflow /\ m.row \in Row(InvocationStatus)
         /\ m.kind = "session" => m.row \in Session
  BY DEF Memory, NoMemory

\* New and raised rows are rows.
LEMMA RowsMade ==
  ASSUME NEW S, NEW status \in S, NEW row, row.revision \in Nat
  PROVE  Fresh(status) \in Row(S) /\ Raised(row, status) \in Row(S)
  BY DEF Fresh, Raised, Row

\* The statuses that are not terminal.
LEMMA Statuses ==
  /\ "absent" \in WorkflowStatus /\ "active" \in WorkflowStatus
  /\ "absent" \in TaskStatus /\ "running" \in TaskStatus /\ "cancelled" \in TaskStatus
  /\ "absent" \in InvocationStatus /\ "pending" \in InvocationStatus
  /\ TerminalStatus \subseteq WorkflowStatus /\ TerminalStatus \subseteq TaskStatus
  /\ "cancelled" \in TerminalStatus
  /\ {"absent", "active", "running"} \cap TerminalStatus = {}
  BY WorkflowAssumption DEF WorkflowStatus, TaskStatus, InvocationStatus, EndedInvocation

\* A task row that is written, and new ones.
LEMMA TaskWritten ==
  ASSUME Types, NEW w \in Workflow, NEW s \in Slot, NEW row \in Row(TaskStatus)
  PROVE  [task EXCEPT ![w][s] = row] \in [Workflow -> [Slot -> Row(TaskStatus)]]
  <1>1. [task[w] EXCEPT ![s] = row] \in [Slot -> Row(TaskStatus)]
    BY DEF Types
  <1>2. QED
    BY <1>1 DEF Types

\* A new task row, and the two kinds of tasks.
LEMMA NewTask == Fresh("running") \in Row(TaskStatus) /\ {"root", "child"} \subseteq Slot
  BY Statuses DEF Fresh, Row, Slot

\* A session row that a transaction writes.
LEMMA SessionMade ==
  ASSUME Types, NEW a \in Workflow \cup {NoWorkflow}
  PROVE  [session EXCEPT !.active = a, !.revision = @ + 1] \in Session
  <1> USE DEF Session
  <1>1. session.revision + 1 \in Nat
    BY DEF Types
  <1>2. /\ session = [active |-> session.active, pending |-> session.pending,
                     revision |-> session.revision]
        /\ session.pending \in Workflow \cup {NoWorkflow}
    BY DEF Types
  <1>3. QED
    BY <1>1, <1>2, Zenon

\* A task that its scope cancels.
LEMMA CancelledTaskRow ==
  ASSUME NEW row \in Row(TaskStatus)
  PROVE  /\ CancelledTask(row) \in Row(TaskStatus)
         /\ CancelledTask(row).status \in {"absent"} \cup TerminalStatus
         /\ row.status = "running" => CancelledTask(row).revision = row.revision + 1
         /\ row.status # "running" => CancelledTask(row) = row
  <1>1. CASE row.status = "running"
    BY <1>1, Statuses DEF CancelledTask, Row, Raised, TaskStatus
  <1>2. CASE row.status # "running"
    BY <1>2, Statuses DEF CancelledTask, Row, TaskStatus
  <1>3. QED
    BY <1>1, <1>2

\* Ending a scope keeps the types of its rows.
LEMMA CloseScopeTypes ==
  ASSUME Types, NEW w \in Workflow, NEW status \in TerminalStatus, NEW opened \in SUBSET Workflow,
         CloseScope(w, status, opened)
  PROVE  /\ workflow' \in [Workflow -> Row(WorkflowStatus)]
         /\ task' \in [Workflow -> [Slot -> Row(TaskStatus)]]
         /\ invocation' \in [Workflow -> Row(InvocationStatus)]
         /\ continuation' \in [Workflow -> ContinuationStatus]
         /\ selection' \in [Workflow -> SelectionStatus]
  <1>1. workflow' \in [Workflow -> Row(WorkflowStatus)]
    BY Statuses DEF CloseScope, Types, Row, Raised, Fresh
  <1>2. task' \in [Workflow -> [Slot -> Row(TaskStatus)]]
    <2>1. \A v \in Workflow : [s \in Slot |-> CancelledTask(task[v][s])] \in [Slot -> Row(TaskStatus)]
      BY CancelledTaskRow DEF Types
    <2>2. \A v \in Workflow : [task[v] EXCEPT !["root"] = Fresh("running")] \in [Slot -> Row(TaskStatus)]
      BY Statuses DEF Types, Fresh, Row
    <2>3. QED
      BY <2>1, <2>2 DEF CloseScope, Types
  <1>3. invocation' \in [Workflow -> Row(InvocationStatus)]
    BY Statuses DEF CloseScope, Types, Row, Fresh
  <1>4. continuation' \in [Workflow -> ContinuationStatus]
    BY DEF CloseScope, Types, DiscardedContinuation, ContinuationStatus
  <1>5. selection' \in [Workflow -> SelectionStatus]
    BY DEF CloseScope, Types, SupersededSelection, SelectionStatus
  <1>6. QED
    BY <1>1, <1>2, <1>3, <1>4, <1>5

\* The types of the initial state.
LEMMA TypesInit == Init => Types
  <1> SUFFICES ASSUME Init PROVE Types
    OBVIOUS
  <1>1. /\ Absent \in Row(WorkflowStatus) /\ Absent \in Row(TaskStatus)
        /\ Absent \in Row(InvocationStatus) /\ NoMemory \in Memory
    BY Statuses DEF Absent, Row, Memory
  <1>2. QED
    BY <1>1 DEF Init, Types, Session, ContinuationStatus, SelectionStatus

\* A caller that has written or given up remembers nothing.
LEMMA Forgotten ==
  ASSUME Types, NEW k \in Caller, memory' = [memory EXCEPT ![k] = NoMemory]
  PROVE  memory' \in [Caller -> Memory]
  BY DEF Types, Memory

\* No step breaks a type.
LEMMA TypesStep == Types /\ [Next]_vars => Types'
  <1> SUFFICES ASSUME Types, [Next]_vars PROVE Types'
    OBVIOUS
  <1>1. ASSUME NEW c \in Command, CreateWorkflowEnvelope(c) PROVE Types'
    <2>1. EnvelopeOf[c] \in Workflow
      BY WorkflowAssumption
    <2>2. workflow' \in [Workflow -> Row(WorkflowStatus)]
      BY <1>1, <2>1, Statuses DEF CreateWorkflowEnvelope, Types, Row, Fresh
    <2>3. task' \in [Workflow -> [Slot -> Row(TaskStatus)]]
      BY <1>1, <2>1, NewTask, TaskWritten DEF CreateWorkflowEnvelope
    <2>4. invocation' \in [Workflow -> Row(InvocationStatus)]
      BY <1>1, <2>1, Statuses DEF CreateWorkflowEnvelope, Types, Row, Fresh
    <2>5. session' \in Session
      BY <1>1, <2>1, SessionMade DEF CreateWorkflowEnvelope
    <2>6. QED
      BY <1>1, <2>2, <2>3, <2>4, <2>5 DEF CreateWorkflowEnvelope, Types
  <1>2. ASSUME NEW w \in Workflow, NEW c \in Command, ReplaceWorkflow(w, c) PROVE Types'
    <2>1. EnvelopeOf[c] \in Workflow
      BY WorkflowAssumption
    <2>2. CloseScope(w, "cancelled", {EnvelopeOf[c]})
      BY <1>2 DEF ReplaceWorkflow
    <2>3. /\ workflow' \in [Workflow -> Row(WorkflowStatus)]
          /\ task' \in [Workflow -> [Slot -> Row(TaskStatus)]]
          /\ invocation' \in [Workflow -> Row(InvocationStatus)]
          /\ continuation' \in [Workflow -> ContinuationStatus]
          /\ selection' \in [Workflow -> SelectionStatus]
      BY <2>1, <2>2, CloseScopeTypes, Statuses
    <2>4. session' \in Session
      BY <1>2, <2>1 DEF ReplaceWorkflow, Types, Session
    <2>5. /\ handoff' \in [Workflow -> [Command -> Workflow \cup {NoWorkflow}]]
          /\ answers' \in [Workflow -> [Command -> SUBSET Workflow]]
      BY <1>2, <2>1 DEF ReplaceWorkflow, Types
    <2>6. QED
      BY <1>2, <2>3, <2>4, <2>5 DEF ReplaceWorkflow, Types
  <1>3. ASSUME NEW w \in Workflow, NEW c \in Command, ReplayReplace(w, c) PROVE Types'
    <2>1. handoff[w][c] \in Workflow
      BY <1>3 DEF ReplayReplace, Types
    <2>2. QED
      BY <1>3, <2>1 DEF ReplayReplace, replaceResultFromHandoff, Types, scopeRows
  <1>4. ASSUME NEW w \in Workflow, NEW c \in Command, NEW status \in TerminalStatus,
               TerminateWorkflow(w, c, status)
        PROVE  Types'
    <2>1. CloseScope(w, status, {})
      BY <1>4 DEF TerminateWorkflow
    <2>2. /\ workflow' \in [Workflow -> Row(WorkflowStatus)]
          /\ task' \in [Workflow -> [Slot -> Row(TaskStatus)]]
          /\ invocation' \in [Workflow -> Row(InvocationStatus)]
          /\ continuation' \in [Workflow -> ContinuationStatus]
          /\ selection' \in [Workflow -> SelectionStatus]
      BY <2>1, CloseScopeTypes
    <2>3. session' \in Session
      <3>1. session' = [session EXCEPT !.active = NoWorkflow, !.revision = @ + 1]
        BY <1>4 DEF TerminateWorkflow
      <3>2. QED
        BY <3>1, SessionMade
    <2>4. QED
      BY <1>4, <2>2, <2>3 DEF TerminateWorkflow, Types
  <1>5. ASSUME NEW k \in Caller, Read(k) PROVE Types'
    <2>1. PICK m \in Memory : memory' = [memory EXCEPT ![k] = m]
      BY <1>5 DEF Read, Types, Memory
    <2>2. memory' \in [Caller -> Memory]
      BY <2>1 DEF Types
    <2>3. QED
      BY <1>5, <2>2 DEF Read, Types, scopeRows
  <1>6. ASSUME NEW k \in Caller, Forget(k) PROVE Types'
    BY <1>6, Forgotten DEF Forget, Types, scopeRows
  <1>7. ASSUME NEW k \in Caller, CompareAndSwapWorkflow(k) PROVE Types'
    <2>1. memory[k].of \in Workflow /\ memory[k].row.status \in WorkflowStatus
      BY <1>7, MemoryOfKind DEF CompareAndSwapWorkflow, Types, Row
    <2>2. workflow' \in [Workflow -> Row(WorkflowStatus)]
      BY <1>7, <2>1 DEF CompareAndSwapWorkflow, Types, Row, Raised
    <2>3. QED
      BY <1>7, <2>2, Forgotten DEF CompareAndSwapWorkflow, Types
  <1>8. ASSUME NEW k \in Caller, NEW status \in TaskStatus, CompareAndSwapTask(k, status)
        PROVE  Types'
    <2>1. memory[k].of \in Workflow /\ memory[k].slot \in Slot
      BY <1>8, MemoryOfKind DEF CompareAndSwapTask, Types
    <2>2. task' \in [Workflow -> [Slot -> Row(TaskStatus)]]
      BY <1>8, <2>1 DEF CompareAndSwapTask, Types, Row, Raised
    <2>3. QED
      BY <1>8, <2>2, Forgotten DEF CompareAndSwapTask, Types
  <1>9. ASSUME NEW k \in Caller, NEW next \in InvocationStatus, CompareAndSwapInvocation(k, next)
        PROVE  Types'
    <2>1. memory[k].of \in Workflow
      BY <1>9, MemoryOfKind DEF CompareAndSwapInvocation, Types
    <2>2. invocation' \in [Workflow -> Row(InvocationStatus)]
      BY <1>9, <2>1 DEF CompareAndSwapInvocation, Types, Row, Raised
    <2>3. QED
      BY <1>9, <2>2, Forgotten DEF CompareAndSwapInvocation, Types
  <1>10. ASSUME NEW k \in Caller, CompareAndSwapWorkflowState(k) PROVE Types'
    <2>1. session' \in Session
      BY <1>10 DEF CompareAndSwapWorkflowState, Types, Session
    <2>2. QED
      BY <1>10, <2>1, Forgotten DEF CompareAndSwapWorkflowState, Types, scopeRows
  <1>11. ASSUME NEW k \in Caller, NEW c \in Command, ApplyProjectionWriteSet(k, c) PROVE Types'
    <2>1. memory[k].of \in Workflow /\ memory[k].row.status \in WorkflowStatus
      BY <1>11, MemoryOfKind DEF ApplyProjectionWriteSet, Types, Row
    <2>2. workflow' \in [Workflow -> Row(WorkflowStatus)]
      BY <1>11, <2>1 DEF ApplyProjectionWriteSet, Types, Row, Raised
    <2>3. task' \in [Workflow -> [Slot -> Row(TaskStatus)]]
      <3>1. \/ task' = [task EXCEPT ![memory[k].of]["child"] = Fresh("running")]
            \/ task' = task
        BY <1>11 DEF ApplyProjectionWriteSet
      <3>2. CASE task' = [task EXCEPT ![memory[k].of]["child"] = Fresh("running")]
        BY <3>2, <2>1, NewTask, TaskWritten
      <3>3. QED
        BY <3>1, <3>2 DEF Types
    <2>4. continuation' \in [Workflow -> ContinuationStatus]
      BY <1>11, <2>1 DEF ApplyProjectionWriteSet, Types, ContinuationStatus
    <2>5. QED
      BY <1>11, <2>2, <2>3, <2>4, Forgotten DEF ApplyProjectionWriteSet, Types
  <1>12. ASSUME NEW w \in Workflow, AckContinuation(w) PROVE Types'
    BY <1>12 DEF AckContinuation, Types, ContinuationStatus
  <1>13. ASSUME NEW w \in Workflow, SelectionStep(w) PROVE Types'
    BY <1>13 DEF SelectionStep, Types, SelectionStatus
  <1>14. CASE UNCHANGED vars
    BY <1>14 DEF vars, scopeRows, Types
  <1>15. QED
    BY <1>1, <1>2, <1>3, <1>4, <1>5, <1>6, <1>7, <1>8, <1>9, <1>10, <1>11, <1>12, <1>13, <1>14
       DEF Next, ScopeStep, CallerStep

\* Every step keeps the types of AgentWorkflow.
THEOREM TypeCorrect == Spec => []Types
  BY TypesInit, TypesStep, PTL DEF Spec

(***************************************************************************)
(* The inductive invariant.  OneActiveWorkflow, ClosedScopeIsQuiet and     *)
(* BarrierHolds are not inductive as they stand: a write that compares     *)
(* revisions is safe because of what its caller may still remember.        *)
(***************************************************************************)

\* A scope that was never opened has no rows.
UnopenedIsEmpty ==
  \A w \in Workflow : workflow[w] = Absent =>
    invocation[w] = Absent /\ \A s \in Slot : task[w][s] = Absent

\* A copy is not newer than its row, and one of the same revision was taken
\* of an active workflow or of a running task that is so still.
CopyIsOld(k) ==
  /\ memory[k].kind = "workflow" =>
       /\ memory[k].row.status = "active"
       /\ memory[k].row.revision <= workflow[memory[k].of].revision
       /\ memory[k].row.revision = workflow[memory[k].of].revision =>
            workflow[memory[k].of].status = "active"
  /\ memory[k].kind = "task" =>
       /\ memory[k].row.revision <= task[memory[k].of][memory[k].slot].revision
       /\ memory[k].row.revision = task[memory[k].of][memory[k].slot].revision =>
            task[memory[k].of][memory[k].slot].status = "running"

CopiesAreOld == \A k \in Caller : CopyIsOld(k)

\* A replace command was answered with the successor of its handoff.
AnswersAreRecorded ==
  \A w \in Workflow, c \in Command :
    answers[w][c] \subseteq (IF handoff[w][c] = NoWorkflow THEN {} ELSE {handoff[w][c]})

Inv ==
  /\ Types
  /\ UnopenedIsEmpty
  /\ CopiesAreOld
  /\ OneActiveWorkflow
  /\ ClosedScopeIsQuiet
  /\ BarrierHolds
  /\ AnswersAreRecorded

\* The invariant holds when the session is created.
LEMMA InvInit == Init => Inv
  <1> SUFFICES ASSUME Init PROVE Inv
    OBVIOUS
  <1>1. Types
    BY TypesInit
  <1>2. UnopenedIsEmpty
    BY DEF Init, UnopenedIsEmpty
  <1>3. CopiesAreOld
    BY DEF Init, CopiesAreOld, CopyIsOld, NoMemory
  <1>4. OneActiveWorkflow /\ ClosedScopeIsQuiet
    BY Statuses, WorkflowAssumption DEF Init, OneActiveWorkflow, ClosedScopeIsQuiet, Absent
  <1>5. BarrierHolds
    BY DEF Init, BarrierHolds
  <1>6. AnswersAreRecorded
    BY DEF Init, AnswersAreRecorded
  <1>7. QED
    BY <1>1, <1>2, <1>3, <1>4, <1>5, <1>6 DEF Inv

\* A copy of a workflow that passes the comparison: nothing has happened to
\* the row since it was read, and it is active.
LEMMA WorkflowCopyMatches ==
  ASSUME Inv, NEW k \in Caller, memory[k].kind = "workflow",
         RevisionMatches(workflow[memory[k].of], memory[k].row)
  PROVE  /\ memory[k].of \in Workflow
         /\ workflow[memory[k].of].status = "active"
         /\ memory[k].row.status = "active"
         /\ session.active = memory[k].of
  <1>1. memory[k].of \in Workflow
    BY MemoryOfKind DEF Inv, Types
  <1>2. workflow[memory[k].of].status = "active" /\ memory[k].row.status = "active"
    BY DEF Inv, CopiesAreOld, CopyIsOld, RevisionMatches
  <1>3. QED
    BY <1>1, <1>2 DEF Inv, OneActiveWorkflow

\* A copy of a task that passes the comparison: the task runs still, so its
\* scope has begun and has not ended.
LEMMA TaskCopyMatches ==
  ASSUME Inv, NEW k \in Caller, memory[k].kind = "task",
         RevisionMatches(task[memory[k].of][memory[k].slot], memory[k].row)
  PROVE  /\ memory[k].of \in Workflow
         /\ memory[k].slot \in Slot
         /\ task[memory[k].of][memory[k].slot].status = "running"
         /\ workflow[memory[k].of] # Absent
         /\ workflow[memory[k].of].status \notin TerminalStatus
  <1>1. memory[k].of \in Workflow /\ memory[k].slot \in Slot
    BY MemoryOfKind DEF Inv, Types
  <1>2. task[memory[k].of][memory[k].slot].status = "running"
    BY DEF Inv, CopiesAreOld, CopyIsOld, RevisionMatches
  <1>3. workflow[memory[k].of] # Absent
    BY <1>1, <1>2 DEF Inv, UnopenedIsEmpty, Absent
  <1>4. workflow[memory[k].of].status \notin TerminalStatus
    BY <1>1, <1>2, Statuses DEF Inv, ClosedScopeIsQuiet
  <1>5. QED
    BY <1>1, <1>2, <1>3, <1>4

(***************************************************************************)
(* What each step does to one row.                                         *)
(***************************************************************************)

\* A row stays as it is or its revision is raised.
Grows(old, new) == new = old \/ new.revision > old.revision

\* Ending a scope raises what it changes, and opens only a fresh one.
LEMMA CloseScopeGrows ==
  ASSUME Inv, NEW w \in Workflow, NEW status \in TerminalStatus, NEW opened \in SUBSET Workflow,
         CloseScope(w, status, opened), \A v \in opened : workflow[v] = Absent
  PROVE  \A v \in Workflow : /\ Grows(workflow[v], workflow'[v])
                             /\ \A s \in Slot : Grows(task[v][s], task'[v][s])
  <1> TAKE v \in Workflow
  <1>1. workflow[v] \in Row(WorkflowStatus) /\ task[v] \in [Slot -> Row(TaskStatus)]
    BY DEF Inv, Types
  <1>2. CASE v = w
    <2>1. workflow'[v] = Raised(workflow[w], status)
      BY <1>2 DEF CloseScope
    <2>2. Grows(workflow[v], workflow'[v])
      BY <1>1, <1>2, <2>1 DEF Grows, Raised, Row
    <2>3. \A s \in Slot : task'[v][s] = CancelledTask(task[v][s])
      BY <1>2 DEF CloseScope
    <2>4. \A s \in Slot : Grows(task[v][s], CancelledTask(task[v][s]))
      BY <1>1, CancelledTaskRow DEF Grows, Row
    <2>5. QED
      BY <2>2, <2>3, <2>4
  <1>3. CASE v # w /\ v \in opened
    <2>1. workflow'[v] = Fresh("active") /\ task'[v] = [task[v] EXCEPT !["root"] = Fresh("running")]
      BY <1>3 DEF CloseScope
    <2>2. workflow[v] = Absent /\ \A s \in Slot : task[v][s] = Absent
      BY <1>3 DEF Inv, UnopenedIsEmpty
    <2>3. QED
      BY <1>1, <2>1, <2>2 DEF Grows, Fresh, Absent
  <1>4. CASE v # w /\ v \notin opened
    BY <1>4 DEF CloseScope, Grows
  <1>5. QED
    BY <1>2, <1>3, <1>4

\* No step takes a revision of a workflow or of a task back, or changes a
\* row of either without raising it.
LEMMA RowsGrow ==
  ASSUME Inv, Next
  PROVE  \A v \in Workflow : /\ Grows(workflow[v], workflow'[v])
                             /\ \A s \in Slot : Grows(task[v][s], task'[v][s])
  <1> DEFINE Grow == \A v \in Workflow : /\ Grows(workflow[v], workflow'[v])
                                         /\ \A s \in Slot : Grows(task[v][s], task'[v][s])
  <1>1. ASSUME NEW c \in Command, CreateWorkflowEnvelope(c) PROVE Grow
    <2>1. EnvelopeOf[c] \in Workflow
      BY WorkflowAssumption
    <2>2. workflow[EnvelopeOf[c]] = Absent /\ \A s \in Slot : task[EnvelopeOf[c]][s] = Absent
      BY <1>1, <2>1 DEF CreateWorkflowEnvelope, Inv, UnopenedIsEmpty
    <2>3. \A v \in Workflow : Grows(workflow[v], workflow'[v])
      BY <1>1, <2>1, <2>2 DEF CreateWorkflowEnvelope, Grows, Fresh, Absent, Inv, Types
    <2>4. \A v \in Workflow, s \in Slot :
             task'[v][s] = IF v = EnvelopeOf[c] /\ s = "root" THEN Fresh("running") ELSE task[v][s]
      BY <1>1, <2>1 DEF CreateWorkflowEnvelope, Inv, Types
    <2>5. \A v \in Workflow, s \in Slot : Grows(task[v][s], task'[v][s])
      BY <2>2, <2>4 DEF Grows, Fresh, Absent
    <2>6. QED
      BY <2>3, <2>5
  <1>2. ASSUME NEW w \in Workflow, NEW c \in Command, ReplaceWorkflow(w, c) PROVE Grow
    BY <1>2, WorkflowAssumption, CloseScopeGrows DEF ReplaceWorkflow
  <1>3. ASSUME NEW w \in Workflow, NEW c \in Command, NEW status \in TerminalStatus,
               TerminateWorkflow(w, c, status)
        PROVE  Grow
    BY <1>3, CloseScopeGrows DEF TerminateWorkflow
  <1>4. ASSUME NEW k \in Caller, CompareAndSwapWorkflow(k) PROVE Grow
    <2>1. memory[k].of \in Workflow
      BY <1>4, WorkflowCopyMatches DEF CompareAndSwapWorkflow
    <2>2. QED
      BY <1>4, <2>1 DEF CompareAndSwapWorkflow, Grows, Raised, Inv, Types, Row
  <1>5. ASSUME NEW k \in Caller, NEW status \in TaskStatus, CompareAndSwapTask(k, status) PROVE Grow
    <2>1. memory[k].of \in Workflow /\ memory[k].slot \in Slot
      BY <1>5, TaskCopyMatches DEF CompareAndSwapTask
    <2>2. QED
      BY <1>5, <2>1 DEF CompareAndSwapTask, Grows, Raised, Inv, Types, Row
  <1>6. ASSUME NEW k \in Caller, NEW c \in Command, ApplyProjectionWriteSet(k, c) PROVE Grow
    <2>1. memory[k].of \in Workflow
      BY <1>6, WorkflowCopyMatches DEF ApplyProjectionWriteSet
    <2>2. \A v \in Workflow : Grows(workflow[v], workflow'[v])
      BY <1>6, <2>1 DEF ApplyProjectionWriteSet, Grows, Raised, Inv, Types, Row
    <2>3. CASE task' = task
      BY <2>2, <2>3 DEF Grows
    <2>4. CASE /\ task[memory[k].of]["child"] = Absent
               /\ task' = [task EXCEPT ![memory[k].of]["child"] = Fresh("running")]
      <3>1. \A v \in Workflow, s \in Slot : Grows(task[v][s], task'[v][s])
        BY <2>1, <2>4 DEF Grows, Fresh, Absent, Inv, Types
      <3>2. QED
        BY <2>2, <3>1
    <2>5. QED
      BY <1>6, <2>3, <2>4 DEF ApplyProjectionWriteSet
  <1>7. CASE UNCHANGED <<workflow, task>>
    BY <1>7 DEF Grows
  <1>8. QED
    BY <1>1, <1>2, <1>3, <1>4, <1>5, <1>6, <1>7
       DEF Next, ScopeStep, CallerStep, ReplayReplace, Read, Forget, CompareAndSwapInvocation,
           CompareAndSwapWorkflowState, AckContinuation, SelectionStep, scopeRows

(***************************************************************************)
(* Each part of the invariant is kept.                                     *)
(***************************************************************************)

\* Rows are created with their scope, or for an active one.
LEMMA UnopenedStep == ASSUME Inv, Next PROVE UnopenedIsEmpty'
  <1> SUFFICES ASSUME NEW v \in Workflow, workflow'[v] = Absent
               PROVE  invocation'[v] = Absent /\ \A s \in Slot : task'[v][s] = Absent
    BY DEF UnopenedIsEmpty
  <1>1. workflow[v] = Absent /\ workflow'[v] = workflow[v]
    <2>1. Grows(workflow[v], workflow'[v]) /\ workflow[v].revision \in Nat
      BY RowsGrow DEF Inv, Types, Row
    <2>2. QED
      BY <2>1 DEF Grows, Absent
  <1>2. invocation[v] = Absent /\ \A s \in Slot : task[v][s] = Absent
    BY <1>1 DEF Inv, UnopenedIsEmpty
  <1>3. Fresh("active") # Absent /\ Absent.status \notin {"active", "running", "pending"}
    BY DEF Fresh, Absent
  <1> DEFINE Empty == invocation'[v] = Absent /\ \A s \in Slot : task'[v][s] = Absent
  <1>4. ASSUME NEW c \in Command, CreateWorkflowEnvelope(c) PROVE Empty
    <2>1. EnvelopeOf[c] \in Workflow
      BY WorkflowAssumption
    <2>2. v # EnvelopeOf[c]
      BY <1>1, <1>3, <1>4, <2>1 DEF CreateWorkflowEnvelope, Inv, Types
    <2>3. QED
      BY <1>2, <1>4, <2>1, <2>2 DEF CreateWorkflowEnvelope, Inv, Types
  <1>5. ASSUME NEW w \in Workflow, NEW status \in TerminalStatus, NEW opened \in SUBSET Workflow,
               CloseScope(w, status, opened), workflow[w].status = "active"
        PROVE  Empty
    <2>1. v # w
      BY <1>1, <1>3, <1>5
    <2>2. v \notin opened
      BY <1>1, <1>3, <1>5, <2>1 DEF CloseScope
    <2>3. QED
      BY <1>2, <1>5, <2>1, <2>2 DEF CloseScope
  <1>6. ASSUME NEW k \in Caller, NEW status \in TaskStatus, CompareAndSwapTask(k, status) PROVE Empty
    <2>1. /\ memory[k].of \in Workflow /\ memory[k].slot \in Slot
          /\ workflow[memory[k].of] # Absent
      BY <1>6, TaskCopyMatches DEF CompareAndSwapTask
    <2>2. QED
      BY <1>1, <1>2, <1>6, <2>1 DEF CompareAndSwapTask, Inv, Types
  <1>7. ASSUME NEW k \in Caller, NEW next \in InvocationStatus \ {"absent"},
               CompareAndSwapInvocation(k, next)
        PROVE  Empty
    <2>1. memory[k].of \in Workflow
      BY <1>7, MemoryOfKind DEF CompareAndSwapInvocation, Inv, Types
    <2>2. "absent" \notin allowedPreviousInvocationStatuses(next)
      BY DEF allowedPreviousInvocationStatuses
    <2>3. invocation[memory[k].of] # Absent
      BY <1>7, <2>2 DEF CompareAndSwapInvocation, Absent
    <2>4. QED
      BY <1>2, <1>7, <2>1, <2>3 DEF CompareAndSwapInvocation, Inv, Types
  <1>8. ASSUME NEW k \in Caller, NEW c \in Command, ApplyProjectionWriteSet(k, c) PROVE Empty
    <2>1. memory[k].of \in Workflow /\ workflow[memory[k].of].status = "active"
      BY <1>8, WorkflowCopyMatches DEF ApplyProjectionWriteSet
    <2>2. v # memory[k].of
      BY <1>1, <1>3, <2>1
    <2>3. QED
      BY <1>2, <1>8, <2>1, <2>2 DEF ApplyProjectionWriteSet, Inv, Types
  <1>9. CASE UNCHANGED <<task, invocation>>
    BY <1>2, <1>9
  <1>10. ASSUME NEW w \in Workflow, NEW c \in Command, ReplaceWorkflow(w, c) PROVE Empty
    BY <1>5, <1>10, Statuses, WorkflowAssumption DEF ReplaceWorkflow
  <1>11. ASSUME NEW w \in Workflow, NEW c \in Command, NEW status \in TerminalStatus,
                TerminateWorkflow(w, c, status)
         PROVE  Empty
    BY <1>5, <1>11 DEF TerminateWorkflow
  <1>12. QED
    BY <1>4, <1>6, <1>7, <1>8, <1>9, <1>10, <1>11
       DEF Next, ScopeStep, CallerStep, ReplayReplace, Read, Forget, CompareAndSwapWorkflow,
           CompareAndSwapWorkflowState, AckContinuation, SelectionStep, scopeRows

\* A caller's copy stays what it was, is dropped, or is a row of now.
LEMMA CopiesStep == ASSUME Inv, Next PROVE CopiesAreOld'
  <1> SUFFICES ASSUME NEW k \in Caller PROVE CopyIsOld(k)'
    BY DEF CopiesAreOld
  <1>1. CopyIsOld(k) /\ memory \in [Caller -> Memory]
    BY DEF Inv, CopiesAreOld, Types
  <1>2. CASE memory'[k] = memory[k]
    <2>1. ASSUME memory[k].kind = "workflow"
          PROVE  /\ memory[k].row.status = "active"
                 /\ memory[k].row.revision <= workflow'[memory[k].of].revision
                 /\ memory[k].row.revision = workflow'[memory[k].of].revision =>
                      workflow'[memory[k].of].status = "active"
      <3>1. /\ memory[k].of \in Workflow /\ memory[k].row.revision \in Nat
            /\ workflow[memory[k].of].revision \in Nat
        BY <1>1, <2>1, MemoryOfKind DEF Inv, Types, Row
      <3>2. Grows(workflow[memory[k].of], workflow'[memory[k].of])
        BY <3>1, RowsGrow
      <3>3. workflow'[memory[k].of].revision \in Nat
        BY <3>1, TypesStep DEF Inv, Types, Row
      <3>4. QED
        BY <1>1, <2>1, <3>1, <3>2, <3>3 DEF CopyIsOld, Grows
    <2>2. ASSUME memory[k].kind = "task"
          PROVE  /\ memory[k].row.revision <= task'[memory[k].of][memory[k].slot].revision
                 /\ memory[k].row.revision = task'[memory[k].of][memory[k].slot].revision =>
                      task'[memory[k].of][memory[k].slot].status = "running"
      <3>1. /\ memory[k].of \in Workflow /\ memory[k].slot \in Slot /\ memory[k].row.revision \in Nat
            /\ task[memory[k].of][memory[k].slot].revision \in Nat
        BY <1>1, <2>2, MemoryOfKind DEF Inv, Types, Row
      <3>2. Grows(task[memory[k].of][memory[k].slot], task'[memory[k].of][memory[k].slot])
        BY <3>1, RowsGrow
      <3>3. task'[memory[k].of][memory[k].slot].revision \in Nat
        BY <3>1, TypesStep DEF Inv, Types, Row
      <3>4. QED
        BY <1>1, <2>2, <3>1, <3>2, <3>3 DEF CopyIsOld, Grows
    <2>3. QED
      BY <1>2, <2>1, <2>2 DEF CopyIsOld
  <1>3. CASE memory'[k] = NoMemory
    BY <1>3 DEF CopyIsOld, NoMemory
  <1>4. CASE Read(k)
    <2>1. CASE \E w \in Workflow :
                 /\ workflow[w].status = "active"
                 /\ memory'[k] = [kind |-> "workflow", of |-> w, row |-> workflow[w]]
      <3>1. \A w \in Workflow : workflow[w].revision \in Nat
        BY DEF Inv, Types, Row
      <3>2. QED
        BY <1>4, <2>1, <3>1 DEF Read, scopeRows, CopyIsOld
    <2>2. CASE \E w \in Workflow, s \in Slot :
                 /\ task[w][s].status = "running"
                 /\ memory'[k] = [kind |-> "task", of |-> w, slot |-> s, row |-> task[w][s]]
      <3>1. \A w \in Workflow, s \in Slot : task[w][s].revision \in Nat
        BY DEF Inv, Types, Row
      <3>2. QED
        BY <1>4, <2>2, <3>1 DEF Read, scopeRows, CopyIsOld
    <2>3. CASE memory'[k].kind \in {"invocation", "session"}
      BY <2>3 DEF CopyIsOld
    <2>4. QED
      BY <1>1, <1>4, <2>1, <2>2, <2>3 DEF Read
  <1>5. \/ memory' = memory
        \/ \E j \in Caller : memory' = [memory EXCEPT ![j] = NoMemory]
        \/ \E j \in Caller : Read(j)
    BY DEF Next, ScopeStep, CallerStep, CreateWorkflowEnvelope, ReplaceWorkflow, ReplayReplace,
           TerminateWorkflow, Forget, CompareAndSwapWorkflow, CompareAndSwapTask,
           CompareAndSwapInvocation, CompareAndSwapWorkflowState, ApplyProjectionWriteSet,
           AckContinuation, SelectionStep
  <1>6. ASSUME NEW j \in Caller, Read(j), j # k PROVE memory'[k] = memory[k]
    BY <1>1, <1>6 DEF Read
  <1>7. QED
    BY <1>1, <1>2, <1>3, <1>4, <1>5, <1>6

\* The session points to the active workflow after every step.
LEMMA OneActiveStep == ASSUME Inv, Next PROVE OneActiveWorkflow'
  <1>1. ASSUME NEW c \in Command, CreateWorkflowEnvelope(c) PROVE OneActiveWorkflow'
    BY <1>1, WorkflowAssumption
       DEF CreateWorkflowEnvelope, SessionIsFree, OneActiveWorkflow, Inv, Types, Session, Fresh
  <1>2. ASSUME NEW w \in Workflow, NEW c \in Command, ReplaceWorkflow(w, c)
        PROVE  OneActiveWorkflow'
    <2>1. /\ CloseScope(w, "cancelled", {EnvelopeOf[c]}) /\ session.active = w
          /\ session'.active = EnvelopeOf[c] /\ EnvelopeOf[c] # w
      BY <1>2 DEF ReplaceWorkflow, MayReplace, Absent
    <2>2. QED
      BY <2>1, WorkflowAssumption DEF CloseScope, Raised, Fresh, OneActiveWorkflow, Inv
  <1>3. ASSUME NEW w \in Workflow, NEW c \in Command, NEW status \in TerminalStatus,
               TerminateWorkflow(w, c, status)
        PROVE  OneActiveWorkflow'
    <2>1. /\ CloseScope(w, status, {}) /\ session.active = w
          /\ session'.active = NoWorkflow /\ status # "active"
      BY <1>3, Statuses DEF TerminateWorkflow, Inv, Types, Session
    <2>2. QED
      BY <2>1, WorkflowAssumption DEF CloseScope, Raised, OneActiveWorkflow, Inv
  <1>4. ASSUME NEW k \in Caller,
               CompareAndSwapWorkflow(k) \/ \E c \in Command : ApplyProjectionWriteSet(k, c)
        PROVE  OneActiveWorkflow'
    <2>1. /\ memory[k].of \in Workflow /\ workflow[memory[k].of].status = "active"
          /\ memory[k].row.status = "active"
      BY <1>4, WorkflowCopyMatches DEF CompareAndSwapWorkflow, ApplyProjectionWriteSet
    <2>2. /\ workflow' = [workflow EXCEPT ![memory[k].of] = Raised(@, "active")]
          /\ session' = session
      BY <1>4, <2>1 DEF CompareAndSwapWorkflow, ApplyProjectionWriteSet
    <2>3. QED
      BY <2>1, <2>2 DEF Raised, OneActiveWorkflow, Inv, Types
  <1>5. ASSUME NEW k \in Caller, CompareAndSwapWorkflowState(k) PROVE OneActiveWorkflow'
    BY <1>5 DEF CompareAndSwapWorkflowState, scopeRows, OneActiveWorkflow, Inv
  <1>6. CASE UNCHANGED <<session, workflow>>
    BY <1>6 DEF OneActiveWorkflow, Inv
  <1>7. QED
    BY <1>1, <1>2, <1>3, <1>4, <1>5, <1>6
       DEF Next, ScopeStep, CallerStep, ReplayReplace, Read, Forget, CompareAndSwapTask,
           CompareAndSwapInvocation, AckContinuation, SelectionStep, scopeRows

\* Ending a scope leaves its tasks ended and its continuation discarded.
LEMMA CloseScopeQuiet ==
  ASSUME Inv, NEW w \in Workflow, NEW status \in TerminalStatus, NEW opened \in SUBSET Workflow,
         CloseScope(w, status, opened)
  PROVE  ClosedScopeIsQuiet'
  <1> SUFFICES ASSUME NEW v \in Workflow, workflow'[v].status \in TerminalStatus
               PROVE  /\ \A s \in Slot : task'[v][s].status \in {"absent"} \cup TerminalStatus
                      /\ continuation'[v] # "live"
    BY DEF ClosedScopeIsQuiet
  <1>1. CASE v = w
    <2>1. \A s \in Slot : task'[v][s] = CancelledTask(task[v][s])
      BY <1>1 DEF CloseScope
    <2>2. \A s \in Slot : task[v][s] \in Row(TaskStatus)
      BY DEF Inv, Types
    <2>3. continuation'[v] = DiscardedContinuation(continuation[v])
      BY <1>1 DEF CloseScope, Inv, Types
    <2>4. QED
      BY <2>1, <2>2, <2>3, CancelledTaskRow DEF DiscardedContinuation
  <1>2. CASE v # w /\ v \in opened
    BY <1>2, Statuses DEF CloseScope, Fresh
  <1>3. CASE v # w /\ v \notin opened
    BY <1>3 DEF CloseScope, Inv, Types, ClosedScopeIsQuiet
  <1>4. QED
    BY <1>1, <1>2, <1>3

\* No write lands in a scope that has ended.
LEMMA QuietStep == ASSUME Inv, Next PROVE ClosedScopeIsQuiet'
  <1>1. ASSUME NEW c \in Command, CreateWorkflowEnvelope(c) PROVE ClosedScopeIsQuiet'
    <2>1. EnvelopeOf[c] \in Workflow
      BY WorkflowAssumption
    <2>2. workflow'[EnvelopeOf[c]].status = "active"
      BY <1>1, <2>1 DEF CreateWorkflowEnvelope, Fresh, Inv, Types
    <2>3. \A v \in Workflow \ {EnvelopeOf[c]} :
             workflow'[v] = workflow[v] /\ task'[v] = task[v] /\ continuation'[v] = continuation[v]
      BY <1>1, <2>1 DEF CreateWorkflowEnvelope, Inv, Types
    <2>4. QED
      BY <2>2, <2>3, Statuses DEF ClosedScopeIsQuiet, Inv
  <1>2. ASSUME NEW w \in Workflow, NEW c \in Command, ReplaceWorkflow(w, c)
        PROVE  ClosedScopeIsQuiet'
    BY <1>2, CloseScopeQuiet, Statuses, WorkflowAssumption DEF ReplaceWorkflow
  <1>3. ASSUME NEW w \in Workflow, NEW c \in Command, NEW status \in TerminalStatus,
               TerminateWorkflow(w, c, status)
        PROVE  ClosedScopeIsQuiet'
    BY <1>3, CloseScopeQuiet DEF TerminateWorkflow
  <1>4. ASSUME NEW k \in Caller,
               CompareAndSwapWorkflow(k) \/ \E c \in Command : ApplyProjectionWriteSet(k, c)
        PROVE  ClosedScopeIsQuiet'
    <2>1. /\ memory[k].of \in Workflow /\ memory[k].row.status = "active"
      BY <1>4, WorkflowCopyMatches DEF CompareAndSwapWorkflow, ApplyProjectionWriteSet
    <2>2. workflow'[memory[k].of].status = "active"
      <3>1. workflow' = [workflow EXCEPT ![memory[k].of] = Raised(@, "active")]
        BY <1>4, <2>1 DEF CompareAndSwapWorkflow, ApplyProjectionWriteSet
      <3>2. QED
        BY <2>1, <3>1 DEF Raised, Inv, Types
    <2>3. \A v \in Workflow \ {memory[k].of} :
             workflow'[v] = workflow[v] /\ task'[v] = task[v] /\ continuation'[v] = continuation[v]
      BY <1>4, <2>1 DEF CompareAndSwapWorkflow, ApplyProjectionWriteSet, Inv, Types
    <2>4. QED
      BY <2>2, <2>3, Statuses DEF ClosedScopeIsQuiet, Inv
  <1>5. ASSUME NEW k \in Caller, NEW status \in TaskStatus, CompareAndSwapTask(k, status)
        PROVE  ClosedScopeIsQuiet'
    <2>1. memory[k].of \in Workflow /\ workflow[memory[k].of].status \notin TerminalStatus
      BY <1>5, TaskCopyMatches DEF CompareAndSwapTask
    <2>2. /\ \A v \in Workflow \ {memory[k].of} : task'[v] = task[v]
          /\ workflow' = workflow /\ continuation' = continuation
      BY <1>5, <2>1 DEF CompareAndSwapTask, Inv, Types
    <2>3. QED
      BY <2>1, <2>2 DEF ClosedScopeIsQuiet, Inv
  <1>6. ASSUME NEW w \in Workflow, AckContinuation(w) PROVE ClosedScopeIsQuiet'
    BY <1>6 DEF AckContinuation, ClosedScopeIsQuiet, Inv, Types
  <1>7. CASE UNCHANGED <<workflow, task, continuation>>
    BY <1>7 DEF ClosedScopeIsQuiet, Inv
  <1>8. QED
    BY <1>1, <1>2, <1>3, <1>4, <1>5, <1>6, <1>7
       DEF Next, ScopeStep, CallerStep, ReplayReplace, Read, Forget, CompareAndSwapInvocation,
           CompareAndSwapWorkflowState, SelectionStep, scopeRows

\* The barrier of an unpublished final answer is kept.
LEMMA BarrierStep == ASSUME Inv, Next PROVE BarrierHolds'
  <1>1. ASSUME NEW c \in Command, CreateWorkflowEnvelope(c) PROVE BarrierHolds'
    BY <1>1 DEF CreateWorkflowEnvelope, SessionIsFree, BarrierHolds, Inv, Types, Session
  <1>2. ASSUME NEW w \in Workflow, NEW c \in Command, ReplaceWorkflow(w, c) PROVE BarrierHolds'
    <2>1. session'.pending = w /\ session'.active = EnvelopeOf[c]
      BY <1>2 DEF ReplaceWorkflow
    <2>2. workflow'[w].status = "cancelled"
      BY <1>2 DEF ReplaceWorkflow, CloseScope, Raised
    <2>3. handoff'[w][c] = EnvelopeOf[c]
      BY <1>2 DEF ReplaceWorkflow, Inv, Types
    <2>4. QED
      BY <2>1, <2>2, <2>3 DEF BarrierHolds
  <1>3. ASSUME NEW w \in Workflow, NEW c \in Command, NEW status \in TerminalStatus,
               TerminateWorkflow(w, c, status)
        PROVE  BarrierHolds'
    <2>1. /\ session'.pending = session.pending /\ session'.active = NoWorkflow
          /\ handoff' = handoff
      BY <1>3 DEF TerminateWorkflow, Inv, Types, Session
    <2>2. ASSUME session.pending # NoWorkflow
          PROVE  workflow'[session.pending].status = "cancelled"
      <3>1. session.pending \in Workflow /\ workflow[session.pending].status = "cancelled"
        BY <2>2 DEF Inv, Types, Session, BarrierHolds
      <3>2. session.pending # w /\ CloseScope(w, status, {})
        BY <1>3, <3>1 DEF TerminateWorkflow
      <3>3. QED
        BY <3>1, <3>2 DEF CloseScope
    <2>3. QED
      BY <2>1, <2>2 DEF BarrierHolds
  <1>4. ASSUME NEW k \in Caller,
               CompareAndSwapWorkflow(k) \/ \E c \in Command : ApplyProjectionWriteSet(k, c)
        PROVE  BarrierHolds'
    <2>1. memory[k].of \in Workflow /\ workflow[memory[k].of].status = "active"
      BY <1>4, WorkflowCopyMatches DEF CompareAndSwapWorkflow, ApplyProjectionWriteSet
    <2>2. /\ \A v \in Workflow \ {memory[k].of} : workflow'[v] = workflow[v]
          /\ session' = session /\ handoff' = handoff
      BY <1>4, <2>1 DEF CompareAndSwapWorkflow, ApplyProjectionWriteSet, Inv, Types
    <2>3. QED
      BY <2>1, <2>2 DEF BarrierHolds, Inv, Types, Session
  <1>5. ASSUME NEW k \in Caller, CompareAndSwapWorkflowState(k) PROVE BarrierHolds'
    BY <1>5 DEF CompareAndSwapWorkflowState, BarrierHolds
  <1>6. CASE UNCHANGED <<session, workflow, handoff>>
    BY <1>6 DEF BarrierHolds, Inv
  <1>7. QED
    BY <1>1, <1>2, <1>3, <1>4, <1>5, <1>6
       DEF Next, ScopeStep, CallerStep, ReplayReplace, Read, Forget, CompareAndSwapTask,
           CompareAndSwapInvocation, AckContinuation, SelectionStep, scopeRows

\* Every answer is the successor that was recorded.
LEMMA AnswersStep == ASSUME Inv, Next PROVE AnswersAreRecorded'
  <1>1. ASSUME NEW w \in Workflow, NEW c \in Command, ReplaceWorkflow(w, c)
        PROVE  AnswersAreRecorded'
    <2>1. answers[w][c] = {} /\ EnvelopeOf[c] # NoWorkflow
      BY <1>1, WorkflowAssumption DEF ReplaceWorkflow, Inv, AnswersAreRecorded
    <2>2. \A v \in Workflow, d \in Command :
             /\ handoff'[v][d] = IF v = w /\ d = c THEN EnvelopeOf[c] ELSE handoff[v][d]
             /\ answers'[v][d] = IF v = w /\ d = c THEN {EnvelopeOf[c]} ELSE answers[v][d]
      BY <1>1, <2>1 DEF ReplaceWorkflow, Inv, Types
    <2>3. QED
      BY <2>1, <2>2 DEF AnswersAreRecorded, Inv
  <1>2. ASSUME NEW w \in Workflow, NEW c \in Command, ReplayReplace(w, c)
        PROVE  AnswersAreRecorded'
    <2>1. handoff' = handoff /\ handoff[w][c] # NoWorkflow
      BY <1>2 DEF ReplayReplace
    <2>2. \A v \in Workflow, d \in Command :
             answers'[v][d] = IF v = w /\ d = c THEN answers[w][c] \cup {handoff[w][c]}
                              ELSE answers[v][d]
      BY <1>2 DEF ReplayReplace, replaceResultFromHandoff, Inv, Types
    <2>3. QED
      BY <2>1, <2>2 DEF AnswersAreRecorded, Inv
  <1>3. CASE UNCHANGED <<handoff, answers>>
    BY <1>3 DEF AnswersAreRecorded, Inv
  <1>4. QED
    BY <1>1, <1>2, <1>3
       DEF Next, ScopeStep, CallerStep, CreateWorkflowEnvelope, TerminateWorkflow, Read, Forget,
           CompareAndSwapWorkflow, CompareAndSwapTask, CompareAndSwapInvocation,
           CompareAndSwapWorkflowState, ApplyProjectionWriteSet, AckContinuation, SelectionStep

\* The invariant is inductive.
LEMMA InvStep == Inv /\ [Next]_vars => Inv'
  <1> SUFFICES ASSUME Inv, [Next]_vars PROVE Inv'
    OBVIOUS
  <1>1. Types'
    BY TypesStep DEF Inv
  <1>2. CASE Next
    BY <1>1, <1>2, UnopenedStep, CopiesStep, OneActiveStep, QuietStep, BarrierStep, AnswersStep
       DEF Inv
  <1>3. CASE UNCHANGED vars
    BY <1>1, <1>3
       DEF vars, Inv, UnopenedIsEmpty, CopiesAreOld, CopyIsOld, OneActiveWorkflow,
           ClosedScopeIsQuiet, BarrierHolds, AnswersAreRecorded
  <1>4. QED
    BY <1>2, <1>3

\* The invariant of AgentWorkflow.
THEOREM Invariant == Spec => []Inv
  BY InvInit, InvStep, PTL DEF Spec

\* "A session has at most one active workflow", and points to it.
THEOREM OneScopeIsActive == Spec => []OneActiveWorkflow
  BY Invariant, PTL DEF Inv

\* No task, observation or selection outlives its scope.
THEOREM ClosedScopesStayQuiet == Spec => []ClosedScopeIsQuiet
  BY Invariant, PTL DEF Inv

\* No third scope begins before the final answer of the first is published.
THEOREM BarrierIsKept == Spec => []BarrierHolds
  BY Invariant, PTL DEF Inv

\* A replace command has one answer.
THEOREM OneAnswer == Spec => []ReplaceAnswersAgree
  <1>1. Inv => ReplaceAnswersAgree
    <2> SUFFICES ASSUME Inv, NEW w \in Workflow, NEW c \in Command
                 PROVE  Cardinality(answers[w][c]) <= 1
      BY DEF ReplaceAnswersAgree
    <2>1. answers[w][c] = {} \/ answers[w][c] = {handoff[w][c]}
      BY DEF Inv, AnswersAreRecorded
    <2>2. Cardinality({}) = 0 /\ Cardinality({handoff[w][c]}) = 1
      BY FS_EmptySet, FS_Singleton
    <2>3. QED
      BY <2>1, <2>2
  <1>2. QED
    BY Invariant, <1>1, PTL

(***************************************************************************)
(* Ended rows stay as they ended.                                          *)
(***************************************************************************)

\* OutcomesStand, for one workflow.
Stands(w) ==
  /\ \A s \in Slot : task[w][s].status \in TerminalStatus => task'[w][s] = task[w][s]
  /\ invocation[w].status \in EndedInvocation => invocation'[w].status = invocation[w].status
  /\ continuation[w] = "acked" => continuation'[w] = "acked"
  /\ selection[w] = "decided" => selection'[w] = "decided"

\* Ending a scope relabels nothing that has ended.
LEMMA CloseScopeStands ==
  ASSUME Inv, NEW w \in Workflow, NEW status \in TerminalStatus, NEW opened \in SUBSET Workflow,
         CloseScope(w, status, opened), \A v \in opened : workflow[v] = Absent
  PROVE  \A v \in Workflow : Stands(v)
  <1> TAKE v \in Workflow
  <1>1. /\ task[v] \in [Slot -> Row(TaskStatus)]
        /\ continuation'[v] = IF v = w THEN DiscardedContinuation(continuation[v]) ELSE continuation[v]
        /\ selection'[v] = IF v = w THEN SupersededSelection(selection[v]) ELSE selection[v]
    BY DEF CloseScope, Inv, Types
  <1>2. CASE v \in opened
    <2>1. invocation[v] = Absent /\ \A s \in Slot : task[v][s] = Absent
      BY <1>2 DEF Inv, UnopenedIsEmpty
    <2>2. Absent.status \notin TerminalStatus /\ Absent.status \notin EndedInvocation
      BY Statuses DEF Absent, EndedInvocation
    <2>3. QED
      BY <1>1, <2>1, <2>2 DEF Stands, DiscardedContinuation, SupersededSelection
  <1>3. CASE v \notin opened
    <2>1. invocation'[v] = invocation[v]
      BY <1>3 DEF CloseScope
    <2>2. \A s \in Slot : task'[v][s] = task[v][s] \/ task'[v][s] = CancelledTask(task[v][s])
      BY <1>3 DEF CloseScope
    <2>3. \A s \in Slot : task[v][s].status # "running" => CancelledTask(task[v][s]) = task[v][s]
      BY <1>1, CancelledTaskRow
    <2>4. QED
      BY <1>1, <2>1, <2>2, <2>3, Statuses DEF Stands, DiscardedContinuation, SupersededSelection
  <1>4. QED
    BY <1>2, <1>3

\* No step relabels what has ended.
LEMMA StandsStep == ASSUME Inv, Next PROVE \A v \in Workflow : Stands(v)
  <1> DEFINE All == \A v \in Workflow : Stands(v)
  <1>1. ASSUME NEW c \in Command, CreateWorkflowEnvelope(c) PROVE All
    <2>1. EnvelopeOf[c] \in Workflow
      BY WorkflowAssumption
    <2>2. /\ Absent.status \notin TerminalStatus /\ Absent.status \notin EndedInvocation
          /\ invocation[EnvelopeOf[c]] = Absent /\ \A s \in Slot : task[EnvelopeOf[c]][s] = Absent
      BY <1>1, <2>1, Statuses
         DEF CreateWorkflowEnvelope, Inv, UnopenedIsEmpty, Absent, EndedInvocation
    <2>3. \A v \in Workflow \ {EnvelopeOf[c]} : task'[v] = task[v] /\ invocation'[v] = invocation[v]
      BY <1>1, <2>1 DEF CreateWorkflowEnvelope, Inv, Types
    <2>4. continuation' = continuation /\ selection' = selection
      BY <1>1 DEF CreateWorkflowEnvelope
    <2>5. QED
      BY <2>1, <2>2, <2>3, <2>4 DEF Stands
  <1>2. ASSUME NEW w \in Workflow, NEW c \in Command, ReplaceWorkflow(w, c) PROVE All
    BY <1>2, CloseScopeStands, Statuses, WorkflowAssumption DEF ReplaceWorkflow
  <1>3. ASSUME NEW w \in Workflow, NEW c \in Command, NEW status \in TerminalStatus,
               TerminateWorkflow(w, c, status)
        PROVE  All
    BY <1>3, CloseScopeStands DEF TerminateWorkflow
  <1>4. ASSUME NEW k \in Caller, NEW status \in TaskStatus, CompareAndSwapTask(k, status) PROVE All
    <2>1. /\ memory[k].of \in Workflow /\ memory[k].slot \in Slot
          /\ task[memory[k].of][memory[k].slot].status = "running"
      BY <1>4, TaskCopyMatches DEF CompareAndSwapTask
    <2>2. \A v \in Workflow, s \in Slot :
             (v # memory[k].of \/ s # memory[k].slot) => task'[v][s] = task[v][s]
      BY <1>4, <2>1 DEF CompareAndSwapTask, Inv, Types
    <2>3. QED
      BY <1>4, <2>1, <2>2, Statuses DEF CompareAndSwapTask, Stands
  <1>5. ASSUME NEW k \in Caller, NEW next \in InvocationStatus, CompareAndSwapInvocation(k, next)
        PROVE  All
    <2>1. memory[k].of \in Workflow
      BY <1>5, MemoryOfKind DEF CompareAndSwapInvocation, Inv, Types
    <2>2. /\ \A v \in Workflow \ {memory[k].of} : invocation'[v] = invocation[v]
          /\ invocation'[memory[k].of].status = next
      BY <1>5, <2>1 DEF CompareAndSwapInvocation, Raised, Inv, Types
    <2>3. invocation[memory[k].of].status \in EndedInvocation =>
             invocation[memory[k].of].status = next
      BY <1>5, <2>1 DEF CompareAndSwapInvocation, allowedPreviousInvocationStatuses, EndedInvocation
    <2>4. QED
      BY <1>5, <2>1, <2>2, <2>3 DEF CompareAndSwapInvocation, Stands
  <1>6. ASSUME NEW k \in Caller, NEW c \in Command, ApplyProjectionWriteSet(k, c) PROVE All
    <2>1. memory[k].of \in Workflow
      BY <1>6, WorkflowCopyMatches DEF ApplyProjectionWriteSet
    <2>2. \A v \in Workflow, s \in Slot : task'[v][s] = task[v][s] \/ task[v][s] = Absent
      <3>1. \/ task' = task
            \/ /\ task[memory[k].of]["child"] = Absent
               /\ task' = [task EXCEPT ![memory[k].of]["child"] = Fresh("running")]
        BY <1>6 DEF ApplyProjectionWriteSet
      <3>2. CASE task' = [task EXCEPT ![memory[k].of]["child"] = Fresh("running")]
        <4>1. \A v \in Workflow, s \in Slot :
                 task'[v][s] = IF v = memory[k].of /\ s = "child" THEN Fresh("running")
                               ELSE task[v][s]
          BY <2>1, <3>2 DEF Inv, Types
        <4>2. QED
          BY <3>1, <4>1
      <3>3. QED
        BY <3>1, <3>2
    <2>3. \A v \in Workflow : continuation'[v] = continuation[v] \/ continuation[v] = "none"
      BY <1>6, <2>1 DEF ApplyProjectionWriteSet, Inv, Types
    <2>4. invocation' = invocation /\ selection' = selection
      BY <1>6 DEF ApplyProjectionWriteSet
    <2>5. Absent.status \notin TerminalStatus
      BY Statuses DEF Absent
    <2>6. QED
      BY <2>2, <2>3, <2>4, <2>5 DEF Stands
  <1>7. ASSUME NEW w \in Workflow, AckContinuation(w) PROVE All
    BY <1>7 DEF AckContinuation, Stands, Inv, Types
  <1>8. ASSUME NEW w \in Workflow, SelectionStep(w) PROVE All
    BY <1>8 DEF SelectionStep, Stands, Inv, Types
  <1>9. CASE UNCHANGED scopeRows
    BY <1>9 DEF scopeRows, Stands
  <1>10. ASSUME NEW k \in Caller, CompareAndSwapWorkflow(k) PROVE All
    BY <1>10 DEF CompareAndSwapWorkflow, Stands
  <1>11. QED
    BY <1>1, <1>2, <1>3, <1>4, <1>5, <1>6, <1>7, <1>8, <1>9, <1>10
       DEF Next, ScopeStep, CallerStep, ReplayReplace, Read, Forget, CompareAndSwapWorkflowState

\* What has ended stays as it ended.
THEOREM EndedRowsStand == Spec => OutcomesStand
  <1>1. Inv /\ [Next]_vars => [\A w \in Workflow : Stands(w)]_vars
    BY StandsStep
  <1>2. QED
    BY Invariant, <1>1, PTL DEF Spec, OutcomesStand, Stands

(***************************************************************************)
(* The session implements SessionScopes.                                   *)
(***************************************************************************)

Used == {w \in Workflow : workflow[w] # Absent}

\* What a transaction does to the set of scopes that were ever opened.
LEMMA UsedAfterClose ==
  ASSUME Inv, NEW w \in Workflow, NEW status \in TerminalStatus, NEW opened \in SUBSET Workflow,
         CloseScope(w, status, opened), workflow[w].status = "active"
  PROVE  Used' = Used \cup opened
  <1>1. workflow[w] # Absent /\ Fresh("active") # Absent
    BY DEF Absent, Fresh
  <1>2. Raised(workflow[w], status) # Absent
    BY Statuses DEF Raised, Absent
  <1>3. \A v \in Workflow : (workflow'[v] # Absent) <=> (workflow[v] # Absent \/ v \in opened)
    BY <1>1, <1>2 DEF CloseScope
  <1>4. QED
    BY <1>3 DEF Used

\* Writers by revision open no scope.
LEMMA UsedAfterRevision ==
  ASSUME Inv, NEW w \in Workflow, workflow[w].status = "active",
         workflow' = [workflow EXCEPT ![w] = Raised(@, "active")]
  PROVE  Used' = Used
  <1>1. workflow[w] # Absent /\ Raised(workflow[w], "active") # Absent
    BY DEF Absent, Raised
  <1>2. QED
    BY <1>1 DEF Used, Inv, Types

\* Every step opens, replaces or closes a scope, or leaves them alone.
LEMMA ScopesStep ==
  ASSUME Inv, Next
  PROVE  [Scopes!ScopesNext]_<<session.active, Used>>
  <1> DEFINE Step == [Scopes!ScopesNext]_<<session.active, Used>>
  <1> USE DEF Scopes!ScopesNext
  <1>1. ASSUME NEW c \in Command, CreateWorkflowEnvelope(c) PROVE Step
    <2>1. EnvelopeOf[c] \in Workflow
      BY WorkflowAssumption
    <2>2. Used' = Used \cup {EnvelopeOf[c]} /\ EnvelopeOf[c] \notin Used
      BY <1>1, <2>1 DEF CreateWorkflowEnvelope, Used, Fresh, Absent, Inv, Types
    <2>3. session.active = NoWorkflow /\ session'.active = EnvelopeOf[c]
      BY <1>1 DEF CreateWorkflowEnvelope, SessionIsFree, Inv, Types, Session
    <2>4. QED
      BY <2>1, <2>2, <2>3 DEF Scopes!Open, Used
  <1>2. ASSUME NEW w \in Workflow, NEW c \in Command, ReplaceWorkflow(w, c) PROVE Step
    <2>1. EnvelopeOf[c] \in Workflow
      BY WorkflowAssumption
    <2>2. Used' = Used \cup {EnvelopeOf[c]} /\ EnvelopeOf[c] \notin Used
      BY <1>2, <2>1, UsedAfterClose, Statuses DEF ReplaceWorkflow, Used
    <2>3. session.active # NoWorkflow /\ session'.active = EnvelopeOf[c]
      BY <1>2, WorkflowAssumption DEF ReplaceWorkflow, MayReplace
    <2>4. QED
      BY <2>1, <2>2, <2>3 DEF Scopes!Replace, Used
  <1>3. ASSUME NEW w \in Workflow, NEW c \in Command, NEW status \in TerminalStatus,
               TerminateWorkflow(w, c, status)
        PROVE  Step
    <2>1. Used' = Used
      BY <1>3, UsedAfterClose DEF TerminateWorkflow
    <2>2. session.active # NoWorkflow /\ session'.active = NoWorkflow
      BY <1>3, WorkflowAssumption DEF TerminateWorkflow, Inv, Types, Session
    <2>3. QED
      BY <2>1, <2>2 DEF Scopes!Close, Used
  <1>4. ASSUME NEW k \in Caller,
               CompareAndSwapWorkflow(k) \/ \E c \in Command : ApplyProjectionWriteSet(k, c)
        PROVE  Step
    <2>1. /\ memory[k].of \in Workflow /\ workflow[memory[k].of].status = "active"
          /\ memory[k].row.status = "active"
      BY <1>4, WorkflowCopyMatches DEF CompareAndSwapWorkflow, ApplyProjectionWriteSet
    <2>2. /\ workflow' = [workflow EXCEPT ![memory[k].of] = Raised(@, "active")]
          /\ session' = session
      BY <1>4, <2>1 DEF CompareAndSwapWorkflow, ApplyProjectionWriteSet
    <2>3. QED
      BY <2>1, <2>2, UsedAfterRevision
  <1>5. ASSUME NEW k \in Caller, CompareAndSwapWorkflowState(k) PROVE Step
    BY <1>5 DEF CompareAndSwapWorkflowState, scopeRows, Used
  <1>6. CASE UNCHANGED <<session, workflow>>
    BY <1>6 DEF Used
  <1>7. QED
    BY <1>1, <1>2, <1>3, <1>4, <1>5, <1>6
       DEF Next, ScopeStep, CallerStep, ReplayReplace, Read, Forget, CompareAndSwapTask,
           CompareAndSwapInvocation, AckContinuation, SelectionStep, scopeRows

\* The scopes of a session live the abstract life of SessionScopes.
THEOREM RefinesSessionScopes == Spec => ImplementsSessionScopes
  <1>1. Init => Scopes!ScopesInit
    BY DEF Init, Scopes!ScopesInit
  <1>2. Inv /\ [Next]_vars => [Scopes!ScopesNext]_(Scopes!scopeVars)
    <2> SUFFICES ASSUME Inv, [Next]_vars PROVE [Scopes!ScopesNext]_(Scopes!scopeVars)
      OBVIOUS
    <2>1. CASE Next
      BY <2>1, ScopesStep DEF Scopes!scopeVars, Used
    <2>2. CASE UNCHANGED vars
      BY <2>2 DEF vars, Scopes!scopeVars
    <2>3. QED
      BY <2>1, <2>2
  <1>3. QED
    BY Invariant, <1>1, <1>2, PTL DEF Spec, ImplementsSessionScopes, Scopes!ScopesSpec
=============================================================================
