------------------------- MODULE GenerationEntries -------------------------
(***************************************************************************)
(* The generation workspace of the front end (domains/generation/hooks):   *)
(* the optimistic entry of a submit, the list of tasks that the cache      *)
(* polls from the server, how the two are merged into the entries that are *)
(* shown, the check of a video's status, and the deletion of an entry.     *)
(*                                                                         *)
(* A submit makes at most one task, so both are named by the submit; an    *)
(* entry whose message has the local id and the entry of its task are two  *)
(* different entries.  A callback runs to its end, and React renders after *)
(* it, so that each step ends with the effect that merges messages and     *)
(* tasks.                                                                  *)
(***************************************************************************)
EXTENDS Naturals, FiniteSets

CONSTANTS Submit,        \* what the user submits
          Words, Prompt, \* Prompt[s]: the words of a submit
          Kinds,         \* the kinds, of "text", "image" and "video", to submit
          Absent,
          MaxDeletes,    \* bound on the entries the user deletes
          MaxTrouble     \* bound on reloads and requests that fail

ASSUME GenerationAssumption ==
  /\ Prompt \in [Submit -> Words]
  /\ Kinds \subseteq {"text", "image", "video"}
  /\ MaxDeletes \in Nat /\ MaxTrouble \in Nat
  /\ Absent \notin [id : {"local", "task"}, status : {"pending", "ended"}]

VARIABLES kind,      \* the kind the workspace is open for
          request,   \* the POST of each submit; "unheard": nobody waits for its answer
          tasks,     \* the server's tasks
          local,     \* the messages of the page's scope, kept in localStorage too
          recent,    \* the task list in the cache
          fetch,     \* the request for the task list whose answer will be taken
          deletion,  \* deleteGenerationEntry for an entry of each submit
          old,       \* the submits made more than staleLocalPendingGraceMs ago
          before,    \* before[s]: the submits whose task had ended when s was made
          asked,     \* history: the submits of which the user deleted an entry
          deletes, trouble

vars == <<kind, request, tasks, local, recent, fetch, deletion, old, before,
          asked, deletes, trouble>>

Message == [id : {"local", "task"}, status : {"pending", "ended"}]
List == [Submit -> {"none", "pending", "ended"}]
Listed(list) == {s \in Submit : list[s] # "none"}
NoDeletion == [at |-> "none"]

InTrouble == trouble < MaxTrouble /\ trouble' = trouble + 1
Calm == UNCHANGED trouble

-----------------------------------------------------------------------------
(* What is shown *)

\* The entries of a submit in conversationMessages: history overrides a local
\* message of the same id, unless that one has ended and the task has not
\* (mergeConversationMessages).
LocalEntry(s) == local[s] # Absent /\ local[s].id = "local"
TaskEntry(s) == recent[s] # "none" \/ (local[s] # Absent /\ local[s].id = "task")
Shown(s) == LocalEntry(s) \/ TaskEntry(s)
StatusOfTaskEntry(s) ==
  IF local[s] # Absent /\ local[s].id = "task"
       /\ (recent[s] = "none" \/ (local[s].status = "ended" /\ recent[s] = "pending"))
    THEN local[s].status ELSE recent[s]
Spins(s) == \/ LocalEntry(s) /\ local[s].status = "pending"
            \/ TaskEntry(s) /\ StatusOfTaskEntry(s) = "pending"

\* hasSiblingTaskKindAndTime: a task of the list that did not end before the
\* submit.
Siblings(s, list) == Listed(list) \ before[s]

\* Fault: only messages with a task's id give way to the list.
BackedOnly(msgs, list, aged) ==
  [s \in Submit |->
     IF msgs[s] # Absent /\ msgs[s].id = "task" /\ list[s] # "none"
          /\ ~(msgs[s].status = "ended" /\ list[s] = "pending")
       THEN Absent ELSE msgs[s]]

\* Fault: the age of a local message is not looked at.
YoungToo(msgs, list, aged) ==
  [s \in Submit |-> IF msgs[s] # Absent /\ msgs[s].id = "local" /\ Siblings(s, list) # {}
                      THEN Absent ELSE msgs[s]]

\* The effect after a render: a message gives way to its task in the list
\* unless only the message has ended (syncScopedMessagesWithTasks,
\* removeMessagesBackedByTasks); a pending local one to a sibling with the same
\* words, and an old local one, pending or failed, to any sibling
\* (removeStaleLocalPendingMessages).
Synced(msgs, list, aged) ==
  [s \in Submit |->
     LET message == msgs[s]
         backed == message.id = "task" /\ list[s] # "none"
                     /\ ~(message.status = "ended" /\ list[s] = "pending")
         materialized == message.id = "local" /\ message.status = "pending"
                     /\ \E t \in Siblings(s, list) : Prompt[t] = Prompt[s]
         orphan == message.id = "local" /\ s \in aged /\ Siblings(s, list) # {}
     IN IF message # Absent /\ (backed \/ materialized \/ orphan) THEN Absent ELSE message]

\* The messages become msgs, and the page renders.
Show(msgs) == local' = Synced(msgs, recent, old)

\* mutateTasks(): the list is asked for anew; an answer under way is dropped,
\* and who waited for it goes on with the list in the cache.
Revalidate(deletions) ==
  /\ fetch' = [at |-> "asked"]
  /\ deletion' = [s \in Submit |-> IF deletions[s].at = "awaiting"
                                     THEN [deletions[s] EXCEPT !.at = "ready"] ELSE deletions[s]]

-----------------------------------------------------------------------------
Init ==
  /\ kind \in Kinds
  /\ request = [s \in Submit |-> "idle"]
  /\ tasks = [s \in Submit |-> "none"]
  /\ local = [s \in Submit |-> Absent]
  /\ recent = [s \in Submit |-> "none"]
  /\ fetch = [at |-> "asked"]
  /\ deletion = [s \in Submit |-> NoDeletion]
  /\ old = {} /\ before = [s \in Submit |-> {}]
  /\ asked = {} /\ deletes = 0 /\ trouble = 0

(* Submitting *)

\* submitGeneration puts the prompt and a pending answer on the page and sends
\* the request (ensureGenerationConversation is part of it).
submitGeneration(s) ==
  /\ request[s] = "idle"
  /\ request' = [request EXCEPT ![s] = "sent"]
  /\ before' = [before EXCEPT ![s] = {t \in Submit : tasks[t] = "ended"}]
  /\ local' = [local EXCEPT ![s] = [id |-> "local", status |-> "pending"]]
  /\ UNCHANGED <<kind, tasks, recent, fetch, deletion, old, asked, deletes>> /\ Calm

\* The server takes the request and makes a task of it.
ServerTakes(s) ==
  /\ request[s] \in {"sent", "unheard"}
  /\ request' = [request EXCEPT ![s] = IF @ = "sent" THEN "taken" ELSE "over"]
  /\ tasks' = [tasks EXCEPT ![s] = "pending"]
  /\ UNCHANGED <<kind, local, recent, fetch, deletion, old, before, asked, deletes>> /\ Calm

\* A task ends, well or not: both are listed and shown in the same way.
TaskEnds(s) ==
  /\ tasks[s] = "pending"
  /\ tasks' = [tasks EXCEPT ![s] = "ended"]
  /\ UNCHANGED <<kind, request, local, recent, fetch, deletion, old, before, asked, deletes>>
  /\ Calm

\* onStart of a text's stream: the messages take the id of the task.
onStart(s) ==
  /\ kind = "text" /\ request[s] = "taken"
  /\ request' = [request EXCEPT ![s] = "started"]
  /\ Show([local EXCEPT ![s] = IF LocalEntry(s) THEN [id |-> "task", status |-> "pending"]
                               ELSE @])
  /\ UNCHANGED <<kind, tasks, recent, fetch, deletion, old, before, asked, deletes>> /\ Calm

\* Fault: an answer puts its message on the page whether or not the page still
\* has the entry.
AnswerAlways(s, status) == [local EXCEPT ![s] = [id |-> "task", status |-> status]]

\* The answer of the submit replaces the pending message, if it is still there.
Answer(s, status) ==
  [local EXCEPT ![s] = IF @ # Absent THEN [id |-> "task", status |-> status] ELSE @]

\* What an answer may say of the task: how it stands or stood.  A text's stream
\* ends with its task.
Reported(s) ==
  (IF kind = "text" THEN {} ELSE {"pending"})
    \cup (IF tasks[s] = "pending" THEN {} ELSE {"ended"})

\* The answer comes.
Answered(s) ==
  /\ request[s] = IF kind = "text" THEN "started" ELSE "taken"
  /\ request' = [request EXCEPT ![s] = "over"]
  /\ \E status \in Reported(s) : Show(Answer(s, status))
  /\ Revalidate(deletion)
  /\ UNCHANGED <<kind, tasks, recent, old, before, asked, deletes>> /\ Calm

\* The catch of submitGeneration: the request or its answer is lost.  A request
\* may be at the server's door; a text that has started keeps its task's id.
SubmitFails(s) ==
  /\ request[s] \in {"sent", "taken", "started"} /\ InTrouble
  /\ request' = [request EXCEPT ![s] = IF @ = "sent" THEN "unheard" ELSE "over"]
  /\ Show([local EXCEPT ![s] = IF @ = Absent THEN @
                               ELSE [id |-> IF request[s] = "started" THEN "task" ELSE "local",
                                     status |-> "ended"]])
  /\ Revalidate(deletion)
  /\ UNCHANGED <<kind, tasks, recent, old, before, asked, deletes>>

-----------------------------------------------------------------------------
(* The task list *)

\* The server reads its tasks for the answer.
ListRead ==
  /\ fetch.at = "asked"
  /\ fetch' = [at |-> "answered",
               list |-> [s \in Submit |-> IF tasks[s] = "deleted" THEN "none" ELSE tasks[s]]]
  /\ UNCHANGED <<kind, request, tasks, local, recent, deletion, old, before, asked, deletes>>
  /\ Calm

\* The answer is taken, or the request fails; who waited for it goes on.
ListTaken ==
  /\ \/ /\ fetch.at = "answered" /\ recent' = fetch.list /\ Calm
        /\ local' = Synced(local, fetch.list, old)
     \/ fetch.at # "none" /\ InTrouble /\ UNCHANGED <<recent, local>>
  /\ fetch' = [at |-> "none"]
  /\ deletion' = [s \in Submit |-> IF deletion[s].at = "awaiting"
                                     THEN [deletion[s] EXCEPT !.at = "ready"] ELSE deletion[s]]
  /\ UNCHANGED <<kind, request, tasks, old, before, asked, deletes>>

\* The 30 s timer, while an entry is pending.
Poll ==
  /\ \E s \in Submit : Spins(s)
  /\ fetch.at = "none"
  /\ Revalidate(deletion)
  /\ UNCHANGED <<kind, request, tasks, local, recent, old, before, asked, deletes>> /\ Calm

\* The stream of notifications says that a task started or ended, or that it
\* has connected again (GenerationNotificationSync); it has no replay.
Notified ==
  /\ \E s \in Submit : tasks[s] \in {"pending", "ended"} /\ recent[s] # tasks[s]
  /\ fetch.at = "none"
  /\ Revalidate(deletion)
  /\ UNCHANGED <<kind, request, tasks, local, recent, old, before, asked, deletes>> /\ Calm

\* A minute has passed since a submit.
Ages(s) ==
  /\ s \notin old /\ LocalEntry(s)
  /\ old' = old \cup {s}
  /\ UNCHANGED <<kind, request, tasks, local, recent, fetch, deletion, before, asked, deletes>>
  /\ Calm

\* The page renders for a reason of its own.
Render ==
  /\ Show(local) /\ local' # local
  /\ UNCHANGED <<kind, request, tasks, recent, fetch, deletion, old, before, asked, deletes>>
  /\ Calm

\* The page is loaded again: its messages come from localStorage, and nobody
\* waits for what was under way.
Reload ==
  /\ InTrouble
  /\ request' = [s \in Submit |-> CASE request[s] = "idle" -> "idle"
                                     [] request[s] \in {"sent", "unheard"} -> "unheard"
                                     [] OTHER -> "over"]
  /\ recent' = [s \in Submit |-> "none"]
  /\ fetch' = [at |-> "asked"]
  /\ deletion' = [s \in Submit |-> NoDeletion]
  /\ UNCHANGED <<kind, tasks, local, old, before, asked, deletes>>

-----------------------------------------------------------------------------
(* The status of a video *)

\* The 30 s timer of a pending video: getGenerationVideo is asked with the id
\* of the message, a local one too.  A local id names no video and the check
\* fails, as it does for a deleted one; a check that fails ends the message
\* (failedVideoMessage).  An answer finds the message or changes nothing, so
\* that asking and answering are one step; the status may be out of date.
refreshVideo(s) ==
  /\ kind = "video"
  /\ \E id \in {"local", "task"}, status \in {"pending", "ended"} :
       /\ \/ /\ id = "local" /\ LocalEntry(s) /\ local[s].status = "pending"
             /\ status = "ended" /\ Calm
          \/ /\ id = "task" /\ TaskEntry(s) /\ StatusOfTaskEntry(s) = "pending"
             /\ \/ status \in {"pending", tasks[s]} /\ tasks[s] # "deleted" /\ Calm
                \/ status = "ended" /\ tasks[s] = "deleted" /\ Calm
                \/ status = "ended" /\ InTrouble
       /\ Show([local EXCEPT ![s] = IF @ # Absent /\ @.id = id THEN [@ EXCEPT !.status = status]
                                    ELSE @])
  /\ Revalidate(deletion)
  /\ UNCHANGED <<kind, request, tasks, recent, old, before, asked, deletes>>

-----------------------------------------------------------------------------
(* Deleting an entry *)

\* deleteGenerationEntry.  The entry of a task is deleted by the task's id.
\* For a local entry the list is asked for first, and the messages of the
\* moment of the click are kept for the search of the task behind it.
deleteGenerationEntry(s, id) ==
  /\ deletes < MaxDeletes /\ deletes' = deletes + 1
  /\ deletion[s] = NoDeletion
  /\ asked' = asked \cup {s}
  /\ Show([local EXCEPT ![s] = IF @ # Absent /\ @.id = id THEN Absent ELSE @])
  /\ \/ /\ id = "task" /\ TaskEntry(s)
        /\ deletion' = [deletion EXCEPT ![s] = [at |-> "deleting", task |-> s]]
        /\ UNCHANGED fetch
     \/ /\ id = "local" /\ LocalEntry(s)
        /\ fetch' = [at |-> "asked"]
        /\ deletion' = [t \in Submit |->
             IF t = s THEN [at |-> "awaiting", shown |-> {u \in Submit : TaskEntry(u)}]
             ELSE IF deletion[t].at = "awaiting" THEN [deletion[t] EXCEPT !.at = "ready"]
             ELSE deletion[t]]
  /\ UNCHANGED <<kind, request, tasks, recent, old, before>> /\ Calm

\* The tasks that may be the one behind a local entry: same words, and no entry
\* of the kept messages shows them.
OrphansOf(s) == {t \in Listed(recent) \ deletion[s].shown : Prompt[t] = Prompt[s]}

\* Fault: the answer is not checked for null.
OrphanUnchecked(s) ==
  /\ deletion[s].at = "ready"
  /\ deletion' = [deletion EXCEPT ![s] = [at |-> "deleting",
       task |-> IF Cardinality(OrphansOf(s)) = 1 THEN CHOOSE t \in OrphansOf(s) : TRUE ELSE Absent]]
  /\ UNCHANGED <<kind, request, tasks, local, recent, fetch, old, before, asked, deletes>> /\ Calm

\* orphanTaskIdForLocalEntry, when the list has come.
orphanTaskIdForLocalEntry(s) ==
  /\ deletion[s].at = "ready"
  /\ deletion' = [deletion EXCEPT ![s] =
       IF Cardinality(OrphansOf(s)) = 1
         THEN [at |-> "deleting", task |-> CHOOSE t \in OrphansOf(s) : TRUE] ELSE NoDeletion]
  /\ UNCHANGED <<kind, request, tasks, local, recent, fetch, old, before, asked, deletes>>
  /\ Calm

\* The DELETE at the server, and its answer, upon which the list is asked for.
ServerDeletes(s) ==
  /\ deletion[s].at = "deleting"
  /\ tasks' = [tasks EXCEPT ![deletion[s].task] = "deleted"]
  /\ deletion' = [deletion EXCEPT ![s] = [at |-> "deleted"]]
  /\ UNCHANGED <<kind, request, local, recent, fetch, old, before, asked, deletes>> /\ Calm

Deleted(s) ==
  /\ \/ deletion[s].at = "deleted" /\ Calm
     \/ deletion[s].at \in {"deleting", "deleted"} /\ InTrouble
  /\ Revalidate([deletion EXCEPT ![s] = NoDeletion])
  /\ UNCHANGED <<kind, request, tasks, local, recent, old, before, asked, deletes>>

-----------------------------------------------------------------------------
Next == \/ ListRead \/ ListTaken \/ Poll \/ Notified \/ Render \/ Reload
        \/ \E s \in Submit :
             \/ submitGeneration(s) \/ ServerTakes(s) \/ TaskEnds(s) \/ onStart(s)
             \/ Answered(s) \/ SubmitFails(s) \/ Ages(s)
             \/ refreshVideo(s)
             \/ \E id \in {"local", "task"} : deleteGenerationEntry(s, id)
             \/ orphanTaskIdForLocalEntry(s) \/ ServerDeletes(s) \/ Deleted(s)

Spec == Init /\ [][Next]_vars

\* The server answers for the list, and the timer comes again and again while
\* an entry is pending; nothing else has to happen.  What makes the page drop
\* an answer and ask anew comes 30 s apart (a video's check) or a bounded number
\* of times, so that an answer gets through: hence the strong fairness.
Fairness == WF_vars(ListRead) /\ SF_vars(ListTaken) /\ WF_vars(Poll)
FairSpec == Spec /\ Fairness

-----------------------------------------------------------------------------
(* Properties *)

\* Every variable holds a value of its type.
TypeOK ==
  /\ kind \in Kinds
  /\ request \in [Submit -> {"idle", "sent", "unheard", "taken", "started", "over"}]
  /\ tasks \in [Submit -> {"none", "pending", "ended", "deleted"}]
  /\ local \in [Submit -> Message \cup {Absent}]
  /\ recent \in List
  /\ fetch \in [at : {"none", "asked"}] \cup [at : {"answered"}, list : List]
  /\ deletion \in [Submit -> [at : {"none", "deleted"}]
                             \cup [at : {"awaiting", "ready"}, shown : SUBSET Submit]
                             \cup [at : {"deleting"}, task : Submit]]
  /\ old \subseteq Submit /\ before \in [Submit -> SUBSET Submit]
  /\ asked \subseteq Submit /\ deletes \in 0 .. MaxDeletes /\ trouble \in 0 .. MaxTrouble

\* An entry leaves the page only when the user deleted it, when its task is
\* gone, when the page is loaded again (the list comes anew), when another task
\* has the same words, or when it is an old one that did not succeed and another
\* task is listed: neither an answer, nor a list that was read before the task
\* was made, nor a failed check takes it away.
Swept(s) == LocalEntry(s) /\ \E t \in Listed(recent') \ {s} : Prompt[t] = Prompt[s] \/ s \in old
Kept(s) == Shown(s) => \/ Shown(s)' \/ s \in asked' \/ tasks[s] = "deleted"
                       \/ recent' = [t \in Submit |-> "none"] \/ Swept(s)
EntriesAreKept == [][\A s \in Submit : Kept(s)]_vars

\* An entry that has left the page with its task deleted, and the deletion
\* answered, does not come back, whatever is still under way: the answer of its
\* submit, a list that was read before, a list that another deletion waits for.
DeletedStaysAway ==
  [][\A s \in Submit :
       tasks[s] = "deleted" /\ ~Shown(s) /\ (\A t \in Submit : deletion[t].at # "deleted")
         => ~Shown(s)']_vars

\* When a task has ended, no entry of its submit spins for ever, whatever was
\* lost on the way.
SpinningEnds == \A s \in Submit : tasks[s] = "ended" ~> ~Spins(s)

\* A task is deleted only when the user deleted an entry of its submit.
\* useGenerationTaskActions.ts says of the search for the task behind a local
\* entry that it is strict "so a real, visible task is never deleted by mistake".
DeletesWhatWasAsked ==
  [][\A s \in Submit : tasks[s] # "deleted" /\ tasks'[s] = "deleted" => s \in asked]_vars
=============================================================================
