--------------------------- MODULE DocumentStore ---------------------------
(***************************************************************************)
(* The documents of one project in the workspace front end                 *)
(* (domains/documents/stores): the store that the editor types into, the   *)
(* autosave queue that keeps one PATCH per document in flight, the         *)
(* optimistic mutations with their snapshots, and the merging of whatever  *)
(* the server sends (poll, delta, answer of a mutation, agent stream).     *)
(*                                                                         *)
(* A document is a text, a place (parent, folder, order, category, draft:  *)
(* what a PATCH without a version may change) and a version.  Every text   *)
(* written by anybody is a new number, so that texts can be told apart.    *)
(* JavaScript runs a callback to its end, so each callback is one step;    *)
(* requests wait on the way to the server and their answers on the way     *)
(* back.  One mutation and one fetch are under way at a time.              *)
(***************************************************************************)
EXTENDS Naturals, FiniteSets

CONSTANTS Doc, Absent,
          Initial,      \* the documents that exist at the start
          MaxUser,      \* bound on what the user does
          MaxFetch,     \* bound on polls and deltas
          MaxTrouble,   \* bound on writes by others, requests that fail, reloads
          MaxAttempts   \* maxSaveAttemptsPerBurst

ASSUME DocumentAssumption ==
  /\ Initial \subseteq Doc
  /\ MaxUser \in Nat /\ MaxFetch \in Nat /\ MaxTrouble \in Nat
  /\ MaxAttempts \in Nat \ {0}
  /\ Absent \notin [text : Nat, place : Nat, version : Nat]
  /\ Absent \notin [text : Nat, place : Nat, version : Nat, dirty : BOOLEAN]

VARIABLES loaded,    \* store.projectId is this project; FALSE: null
          docs,      \* store.documents
          server,    \* the server's documents
          task,      \* saveTasks: each document's save loop
          mutation,  \* the optimistic mutation whose answer is awaited
          fetch,     \* the poll or delta under way
          undoable,  \* operationLog: the text before the last operation not undone
          used,      \* how much of each bound is used
          typed,     \* history: typed text that has not reached the server, 0 if none
          held       \* history: the texts each document has had on the server

vars == <<loaded, docs, server, task, mutation, fetch, undoable, used, typed, held>>

Bounds == [text |-> MaxUser + MaxTrouble, user |-> MaxUser, fetch |-> MaxFetch,
           trouble |-> MaxTrouble]
Using(what) == used[what] < Bounds[what] /\ used' = [used EXCEPT ![what] = @ + 1]

\* A write of new text, on the account of `who`.
NewText == used.text + 1
Writing(who) ==
  /\ used[who] < Bounds[who]
  /\ used' = [used EXCEPT ![who] = @ + 1, !.text = @ + 1]

NoReply == [kind |-> "none"]
Idle == [at |-> "idle", rerun |-> FALSE, timer |-> FALSE, attempts |-> 0,
         sent |-> Absent, reply |-> NoReply]
NoMutation == [kind |-> "none"]
NoFetch == [kind |-> "none"]

Present(ds) == {d \in Doc : ds[d] # Absent}
Local(remote) == IF remote = Absent THEN Absent
                 ELSE [text |-> remote.text, place |-> remote.place, version |-> remote.version,
                       dirty |-> FALSE]
\* Fault: the local flag is sent along.
WithFlag(local) == local

\* What a request says of a document.
Remote(local) == IF local = Absent THEN Absent
                 ELSE [text |-> local.text, place |-> local.place, version |-> local.version]
Other(place) == 1 - place

Init ==
  /\ loaded = TRUE
  /\ server = [d \in Doc |-> IF d \in Initial THEN [text |-> 0, place |-> 0, version |-> 1]
                            ELSE Absent]
  /\ docs = [d \in Doc |-> Local(server[d])]
  /\ held = [d \in Doc |-> IF d \in Initial THEN {0} ELSE {}]
  /\ task = [d \in Doc |-> Idle]
  /\ mutation = NoMutation
  /\ fetch = NoFetch
  /\ undoable = [d \in Doc |-> Absent]
  /\ used = [what \in DOMAIN Bounds |-> 0]
  /\ typed = [d \in Doc |-> 0]

-----------------------------------------------------------------------------
(* The save queue *)

\* One turn of runDocumentSaveLoop: it ends when there is nothing to save,
\* else it sends the current copy with the version it knows.
LoopTurn(t, d, ds, attempts) ==
  IF ds[d] # Absent /\ ds[d].dirty
    THEN [t EXCEPT !.at = "patch", !.rerun = FALSE, !.attempts = attempts,
                   !.sent = ds[d], !.reply = NoReply]
    ELSE [Idle EXCEPT !.timer = t.timer]

\* scheduleDocumentSave
scheduleDocumentSave(t, d, ds) ==
  IF t.at # "idle" THEN [t EXCEPT !.timer = FALSE, !.rerun = TRUE]
  ELSE LoopTurn([t EXCEPT !.timer = FALSE], d, ds, 0)

\* Fault: a save that has failed is given up without a retry.
GiveUp(t, d, ds) == IF t.rerun THEN LoopTurn([t EXCEPT !.timer = FALSE], d, ds, 0) ELSE Idle

\* The loop returns after a failure: the retry timer is set, unless an edit
\* came in meanwhile and the loop starts over.
scheduleBackgroundRetry(t, d, ds) ==
  IF t.rerun THEN LoopTurn([t EXCEPT !.timer = FALSE], d, ds, 0)
  ELSE [Idle EXCEPT !.timer = TRUE]

\* The server keeps texts: what it holds now, and the typed text that has
\* thereby arrived.
ServerHolds(next) ==
  /\ server' = next
  /\ held' = [d \in Doc |-> IF next[d] = Absent THEN held[d] ELSE held[d] \cup {next[d].text}]
  /\ typed' = [d \in Doc |-> IF next[d] # Absent /\ next[d].text = typed[d] THEN 0 ELSE typed[d]]

Saved(d) == [text |-> task[d].sent.text, place |-> task[d].sent.place,
             version |-> server[d].version + 1]

\* The server handles a PATCH that carries a version.
PatchArrives(d) ==
  LET expected == task[d].sent.version IN
  /\ task[d].at = "patch" /\ task[d].reply = NoReply
  /\ IF server[d] # Absent /\ server[d].version = expected
       THEN /\ ServerHolds([server EXCEPT ![d] = Saved(d)])
            /\ task' = [task EXCEPT ![d].reply = [kind |-> "saved", version |-> expected + 1]]
       ELSE /\ task' = [task EXCEPT ![d].reply =
                          [kind |-> IF server[d] = Absent THEN "error" ELSE "conflict"]]
            /\ UNCHANGED <<server, held, typed>>
  /\ UNCHANGED <<loaded, docs, mutation, fetch, undoable, used>>

\* The request or its answer is lost, before or after the server acted.
PatchFails(d) ==
  /\ task[d].at = "patch" /\ task[d].reply.kind \in {"none", "saved"}
  /\ Using("trouble")
  /\ task' = [task EXCEPT ![d].reply = [kind |-> "error"]]
  /\ UNCHANGED <<loaded, docs, server, mutation, fetch, undoable, typed, held>>

\* Fault: the acknowledgement clears the flag whatever was typed since.
AcknowledgedAlways(ds, d, sent, version) ==
  IF ~loaded \/ ds[d] = Absent THEN ds ELSE [ds EXCEPT ![d].version = version, ![d].dirty = FALSE]

\* acknowledgeDocumentSave.  The code tells comments apart by identity, so that
\* a hydrated copy may stay dirty and be saved once more; that is left out.
acknowledgeDocumentSave(ds, d, sent, version) ==
  IF ~loaded \/ ds[d] = Absent THEN ds
  ELSE [ds EXCEPT ![d].version = version,
                  ![d].dirty = ~(ds[d].text = sent.text /\ ds[d].place = sent.place)]

\* The loop takes up the answer of its PATCH.
PatchAnswered(d) ==
  LET t == task[d]  failed == t.attempts + 1
      acknowledged == acknowledgeDocumentSave(docs, d, t.sent, t.reply.version)
  IN
  /\ t.at = "patch" /\ t.reply # NoReply
  /\ \/ /\ t.reply.kind = "saved"
        /\ docs' = acknowledged
        /\ task' = [task EXCEPT ![d] = LoopTurn(t, d, acknowledged, 0)]
     \/ /\ t.reply.kind = "conflict"
        /\ task' = [task EXCEPT ![d] =
             IF failed < MaxAttempts
               THEN [t EXCEPT !.at = "rebase", !.attempts = failed, !.reply = NoReply]
               ELSE scheduleBackgroundRetry(t, d, docs)]
        /\ UNCHANGED docs
     \/ /\ t.reply.kind = "error"
        /\ task' = [task EXCEPT ![d] =
             IF failed < MaxAttempts
               THEN [t EXCEPT !.at = "sleep", !.attempts = failed, !.reply = NoReply]
               ELSE scheduleBackgroundRetry(t, d, docs)]
        /\ UNCHANGED docs
  /\ UNCHANGED <<loaded, server, mutation, fetch, undoable, used, typed, held>>

\* rebaseDocumentVersionFromServer, in one step: the GET is answered and the
\* local text gets the server's version, or the document is not there, or
\* the GET fails and the save is put off.
RebaseAnswered(d) ==
  LET t == task[d]
      rebased == IF loaded /\ docs[d] # Absent
                   THEN [docs EXCEPT ![d].version = server[d].version] ELSE docs
  IN
  /\ t.at = "rebase"
  /\ \/ /\ server[d] # Absent
        /\ docs' = rebased
        /\ task' = [task EXCEPT ![d] = LoopTurn(t, d, rebased, t.attempts)]
        /\ UNCHANGED used
     \/ /\ IF server[d] = Absent THEN UNCHANGED used ELSE Using("trouble")
        /\ task' = [task EXCEPT ![d] = scheduleBackgroundRetry(t, d, docs)]
        /\ UNCHANGED docs
  /\ UNCHANGED <<loaded, server, mutation, fetch, undoable, typed, held>>

\* The delay after a failed attempt, and the background retry, run out.
SaveTimer(d) ==
  /\ \/ /\ task[d].at = "sleep"
        /\ task' = [task EXCEPT ![d] = LoopTurn(@, d, docs, @.attempts)]
     \/ /\ task[d].timer
        /\ task' = [task EXCEPT ![d] = scheduleDocumentSave(@, d, docs)]
  /\ UNCHANGED <<loaded, docs, server, mutation, fetch, undoable, used, typed, held>>

SaveLoop(d) ==
  PatchArrives(d) \/ PatchAnswered(d) \/ RebaseAnswered(d) \/ SaveTimer(d)

-----------------------------------------------------------------------------
(* Merging what the server sends *)

\* Fault: the newer version wins whether or not the local copy is dirty.
NewerWins(local, incoming) == IF incoming.version >= local.version THEN Local(incoming) ELSE local

\* mergeIncomingDocument
mergeIncomingDocument(local, incoming) ==
  IF local.dirty
    THEN [local EXCEPT !.version = IF incoming.version > @ THEN incoming.version ELSE @]
    ELSE IF incoming.version >= local.version THEN Local(incoming) ELSE local

\* mergeWorkspaceDocuments
mergeWorkspaceDocuments(ds, incoming) ==
  IF ~loaded \/ Present(ds) = {} THEN [d \in Doc |-> Local(incoming[d])]
  ELSE [d \in Doc |->
          IF incoming[d] = Absent
            THEN IF ds[d] # Absent /\ ds[d].dirty THEN ds[d] ELSE Absent
            ELSE IF ds[d] = Absent THEN Local(incoming[d])
                 ELSE mergeIncomingDocument(ds[d], incoming[d])]

\* The poll, a full reload, or the refresh after an agent's run asks for
\* everything; the delta of an event asks for one changed document.
AskServer ==
  /\ fetch = NoFetch
  /\ Using("fetch")
  /\ \/ fetch' = [kind |-> "full", snapshot |-> Absent]
     \/ \E d \in Doc : loaded /\ fetch' = [kind |-> "delta", doc |-> d, snapshot |-> Absent]
  /\ UNCHANGED <<loaded, docs, server, task, mutation, undoable, typed, held>>

FetchArrives ==
  /\ fetch # NoFetch /\ fetch.snapshot = Absent
  /\ fetch' = [fetch EXCEPT !.snapshot = server]
  /\ UNCHANGED <<loaded, docs, server, task, mutation, undoable, used, typed, held>>

\* hydrateWorkspaceState with the payload.
hydrateWorkspaceState ==
  /\ fetch # NoFetch /\ fetch.kind = "full" /\ fetch.snapshot # Absent
  /\ docs' = mergeWorkspaceDocuments(docs, fetch.snapshot)
  /\ loaded' = TRUE
  /\ fetch' = NoFetch
  /\ UNCHANGED <<server, task, mutation, undoable, used, typed, held>>

\* applyWorkspaceDelta with a changed document; dropped when stale.
applyWorkspaceDelta ==
  /\ fetch # NoFetch /\ fetch.kind = "delta" /\ fetch.snapshot # Absent
  /\ LET d == fetch.doc  incoming == fetch.snapshot[d] IN
       docs' = IF ~loaded \/ incoming = Absent THEN docs
               ELSE [docs EXCEPT ![d] = IF @ = Absent THEN Local(incoming)
                                        ELSE mergeIncomingDocument(@, incoming)]
  /\ fetch' = NoFetch
  /\ UNCHANGED <<loaded, server, task, mutation, undoable, used, typed, held>>

\* applyWorkspaceDelta with a removed document.
applyRemoval(d) ==
  /\ loaded
  /\ server[d] = Absent /\ held[d] # {}
  /\ docs[d] # Absent /\ ~docs[d].dirty
  /\ docs' = [docs EXCEPT ![d] = Absent]
  /\ UNCHANGED <<loaded, server, task, mutation, fetch, undoable, used, typed, held>>

\* prepareWorkspaceLoad: the user leaves the project, and comes back to an
\* empty store; a payload fetched before may still fill it.
prepareWorkspaceLoad ==
  /\ loaded
  /\ Using("trouble")
  /\ loaded' = FALSE
  /\ docs' = [d \in Doc |-> Absent]
  /\ undoable' = [d \in Doc |-> Absent]
  /\ typed' = [d \in Doc |-> 0]
  /\ fetch' = IF fetch # NoFetch /\ fetch.kind = "delta" THEN NoFetch ELSE fetch
  /\ UNCHANGED <<server, task, mutation, held>>

-----------------------------------------------------------------------------
(* Typing, and the agent *)

\* updateDocumentContent, renameDocument and applyDocumentUpdate.
updateDocumentContent(d) ==
  /\ docs[d] # Absent
  /\ Writing("user")
  /\ docs' = [docs EXCEPT ![d].text = NewText, ![d].dirty = TRUE]
  /\ task' = [task EXCEPT ![d] = scheduleDocumentSave(@, d, docs')]
  /\ typed' = [typed EXCEPT ![d] = NewText]
  /\ UNCHANGED <<loaded, server, mutation, fetch, undoable, held>>

\* The agent, another window or a file on disk writes, adds or removes a
\* document of the server; a file edited on disk keeps its version.
ServerChanges(d) ==
  /\ \/ /\ server[d] # Absent
        /\ Writing("trouble")
        /\ \E version \in {server[d].version, server[d].version + 1} :
             ServerHolds([server EXCEPT ![d].text = NewText, ![d].version = version])
     \/ /\ server[d] # Absent
        /\ Using("trouble")
        /\ ServerHolds([server EXCEPT ![d] = Absent])
     \/ /\ held[d] = {} /\ docs[d] = Absent
        /\ Writing("trouble")
        /\ ServerHolds([server EXCEPT ![d] = [text |-> NewText, place |-> 0, version |-> 1]])
  /\ UNCHANGED <<loaded, docs, task, mutation, fetch, undoable>>

\* applyStreamingDocumentEdit: the agent's text, before the server saves it,
\* takes the place of the local copy and counts as saved.
applyStreamingDocumentEdit(d) ==
  /\ docs[d] # Absent
  /\ Writing("trouble")
  /\ docs' = [docs EXCEPT ![d].text = NewText, ![d].version = @ + 1, ![d].dirty = FALSE]
  /\ held' = [held EXCEPT ![d] = @ \cup {NewText}]
  /\ typed' = [typed EXCEPT ![d] = 0]
  /\ UNCHANGED <<loaded, server, task, mutation, fetch, undoable>>

-----------------------------------------------------------------------------
(* Optimistic mutations *)

\* What a mutation remembers: the documents before it (its rollback
\* snapshot) and after it, and the documents still to be patched.
Mutation(kind, d, after, left) ==
  [kind |-> kind, doc |-> d, before |-> docs, after |-> after, left |-> left,
   answer |-> "none", snapshot |-> Absent]

Begin(kind, d, after, left) ==
  /\ mutation = NoMutation
  /\ mutation' = Mutation(kind, d, after, left)
  /\ docs' = after

\* moveDocument takes a new place among its siblings, all of which get a
\* higher version although only those that moved are patched; with no
\* siblings this is moveItemToFolder.
moveDocument(d) ==
  /\ docs[d] # Absent
  /\ Using("user")
  /\ \E siblings \in SUBSET (Present(docs) \ {d}) : \E moved \in SUBSET siblings :
       LET after == [x \in Doc |->
             IF x \in {d} \cup moved
               THEN [docs[x] EXCEPT !.place = Other(@), !.version = @ + 1]
             ELSE IF x \in siblings THEN [docs[x] EXCEPT !.version = @ + 1] ELSE docs[x]]
       IN Begin("move", d, after, {d} \cup moved)
  /\ UNCHANGED <<loaded, server, task, fetch, undoable, typed, held>>

\* organizeIntoChapter puts every document into a new folder.
organizeIntoChapter ==
  /\ Present(docs) # {}
  /\ Using("user")
  /\ \E d \in Present(docs) :
       Begin("organize", d, [x \in Doc |-> IF docs[x] = Absent THEN Absent
                                           ELSE [docs[x] EXCEPT !.place = Other(@)]],
             Present(docs))
  /\ UNCHANGED <<loaded, server, task, fetch, undoable, typed, held>>

\* setDocumentCategory and convertDocumentToWorkbenchDraft.
setDocumentCategory(d) ==
  /\ docs[d] # Absent
  /\ Using("user")
  /\ Begin("category", d, [docs EXCEPT ![d].place = Other(@), ![d].version = @ + 1], {d})
  /\ UNCHANGED <<loaded, server, task, fetch, undoable, typed, held>>

\* createFolder, renameFolder: no document changes.
changeFolder(d) ==
  /\ docs[d] # Absent
  /\ Using("user")
  /\ Begin("folder", d, docs, {})
  /\ UNCHANGED <<loaded, server, task, fetch, undoable, typed, held>>

\* createDocument: a dirty document, which its POST saves.
createDocument(d) ==
  /\ loaded
  /\ docs[d] = Absent /\ held[d] = {}
  /\ Writing("user")
  /\ Begin("create", d,
           [docs EXCEPT ![d] = [text |-> NewText, place |-> 0, version |-> 1, dirty |-> TRUE]], {})
  /\ UNCHANGED <<loaded, server, task, fetch, undoable, typed, held>>

deleteDocument(d) ==
  /\ docs[d] # Absent
  /\ Using("user")
  /\ Begin("delete", d, [docs EXCEPT ![d] = Absent], {})
  /\ typed' = [typed EXCEPT ![d] = 0]
  /\ UNCHANGED <<loaded, server, task, fetch, undoable, held>>

\* applyOperations: new text without the dirty flag, saved by a PUT of every
\* document.  What was typed and not saved yet is part of the new text.
applyOperations(d) ==
  /\ docs[d] # Absent
  /\ Writing("user")
  /\ Begin("operations", d, [docs EXCEPT ![d].text = NewText, ![d].version = @ + 1], {})
  /\ undoable' = [undoable EXCEPT ![d] = [text |-> docs[d].text]]
  /\ typed' = [typed EXCEPT ![d] = IF @ # 0 THEN NewText ELSE 0]
  /\ UNCHANGED <<loaded, server, task, fetch, held>>

\* undoLastOperation goes back to the text before it, on the user's word.
undoLastOperation(d) ==
  /\ docs[d] # Absent /\ undoable[d] # Absent
  /\ Using("user")
  /\ Begin("operations", d,
           [docs EXCEPT ![d].text = undoable[d].text, ![d].version = @ + 1], {})
  /\ undoable' = [undoable EXCEPT ![d] = Absent]
  /\ typed' = [typed EXCEPT ![d] = 0]
  /\ UNCHANGED <<loaded, server, task, fetch, held>>

Waiting == mutation # NoMutation /\ mutation.answer = "none"
Answered(next) == [mutation EXCEPT !.answer = "saved", !.snapshot = next]

\* The server handles the mutation: a PATCH without a version for each moved
\* document in turn, a POST, a DELETE, or the PUT of the whole list, which
\* removes the documents it does not name.
MutationArrives ==
  /\ Waiting
  /\ LET d == mutation.doc IN
     \/ \E x \in mutation.left :
          LET next == [server EXCEPT ![x].place = mutation.after[x].place, ![x].version = @ + 1]
              left == mutation.left \ {x}
          IN
          /\ server[x] # Absent
          /\ ServerHolds(next)
          /\ mutation' = IF left = {} THEN Answered(next) ELSE [mutation EXCEPT !.left = left]
     \/ /\ mutation.kind = "folder"
        /\ mutation' = Answered(server)
        /\ UNCHANGED <<server, typed, held>>
     \/ LET next == [server EXCEPT ![d] =
                       [text |-> mutation.after[d].text, place |-> 0, version |-> 1]]
        IN mutation.kind = "create" /\ ServerHolds(next) /\ mutation' = Answered(next)
     \/ LET next == [server EXCEPT ![d] = Absent]
        IN /\ mutation.kind = "delete" /\ server[d] # Absent
           /\ ServerHolds(next) /\ mutation' = Answered(next)
     \/ LET next == [x \in Doc |-> Remote(mutation.after[x])]
        IN mutation.kind = "operations" /\ ServerHolds(next) /\ mutation' = Answered(next)
  /\ UNCHANGED <<loaded, docs, task, fetch, undoable, used>>

\* A request of the mutation fails: what it names is gone, or the request or
\* its answer is lost, before or after the server acted.
MutationFails ==
  /\ \/ /\ Waiting
        /\ \/ \E x \in mutation.left : server[x] = Absent
           \/ mutation.kind = "delete" /\ server[mutation.doc] = Absent
        /\ UNCHANGED used
     \/ /\ mutation # NoMutation /\ mutation.answer \in {"none", "saved"}
        /\ Using("trouble")
  /\ mutation' = [mutation EXCEPT !.answer = "error"]
  /\ UNCHANGED <<loaded, docs, server, task, fetch, undoable, typed, held>>

\* isCurrentWorkspaceMutationSnapshot, for the mutations that ask; the
\* others only look at the project.
isCurrentWorkspaceMutationSnapshot ==
  loaded /\ (mutation.kind \in {"move", "organize"} => docs = mutation.after)

\* The answer of a mutation hydrates the store; a created document is then
\* acknowledged, and saved again if it was edited meanwhile.
MutationAnswered ==
  LET d == mutation.doc
      merged == mergeWorkspaceDocuments(docs, mutation.snapshot)
      created == acknowledgeDocumentSave(merged, d, mutation.after[d], 1)
  IN
  /\ mutation # NoMutation /\ mutation.answer = "saved"
  /\ \/ /\ ~isCurrentWorkspaceMutationSnapshot
        /\ UNCHANGED <<docs, task>>
     \/ /\ isCurrentWorkspaceMutationSnapshot /\ mutation.kind # "create"
        /\ docs' = merged
        /\ UNCHANGED task
     \/ /\ isCurrentWorkspaceMutationSnapshot /\ mutation.kind = "create"
        /\ docs' = created
        /\ task' = IF created[d] # Absent /\ created[d].dirty
                     THEN [task EXCEPT ![d] = scheduleDocumentSave(@, d, created)] ELSE task
  /\ mutation' = NoMutation
  /\ UNCHANGED <<loaded, server, fetch, undoable, used, typed, held>>

\* What was typed into d after the mutation began.
TypedSince(d) ==
  /\ typed[d] # 0
  /\ \A copy \in {mutation.before[d], mutation.after[d]} \ {Absent} : copy.text # typed[d]

\* rollbackWorkspaceStateForProject puts back every document of the snapshot,
\* so that text typed since then is gone.
rollbackWorkspaceState ==
  /\ mutation # NoMutation /\ mutation.answer = "error"
  /\ IF isCurrentWorkspaceMutationSnapshot
       THEN /\ docs' = mutation.before
            /\ typed' = [d \in Doc |->
                 IF typed[d] = 0 \/ TypedSince(d) \/ mutation.before[d].text \in held[d] THEN 0
                 ELSE mutation.before[d].text]
       ELSE UNCHANGED <<docs, typed>>
  /\ mutation' = NoMutation
  /\ UNCHANGED <<loaded, server, task, fetch, undoable, used, held>>

User(d) ==
  \/ updateDocumentContent(d)
  \/ moveDocument(d)
  \/ setDocumentCategory(d)
  \/ changeFolder(d)
  \/ createDocument(d)
  \/ deleteDocument(d)
  \/ applyOperations(d)
  \/ undoLastOperation(d)

Next ==
  \/ \E d \in Doc : SaveLoop(d) \/ PatchFails(d) \/ User(d)
  \/ \E d \in Doc : ServerChanges(d) \/ applyStreamingDocumentEdit(d) \/ applyRemoval(d)
  \/ organizeIntoChapter \/ prepareWorkspaceLoad
  \/ AskServer \/ FetchArrives \/ hydrateWorkspaceState \/ applyWorkspaceDelta
  \/ MutationArrives \/ MutationFails \/ MutationAnswered \/ rollbackWorkspaceState

Spec == Init /\ [][Next]_vars

\* Requests are answered and timers fire; nobody has to type, and the server
\* may fail only so often.
FairSpec == Spec /\ \A d \in Doc : WF_vars(SaveLoop(d))

-----------------------------------------------------------------------------
(* Properties *)

Text == 0 .. Bounds.text
Document == [text : Text, place : {0, 1}, version : Nat]
LocalDocument == [text : Text, place : {0, 1}, version : Nat, dirty : BOOLEAN]
Documents == [Doc -> Document \cup {Absent}]
LocalDocuments == [Doc -> LocalDocument \cup {Absent}]
Reply == [kind : {"none", "conflict", "error"}] \cup [kind : {"saved"}, version : Nat]

\* Every variable holds a value of its type.
TypeOK ==
  /\ loaded \in BOOLEAN
  /\ docs \in LocalDocuments
  /\ server \in Documents
  /\ task \in [Doc -> [at : {"idle", "patch", "rebase", "sleep"}, rerun : BOOLEAN,
                       timer : BOOLEAN, attempts : Nat,
                       sent : LocalDocument \cup {Absent}, reply : Reply]]
  /\ mutation # NoMutation =>
       /\ mutation.doc \in Doc /\ mutation.left \subseteq Doc
       /\ mutation.before \in LocalDocuments /\ mutation.after \in LocalDocuments
       /\ mutation.snapshot \in Documents \cup {Absent}
  /\ fetch # NoFetch => fetch.snapshot \in Documents \cup {Absent}
  /\ undoable \in [Doc -> [text : Text] \cup {Absent}]
  /\ used \in [DOMAIN Bounds -> Nat]
  /\ typed \in [Doc -> Text]
  /\ held \in [Doc -> SUBSET Text]

\* Typed text that has not reached the server is still what the store shows,
\* is still dirty, and is being saved or waits for the retry: no poll, delta,
\* conflict, late acknowledgement, removal by others, answer of a mutation
\* or guarded rollback takes it away.
TypedIsKept ==
  \A d \in Doc : typed[d] # 0 =>
    /\ docs[d] # Absent /\ docs[d].text = typed[d] /\ docs[d].dirty
    /\ task[d].at # "idle" \/ task[d].timer

\* "isDirty is only cleared after the server acknowledged the exact content":
\* a clean document shows a text that the server has held (or streams), or
\* one that an operation is saving right now.
CleanIsHeld ==
  \A d \in Doc : (docs[d] # Absent /\ ~docs[d].dirty) =>
    \/ docs[d].text \in held[d]
    \/ mutation # NoMutation /\ mutation.kind = "operations"
       /\ mutation.after[d] # Absent /\ mutation.after[d].text = docs[d].text

\* "Failures keep the local copy and the dirty flag; the user's typed content
\* is never rolled back to an older snapshot."
NeverRolledBack ==
  [][(mutation # NoMutation /\ mutation.answer = "error" /\ mutation' = NoMutation) =>
       \A d \in Doc : TypedSince(d) => (docs'[d] # Absent /\ docs'[d].text = typed[d])]_vars

\* When the user stops typing, the text reaches the server, unless it is
\* dropped or the document is gone there: no conflict or failure ends the
\* attempts, and the attempts do not go round for ever.
TypedIsSaved ==
  \A d \in Doc : typed[d] # 0 ~> (typed[d] = 0 \/ server[d] = Absent)
=============================================================================
