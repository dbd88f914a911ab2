---------------------- MODULE GenerationEntriesProofs ----------------------
(***************************************************************************)
(* Proofs about GenerationEntries, for any submits, words, kinds and       *)
(* bounds: entries leave the page for a reason only, the entry of a task   *)
(* that is deleted stays away, and the search for the task behind a local  *)
(* entry deletes nobody else's when no words are submitted twice.          *)
(***************************************************************************)
EXTENDS GenerationEntries, FiniteSetTheorems, TLAPS

DeletionType == [at : {"none", "deleted"}]
                \cup [at : {"awaiting", "ready"}, shown : SUBSET Submit]
                \cup [at : {"deleting"}, task : Submit]
FetchType == [at : {"none", "asked"}] \cup [at : {"answered"}, list : List]
Messages == [Submit -> Message \cup {Absent}]

-----------------------------------------------------------------------------
(* The invariant *)

\* A submit has a task from the moment the server took it.
Taken == \A s \in Submit : tasks[s] = "none" <=> request[s] \in {"idle", "sent", "unheard"}

\* The page names no task that there was not.
Named ==
  /\ \A s \in Submit : TaskEntry(s) => tasks[s] # "none"
  /\ fetch.at = "answered" => \A s \in Submit : fetch.list[s] # "none" => tasks[s] # "none"
  /\ \A s \in Submit : deletion[s].at = "deleting" => tasks[deletion[s].task] # "none"

\* Until an answer, or a stream's start, came, the message has the local id.
Unnamed ==
  \A s \in Submit : request[s] \in {"idle", "sent", "unheard", "taken"} =>
    local[s] = Absent \/ local[s].id = "local"

\* A list that still names a deleted task is under way only while the answer
\* of a deletion is, upon which the list is asked for anew.
ListedLate ==
  fetch.at = "answered" =>
    \A s \in Submit : tasks[s] = "deleted" /\ fetch.list[s] # "none" =>
      \E t \in Submit : deletion[t].at = "deleted"

\* A list under way drops from the cache only what is deleted.
DropsDeleted ==
  fetch.at = "answered" =>
    \A s \in Submit : recent[s] # "none" /\ fetch.list[s] = "none" => tasks[s] = "deleted"

PageInv == TypeOK /\ Taken /\ Named /\ Unnamed /\ ListedLate /\ DropsDeleted

\* What the server is to delete for an entry is a task of a submit of which
\* the user deleted an entry.
AskedOnly ==
  \A s \in Submit :
    /\ deletion[s].at \in {"awaiting", "ready"} => s \in asked
    /\ deletion[s].at = "deleting" => deletion[s].task \in asked

-----------------------------------------------------------------------------
(* What the operators do *)

\* No message is the absent one.
LEMMA NoMessage == Absent \notin Message
  BY GenerationAssumption DEF Message

\* A render leaves the message of a submit alone, or drops it: when its task is
\* listed, or, with a local id, when another task is that looks like it.
LEMMA SyncedEntry ==
  ASSUME NEW msgs \in Messages, NEW list \in List, NEW aged, NEW s \in Submit
  PROVE  /\ Synced(msgs, list, aged) \in Messages
         /\ \/ Synced(msgs, list, aged)[s] = msgs[s]
            \/ /\ Synced(msgs, list, aged)[s] = Absent
               /\ \/ list[s] # "none"
                  \/ /\ msgs[s] # Absent /\ msgs[s].id = "local"
                     /\ \E t \in Listed(list) \ {s} : Prompt[t] = Prompt[s] \/ s \in aged
  <1>1. Synced(msgs, list, aged) \in Messages
    BY DEF Synced, Messages
  <1>2. \/ Synced(msgs, list, aged)[s] = msgs[s]
        \/ /\ Synced(msgs, list, aged)[s] = Absent /\ msgs[s] # Absent
           /\ \/ list[s] # "none"
              \/ /\ msgs[s].id = "local"
                 /\ \E t \in Siblings(s, list) : Prompt[t] = Prompt[s] \/ s \in aged
    BY DEF Synced
  <1>3. \A t \in Siblings(s, list) : t \in Listed(list) /\ (t = s => list[s] # "none")
    BY DEF Siblings, Listed
  <1>4. QED
    BY <1>1, <1>2, <1>3

\* Who waited for the list goes on with what it kept.
LEMMA GoesOn ==
  ASSUME NEW d \in DeletionType, d.at = "awaiting"
  PROVE  [d EXCEPT !.at = "ready"] \in DeletionType /\ [d EXCEPT !.at = "ready"].at = "ready"
  <1>1. d \in [at : {"awaiting", "ready"}, shown : SUBSET Submit]
    BY DEF DeletionType
  <1>2. QED
    BY <1>1 DEF DeletionType

\* Asking anew drops the list under way; who waited for it goes on.
LEMMA Revalidated ==
  ASSUME NEW deletions \in [Submit -> DeletionType], Revalidate(deletions)
  PROVE  /\ fetch' = [at |-> "asked"]
         /\ deletion' \in [Submit -> DeletionType]
         /\ \A s \in Submit :
              \/ deletion'[s] = deletions[s]
              \/ deletions[s].at = "awaiting" /\ deletion'[s].at = "ready"
  BY GoesOn DEF Revalidate

\* The search for the task behind a local entry finds a listed one with the
\* words of the entry, or none.
LEMMA OrphanFound ==
  ASSUME NEW s \in Submit, Cardinality(OrphansOf(s)) = 1
  PROVE  /\ (CHOOSE t \in OrphansOf(s) : TRUE) \in Submit
         /\ recent[CHOOSE t \in OrphansOf(s) : TRUE] # "none"
         /\ Prompt[CHOOSE t \in OrphansOf(s) : TRUE] = Prompt[s]
  <1>1. OrphansOf(s) # {}
    BY FS_EmptySet
  <1>2. (CHOOSE t \in OrphansOf(s) : TRUE) \in OrphansOf(s)
    BY <1>1
  <1>3. QED
    BY <1>2 DEF OrphansOf, Listed

-----------------------------------------------------------------------------
(* What a step does to each part *)

\* The server: a task is made of a request that it has not had yet, ends, or is
\* deleted, and then there is a deletion that names it.
LEMMA ServerStep ==
  ASSUME PageInv, Next
  PROVE  /\ tasks' \in [Submit -> {"none", "pending", "ended", "deleted"}]
         /\ \A s \in Submit :
              \/ tasks'[s] = tasks[s]
              \/ tasks[s] = "none" /\ tasks'[s] = "pending" /\ ServerTakes(s)
              \/ tasks[s] = "pending" /\ tasks'[s] = "ended"
              \/ /\ tasks[s] # "none" /\ tasks'[s] = "deleted"
                 /\ \E t \in Submit : ServerDeletes(t) /\ deletion[t].task = s
  <1>1. tasks \in [Submit -> {"none", "pending", "ended", "deleted"}]
    BY DEF PageInv, TypeOK
  <1>2. CASE UNCHANGED tasks
    BY <1>1, <1>2
  <1>3. ASSUME NEW s \in Submit, ServerTakes(s)
        PROVE  tasks[s] = "none" /\ tasks' = [tasks EXCEPT ![s] = "pending"]
    BY <1>3 DEF ServerTakes, PageInv, Taken
  <1>4. ASSUME NEW s \in Submit, TaskEnds(s)
        PROVE  tasks[s] = "pending" /\ tasks' = [tasks EXCEPT ![s] = "ended"]
    BY <1>4 DEF TaskEnds
  <1>5. ASSUME NEW t \in Submit, ServerDeletes(t)
        PROVE  /\ deletion[t].task \in Submit /\ tasks[deletion[t].task] # "none"
               /\ tasks' = [tasks EXCEPT ![deletion[t].task] = "deleted"]
    BY <1>5 DEF ServerDeletes, PageInv, TypeOK, Named
  <1>6. \/ UNCHANGED tasks
        \/ \E s \in Submit : ServerTakes(s) \/ TaskEnds(s) \/ ServerDeletes(s)
    BY DEF Next, ListRead, ListTaken, Poll, Notified, Render, Reload, submitGeneration, onStart,
           Answered, SubmitFails, Ages, refreshVideo, deleteGenerationEntry,
           orphanTaskIdForLocalEntry, Deleted
  <1>7. QED
    BY <1>1, <1>2, <1>3, <1>4, <1>5, <1>6

\* The requests: a submit is sent once, and taken once.
LEMMA TakenStep ==
  ASSUME PageInv, Next
  PROVE  /\ request' \in [Submit -> {"idle", "sent", "unheard", "taken", "started", "over"}]
         /\ Taken'
  <1>1. /\ request \in [Submit -> {"idle", "sent", "unheard", "taken", "started", "over"}]
        /\ tasks \in [Submit -> {"none", "pending", "ended", "deleted"}] /\ Taken
    BY DEF PageInv, TypeOK
  <1>2. CASE UNCHANGED request /\ \A s \in Submit : ~ServerTakes(s)
    BY <1>1, <1>2, ServerStep DEF Taken
  <1>3. ASSUME NEW s \in Submit, ServerTakes(s)
        PROVE  /\ request' \in [Submit -> {"idle", "sent", "unheard", "taken", "started", "over"}]
               /\ Taken'
    <2>1. \A t \in Submit : tasks'[t] = "none" <=> t # s /\ tasks[t] = "none"
      BY <1>1, <1>3 DEF ServerTakes
    <2>2. /\ request'[s] \in {"taken", "over"} /\ request' = [request EXCEPT ![s] = request'[s]]
      BY <1>1, <1>3 DEF ServerTakes
    <2>3. QED
      BY <1>1, <2>1, <2>2 DEF Taken
  <1>4. CASE Reload
    BY <1>1, <1>4 DEF Reload, Taken
  <1>5. ASSUME NEW s \in Submit,
               submitGeneration(s) \/ onStart(s) \/ Answered(s) \/ SubmitFails(s)
        PROVE  /\ request' \in [Submit -> {"idle", "sent", "unheard", "taken", "started", "over"}]
               /\ Taken'
    <2>1. request[s] # "unheard" /\ UNCHANGED tasks
      BY <1>5 DEF submitGeneration, onStart, Answered, SubmitFails
    <2>2. /\ request'[s] \in {"sent", "unheard", "started", "over"}
          /\ request' = [request EXCEPT ![s] = request'[s]]
          /\ request'[s] \in {"sent", "unheard"} <=> request[s] \in {"idle", "sent"}
      BY <1>1, <1>5 DEF submitGeneration, onStart, Answered, SubmitFails
    <2>3. QED
      BY <1>1, <2>1, <2>2 DEF Taken
  <1>6. QED
    BY <1>2, <1>3, <1>4, <1>5
    DEF Next, ListRead, ListTaken, Poll, Notified, Render, Reload, submitGeneration, TaskEnds,
        onStart, Answered, SubmitFails, Ages, refreshVideo, deleteGenerationEntry,
        orphanTaskIdForLocalEntry, ServerDeletes, Deleted

\* The list: it is read at the server as the tasks are then, without the
\* deleted ones; what is not read in this step and still under way afterwards
\* was under way before.
LEMMA ListStep ==
  ASSUME PageInv, Next
  PROVE  /\ fetch' \in FetchType /\ recent' \in List
         /\ \/ UNCHANGED <<fetch, recent>>
            \/ fetch'.at # "answered" /\ UNCHANGED recent
            \/ fetch'.at # "answered" /\ Reload /\ recent' = [s \in Submit |-> "none"]
            \/ fetch'.at # "answered" /\ fetch.at = "answered" /\ recent' = fetch.list
            \/ /\ UNCHANGED <<recent, tasks, deletion>>
               /\ fetch'.at = "answered"
               /\ \A s \in Submit :
                    fetch'.list[s] = IF tasks[s] = "deleted" THEN "none" ELSE tasks[s]
  <1>1. fetch \in FetchType /\ recent \in List /\ (fetch.at = "answered" => fetch.list \in List)
    BY DEF PageInv, TypeOK, FetchType
  <1>2. CASE UNCHANGED <<fetch, recent>>
    BY <1>1, <1>2
  <1>3. CASE UNCHANGED recent /\ (fetch' = [at |-> "asked"] \/ fetch' = [at |-> "none"])
    BY <1>1, <1>3 DEF FetchType
  <1>4. CASE Reload
    <2>1. fetch' = [at |-> "asked"] /\ recent' = [s \in Submit |-> "none"]
      BY <1>4 DEF Reload
    <2>2. QED
      BY <1>4, <2>1 DEF FetchType, List
  <1>5. CASE ListTaken
    BY <1>1, <1>5 DEF ListTaken, FetchType
  <1>6. CASE ListRead
    <2>1. [s \in Submit |-> IF tasks[s] = "deleted" THEN "none" ELSE tasks[s]] \in List
      BY DEF PageInv, TypeOK, List
    <2>2. QED
      BY <1>1, <1>6, <2>1 DEF ListRead, FetchType
  <1>7. QED
    BY <1>2, <1>3, <1>4, <1>5, <1>6
    DEF Next, Poll, Notified, Render, submitGeneration, ServerTakes, TaskEnds, onStart, Answered,
        SubmitFails, Ages, refreshVideo, deleteGenerationEntry, orphanTaskIdForLocalEntry,
        ServerDeletes, Deleted, Revalidate

\* The deletions: what is new to be deleted at the server is an entry's task,
\* or the orphan the search found; the answer of a deletion is waited for until
\* the list is asked for anew.
LEMMA DeletionStep ==
  ASSUME PageInv, Next
  PROVE  /\ deletion' \in [Submit -> DeletionType]
         /\ \A s \in Submit :
              \/ deletion'[s] = deletion[s]
              \/ deletion[s].at = "awaiting" /\ deletion'[s].at = "ready"
              \/ deletion'[s].at \in {"none", "deleted"}
              \/ deletion'[s].at = "awaiting" /\ s \in asked'
              \/ /\ deletion'[s].at = "deleting" /\ deletion'[s].task = s
                 /\ TaskEntry(s) /\ s \in asked'
              \/ /\ deletion'[s].at = "deleting" /\ deletion[s].at = "ready"
                 /\ Prompt[deletion'[s].task] = Prompt[s] /\ recent[deletion'[s].task] # "none"
         /\ \/ fetch' = [at |-> "asked"]
            \/ \A s \in Submit : deletion[s].at = "deleted" => deletion'[s].at = "deleted"
         /\ asked \subseteq asked'
         /\ \A s \in Submit : ServerDeletes(s) => deletion'[s].at = "deleted"
  <1> DEFINE Kind(s) == \/ deletion'[s] = deletion[s]
                        \/ deletion[s].at = "awaiting" /\ deletion'[s].at = "ready"
                        \/ deletion'[s].at \in {"none", "deleted"}
                        \/ deletion'[s].at = "awaiting" /\ s \in asked'
                        \/ /\ deletion'[s].at = "deleting" /\ deletion'[s].task = s
                           /\ TaskEntry(s) /\ s \in asked'
                        \/ /\ deletion'[s].at = "deleting" /\ deletion[s].at = "ready"
                           /\ Prompt[deletion'[s].task] = Prompt[s]
                           /\ recent[deletion'[s].task] # "none"
             Good == /\ deletion' \in [Submit -> DeletionType]
                     /\ \A s \in Submit : Kind(s)
                     /\ \/ fetch' = [at |-> "asked"]
                        \/ \A s \in Submit : deletion[s].at = "deleted" =>
                                                deletion'[s].at = "deleted"
                     /\ asked \subseteq asked'
                     /\ \A s \in Submit : ServerDeletes(s) => deletion'[s].at = "deleted"
  <1>1. deletion \in [Submit -> DeletionType]
    BY DEF PageInv, TypeOK, DeletionType
  <1>2. \A s \in Submit : ServerDeletes(s) => deletion'[s].at = "deleted"
    BY <1>1 DEF ServerDeletes
  <1>3. CASE UNCHANGED <<deletion, asked>>
    BY <1>1, <1>2, <1>3
  <1>4. CASE Revalidate(deletion) /\ UNCHANGED asked
    BY <1>1, <1>2, <1>4, Revalidated
  <1>5. ASSUME NEW s \in Submit, Deleted(s) PROVE Good
    <2> DEFINE ds == [deletion EXCEPT ![s] = NoDeletion]
    <2>1. ds \in [Submit -> DeletionType] /\ NoDeletion.at = "none"
      BY <1>1 DEF NoDeletion, DeletionType
    <2>2. Revalidate(ds) /\ UNCHANGED asked
      BY <1>5 DEF Deleted
    <2>3. ds[s].at = "none" /\ \A t \in Submit \ {s} : ds[t] = deletion[t]
      BY <1>1, <2>1
    <2> HIDE DEF ds
    <2>4. QED
      BY <1>1, <1>2, <2>1, <2>2, <2>3, Revalidated
  <1>6. CASE Reload
    <2>1. /\ deletion' = [s \in Submit |-> NoDeletion] /\ fetch' = [at |-> "asked"]
          /\ UNCHANGED asked
      BY <1>6 DEF Reload
    <2>2. NoDeletion \in DeletionType /\ NoDeletion.at = "none"
      BY DEF NoDeletion, DeletionType
    <2>3. QED
      BY <1>2, <2>1, <2>2
  <1>7. CASE ListTaken
    <2>1. /\ deletion' = [s \in Submit |-> IF deletion[s].at = "awaiting"
                                             THEN [deletion[s] EXCEPT !.at = "ready"]
                                             ELSE deletion[s]]
          /\ UNCHANGED asked
      BY <1>7 DEF ListTaken
    <2> DEFINE ready(t) == [deletion[t] EXCEPT !.at = "ready"]
    <2>2. \A t \in Submit : deletion[t].at = "awaiting" =>
            ready(t) \in DeletionType /\ ready(t).at = "ready"
      BY <1>1, GoesOn
    <2>3. deletion' = [t \in Submit |-> IF deletion[t].at = "awaiting" THEN ready(t)
                                        ELSE deletion[t]]
      BY <2>1
    <2> HIDE DEF ready
    <2>4. deletion' \in [Submit -> DeletionType]
      BY <1>1, <2>2, <2>3
    <2>5. \A t \in Submit : Kind(t)
      BY <1>1, <2>2, <2>3
    <2> HIDE DEF Kind
    <2>6. \A t \in Submit : deletion[t].at = "deleted" => deletion'[t].at = "deleted"
      BY <2>3
    <2>7. QED
      BY <1>2, <2>1, <2>4, <2>5, <2>6
  <1>8. ASSUME NEW s \in Submit, NEW id \in {"local", "task"}, deleteGenerationEntry(s, id)
        PROVE  Good
    <2>1. asked' = asked \cup {s} /\ deletion[s] = NoDeletion /\ NoDeletion.at = "none"
      BY <1>8 DEF deleteGenerationEntry, NoDeletion
    <2>2. CASE TaskEntry(s) /\ deletion' = [deletion EXCEPT ![s] = [at |-> "deleting", task |-> s]]
      <3>1. [at |-> "deleting", task |-> s] \in DeletionType
        BY DEF DeletionType
      <3>2. QED
        BY <1>1, <1>2, <2>1, <2>2, <3>1
    <2>3. CASE /\ fetch' = [at |-> "asked"]
               /\ deletion' = [t \in Submit |->
                    IF t = s THEN [at |-> "awaiting", shown |-> {u \in Submit : TaskEntry(u)}]
                    ELSE IF deletion[t].at = "awaiting" THEN [deletion[t] EXCEPT !.at = "ready"]
                    ELSE deletion[t]]
      <3>1. /\ [at |-> "awaiting", shown |-> {u \in Submit : TaskEntry(u)}] \in DeletionType
            /\ [at |-> "awaiting", shown |-> {u \in Submit : TaskEntry(u)}].at = "awaiting"
        BY DEF DeletionType
      <3> DEFINE ready(t) == [deletion[t] EXCEPT !.at = "ready"]
                 wait == [at |-> "awaiting", shown |-> {u \in Submit : TaskEntry(u)}]
      <3>2. deletion' = [t \in Submit |-> IF t = s THEN wait
                                          ELSE IF deletion[t].at = "awaiting" THEN ready(t)
                                          ELSE deletion[t]]
        BY <2>3
      <3>3. \A t \in Submit : deletion[t].at = "awaiting" =>
              ready(t) \in DeletionType /\ ready(t).at = "ready"
        BY <1>1, GoesOn
      <3>4. wait \in DeletionType /\ wait.at = "awaiting" /\ ~ServerDeletes(s)
        BY <2>1, <3>1 DEF ServerDeletes
      <3> HIDE DEF ready, wait
      <3>5. deletion' \in [Submit -> DeletionType]
        BY <1>1, <3>2, <3>3, <3>4
      <3>6. \A t \in Submit : Kind(t)
        BY <1>1, <2>1, <3>2, <3>3, <3>4
      <3> HIDE DEF Kind
      <3>7. QED
        BY <1>2, <2>1, <2>3, <3>5, <3>6
    <2>4. QED
      BY <1>8, <2>2, <2>3 DEF deleteGenerationEntry
  <1>9. ASSUME NEW s \in Submit, orphanTaskIdForLocalEntry(s) PROVE Good
    <2>1. deletion[s].at = "ready" /\ UNCHANGED asked
      BY <1>9 DEF orphanTaskIdForLocalEntry
    <2>2. CASE Cardinality(OrphansOf(s)) = 1
      <3> DEFINE orphan == CHOOSE t \in OrphansOf(s) : TRUE
      <3>1. orphan \in Submit /\ recent[orphan] # "none" /\ Prompt[orphan] = Prompt[s]
        BY <2>2, OrphanFound
      <3>2. deletion' = [deletion EXCEPT ![s] = [at |-> "deleting", task |-> orphan]]
        BY <1>9, <2>2 DEF orphanTaskIdForLocalEntry
      <3> HIDE DEF orphan
      <3>3. [at |-> "deleting", task |-> orphan] \in DeletionType
        BY <3>1 DEF DeletionType
      <3>4. QED
        BY <1>1, <1>2, <2>1, <3>1, <3>2, <3>3
    <2>3. CASE deletion' = [deletion EXCEPT ![s] = NoDeletion]
      <3>1. NoDeletion \in DeletionType /\ NoDeletion.at = "none"
        BY DEF NoDeletion, DeletionType
      <3>2. QED
        BY <1>1, <1>2, <2>1, <2>3, <3>1
    <2>4. QED
      BY <1>9, <2>2, <2>3 DEF orphanTaskIdForLocalEntry
  <1>10. ASSUME NEW s \in Submit, ServerDeletes(s) PROVE Good
    <2>1. deletion' = [deletion EXCEPT ![s] = [at |-> "deleted"]] /\ UNCHANGED asked
      BY <1>10 DEF ServerDeletes
    <2>2. [at |-> "deleted"] \in DeletionType
      BY DEF DeletionType
    <2>3. QED
      BY <1>1, <1>2, <2>1, <2>2
  <1>11. QED
    BY <1>3, <1>4, <1>5, <1>6, <1>7, <1>8, <1>9, <1>10
    DEF Next, ListRead, Poll, Notified, Render, submitGeneration, ServerTakes, TaskEnds, onStart,
        Answered, SubmitFails, Ages, refreshVideo

\* The messages.  In a step they become msgs, and a render may follow: a
\* message is put on the page by its submit only, is taken off by the user's
\* deletion only, and takes the task's id only with an answer or its start.
Becomes(msgs, s) ==
  \/ msgs[s] = local[s]
  \/ request[s] = "idle" /\ msgs[s] # Absent /\ msgs[s].id = "local"
  \/ s \in asked' /\ msgs[s] = Absent
  \/ /\ local[s] # Absent /\ msgs[s] # Absent
     /\ \/ msgs[s].id = local[s].id
        \/ /\ msgs[s].id = "task"
           /\ request[s] \in {"taken", "started"} /\ request'[s] \in {"started", "over"}

Renders(msgs) ==
  /\ msgs \in Messages
  /\ local' = msgs \/ local' = Synced(msgs, recent', old)
  /\ \A s \in Submit : Becomes(msgs, s)

\* A step that shows other messages for one submit.
LEMMA ShowsOne ==
  ASSUME PageInv, NEW s \in Submit, NEW message \in Message \cup {Absent},
         UNCHANGED recent, Show([local EXCEPT ![s] = message]),
         \/ message = local[s]
         \/ s \in asked' /\ message = Absent
         \/ /\ local[s] # Absent /\ message # Absent
            /\ \/ message.id = local[s].id
               \/ /\ message.id = "task"
                  /\ request[s] \in {"taken", "started"} /\ request'[s] \in {"started", "over"}
  PROVE  \E msgs : Renders(msgs)
  <1> DEFINE msgs == [local EXCEPT ![s] = message]
  <1>1. local \in Messages
    BY DEF PageInv, TypeOK, Messages
  <1>2. msgs \in Messages
    BY <1>1 DEF Messages
  <1>3. msgs[s] = message /\ \A t \in Submit \ {s} : msgs[t] = local[t]
    BY <1>1 DEF Messages
  <1>4. local' = Synced(msgs, recent', old)
    BY DEF Show
  <1> HIDE DEF msgs
  <1>5. QED
    BY <1>2, <1>3, <1>4 DEF Renders, Becomes

\* Every step shows the messages so.
LEMMA PageStep ==
  ASSUME PageInv, Next
  PROVE  \E msgs : Renders(msgs)
  <1>1. local \in Messages /\ recent \in List
    BY DEF PageInv, TypeOK, Messages
  <1>2. CASE UNCHANGED local \/ local' = Synced(local, recent', old)
    BY <1>1, <1>2 DEF Renders, Becomes
  <1>3. ASSUME NEW s \in Submit, submitGeneration(s) PROVE \E msgs : Renders(msgs)
    <2> DEFINE msgs == [local EXCEPT ![s] = [id |-> "local", status |-> "pending"]]
    <2>1. [id |-> "local", status |-> "pending"] \in Message
      BY DEF Message
    <2>2. msgs \in Messages /\ local' = msgs /\ request[s] = "idle"
      BY <1>1, <1>3, <2>1 DEF submitGeneration, Messages
    <2>3. /\ msgs[s] # Absent /\ msgs[s].id = "local"
          /\ \A t \in Submit \ {s} : msgs[t] = local[t]
      BY <1>1, <2>1, NoMessage DEF Messages
    <2> HIDE DEF msgs
    <2>4. QED
      BY <2>2, <2>3 DEF Renders, Becomes
  <1>4. ASSUME NEW s \in Submit, onStart(s) PROVE \E msgs : Renders(msgs)
    <2> DEFINE named == [id |-> "task", status |-> "pending"]
               message == IF LocalEntry(s) THEN named ELSE local[s]
    <2>1. named \in Message /\ named # Absent
      BY NoMessage DEF Message
    <2>2. /\ request[s] = "taken" /\ request'[s] = "started" /\ UNCHANGED recent
          /\ Show([local EXCEPT ![s] = message])
      BY <1>4, <1>1 DEF onStart, PageInv, TypeOK, Messages
    <2>3. message \in Message \cup {Absent}
      BY <1>1, <2>1 DEF Messages
    <2>4. \/ message = local[s]
          \/ local[s] # Absent /\ message # Absent /\ message.id = "task"
      BY <2>1 DEF LocalEntry
    <2> HIDE DEF message
    <2>5. QED
      BY <2>2, <2>3, <2>4, ShowsOne
  <1>5. ASSUME NEW s \in Submit, Answered(s) PROVE \E msgs : Renders(msgs)
    <2>1. PICK status \in {"pending", "ended"} : Show(Answer(s, status))
      BY <1>5 DEF Answered, Reported
    <2> DEFINE named == [id |-> "task", status |-> status]
               message == IF local[s] # Absent THEN named ELSE local[s]
    <2>2. named \in Message /\ named # Absent
      BY NoMessage DEF Message
    <2>3. /\ request[s] \in {"taken", "started"} /\ request'[s] = "over" /\ UNCHANGED recent
          /\ Show([local EXCEPT ![s] = message])
      BY <1>1, <1>5, <2>1 DEF Answered, Answer, PageInv, TypeOK, Messages
    <2>4. message \in Message \cup {Absent}
      BY <1>1, <2>2 DEF Messages
    <2>5. \/ message = local[s]
          \/ local[s] # Absent /\ message # Absent /\ message.id = "task"
      BY <2>2
    <2> HIDE DEF message
    <2>6. QED
      BY <2>3, <2>4, <2>5, ShowsOne
  <1>6. ASSUME NEW s \in Submit, SubmitFails(s) PROVE \E msgs : Renders(msgs)
    <2> DEFINE failed == [id |-> IF request[s] = "started" THEN "task" ELSE "local",
                          status |-> "ended"]
               message == IF local[s] = Absent THEN local[s] ELSE failed
    <2>1. failed \in Message /\ failed # Absent
      BY NoMessage DEF Message
    <2>2. /\ request[s] \in {"sent", "taken", "started"} /\ UNCHANGED recent
          /\ request[s] = "started" => request'[s] = "over"
          /\ Show([local EXCEPT ![s] = message])
      BY <1>1, <1>6 DEF SubmitFails, PageInv, TypeOK, Messages
    <2>3. message \in Message \cup {Absent}
      BY <1>1, <2>1 DEF Messages
    <2>4. \/ message = local[s]
          \/ /\ local[s] # Absent /\ message # Absent
             /\ (request[s] = "started" /\ message.id = "task") \/ message.id = local[s].id
      BY <2>1, <2>2 DEF PageInv, Unnamed
    <2> HIDE DEF message
    <2>5. QED
      BY <2>2, <2>3, <2>4, ShowsOne
  <1>7. ASSUME NEW s \in Submit, refreshVideo(s) PROVE \E msgs : Renders(msgs)
    <2>1. PICK id \in {"local", "task"}, status \in {"pending", "ended"} :
            /\ UNCHANGED recent
            /\ Show([local EXCEPT ![s] = IF @ # Absent /\ @.id = id
                                           THEN [@ EXCEPT !.status = status] ELSE @])
      BY <1>7 DEF refreshVideo
    <2> DEFINE checked == [local[s] EXCEPT !.status = status]
               message == IF local[s] # Absent /\ local[s].id = id THEN checked ELSE local[s]
    <2>2. Show([local EXCEPT ![s] = message])
      BY <1>1, <2>1 DEF Messages
    <2>3. ASSUME local[s] # Absent
          PROVE  checked \in Message /\ checked.id = local[s].id
      <3>1. local[s] \in Message
        BY <1>1, <2>3 DEF Messages
      <3>2. QED
        BY <3>1 DEF Message
    <2>4. /\ message \in Message \cup {Absent}
          /\ \/ message = local[s]
             \/ local[s] # Absent /\ message # Absent /\ message.id = local[s].id
      BY <1>1, <2>3, NoMessage DEF Messages
    <2> HIDE DEF message
    <2>5. QED
      BY <2>1, <2>2, <2>4, ShowsOne
  <1>8. ASSUME NEW s \in Submit, NEW id \in {"local", "task"}, deleteGenerationEntry(s, id)
        PROVE  \E msgs : Renders(msgs)
    <2> DEFINE message == IF local[s] # Absent /\ local[s].id = id THEN Absent ELSE local[s]
    <2>1. /\ UNCHANGED recent /\ s \in asked'
          /\ Show([local EXCEPT ![s] = message])
      BY <1>1, <1>8 DEF deleteGenerationEntry, Messages
    <2>2. /\ message \in Message \cup {Absent}
          /\ message = local[s] \/ message = Absent
      BY <1>1 DEF Messages
    <2> HIDE DEF message
    <2>3. QED
      BY <2>1, <2>2, ShowsOne
  <1>9. CASE Render
    <2>1. local' = Synced(local, recent', old)
      BY <1>9 DEF Render, Show
    <2>2. QED
      BY <1>2, <2>1
  <1>10. CASE ListTaken
    <2>1. UNCHANGED local \/ local' = Synced(local, recent', old)
      BY <1>10 DEF ListTaken
    <2>2. QED
      BY <1>2, <2>1
  <1>11. QED
    BY <1>2, <1>3, <1>4, <1>5, <1>6, <1>7, <1>8, <1>9, <1>10
    DEF Next, ListRead, Poll, Notified, Reload, ServerTakes, TaskEnds, Ages,
        orphanTaskIdForLocalEntry, ServerDeletes, Deleted

-----------------------------------------------------------------------------
(* The invariant is kept *)

\* The types of what the other lemmas do not speak of.
LEMMA RestTyped ==
  ASSUME PageInv, Next
  PROVE  /\ kind' \in Kinds
         /\ old' \subseteq Submit /\ before' \in [Submit -> SUBSET Submit]
         /\ asked' \subseteq Submit
         /\ deletes' \in 0 .. MaxDeletes /\ trouble' \in 0 .. MaxTrouble
  <1>1. /\ kind \in Kinds /\ old \subseteq Submit /\ before \in [Submit -> SUBSET Submit]
        /\ asked \subseteq Submit /\ deletes \in 0 .. MaxDeletes /\ trouble \in 0 .. MaxTrouble
        /\ MaxDeletes \in Nat /\ MaxTrouble \in Nat
    BY GenerationAssumption DEF PageInv, TypeOK
  <1>2. trouble' \in 0 .. MaxTrouble
    <2>1. Calm \/ InTrouble
      BY DEF Next, ListRead, ListTaken, Poll, Notified, Render, Reload, submitGeneration,
             ServerTakes, TaskEnds, onStart, Answered, SubmitFails, Ages, refreshVideo,
             deleteGenerationEntry, orphanTaskIdForLocalEntry, ServerDeletes, Deleted
    <2>2. QED
      BY <1>1, <2>1 DEF Calm, InTrouble
  <1>3. CASE UNCHANGED <<kind, old, before, asked, deletes>>
    BY <1>1, <1>2, <1>3
  <1>4. ASSUME NEW s \in Submit, submitGeneration(s)
        PROVE  before' \in [Submit -> SUBSET Submit] /\ UNCHANGED <<kind, old, asked, deletes>>
    BY <1>1, <1>4 DEF submitGeneration
  <1>5. ASSUME NEW s \in Submit, Ages(s)
        PROVE  old' \subseteq Submit /\ UNCHANGED <<kind, before, asked, deletes>>
    BY <1>1, <1>5 DEF Ages
  <1>6. ASSUME NEW s \in Submit, NEW id \in {"local", "task"}, deleteGenerationEntry(s, id)
        PROVE  /\ asked' \subseteq Submit /\ deletes' \in 0 .. MaxDeletes
               /\ UNCHANGED <<kind, old, before>>
    BY <1>1, <1>6 DEF deleteGenerationEntry
  <1>7. QED
    BY <1>1, <1>2, <1>3, <1>4, <1>5, <1>6
    DEF Next, ListRead, ListTaken, Poll, Notified, Render, Reload, ServerTakes, TaskEnds, onStart,
        Answered, SubmitFails, refreshVideo, orphanTaskIdForLocalEntry, ServerDeletes, Deleted

\* A message after a step, seen from the one before.
LEMMA MessageStep ==
  ASSUME PageInv, Next
  PROVE  /\ local' \in Messages
         /\ \A s \in Submit : local'[s] # Absent =>
              \/ local[s] # Absent /\ local'[s].id = local[s].id
              \/ local'[s].id = "local"
              \/ request[s] \in {"taken", "started"} /\ request'[s] \in {"started", "over"}
         /\ \A s \in Submit : local[s] = Absent /\ request[s] # "idle" => local'[s] = Absent
  <1>1. PICK msgs : Renders(msgs)
    BY PageStep
  <1>2. recent' \in List
    BY ListStep
  <1>3. /\ local' \in Messages
        /\ \A s \in Submit : local'[s] \in {msgs[s], Absent}
    <2>1. msgs \in Messages /\ (local' = msgs \/ local' = Synced(msgs, recent', old))
      BY <1>1 DEF Renders
    <2>2. ASSUME NEW s \in Submit
          PROVE  /\ Synced(msgs, recent', old) \in Messages
                 /\ Synced(msgs, recent', old)[s] \in {msgs[s], Absent}
      BY <1>2, <2>1, SyncedEntry
    <2>3. Synced(msgs, recent', old) \in Messages
      BY <2>1 DEF Synced, Messages
    <2>4. QED
      BY <2>1, <2>2, <2>3
  <1>4. QED
    BY <1>1, <1>3 DEF Renders, Becomes

\* A submit that was answered, or whose stream has started, stays so.
LEMMA AnsweredOnce ==
  ASSUME PageInv, Next, NEW s \in Submit, request[s] \in {"started", "over"}
  PROVE  request'[s] \in {"started", "over"}
  <1>1. request \in [Submit -> {"idle", "sent", "unheard", "taken", "started", "over"}]
    BY DEF PageInv, TypeOK
  <1>2. CASE UNCHANGED request
    BY <1>2
  <1>3. CASE Reload
    BY <1>1, <1>3 DEF Reload
  <1>4. ASSUME NEW t \in Submit, submitGeneration(t) \/ ServerTakes(t) \/ onStart(t)
        PROVE  request'[s] = request[s]
    <2>1. request[t] \in {"idle", "sent", "unheard", "taken"}
      BY <1>4 DEF submitGeneration, ServerTakes, onStart
    <2>2. \A u \in Submit \ {t} : request'[u] = request[u]
      BY <1>1, <1>4 DEF submitGeneration, ServerTakes, onStart
    <2>3. QED
      BY <2>1, <2>2
  <1>5. ASSUME NEW t \in Submit, Answered(t) \/ SubmitFails(t)
        PROVE  request'[s] \in {"started", "over"}
    BY <1>1, <1>5 DEF Answered, SubmitFails
  <1>6. QED
    BY <1>2, <1>3, <1>4, <1>5
    DEF Next, ListRead, ListTaken, Poll, Notified, Render, TaskEnds, Ages, refreshVideo,
        deleteGenerationEntry, orphanTaskIdForLocalEntry, ServerDeletes, Deleted

\* The parts of the invariant that relate the page to the server.
LEMMA NamedStep == ASSUME PageInv, Next PROVE Named' /\ Unnamed'
  <1>1. \A s \in Submit : tasks[s] # "none" => tasks'[s] # "none"
    BY ServerStep
  <1>2. \A s \in Submit : recent'[s] # "none" => tasks[s] # "none"
    <2>1. \A s \in Submit : recent[s] # "none" => tasks[s] # "none"
      BY DEF PageInv, Named, TaskEntry
    <2>2. QED
      BY <2>1, ListStep DEF PageInv, Named
  <1>3. ASSUME NEW s \in Submit, local'[s] # Absent, local'[s].id = "task"
        PROVE  tasks[s] # "none" /\ request'[s] \notin {"idle", "sent", "unheard", "taken"}
    <2>1. CASE local[s] # Absent /\ local[s].id = "task"
      <3>1. tasks[s] # "none" /\ request[s] \in {"started", "over"}
        <4>1. tasks[s] # "none" /\ request[s] \notin {"idle", "sent", "unheard", "taken"}
          BY <2>1 DEF PageInv, Named, TaskEntry, Unnamed
        <4>2. request[s] \in {"idle", "sent", "unheard", "taken", "started", "over"}
          BY DEF PageInv, TypeOK
        <4>3. QED
          BY <4>1, <4>2
      <3>2. request'[s] \in {"started", "over"}
        BY <3>1, AnsweredOnce
      <3>3. QED
        BY <3>1, <3>2
    <2>2. CASE request[s] \in {"taken", "started"} /\ request'[s] \in {"started", "over"}
      BY <2>2 DEF PageInv, Taken
    <2>3. QED
      BY <1>3, <2>1, <2>2, MessageStep
  <1>4. Unnamed'
    <2>1. ASSUME NEW s \in Submit, local'[s] # Absent PROVE local'[s].id \in {"local", "task"}
      BY <2>1, MessageStep DEF Messages, Message
    <2>2. QED
      BY <1>3, <2>1 DEF Unnamed
  <1>5. \A s \in Submit : TaskEntry(s)' => tasks'[s] # "none"
    BY <1>1, <1>2, <1>3 DEF TaskEntry
  <1>6. fetch'.at = "answered" => \A s \in Submit : fetch'.list[s] # "none" => tasks'[s] # "none"
    BY <1>1, ListStep DEF PageInv, Named
  <1>7. ASSUME NEW s \in Submit, deletion'[s].at = "deleting"
        PROVE  tasks'[deletion'[s].task] # "none"
    <2>1. deletion'[s].task \in Submit
      <3>1. deletion'[s] \in DeletionType
        BY DeletionStep
      <3>2. QED
        BY <1>7, <3>1 DEF DeletionType
    <2>2. \A t \in Submit : recent[t] # "none" => tasks[t] # "none"
      BY DEF PageInv, Named, TaskEntry
    <2>3. \/ deletion'[s] = deletion[s]
          \/ deletion'[s].task = s /\ TaskEntry(s)
          \/ recent[deletion'[s].task] # "none"
      BY <1>7, DeletionStep
    <2>4. tasks[deletion'[s].task] # "none"
      BY <1>7, <2>1, <2>2, <2>3 DEF PageInv, Named
    <2>5. QED
      BY <1>1, <2>1, <2>4
  <1>8. QED
    BY <1>4, <1>5, <1>6, <1>7 DEF Named

\* The parts that relate the list under way to the server.
LEMMA ListedStep == ASSUME PageInv, Next PROVE ListedLate' /\ DropsDeleted'
  <1>1. CASE UNCHANGED <<fetch, recent>>
    <2>1. ASSUME fetch.at = "answered", NEW s \in Submit,
                 tasks'[s] = "deleted", fetch.list[s] # "none"
          PROVE  \E t \in Submit : deletion'[t].at = "deleted"
      <3>1. \A t \in Submit : deletion[t].at = "deleted" => deletion'[t].at = "deleted"
        BY <1>1, <2>1, DeletionStep
      <3>2. CASE tasks[s] = "deleted"
        BY <2>1, <3>1, <3>2 DEF PageInv, ListedLate
      <3>3. CASE \E t \in Submit : ServerDeletes(t)
        BY <3>3, DeletionStep
      <3>4. QED
        BY <2>1, <3>2, <3>3, ServerStep
    <2>2. ASSUME fetch.at = "answered", NEW s \in Submit,
                 recent[s] # "none", fetch.list[s] = "none"
          PROVE  tasks'[s] = "deleted"
      <3>1. tasks[s] = "deleted"
        BY <2>2 DEF PageInv, DropsDeleted
      <3>2. QED
        BY <3>1, ServerStep
    <2>3. QED
      BY <1>1, <2>1, <2>2 DEF ListedLate, DropsDeleted
  <1>2. CASE fetch'.at # "answered"
    BY <1>2 DEF ListedLate, DropsDeleted
  <1>3. CASE /\ UNCHANGED <<recent, tasks, deletion>>
             /\ \A s \in Submit :
                  fetch'.list[s] = IF tasks[s] = "deleted" THEN "none" ELSE tasks[s]
    BY <1>3 DEF PageInv, Named, TaskEntry, ListedLate, DropsDeleted
  <1>4. QED
    BY <1>1, <1>2, <1>3, ListStep

\* The invariant holds at the start and of every step.
LEMMA PageInit == Init => PageInv
  <1> SUFFICES ASSUME Init PROVE PageInv
    OBVIOUS
  <1>1. TypeOK
    BY GenerationAssumption DEF Init, TypeOK, List, NoDeletion
  <1>2. NoDeletion.at = "none" /\ fetch.at = "asked"
    BY DEF Init, NoDeletion
  <1>3. QED
    BY <1>1, <1>2
    DEF Init, PageInv, Taken, Named, TaskEntry, Unnamed, ListedLate, DropsDeleted

LEMMA PageKept == ASSUME PageInv, [Next]_vars PROVE PageInv'
  <1>1. CASE Next
    <2>1. /\ tasks' \in [Submit -> {"none", "pending", "ended", "deleted"}]
          /\ request' \in [Submit -> {"idle", "sent", "unheard", "taken", "started", "over"}]
          /\ Taken' /\ fetch' \in FetchType /\ recent' \in List
          /\ deletion' \in [Submit -> DeletionType] /\ local' \in Messages
      BY <1>1, ServerStep, TakenStep, ListStep, DeletionStep, MessageStep
    <2>2. TypeOK'
      BY <1>1, <2>1, RestTyped DEF TypeOK, FetchType, DeletionType, Messages
    <2>3. QED
      BY <1>1, <2>1, <2>2, NamedStep, ListedStep DEF PageInv
  <1>2. CASE UNCHANGED vars
    BY <1>2 DEF vars, PageInv, TypeOK, Taken, Named, TaskEntry, Unnamed, ListedLate, DropsDeleted
  <1>3. QED
    BY <1>1, <1>2

\* The invariant holds in every state.
LEMMA PageAlways == Spec => []PageInv
  <1>1. PageInv /\ [Next]_vars => PageInv'
    BY PageKept
  <1>2. QED
    BY PageInit, <1>1, PTL DEF Spec

-----------------------------------------------------------------------------
(* Theorems *)

\* Every variable holds a value of its type: what the search finds is a task of
\* a submit, a message is never written over with anything else.
THEOREM TypeCorrect == Spec => []TypeOK
  <1>1. PageInv => TypeOK
    BY DEF PageInv
  <1>2. QED
    BY <1>1, PageAlways, PTL

\* An entry leaves the page only when the user deleted it, its task is gone, the
\* page is loaded again, or the merge with the list takes it for another task's
\* (same words, or a minute old).
THEOREM EntriesKept == Spec => EntriesAreKept
  <1>1. ASSUME PageInv, Next, NEW s \in Submit PROVE Kept(s)
    <2> SUFFICES ASSUME Shown(s), ~Shown(s)', s \notin asked', tasks[s] # "deleted",
                        recent' # [t \in Submit |-> "none"]
                 PROVE  Swept(s)
      BY DEF Kept
    <2>1. local' \in Messages /\ recent' \in List
      BY <1>1, MessageStep, ListStep
    <2>2. local'[s] = Absent /\ recent'[s] = "none"
      BY <2>1 DEF Shown, LocalEntry, TaskEntry, Messages, Message
    <2>3. recent[s] = "none"
      BY <1>1, <2>2, ListStep DEF PageInv, DropsDeleted
    <2>4. local[s] # Absent
      BY <2>3 DEF Shown, LocalEntry, TaskEntry
    <2>5. PICK msgs : Renders(msgs)
      BY <1>1, PageStep
    <2>6. /\ msgs \in Messages
          /\ msgs[s] # Absent
          /\ \/ request[s] = "idle"
             \/ msgs[s].id = local[s].id \/ msgs[s].id = "task"
      BY <2>4, <2>5 DEF Renders, Becomes
    <2>7. /\ msgs[s].id = "local"
          /\ \E t \in Listed(recent') \ {s} : Prompt[t] = Prompt[s] \/ s \in old
      BY <2>1, <2>2, <2>5, <2>6, SyncedEntry DEF Renders
    <2>8. local[s].id = "local"
      BY <1>1, <2>4, <2>6, <2>7 DEF PageInv, Unnamed
    <2>9. QED
      BY <2>4, <2>7, <2>8 DEF Swept, LocalEntry
  <1>2. ASSUME UNCHANGED vars, NEW s \in Submit PROVE Kept(s)
    BY <1>2 DEF vars, Kept, Shown, LocalEntry, TaskEntry
  <1>3. PageInv /\ [Next]_vars => [\A s \in Submit : Kept(s)]_vars
    BY <1>1, <1>2
  <1>4. QED
    BY <1>3, PageAlways, PTL DEF Spec, EntriesAreKept

\* An entry that has left the page with its task deleted, and the deletion
\* answered, does not come back, whatever answer or list is still under way.
THEOREM DeletedDoNotReturn == Spec => DeletedStaysAway
  <1> DEFINE Away(s) ==
        tasks[s] = "deleted" /\ ~Shown(s) /\ (\A t \in Submit : deletion[t].at # "deleted")
          => ~Shown(s)'
  <1>1. ASSUME PageInv, Next, NEW s \in Submit PROVE Away(s)
    <2> SUFFICES ASSUME tasks[s] = "deleted", ~Shown(s),
                        \A t \in Submit : deletion[t].at # "deleted"
                 PROVE  ~Shown(s)'
      OBVIOUS
    <2>1. local[s] = Absent /\ recent[s] = "none"
      <3>1. local[s] \in Message \cup {Absent}
        BY <1>1 DEF PageInv, TypeOK
      <3>2. QED
        BY <3>1 DEF Shown, LocalEntry, TaskEntry, Message
    <2>2. request[s] # "idle"
      BY <1>1 DEF PageInv, Taken
    <2>3. local'[s] = Absent
      BY <1>1, <2>1, <2>2, MessageStep
    <2>4. fetch.at = "answered" => fetch.list[s] = "none"
      BY <1>1 DEF PageInv, ListedLate
    <2>5. recent'[s] = "none"
      BY <1>1, <2>1, <2>4, ListStep
    <2>6. QED
      BY <2>3, <2>5 DEF Shown, LocalEntry, TaskEntry
  <1>2. ASSUME UNCHANGED vars, NEW s \in Submit PROVE Away(s)
    BY <1>2 DEF vars, Shown, LocalEntry, TaskEntry
  <1>3. PageInv /\ [Next]_vars => [\A s \in Submit : Away(s)]_vars
    BY <1>1, <1>2
  <1>4. QED
    BY <1>3, PageAlways, PTL DEF Spec, DeletedStaysAway

\* When no words are submitted twice, what is to be deleted for an entry is a
\* task of a submit of which the user deleted an entry.
LEMMA AskedKept ==
  ASSUME PageInv, AskedOnly, [Next]_vars,
         \A s, t \in Submit : Prompt[s] = Prompt[t] => s = t
  PROVE  AskedOnly'
  <1>1. CASE Next
    <2>1. ASSUME NEW s \in Submit
          PROVE  /\ deletion'[s].at \in {"awaiting", "ready"} => s \in asked'
                 /\ deletion'[s].at = "deleting" => deletion'[s].task \in asked'
      <3>1. asked \subseteq asked' /\ deletion'[s] \in DeletionType
        BY <1>1, DeletionStep
      <3>2. deletion'[s].at = "deleting" => deletion'[s].task \in Submit
        BY <3>1 DEF DeletionType
      <3>3. \/ deletion'[s] = deletion[s]
            \/ deletion[s].at = "awaiting" /\ deletion'[s].at = "ready"
            \/ deletion'[s].at \in {"none", "deleted"}
            \/ deletion'[s].at = "awaiting" /\ s \in asked'
            \/ /\ deletion'[s].at = "deleting" /\ deletion'[s].task = s /\ s \in asked'
            \/ /\ deletion'[s].at = "deleting" /\ deletion[s].at = "ready"
               /\ Prompt[deletion'[s].task] = Prompt[s]
        BY <1>1, DeletionStep
      <3>4. QED
        BY <3>1, <3>2, <3>3 DEF AskedOnly
    <2>2. QED
      BY <2>1 DEF AskedOnly
  <1>2. CASE UNCHANGED vars
    BY <1>2 DEF vars, AskedOnly
  <1>3. QED
    BY <1>1, <1>2

\* The search for the task behind a local entry deletes no other submit's task
\* as long as no words are submitted twice: that the words alone tell the tasks
\* apart is all that the strictness of the search hangs on.
THEOREM DistinctWordsSuffice ==
  ASSUME \A s, t \in Submit : Prompt[s] = Prompt[t] => s = t
  PROVE  Spec => DeletesWhatWasAsked
  <1>1. Init => AskedOnly
    BY DEF Init, NoDeletion, AskedOnly
  <1>2. PageInv /\ AskedOnly /\ [Next]_vars => AskedOnly'
    BY AskedKept
  <1>3. PageInv /\ AskedOnly /\ [Next]_vars =>
          [\A s \in Submit : tasks[s] # "deleted" /\ tasks'[s] = "deleted" => s \in asked]_vars
    <2> SUFFICES ASSUME PageInv, AskedOnly, Next, NEW s \in Submit,
                        tasks[s] # "deleted", tasks'[s] = "deleted"
                 PROVE  s \in asked
      BY DEF vars
    <2>1. PICK t \in Submit : ServerDeletes(t) /\ deletion[t].task = s
      BY ServerStep
    <2>2. QED
      BY <2>1 DEF ServerDeletes, AskedOnly
  <1>4. QED
    BY <1>1, <1>2, <1>3, PageAlways, PTL DEF Spec, DeletesWhatWasAsked

=============================================================================
