------------------------ MODULE DocumentStoreProofs ------------------------
(***************************************************************************)
(* What TLAPS proves of DocumentStore, for every set of documents and      *)
(* every bound: what the user typed stays in the store, dirty and on its   *)
(* way to the server, until it is there or the user gives it up; and a     *)
(* document that is not dirty shows a text the server has held.            *)
(***************************************************************************)
EXTENDS DocumentStore, TLAPS

(***************************************************************************)
(* Types, with the texts written so far: 0 .. m.                           *)
(***************************************************************************)

Copy(m) == [text : 0 .. m, place : {0, 1}, version : Nat, dirty : BOOLEAN]
Row(m) == [text : 0 .. m, place : {0, 1}, version : Nat]
Copies(m) == [Doc -> Copy(m) \cup {Absent}]
Rows(m) == [Doc -> Row(m) \cup {Absent}]
Replies == {NoReply} \cup [kind : {"conflict", "error"}] \cup [kind : {"saved"}, version : Nat]
Tasks(m) == [at : {"idle", "patch", "rebase", "sleep"}, rerun : BOOLEAN, timer : BOOLEAN,
             attempts : Nat, sent : Copy(m) \cup {Absent}, reply : Replies]
Kinds == {"move", "organize", "category", "folder", "create", "delete", "operations"}
Mutations(m) == [kind : Kinds, doc : Doc, before : Copies(m), after : Copies(m),
                 left : SUBSET Doc, answer : {"none", "saved", "error"},
                 snapshot : Rows(m) \cup {Absent}]
Fetches(m) == [kind : {"full"}, snapshot : Rows(m) \cup {Absent}]
              \cup [kind : {"delta"}, doc : Doc, snapshot : Rows(m) \cup {Absent}]
Counts == {"text", "user", "fetch", "trouble"}

\* Every text that ds shows is one of h.
Among(ds, h) == \A d \in Doc : ds[d] # Absent => ds[d].text \in h[d]

(***************************************************************************)
(* The invariant, one part for each variable.                              *)
(***************************************************************************)

UsedOk == loaded \in BOOLEAN /\ used \in [Counts -> Nat]

\* A store that was left is empty.
DocsOk ==
  /\ docs \in Copies(used.text)
  /\ ~loaded => \A d \in Doc : docs[d] = Absent

ServerOk ==
  /\ server \in Rows(used.text) /\ Among(server, held)
  /\ held \in [Doc -> SUBSET (0 .. used.text)]

\* A PATCH says what is sent, and was accepted only if the server held that.
TaskGood(t, h, m) ==
  /\ t \in Tasks(m)
  /\ t.at = "patch" => t.sent \in Copy(m)
  /\ t.reply # NoReply => t.at = "patch"
  /\ t.reply.kind = "saved" => t.sent.text \in h

TaskOk ==
  /\ task = [d \in Doc |-> task[d]]
  /\ \A d \in Doc : TaskGood(task[d], held[d], used.text)

\* Payloads on their way have texts that the server held.
FetchOk ==
  fetch # NoFetch =>
    /\ fetch \in Fetches(used.text)
    /\ fetch.snapshot # Absent => Among(fetch.snapshot, held)

UndoOk == undoable \in [Doc -> [text : 0 .. used.text] \cup {Absent}]

\* What was typed is new to the server.
TypedOk ==
  /\ typed \in [Doc -> 0 .. used.text]
  /\ \A d \in Doc : typed[d] # 0 => typed[d] \notin held[d]

\* The answer and the rollback snapshot of the mutation: what is clean there
\* was on the server, and typed text older than the mutation is dirty in the
\* snapshot.
MutationOk ==
  mutation # NoMutation =>
    /\ mutation \in Mutations(used.text)
    /\ \A d \in mutation.left : /\ mutation.after[d] # Absent
                                /\ mutation.kind \notin {"create", "operations"}
    /\ mutation.kind = "create" => mutation.after[mutation.doc] # Absent
    /\ mutation.answer = "saved" =>
         /\ mutation.snapshot \in Rows(used.text) /\ Among(mutation.snapshot, held)
         /\ mutation.kind = "create" => mutation.after[mutation.doc].text \in held[mutation.doc]
         /\ mutation.kind = "operations" => Among(mutation.after, held)
    /\ \A d \in Doc : mutation.before[d] # Absent /\ ~mutation.before[d].dirty
                        => mutation.before[d].text \in held[d]
    /\ \A d \in Doc : typed[d] # 0 /\ ~TypedSince(d) =>
         /\ mutation.before[d] # Absent
         /\ mutation.before[d].text \notin held[d] => mutation.before[d].dirty

Inv ==
  /\ UsedOk /\ DocsOk /\ ServerOk /\ TaskOk /\ FetchOk /\ UndoOk /\ TypedOk /\ MutationOk
  /\ TypedIsKept /\ CleanIsHeld

-----------------------------------------------------------------------------
(* Types *)

\* Texts written later do not spoil a type.
LEMMA Widen ==
  ASSUME NEW m \in Nat, NEW k \in Nat, m <= k
  PROVE  /\ Copy(m) \subseteq Copy(k) /\ Row(m) \subseteq Row(k)
         /\ Copies(m) \subseteq Copies(k) /\ Rows(m) \subseteq Rows(k)
         /\ Tasks(m) \subseteq Tasks(k) /\ Fetches(m) \subseteq Fetches(k)
         /\ Mutations(m) \subseteq Mutations(k)
  <1>1. 0 .. m \subseteq 0 .. k
    OBVIOUS
  <1>2. Copy(m) \subseteq Copy(k) /\ Row(m) \subseteq Row(k)
    BY <1>1 DEF Copy, Row
  <1>3. Copies(m) \subseteq Copies(k) /\ Rows(m) \subseteq Rows(k)
    BY <1>2 DEF Copies, Rows
  <1>4. Tasks(m) \subseteq Tasks(k)
    BY <1>2 DEF Tasks
  <1>5. Fetches(m) \subseteq Fetches(k)
    BY <1>3 DEF Fetches
  <1>6. Mutations(m) \subseteq Mutations(k)
    BY <1>3 DEF Mutations
  <1>7. QED
    BY <1>2, <1>3, <1>4, <1>5, <1>6

\* No document is Absent.
LEMMA NotAbsent ==
  ASSUME NEW m \in Nat
  PROVE  Absent \notin Copy(m) /\ Absent \notin Row(m)
  BY DocumentAssumption DEF Copy, Row

\* From row to copy and back.
LEMMA LocalRemote ==
  ASSUME NEW m \in Nat
  PROVE  /\ \A r \in Row(m) \cup {Absent} :
              /\ Local(r) \in Copy(m) \cup {Absent}
              /\ Local(r) = Absent <=> r = Absent
              /\ r # Absent => ~Local(r).dirty /\ Local(r).text = r.text
         /\ \A c \in Copy(m) \cup {Absent} :
              /\ Remote(c) \in Row(m) \cup {Absent}
              /\ Remote(c) = Absent <=> c = Absent
              /\ c # Absent => Remote(c).text = c.text
  <1>1. ASSUME NEW r \in Row(m)
        PROVE  /\ Local(r) \in Copy(m) /\ Local(r) # Absent
               /\ ~Local(r).dirty /\ Local(r).text = r.text
    <2>1. r # Absent
      BY NotAbsent
    <2>2. Local(r) = [text |-> r.text, place |-> r.place, version |-> r.version, dirty |-> FALSE]
      BY <2>1 DEF Local
    <2>3. Local(r) \in Copy(m)
      BY <2>2 DEF Row, Copy
    <2>4. Local(r) # Absent
      BY <2>3, NotAbsent
    <2>5. QED
      BY <2>2, <2>3, <2>4
  <1>2. ASSUME NEW c \in Copy(m)
        PROVE  Remote(c) \in Row(m) /\ Remote(c) # Absent /\ Remote(c).text = c.text
    <2>1. c # Absent
      BY NotAbsent
    <2>2. Remote(c) = [text |-> c.text, place |-> c.place, version |-> c.version]
      BY <2>1 DEF Remote
    <2>3. Remote(c) \in Row(m)
      BY <2>2 DEF Row, Copy
    <2>4. Remote(c) # Absent
      BY <2>3, NotAbsent
    <2>5. QED
      BY <2>2, <2>3, <2>4
  <1>3. Local(Absent) = Absent /\ Remote(Absent) = Absent
    BY DEF Local, Remote
  <1>4. ASSUME NEW r \in Row(m) \cup {Absent}
        PROVE  /\ Local(r) \in Copy(m) \cup {Absent}
               /\ Local(r) = Absent <=> r = Absent
               /\ r # Absent => ~Local(r).dirty /\ Local(r).text = r.text
    BY <1>1, <1>3
  <1>5. ASSUME NEW c \in Copy(m) \cup {Absent}
        PROVE  /\ Remote(c) \in Row(m) \cup {Absent}
               /\ Remote(c) = Absent <=> c = Absent
               /\ c # Absent => Remote(c).text = c.text
    BY <1>2, <1>3
  <1>6. QED
    BY <1>4, <1>5

\* The counters of what is done.
LEMMA UsingEffect ==
  ASSUME UsedOk, NEW what \in Counts \ {"text"}, Using(what)
  PROVE  used' \in [Counts -> Nat] /\ used'.text = used.text
  BY DEF UsedOk, Using, Counts

\* A write takes a text that nobody has.
LEMMA WritingEffect ==
  ASSUME UsedOk, NEW who \in Counts \ {"text"}, Writing(who)
  PROVE  /\ used' \in [Counts -> Nat]
         /\ used'.text = used.text + 1 /\ NewText = used'.text /\ used.text \in Nat
  <1> DEFINE f == [used EXCEPT ![who] = @ + 1]
  <1>1. f \in [Counts -> Nat] /\ used.text \in Nat
    BY DEF UsedOk, Counts
  <1>2. used' = [f EXCEPT !.text = used.text + 1]
    BY DEF Writing
  <1> HIDE DEF f
  <1>3. QED
    BY <1>1, <1>2 DEF NewText, Counts

-----------------------------------------------------------------------------
(* What a step leaves alone stays as good as it was *)

\* Texts are only added, and what the server has held it has held.
Grows ==
  /\ used.text \in Nat /\ used'.text \in Nat /\ used.text <= used'.text
  /\ \A d \in Doc : held[d] \subseteq held'[d]

\* A step that writes no text, here or there.
LEMMA GrowsQuietly ==
  ASSUME UsedOk, used'.text = used.text, UNCHANGED held
  PROVE  Grows
  BY DEF UsedOk, Grows, Counts

\* A step that writes a text, here.
LEMMA GrowsByOne ==
  ASSUME UsedOk, used'.text = used.text + 1, \A d \in Doc : held[d] \subseteq held'[d]
  PROVE  Grows
  BY DEF UsedOk, Grows, Counts

\* The store.
LEMMA KeepsDocs ==
  ASSUME DocsOk, Grows, UNCHANGED <<docs, loaded>>
  PROVE  DocsOk'
  BY Widen DEF DocsOk, Grows

\* The server.
LEMMA KeepsServer ==
  ASSUME ServerOk, Grows, UNCHANGED <<server, held>>
  PROVE  ServerOk'
  <1>1. server' \in Rows(used'.text)
    BY Widen DEF ServerOk, Grows
  <1>2. held' \in [Doc -> SUBSET (0 .. used'.text)]
    BY DEF ServerOk, Grows
  <1>3. QED
    BY <1>1, <1>2 DEF ServerOk, Among

\* The save loop of one document.
LEMMA KeepsGood ==
  ASSUME NEW d \in Doc, NEW t, Grows, TaskGood(t, held[d], used.text)
  PROVE  TaskGood(t, held'[d], used'.text)
  <1>1. t \in Tasks(used'.text) /\ Copy(used.text) \subseteq Copy(used'.text)
    BY Widen DEF TaskGood, Grows
  <1>2. QED
    BY <1>1 DEF TaskGood, Grows

\* All save loops.
LEMMA KeepsTask ==
  ASSUME TaskOk, Grows, UNCHANGED task
  PROVE  TaskOk'
  BY KeepsGood DEF TaskOk

\* The payload on its way.
LEMMA KeepsFetch ==
  ASSUME FetchOk, Grows, UNCHANGED fetch
  PROVE  FetchOk'
  <1>1. SUFFICES ASSUME fetch # NoFetch
                 PROVE  /\ fetch \in Fetches(used'.text)
                        /\ fetch.snapshot # Absent => \A d \in Doc :
                             fetch.snapshot[d] # Absent => fetch.snapshot[d].text \in held'[d]
    BY DEF FetchOk, Among, NoFetch
  <1>2. QED
    BY <1>1, Widen DEF FetchOk, Among, Grows

\* The operation log.
LEMMA KeepsUndo ==
  ASSUME UndoOk, Grows, UNCHANGED undoable
  PROVE  UndoOk'
  <1>1. [text : 0 .. used.text] \subseteq [text : 0 .. used'.text]
    BY DEF Grows
  <1>2. QED
    BY <1>1 DEF UndoOk

\* The mutation goes on: typed text is the same, or gone, or new.
LEMMA MutationGoesOn ==
  ASSUME MutationOk, Grows, mutation # NoMutation,
         \A d \in Doc : typed'[d] = 0 \/ typed'[d] = typed[d] \/ typed'[d] = used.text + 1,
         mutation' \in Mutations(used'.text),
         mutation'.kind = mutation.kind, mutation'.doc = mutation.doc,
         mutation'.before = mutation.before, mutation'.after = mutation.after,
         mutation'.left \subseteq mutation.left,
         mutation'.answer = "saved" =>
           /\ mutation'.snapshot \in Rows(used'.text) /\ Among(mutation'.snapshot, held')
           /\ mutation.kind = "create" => mutation.after[mutation.doc].text \in held'[mutation.doc]
           /\ mutation.kind = "operations" => Among(mutation.after, held')
  PROVE  MutationOk'
  <1>1. ASSUME NEW d \in Doc, mutation.before[d] # Absent, ~mutation.before[d].dirty
        PROVE  mutation.before[d].text \in held'[d]
    BY <1>1 DEF MutationOk, Grows
  <1>2. ASSUME NEW d \in Doc, typed'[d] # 0, ~TypedSince(d)'
        PROVE  /\ mutation.before[d] # Absent
               /\ mutation.before[d].text \notin held'[d] => mutation.before[d].dirty
    <2>1. PICK copy \in {mutation.before[d], mutation.after[d]} \ {Absent} : copy.text = typed'[d]
      BY <1>2 DEF TypedSince
    <2>2. copy.text \in 0 .. used.text
      BY <2>1 DEF MutationOk, Mutations, Copies, Copy
    <2>3. typed'[d] = typed[d]
      BY <1>2, <2>1, <2>2 DEF Grows
    <2>4. typed[d] # 0 /\ ~TypedSince(d)
      BY <1>2, <2>1, <2>3 DEF TypedSince
    <2>5. QED
      BY <2>4 DEF MutationOk, Grows
  <1>3. /\ \A d \in mutation'.left : /\ mutation'.after[d] # Absent
                                     /\ mutation'.kind \notin {"create", "operations"}
        /\ mutation'.kind = "create" => mutation'.after[mutation'.doc] # Absent
    BY DEF MutationOk
  <1>4. QED
    BY <1>1, <1>2, <1>3 DEF MutationOk

\* The mutation waits.
LEMMA KeepsMutation ==
  ASSUME MutationOk, Grows, UNCHANGED mutation,
         \A d \in Doc : typed'[d] = 0 \/ typed'[d] = typed[d] \/ typed'[d] = used.text + 1
  PROVE  MutationOk'
  <1> SUFFICES ASSUME mutation # NoMutation PROVE MutationOk'
    BY DEF MutationOk, NoMutation
  <1>1. mutation \in Mutations(used'.text)
    BY Widen DEF MutationOk, Grows
  <1>2. Rows(used.text) \subseteq Rows(used'.text)
    BY Widen DEF Grows
  <1>3. ASSUME mutation.answer = "saved"
        PROVE  /\ mutation.snapshot \in Rows(used'.text) /\ Among(mutation.snapshot, held')
               /\ mutation.kind = "create"
                    => mutation.after[mutation.doc].text \in held'[mutation.doc]
               /\ mutation.kind = "operations" => Among(mutation.after, held')
    BY <1>2, <1>3 DEF MutationOk, Among, Grows, Mutations
  <1>4. QED
    BY <1>1, <1>3, MutationGoesOn

\* What was typed: the same, or gone.
LEMMA KeepsTyped ==
  ASSUME TypedOk, Grows, UNCHANGED held, typed' \in [Doc -> Nat],
         \A d \in Doc : typed'[d] = 0 \/ typed'[d] = typed[d]
  PROVE  TypedOk'
  <1>1. \A d \in Doc : typed'[d] \in 0 .. used'.text
    BY DEF TypedOk, Grows
  <1>2. typed' \in [Doc -> 0 .. used'.text]
    BY <1>1
  <1>3. QED
    BY <1>2 DEF TypedOk

\* Typed text stays where it is while the store and the save loops do.
LEMMA StaysKept ==
  ASSUME TypedIsKept, UNCHANGED docs,
         \A d \in Doc : typed'[d] = 0 \/ typed'[d] = typed[d],
         \A d \in Doc : task[d].at # "idle" \/ task[d].timer
                           => task'[d].at # "idle" \/ task'[d].timer
  PROVE  TypedIsKept'
  BY DEF TypedIsKept

\* Clean documents stay clean while the store and the mutation do.
LEMMA StaysClean ==
  ASSUME CleanIsHeld, Grows, UNCHANGED docs,
         \/ UNCHANGED mutation
         \/ mutation = NoMutation
         \/ mutation' # NoMutation /\ mutation'.kind = mutation.kind
            /\ mutation'.after = mutation.after
  PROVE  CleanIsHeld'
  BY DEF CleanIsHeld, Grows

-----------------------------------------------------------------------------
(* The save loop *)

\* The server takes up a state with known texts.
LEMMA ServerHoldsEffect ==
  ASSUME UsedOk, ServerOk, TypedOk, NEW next \in Rows(used'.text),
         used'.text \in Nat, used.text <= used'.text, ServerHolds(next)
  PROVE  /\ ServerOk' /\ TypedOk' /\ Grows
         /\ Among(next, held')
         /\ \A d \in Doc : typed'[d] = 0 \/ typed'[d] = typed[d]
  <1>1. \A d \in Doc : held'[d] = IF next[d] = Absent THEN held[d] ELSE held[d] \cup {next[d].text}
    BY DEF ServerHolds
  <1>2. \A d \in Doc : typed'[d] = IF next[d] # Absent /\ next[d].text = typed[d] THEN 0 ELSE typed[d]
    BY DEF ServerHolds
  <1>3. used.text \in Nat
    BY DEF UsedOk, Counts
  <1>4. Grows
    BY <1>1, <1>3 DEF Grows
  <1>5. Among(next, held')
    BY <1>1 DEF Among
  <1>6. held' \in [Doc -> SUBSET (0 .. used'.text)]
    <2>1. ASSUME NEW d \in Doc PROVE held'[d] \subseteq 0 .. used'.text
      <3>1. held[d] \subseteq 0 .. used'.text
        BY <1>3 DEF ServerOk
      <3>2. next[d] # Absent => next[d].text \in 0 .. used'.text
        BY DEF Rows, Row
      <3>3. QED
        BY <1>1, <3>1, <3>2
    <2>2. QED
      BY <2>1 DEF ServerHolds
  <1>7. ServerOk'
    BY <1>5, <1>6 DEF ServerOk, ServerHolds, Among
  <1>8. typed' \in [Doc -> 0 .. used'.text]
    <2>1. \A d \in Doc : typed'[d] \in 0 .. used'.text
      BY <1>2, <1>3 DEF TypedOk
    <2>2. QED
      BY <2>1 DEF ServerHolds
  <1>9. TypedOk'
    BY <1>1, <1>2, <1>8 DEF TypedOk
  <1>10. QED
    BY <1>2, <1>4, <1>5, <1>7, <1>9

\* A loop that does nothing.
LEMMA IdleGood ==
  ASSUME NEW m \in Nat, NEW h
  PROVE  /\ TaskGood(Idle, h, m) /\ Idle.at = "idle"
         /\ \A b \in BOOLEAN : /\ TaskGood([Idle EXCEPT !.timer = b], h, m)
                               /\ [Idle EXCEPT !.timer = b].timer = b
  BY DEF TaskGood, Tasks, Idle, NoReply, Replies

\* A turn of the loop sends the local copy if it is dirty.
LEMMA LoopTurnGood ==
  ASSUME NEW m \in Nat, NEW h, NEW t \in Tasks(m), NEW ds \in Copies(m), NEW d \in Doc,
         NEW a \in Nat
  PROVE  /\ TaskGood(LoopTurn(t, d, ds, a), h, m)
         /\ ds[d] # Absent /\ ds[d].dirty => LoopTurn(t, d, ds, a).at = "patch"
  <1>1. CASE ds[d] # Absent /\ ds[d].dirty
    <2> DEFINE sending == [t EXCEPT !.at = "patch", !.rerun = FALSE, !.attempts = a,
                                    !.sent = ds[d], !.reply = NoReply]
    <2>1. LoopTurn(t, d, ds, a) = sending
      BY <1>1 DEF LoopTurn
    <2>2. ds[d] \in Copy(m) /\ NoReply \in Replies
      BY <1>1 DEF Copies, Replies
    <2>3. sending \in Tasks(m) /\ sending.at = "patch" /\ sending.sent = ds[d]
          /\ sending.reply = NoReply
      BY <2>2 DEF Tasks
    <2>4. NoReply.kind # "saved"
      BY DEF NoReply
    <2> HIDE DEF sending
    <2>5. QED
      BY <2>1, <2>2, <2>3, <2>4 DEF TaskGood
  <1>2. CASE ~(ds[d] # Absent /\ ds[d].dirty)
    <2>1. LoopTurn(t, d, ds, a) = [Idle EXCEPT !.timer = t.timer] /\ t.timer \in BOOLEAN
      BY <1>2 DEF LoopTurn, Tasks
    <2>2. QED
      BY <1>2, <2>1, IdleGood
  <1>3. QED
    BY <1>1, <1>2

\* A save is scheduled: a dirty document has a loop then.
LEMMA ScheduleGood ==
  ASSUME NEW m \in Nat, NEW h, NEW t, TaskGood(t, h, m), NEW ds \in Copies(m), NEW d \in Doc
  PROVE  /\ TaskGood(scheduleDocumentSave(t, d, ds), h, m)
         /\ ds[d] # Absent /\ ds[d].dirty => scheduleDocumentSave(t, d, ds).at # "idle"
  <1>1. t \in Tasks(m)
    BY DEF TaskGood
  <1>2. CASE t.at # "idle"
    <2> DEFINE again == [t EXCEPT !.timer = FALSE, !.rerun = TRUE]
    <2>1. scheduleDocumentSave(t, d, ds) = again
      BY <1>2 DEF scheduleDocumentSave
    <2>2. again \in Tasks(m) /\ again.at = t.at /\ again.sent = t.sent /\ again.reply = t.reply
      BY <1>1 DEF Tasks
    <2> HIDE DEF again
    <2>3. QED
      BY <1>2, <2>1, <2>2 DEF TaskGood
  <1>3. CASE t.at = "idle"
    <2>1. [t EXCEPT !.timer = FALSE] \in Tasks(m)
      BY <1>1 DEF Tasks
    <2>2. scheduleDocumentSave(t, d, ds) = LoopTurn([t EXCEPT !.timer = FALSE], d, ds, 0)
      BY <1>3 DEF scheduleDocumentSave
    <2>3. QED
      BY <2>1, <2>2, LoopTurnGood
  <1>4. QED
    BY <1>2, <1>3

\* After a failure the loop starts over or the timer is set.
LEMMA RetryGood ==
  ASSUME NEW m \in Nat, NEW h, NEW t \in Tasks(m), NEW ds \in Copies(m), NEW d \in Doc
  PROVE  /\ TaskGood(scheduleBackgroundRetry(t, d, ds), h, m)
         /\ ds[d] # Absent /\ ds[d].dirty =>
              \/ scheduleBackgroundRetry(t, d, ds).at # "idle"
              \/ scheduleBackgroundRetry(t, d, ds).timer
  <1>1. CASE t.rerun
    <2>1. [t EXCEPT !.timer = FALSE] \in Tasks(m)
      BY DEF Tasks
    <2>2. scheduleBackgroundRetry(t, d, ds) = LoopTurn([t EXCEPT !.timer = FALSE], d, ds, 0)
      BY <1>1 DEF scheduleBackgroundRetry
    <2>3. QED
      BY <2>1, <2>2, LoopTurnGood
  <1>2. CASE ~t.rerun
    <2>1. scheduleBackgroundRetry(t, d, ds) = [Idle EXCEPT !.timer = TRUE]
      BY <1>2 DEF scheduleBackgroundRetry
    <2>2. QED
      BY <2>1, IdleGood
  <1>3. QED
    BY <1>1, <1>2

\* One save loop goes on.
LEMMA TaskChanges ==
  ASSUME TaskOk, Grows, NEW d \in Doc, NEW t, task' = [task EXCEPT ![d] = t],
         TaskGood(t, held'[d], used'.text)
  PROVE  TaskOk' /\ task'[d] = t /\ \A x \in Doc \ {d} : task'[x] = task[x]
  <1>1. task'[d] = t /\ task' = [x \in Doc |-> task'[x]] /\ \A x \in Doc \ {d} : task'[x] = task[x]
    BY DEF TaskOk
  <1>2. \A x \in Doc : TaskGood(task[x], held'[x], used'.text)
    BY KeepsGood DEF TaskOk
  <1>3. \A x \in Doc : TaskGood(task'[x], held'[x], used'.text)
    BY <1>1, <1>2
  <1>4. TaskOk'
    BY <1>1, <1>3 DEF TaskOk
  <1>5. QED
    BY <1>1, <1>4

\* A step that writes no text, and nothing on the server.
LEMMA QuietStep ==
  ASSUME Inv, UNCHANGED <<server, held>>, typed' \in [Doc -> Nat],
         \A d \in Doc : typed'[d] = 0 \/ typed'[d] = typed[d],
         used' \in [Counts -> Nat], used'.text = used.text, loaded' \in BOOLEAN,
         DocsOk', TaskOk', FetchOk', UndoOk', MutationOk', TypedIsKept', CleanIsHeld'
  PROVE  Inv'
  <1>1. Grows
    BY GrowsQuietly DEF Inv
  <1>2. ServerOk' /\ TypedOk'
    BY <1>1, KeepsServer, KeepsTyped DEF Inv
  <1>3. UsedOk'
    BY DEF UsedOk
  <1>4. QED
    BY <1>2, <1>3 DEF Inv

\* A step of one save loop that changes at most the local copy.
LEMMA LoopStep ==
  ASSUME Inv, NEW d \in Doc, NEW t, task' = [task EXCEPT ![d] = t],
         UNCHANGED <<loaded, server, mutation, fetch, undoable, typed, held>>,
         used' \in [Counts -> Nat], used'.text = used.text, TaskGood(t, held[d], used.text),
         DocsOk', \A x \in Doc \ {d} : docs'[x] = docs[x],
         docs[d] # Absent => docs'[d] # Absent /\ docs'[d].text = docs[d].text,
         typed[d] # 0 => docs'[d].dirty /\ (t.at # "idle" \/ t.timer),
         docs'[d] # Absent /\ ~docs'[d].dirty =>
           \/ docs[d] # Absent /\ ~docs[d].dirty /\ docs[d].text = docs'[d].text
           \/ docs'[d].text \in held[d]
  PROVE  Inv'
  <1>1. Grows
    BY GrowsQuietly DEF Inv
  <1>2. TaskOk' /\ task'[d] = t /\ \A x \in Doc \ {d} : task'[x] = task[x]
    BY <1>1, TaskChanges DEF Inv
  <1>3. FetchOk' /\ UndoOk' /\ MutationOk'
    BY <1>1, KeepsFetch, KeepsUndo, KeepsMutation DEF Inv
  <1>4. TypedIsKept'
    BY <1>2 DEF Inv, TypedIsKept
  <1>5. CleanIsHeld'
    BY DEF Inv, CleanIsHeld
  <1>6. typed' \in [Doc -> Nat]
    BY DEF Inv, TypedOk, UsedOk, Counts
  <1>7. QED
    BY <1>2, <1>3, <1>4, <1>5, <1>6, QuietStep DEF Inv, UsedOk

\* A step of the server, which takes up known texts.
LEMMA ServerStep ==
  ASSUME Inv, NEW next \in Rows(used'.text), ServerHolds(next),
         UNCHANGED <<loaded, docs, fetch, undoable>>,
         used' \in [Counts -> Nat], used.text <= used'.text,
         TaskOk', MutationOk',
         \A d \in Doc : task'[d].at = task[d].at /\ task'[d].timer = task[d].timer,
         \/ UNCHANGED mutation
         \/ mutation' # NoMutation /\ mutation'.kind = mutation.kind
            /\ mutation'.after = mutation.after
  PROVE  Inv'
  <1>1. used'.text \in Nat
    BY DEF Counts
  <1>2. /\ ServerOk' /\ TypedOk' /\ Grows
        /\ \A d \in Doc : typed'[d] = 0 \/ typed'[d] = typed[d]
    BY <1>1, ServerHoldsEffect DEF Inv
  <1>3. DocsOk' /\ FetchOk' /\ UndoOk'
    BY <1>2, KeepsDocs, KeepsFetch, KeepsUndo DEF Inv
  <1>4. TypedIsKept'
    BY <1>2, StaysKept DEF Inv
  <1>5. CleanIsHeld'
    BY <1>2, StaysClean DEF Inv
  <1>6. UsedOk'
    BY DEF Inv, UsedOk
  <1>7. QED
    BY <1>2, <1>3, <1>4, <1>5, <1>6 DEF Inv

\* What an acknowledgement does to the store.
LEMMA AcknowledgeGood ==
  ASSUME NEW m \in Nat, NEW ds \in Copies(m), NEW d \in Doc, NEW sent, NEW v \in Nat
  PROVE  LET r == acknowledgeDocumentSave(ds, d, sent, v) IN
         /\ r \in Copies(m) /\ \A x \in Doc \ {d} : r[x] = ds[x]
         /\ ds[d] = Absent => r[d] = Absent
         /\ ds[d] # Absent => /\ r[d] # Absent /\ r[d].text = ds[d].text
                              /\ loaded /\ r[d].text # sent.text => r[d].dirty
                              /\ loaded /\ ~r[d].dirty => r[d].text = sent.text
         /\ ~loaded => r = ds
  <1>1. CASE ~loaded \/ ds[d] = Absent
    BY <1>1 DEF acknowledgeDocumentSave
  <1>2. CASE loaded /\ ds[d] # Absent
    <2> DEFINE b == ~(ds[d].text = sent.text /\ ds[d].place = sent.place)
               c == [ds[d] EXCEPT !.version = v, !.dirty = b]
    <2>1. ds[d] \in Copy(m) /\ b \in BOOLEAN
      BY <1>2 DEF Copies
    <2>2. c \in Copy(m) /\ c.text = ds[d].text /\ c.dirty = b
      BY <2>1 DEF Copy
    <2>3. c # Absent
      BY <2>2, NotAbsent
    <2>4. acknowledgeDocumentSave(ds, d, sent, v) = [ds EXCEPT ![d] = c]
      <3>1. acknowledgeDocumentSave(ds, d, sent, v) =
              [ds EXCEPT ![d].version = v, ![d].dirty = b]
        BY <1>2 DEF acknowledgeDocumentSave
      <3>2. [ds EXCEPT ![d].version = v, ![d].dirty = b] = [ds EXCEPT ![d] = c]
        BY DEF Copies
      <3>3. QED
        BY <3>1, <3>2
    <2>5. [ds EXCEPT ![d] = c] \in Copies(m)
      BY <2>2 DEF Copies
    <2>6. b <=> ~(ds[d].text = sent.text /\ ds[d].place = sent.place)
      OBVIOUS
    <2> HIDE DEF b, c
    <2>7. [ds EXCEPT ![d] = c][d] = c /\ \A x \in Doc \ {d} : [ds EXCEPT ![d] = c][x] = ds[x]
      BY DEF Copies
    <2>8. QED
      BY <1>2, <2>2, <2>3, <2>4, <2>5, <2>6, <2>7
  <1>3. QED
    BY <1>1, <1>2

\* A new version for the local copy.
LEMMA VersionGood ==
  ASSUME NEW m \in Nat, NEW ds \in Copies(m), NEW d \in Doc, ds[d] # Absent, NEW v \in Nat
  PROVE  LET r == [ds EXCEPT ![d].version = v] IN
         /\ r \in Copies(m) /\ \A x \in Doc \ {d} : r[x] = ds[x]
         /\ r[d] # Absent /\ r[d].text = ds[d].text /\ r[d].dirty = ds[d].dirty
  <1> DEFINE c == [ds[d] EXCEPT !.version = v]
  <1>1. c \in Copy(m) /\ c.text = ds[d].text /\ c.dirty = ds[d].dirty
    BY DEF Copies, Copy
  <1>2. c # Absent
    BY <1>1, NotAbsent
  <1>3. [ds EXCEPT ![d].version = v] = [ds EXCEPT ![d] = c]
    OBVIOUS
  <1> HIDE DEF c
  <1>4. [ds EXCEPT ![d] = c] \in Copies(m) /\ [ds EXCEPT ![d] = c][d] = c
        /\ \A x \in Doc \ {d} : [ds EXCEPT ![d] = c][x] = ds[x]
    BY <1>1 DEF Copies
  <1>5. QED
    BY <1>1, <1>2, <1>3, <1>4

\* The PATCH arrives.
LEMMA PatchArrivesInv ==
  ASSUME Inv, NEW d \in Doc, PatchArrives(d)
  PROVE  Inv'
  <1> DEFINE expected == task[d].sent.version
  <1>1. /\ task[d].at = "patch" /\ UNCHANGED <<loaded, docs, mutation, fetch, undoable, used>>
        /\ task[d] \in Tasks(used.text) /\ task[d].sent \in Copy(used.text)
        /\ used \in [Counts -> Nat] /\ used.text \in Nat
    BY DEF PatchArrives, Inv, TaskOk, TaskGood, UsedOk, Counts
  <1>2. CASE server[d] # Absent /\ server[d].version = expected
    <2> DEFINE next == [server EXCEPT ![d] = Saved(d)]
               reply == [kind |-> "saved", version |-> expected + 1]
               t == [task[d] EXCEPT !.reply = reply]
    <2>1. ServerHolds(next) /\ task' = [task EXCEPT ![d] = t]
      BY <1>2 DEF PatchArrives
    <2>2. Saved(d) \in Row(used.text) /\ Saved(d).text = task[d].sent.text
      <3>1. server[d] \in Row(used.text)
        BY <1>2 DEF Inv, ServerOk, Rows
      <3>2. QED
        BY <1>1, <3>1 DEF Saved, Row, Copy
    <2>3. next \in Rows(used'.text)
      BY <1>1, <2>2 DEF Inv, ServerOk, Rows
    <2>4. next[d] = Saved(d) /\ Saved(d) # Absent
      BY <1>1, <2>2, NotAbsent DEF Inv, ServerOk, Rows
    <2>5. t \in Tasks(used'.text) /\ t.at = "patch" /\ t.timer = task[d].timer
          /\ t.sent = task[d].sent
      <3>1. expected \in Nat
        BY <1>1 DEF Copy
      <3>2. reply \in Replies
        BY <3>1 DEF Replies
      <3>3. QED
        BY <1>1, <3>2 DEF Tasks
    <2> HIDE DEF next, t
    <2>6. Grows /\ Among(next, held')
      BY <1>1, <2>1, <2>3, ServerHoldsEffect DEF Inv
    <2>7. TaskGood(t, held'[d], used'.text)
      BY <1>1, <2>2, <2>4, <2>5, <2>6 DEF TaskGood, Among
    <2>8. TaskOk' /\ task'[d] = t /\ \A x \in Doc \ {d} : task'[x] = task[x]
      BY <2>1, <2>6, <2>7, TaskChanges DEF Inv
    <2>9. MutationOk'
      BY <1>1, <2>1, <2>3, <2>6, ServerHoldsEffect, KeepsMutation DEF Inv
    <2>10. QED
      BY <1>1, <2>1, <2>3, <2>5, <2>8, <2>9, ServerStep
  <1>3. CASE ~(server[d] # Absent /\ server[d].version = expected)
    <2>1. PICK k \in {"conflict", "error"} :
            task' = [task EXCEPT ![d] = [task[d] EXCEPT !.reply = [kind |-> k]]]
      BY <1>3 DEF PatchArrives
    <2> DEFINE t == [task[d] EXCEPT !.reply = [kind |-> k]]
    <2>2. t \in Tasks(used.text) /\ t.at = "patch" /\ t.sent = task[d].sent
          /\ t.reply.kind # "saved"
      BY <1>1 DEF Tasks, Replies
    <2>3. TaskGood(t, held[d], used.text)
      BY <1>1, <2>2 DEF TaskGood
    <2>4. UNCHANGED <<server, held, typed>>
      BY <1>3 DEF PatchArrives
    <2>5. DocsOk'
      BY <1>1, <2>4, GrowsQuietly, KeepsDocs DEF Inv
    <2> HIDE DEF t
    <2>6. QED
      BY <1>1, <2>1, <2>2, <2>3, <2>4, <2>5, LoopStep DEF Inv, TypedIsKept, t
  <1>4. QED
    BY <1>2, <1>3

\* The PATCH or its answer is lost.
LEMMA PatchFailsInv ==
  ASSUME Inv, NEW d \in Doc, PatchFails(d)
  PROVE  Inv'
  <1> DEFINE t == [task[d] EXCEPT !.reply = [kind |-> "error"]]
  <1>1. /\ task[d].at = "patch"
        /\ UNCHANGED <<loaded, docs, server, mutation, fetch, undoable, typed, held>>
        /\ task' = [task EXCEPT ![d] = t]
        /\ task[d] \in Tasks(used.text) /\ task[d].sent \in Copy(used.text)
    BY DEF PatchFails, Inv, TaskOk, TaskGood
  <1>2. used' \in [Counts -> Nat] /\ used'.text = used.text
    BY UsingEffect DEF PatchFails, Inv, Counts
  <1>3. t \in Tasks(used.text) /\ t.at = "patch" /\ t.sent = task[d].sent
        /\ t.reply.kind # "saved"
    BY <1>1 DEF Tasks, Replies
  <1>4. TaskGood(t, held[d], used.text)
    BY <1>1, <1>3 DEF TaskGood
  <1>5. DocsOk'
    BY <1>1, <1>2, GrowsQuietly, KeepsDocs DEF Inv
  <1> HIDE DEF t
  <1>6. QED
    BY <1>1, <1>2, <1>3, <1>4, <1>5, LoopStep DEF Inv, TypedIsKept

\* The loop takes up the answer.
LEMMA PatchAnsweredInv ==
  ASSUME Inv, NEW d \in Doc, PatchAnswered(d)
  PROVE  Inv'
  <1> DEFINE t == task[d]
             failed == t.attempts + 1
             acknowledged == acknowledgeDocumentSave(docs, d, t.sent, t.reply.version)
  <1>1. /\ t.at = "patch" /\ t.reply # NoReply
        /\ UNCHANGED <<loaded, server, mutation, fetch, undoable, used, typed, held>>
        /\ t \in Tasks(used.text) /\ TaskGood(t, held[d], used.text)
        /\ used \in [Counts -> Nat] /\ used.text \in Nat
        /\ docs \in Copies(used.text) /\ t.attempts \in Nat /\ failed \in Nat
    BY DEF PatchAnswered, Inv, TaskOk, TaskGood, UsedOk, Counts, DocsOk, Tasks
  <1>2. typed[d] # 0 => /\ docs[d] # Absent /\ docs[d].text = typed[d] /\ docs[d].dirty
                        /\ typed[d] \notin held[d] /\ loaded
    BY DEF Inv, TypedIsKept, TypedOk, DocsOk
  <1>3. CASE t.reply.kind = "saved"
    <2>1. docs' = acknowledged /\ task' = [task EXCEPT ![d] = LoopTurn(t, d, acknowledged, 0)]
      BY <1>3 DEF PatchAnswered
    <2>2. t.reply.version \in Nat /\ t.sent.text \in held[d]
      BY <1>1, <1>3 DEF Tasks, Replies, NoReply, TaskGood
    <2>3. /\ acknowledged \in Copies(used.text)
          /\ \A x \in Doc \ {d} : acknowledged[x] = docs[x]
          /\ docs[d] = Absent => acknowledged[d] = Absent
          /\ docs[d] # Absent =>
               /\ acknowledged[d] # Absent /\ acknowledged[d].text = docs[d].text
               /\ loaded /\ acknowledged[d].text # t.sent.text => acknowledged[d].dirty
               /\ loaded /\ ~acknowledged[d].dirty => acknowledged[d].text = t.sent.text
          /\ ~loaded => acknowledged = docs
      BY <1>1, <2>2, AcknowledgeGood
    <2> HIDE DEF acknowledged
    <2>4. /\ TaskGood(LoopTurn(t, d, acknowledged, 0), held[d], used.text)
          /\ acknowledged[d] # Absent /\ acknowledged[d].dirty
               => LoopTurn(t, d, acknowledged, 0).at = "patch"
      BY <1>1, <2>3, LoopTurnGood
    <2>5. DocsOk'
      BY <1>1, <2>1, <2>3 DEF Inv, DocsOk
    <2>6. docs'[d] # Absent /\ ~docs'[d].dirty => docs'[d].text \in held[d]
      BY <2>1, <2>2, <2>3 DEF Inv, DocsOk
    <2>7. typed[d] # 0 => docs'[d].dirty /\ LoopTurn(t, d, acknowledged, 0).at = "patch"
      BY <1>2, <2>1, <2>2, <2>3, <2>4
    <2> HIDE DEF t
    <2>8. QED
      BY <1>1, <2>1, <2>3, <2>4, <2>5, <2>6, <2>7, LoopStep
  <1>4. CASE t.reply.kind # "saved"
    <2> DEFINE on(at) == [t EXCEPT !.at = at, !.attempts = failed, !.reply = NoReply]
    <2>1. UNCHANGED docs /\ DocsOk'
      BY <1>1, <1>4, GrowsQuietly, KeepsDocs DEF PatchAnswered, Inv
    <2>2. \/ \E at \in {"rebase", "sleep"} : task' = [task EXCEPT ![d] = on(at)]
          \/ task' = [task EXCEPT ![d] = scheduleBackgroundRetry(t, d, docs)]
      BY <1>4 DEF PatchAnswered
    <2>3. CASE task' = [task EXCEPT ![d] = scheduleBackgroundRetry(t, d, docs)]
      <3>1. /\ TaskGood(scheduleBackgroundRetry(t, d, docs), held[d], used.text)
            /\ docs[d] # Absent /\ docs[d].dirty =>
                 \/ scheduleBackgroundRetry(t, d, docs).at # "idle"
                 \/ scheduleBackgroundRetry(t, d, docs).timer
        BY <1>1, RetryGood
      <3> HIDE DEF t
      <3>2. QED
        BY <1>1, <1>2, <2>1, <2>3, <3>1, LoopStep
    <2>4. ASSUME NEW at \in {"rebase", "sleep"}, task' = [task EXCEPT ![d] = on(at)]
          PROVE  Inv'
      <3>1. on(at) \in Tasks(used.text) /\ on(at).at = at /\ on(at).reply = NoReply
        BY <1>1 DEF Tasks, Replies
      <3>2. TaskGood(on(at), held[d], used.text)
        BY <3>1 DEF TaskGood, NoReply
      <3> HIDE DEF on
      <3>3. QED
        BY <1>1, <1>2, <2>1, <2>4, <3>1, <3>2, LoopStep
    <2>5. QED
      BY <2>2, <2>3, <2>4
  <1>5. QED
    BY <1>3, <1>4

\* The loop gets the server's version.
LEMMA RebaseAnsweredInv ==
  ASSUME Inv, NEW d \in Doc, RebaseAnswered(d)
  PROVE  Inv'
  <1> DEFINE t == task[d]
             rebased == IF loaded /\ docs[d] # Absent
                          THEN [docs EXCEPT ![d].version = server[d].version] ELSE docs
  <1>1. /\ UNCHANGED <<loaded, server, mutation, fetch, undoable, typed, held>>
        /\ t \in Tasks(used.text) /\ t.attempts \in Nat
        /\ used \in [Counts -> Nat] /\ used.text \in Nat
        /\ docs \in Copies(used.text)
    BY DEF RebaseAnswered, Inv, TaskOk, TaskGood, UsedOk, Counts, DocsOk, Tasks
  <1>2. typed[d] # 0 => docs[d] # Absent /\ docs[d].text = typed[d] /\ docs[d].dirty
    BY DEF Inv, TypedIsKept
  <1>3. used' \in [Counts -> Nat] /\ used'.text = used.text
    BY <1>1, UsingEffect DEF RebaseAnswered, Inv, Counts
  <1>4. CASE /\ server[d] # Absent
             /\ docs' = rebased
             /\ task' = [task EXCEPT ![d] = LoopTurn(t, d, rebased, t.attempts)]
    <2>1. server[d].version \in Nat
      BY <1>4 DEF Inv, ServerOk, Rows, Row
    <2>2. /\ rebased \in Copies(used.text) /\ \A x \in Doc \ {d} : rebased[x] = docs[x]
          /\ docs[d] = Absent => rebased[d] = Absent
          /\ docs[d] # Absent => /\ rebased[d] # Absent /\ rebased[d].text = docs[d].text
                                 /\ rebased[d].dirty = docs[d].dirty
          /\ ~loaded => rebased = docs
      <3>1. CASE loaded /\ docs[d] # Absent
        BY <1>1, <2>1, <3>1, VersionGood
      <3>2. CASE ~(loaded /\ docs[d] # Absent)
        BY <1>1, <3>2
      <3>3. QED
        BY <3>1, <3>2
    <2> HIDE DEF rebased
    <2>3. /\ TaskGood(LoopTurn(t, d, rebased, t.attempts), held[d], used.text)
          /\ rebased[d] # Absent /\ rebased[d].dirty
               => LoopTurn(t, d, rebased, t.attempts).at = "patch"
      BY <1>1, <2>2, LoopTurnGood
    <2>4. DocsOk'
      BY <1>1, <1>3, <1>4, <2>2 DEF Inv, DocsOk
    <2> HIDE DEF t
    <2>5. QED
      BY <1>1, <1>2, <1>3, <1>4, <2>2, <2>3, <2>4, LoopStep
  <1>5. CASE task' = [task EXCEPT ![d] = scheduleBackgroundRetry(t, d, docs)] /\ UNCHANGED docs
    <2>1. /\ TaskGood(scheduleBackgroundRetry(t, d, docs), held[d], used.text)
          /\ docs[d] # Absent /\ docs[d].dirty =>
               \/ scheduleBackgroundRetry(t, d, docs).at # "idle"
               \/ scheduleBackgroundRetry(t, d, docs).timer
      BY <1>1, RetryGood
    <2>2. DocsOk'
      BY <1>1, <1>3, <1>5, GrowsQuietly, KeepsDocs DEF Inv
    <2> HIDE DEF t
    <2>3. QED
      BY <1>1, <1>2, <1>3, <1>5, <2>1, <2>2, LoopStep
  <1>6. QED
    BY <1>4, <1>5 DEF RebaseAnswered

\* A delay runs out.
LEMMA SaveTimerInv ==
  ASSUME Inv, NEW d \in Doc, SaveTimer(d)
  PROVE  Inv'
  <1>1. /\ UNCHANGED <<loaded, docs, server, mutation, fetch, undoable, used, typed, held>>
        /\ task[d] \in Tasks(used.text) /\ task[d].attempts \in Nat
        /\ TaskGood(task[d], held[d], used.text)
        /\ used \in [Counts -> Nat] /\ used.text \in Nat
        /\ docs \in Copies(used.text)
    BY DEF SaveTimer, Inv, TaskOk, TaskGood, UsedOk, Counts, DocsOk, Tasks
  <1>2. typed[d] # 0 => docs[d] # Absent /\ docs[d].text = typed[d] /\ docs[d].dirty
    BY DEF Inv, TypedIsKept
  <1>3. PICK t : /\ task' = [task EXCEPT ![d] = t]
                 /\ \/ t = LoopTurn(task[d], d, docs, task[d].attempts)
                    \/ t = scheduleDocumentSave(task[d], d, docs)
    BY DEF SaveTimer
  <1>4. TaskGood(t, held[d], used.text) /\ (docs[d] # Absent /\ docs[d].dirty => t.at # "idle")
    <2>1. CASE t = LoopTurn(task[d], d, docs, task[d].attempts)
      BY <1>1, <2>1, LoopTurnGood
    <2>2. CASE t = scheduleDocumentSave(task[d], d, docs)
      BY <1>1, <2>2, ScheduleGood
    <2>3. QED
      BY <1>3, <2>1, <2>2
  <1>5. DocsOk'
    BY <1>1, GrowsQuietly, KeepsDocs DEF Inv
  <1>6. QED
    BY <1>1, <1>2, <1>3, <1>4, <1>5, LoopStep

-----------------------------------------------------------------------------
(* Payloads *)

\* A dirty copy keeps its text, and a clean result shows what was clean here
\* or what came.
LEMMA MergeIncomingGood ==
  ASSUME NEW m \in Nat, NEW local \in Copy(m), NEW incoming \in Row(m)
  PROVE  LET r == mergeIncomingDocument(local, incoming) IN
         /\ r \in Copy(m)
         /\ local.dirty => r.dirty /\ r.text = local.text
         /\ ~r.dirty => \/ ~local.dirty /\ r.text = local.text
                        \/ r.text = incoming.text
  <1>1. CASE local.dirty
    <2> DEFINE v == IF incoming.version > local.version THEN incoming.version ELSE local.version
               c == [local EXCEPT !.version = v]
    <2>1. v \in Nat
      BY DEF Copy, Row
    <2>2. mergeIncomingDocument(local, incoming) = c
      BY <1>1 DEF mergeIncomingDocument
    <2> HIDE DEF v
    <2>3. c \in Copy(m) /\ c.text = local.text /\ c.dirty = local.dirty
      BY <2>1 DEF Copy
    <2>4. QED
      BY <1>1, <2>2, <2>3
  <1>2. CASE ~local.dirty
    <2>1. mergeIncomingDocument(local, incoming) \in {local, Local(incoming)}
      BY <1>2 DEF mergeIncomingDocument
    <2>2. /\ Local(incoming) \in Copy(m) \cup {Absent} /\ incoming # Absent
          /\ ~Local(incoming).dirty /\ Local(incoming).text = incoming.text
          /\ Local(incoming) # Absent
      BY LocalRemote, NotAbsent
    <2>3. QED
      BY <1>2, <2>1, <2>2
  <1>3. QED
    BY <1>1, <1>2

\* What the store may become when payloads come in: typed text stays, and
\* clean copies show what was clean here or came.
Merged(ds, r, incoming) ==
  \A d \in Doc :
    /\ loaded /\ ds[d] # Absent /\ ds[d].dirty
         => r[d] # Absent /\ r[d].dirty /\ r[d].text = ds[d].text
    /\ r[d] # Absent /\ ~r[d].dirty =>
         \/ ds[d] # Absent /\ ~ds[d].dirty /\ r[d].text = ds[d].text
         \/ incoming[d] # Absent /\ r[d].text = incoming[d].text

\* A payload of all documents.
LEMMA MergeGood ==
  ASSUME NEW m \in Nat, NEW ds \in Copies(m), NEW incoming \in Rows(m)
  PROVE  /\ mergeWorkspaceDocuments(ds, incoming) \in Copies(m)
         /\ Merged(ds, mergeWorkspaceDocuments(ds, incoming), incoming)
  <1> DEFINE r == mergeWorkspaceDocuments(ds, incoming)
  <1>1. CASE ~loaded \/ Present(ds) = {}
    <2>1. r = [d \in Doc |-> Local(incoming[d])]
      BY <1>1 DEF mergeWorkspaceDocuments
    <2>2. \A d \in Doc : /\ incoming[d] \in Row(m) \cup {Absent}
                         /\ Local(incoming[d]) \in Copy(m) \cup {Absent}
                         /\ Local(incoming[d]) = Absent <=> incoming[d] = Absent
                         /\ incoming[d] # Absent => /\ ~Local(incoming[d]).dirty
                                                    /\ Local(incoming[d]).text = incoming[d].text
      BY LocalRemote DEF Rows
    <2>3. r \in Copies(m)
      BY <2>1, <2>2 DEF Copies
    <2>4. loaded => \A d \in Doc : ds[d] = Absent
      BY <1>1 DEF Present
    <2>5. \A d \in Doc : r[d] = Local(incoming[d])
      BY <2>1
    <2> HIDE DEF r
    <2>6. Merged(ds, r, incoming)
      BY <2>2, <2>4, <2>5 DEF Merged
    <2>7. QED
      BY <2>3, <2>6 DEF r
  <1>2. CASE ~(~loaded \/ Present(ds) = {})
    <2> DEFINE one(d) == IF incoming[d] = Absent
                           THEN IF ds[d] # Absent /\ ds[d].dirty THEN ds[d] ELSE Absent
                           ELSE IF ds[d] = Absent THEN Local(incoming[d])
                                ELSE mergeIncomingDocument(ds[d], incoming[d])
    <2>1. r = [d \in Doc |-> one(d)]
      BY <1>2 DEF mergeWorkspaceDocuments
    <2>2. ASSUME NEW d \in Doc
          PROVE  /\ one(d) \in Copy(m) \cup {Absent}
                 /\ ds[d] # Absent /\ ds[d].dirty
                      => one(d) # Absent /\ one(d).dirty /\ one(d).text = ds[d].text
                 /\ one(d) # Absent /\ ~one(d).dirty =>
                      \/ ds[d] # Absent /\ ~ds[d].dirty /\ one(d).text = ds[d].text
                      \/ incoming[d] # Absent /\ one(d).text = incoming[d].text
      <3>1. ds[d] \in Copy(m) \cup {Absent} /\ incoming[d] \in Row(m) \cup {Absent}
        BY DEF Copies, Rows
      <3>2. CASE incoming[d] = Absent
        BY <3>1, <3>2
      <3>3. CASE incoming[d] # Absent /\ ds[d] = Absent
        <4>1. one(d) = Local(incoming[d])
          BY <3>3
        <4> HIDE DEF one
        <4>2. QED
          BY <3>1, <3>3, <4>1, LocalRemote
      <3>4. CASE incoming[d] # Absent /\ ds[d] # Absent
        <4>1. one(d) = mergeIncomingDocument(ds[d], incoming[d])
          BY <3>4
        <4>2. one(d) \in Copy(m) => one(d) # Absent
          BY NotAbsent
        <4> HIDE DEF one
        <4>3. QED
          BY <3>1, <3>4, <4>1, <4>2, MergeIncomingGood
      <3>5. QED
        BY <3>2, <3>3, <3>4
    <2>3. r \in Copies(m)
      BY <2>1, <2>2 DEF Copies
    <2>4. \A d \in Doc : r[d] = one(d)
      BY <2>1
    <2> HIDE DEF r, one
    <2>5. Merged(ds, r, incoming)
      BY <2>2, <2>4 DEF Merged
    <2>6. QED
      BY <2>3, <2>5 DEF r
  <1>3. QED
    BY <1>1, <1>2

\* A step that only lets payloads into the store.
LEMMA PayloadStep ==
  ASSUME Inv, UNCHANGED <<server, task, mutation, undoable, typed, held>>,
         used' \in [Counts -> Nat], used'.text = used.text, loaded' \in BOOLEAN,
         docs' \in Copies(used.text), ~loaded' => \A d \in Doc : docs'[d] = Absent,
         NEW incoming, Among(incoming, held), Merged(docs, docs', incoming), FetchOk'
  PROVE  Inv'
  <1>1. Grows
    BY GrowsQuietly DEF Inv
  <1>2. DocsOk'
    BY DEF DocsOk
  <1>3. TaskOk' /\ UndoOk' /\ MutationOk'
    BY <1>1, KeepsTask, KeepsUndo, KeepsMutation DEF Inv
  <1>4. TypedIsKept'
    BY DEF Inv, TypedIsKept, DocsOk, Merged
  <1>5. CleanIsHeld'
    BY DEF Inv, CleanIsHeld, Merged, Among
  <1>6. typed' \in [Doc -> Nat]
    BY DEF Inv, TypedOk, UsedOk, Counts
  <1>7. QED
    BY <1>2, <1>3, <1>4, <1>5, <1>6, QuietStep

\* Nothing comes in.
LEMMA NothingMerged ==
  ASSUME Inv, UNCHANGED docs
  PROVE  /\ docs' \in Copies(used.text) /\ Merged(docs, docs', server) /\ Among(server, held)
         /\ ~loaded => \A d \in Doc : docs'[d] = Absent
  BY DEF Inv, DocsOk, Merged, ServerOk

\* A poll or a delta is asked for.
LEMMA AskServerInv ==
  ASSUME Inv, AskServer
  PROVE  Inv'
  <1>1. used' \in [Counts -> Nat] /\ used'.text = used.text
    BY UsingEffect DEF AskServer, Inv, Counts
  <1>2. UNCHANGED <<loaded, docs, server, task, mutation, undoable, typed, held>>
    BY DEF AskServer
  <1>3. FetchOk'
    <2>1. CASE fetch' = [kind |-> "full", snapshot |-> Absent]
      BY <2>1 DEF FetchOk, Fetches
    <2>2. CASE \E d \in Doc : fetch' = [kind |-> "delta", doc |-> d, snapshot |-> Absent]
      BY <2>2 DEF FetchOk, Fetches
    <2>3. QED
      BY <2>1, <2>2 DEF AskServer
  <1>4. QED
    BY <1>1, <1>2, <1>3, NothingMerged, PayloadStep DEF Inv, UsedOk

\* It is answered with what the server has.
LEMMA FetchArrivesInv ==
  ASSUME Inv, FetchArrives
  PROVE  Inv'
  <1>1. UNCHANGED <<loaded, docs, server, task, mutation, undoable, used, typed, held>>
    BY DEF FetchArrives
  <1>2. fetch \in Fetches(used.text) /\ fetch' = [fetch EXCEPT !.snapshot = server]
    BY DEF FetchArrives, Inv, FetchOk
  <1>3. server \in Rows(used.text) /\ Among(server, held)
    BY DEF Inv, ServerOk
  <1>4. fetch' \in Fetches(used.text) /\ fetch'.snapshot = server
    BY <1>2, <1>3 DEF Fetches
  <1>5. FetchOk'
    BY <1>1, <1>3, <1>4 DEF FetchOk, Among
  <1>6. used' \in [Counts -> Nat] /\ used'.text = used.text
    BY <1>1 DEF Inv, UsedOk
  <1>7. QED
    BY <1>1, <1>5, <1>6, NothingMerged, PayloadStep DEF Inv, UsedOk

\* A payload of all documents comes in.
LEMMA HydrateInv ==
  ASSUME Inv, hydrateWorkspaceState
  PROVE  Inv'
  <1>1. /\ UNCHANGED <<server, task, mutation, undoable, used, typed, held>>
        /\ docs' = mergeWorkspaceDocuments(docs, fetch.snapshot) /\ loaded' = TRUE
        /\ fetch' = NoFetch /\ fetch # NoFetch /\ fetch.snapshot # Absent
    BY DEF hydrateWorkspaceState
  <1>2. /\ fetch.snapshot \in Rows(used.text) /\ Among(fetch.snapshot, held)
        /\ docs \in Copies(used.text)
        /\ used \in [Counts -> Nat] /\ used.text \in Nat
    BY <1>1 DEF Inv, FetchOk, Fetches, DocsOk, UsedOk, Counts
  <1>3. docs' \in Copies(used.text) /\ Merged(docs, docs', fetch.snapshot)
    BY <1>1, <1>2, MergeGood
  <1>4. FetchOk'
    BY <1>1 DEF FetchOk, NoFetch
  <1>5. QED
    BY <1>1, <1>2, <1>3, <1>4, PayloadStep

\* One changed document comes in.
LEMMA DeltaInv ==
  ASSUME Inv, applyWorkspaceDelta
  PROVE  Inv'
  <1> DEFINE d == fetch.doc
             incoming == fetch.snapshot[d]
             merged == IF docs[d] = Absent THEN Local(incoming)
                       ELSE mergeIncomingDocument(docs[d], incoming)
  <1>1. /\ UNCHANGED <<loaded, server, task, mutation, undoable, used, typed, held>>
        /\ docs' = IF ~loaded \/ incoming = Absent THEN docs ELSE [docs EXCEPT ![d] = merged]
        /\ fetch' = NoFetch /\ fetch # NoFetch /\ fetch.snapshot # Absent
        /\ fetch.kind = "delta"
    BY DEF applyWorkspaceDelta
  <1>2. /\ fetch.snapshot \in Rows(used.text) /\ Among(fetch.snapshot, held) /\ d \in Doc
        /\ docs \in Copies(used.text)
        /\ used \in [Counts -> Nat] /\ used.text \in Nat
    BY <1>1 DEF Inv, FetchOk, Fetches, DocsOk, UsedOk, Counts
  <1>3. FetchOk'
    BY <1>1 DEF FetchOk, NoFetch
  <1>4. CASE ~loaded \/ incoming = Absent
    BY <1>1, <1>2, <1>3, <1>4, NothingMerged, PayloadStep DEF Inv, UsedOk
  <1>5. CASE loaded /\ incoming # Absent
    <2>1. incoming \in Row(used.text) /\ docs[d] \in Copy(used.text) \cup {Absent}
      BY <1>2, <1>5 DEF Rows, Copies
    <2>2. /\ merged \in Copy(used.text)
          /\ docs[d] # Absent /\ docs[d].dirty => merged.dirty /\ merged.text = docs[d].text
          /\ ~merged.dirty => \/ docs[d] # Absent /\ ~docs[d].dirty /\ merged.text = docs[d].text
                              \/ merged.text = incoming.text
      <3>1. CASE docs[d] = Absent
        <4>1. merged = Local(incoming)
          BY <3>1
        <4> HIDE DEF merged, incoming, d
        <4>2. QED
          BY <1>2, <2>1, <3>1, <4>1, LocalRemote, NotAbsent
      <3>2. CASE docs[d] # Absent
        <4>1. merged = mergeIncomingDocument(docs[d], incoming)
          BY <3>2
        <4> HIDE DEF merged, incoming
        <4>2. QED
          BY <1>2, <2>1, <3>2, <4>1, MergeIncomingGood
      <3>3. QED
        BY <3>1, <3>2
    <2>3. merged # Absent
      BY <1>2, <2>2, NotAbsent
    <2>4. docs' = [docs EXCEPT ![d] = merged]
      BY <1>1, <1>5
    <2> HIDE DEF merged, d
    <2>5. docs' \in Copies(used.text) /\ docs'[d] = merged /\ \A x \in Doc \ {d} : docs'[x] = docs[x]
      BY <1>2, <2>2, <2>4 DEF Copies
    <2>6. Merged(docs, docs', fetch.snapshot)
      BY <1>5, <2>2, <2>3, <2>5 DEF Merged
    <2>7. QED
      BY <1>1, <1>2, <1>3, <1>5, <2>5, <2>6, PayloadStep DEF Inv, UsedOk
  <1>6. QED
    BY <1>4, <1>5 DEF Inv, UsedOk

\* A clean document that the server removed goes.
LEMMA RemovalInv ==
  ASSUME Inv, NEW d \in Doc, applyRemoval(d)
  PROVE  Inv'
  <1>1. /\ UNCHANGED <<loaded, server, task, mutation, fetch, undoable, used, typed, held>>
        /\ loaded /\ docs[d] # Absent /\ ~docs[d].dirty /\ docs' = [docs EXCEPT ![d] = Absent]
    BY DEF applyRemoval
  <1>2. docs \in Copies(used.text) /\ Among(server, held) /\ used \in [Counts -> Nat]
    BY DEF Inv, DocsOk, ServerOk, UsedOk
  <1>3. docs' \in Copies(used.text) /\ docs'[d] = Absent /\ \A x \in Doc \ {d} : docs'[x] = docs[x]
    BY <1>1, <1>2 DEF Copies
  <1>4. Merged(docs, docs', server)
    BY <1>1, <1>3 DEF Merged
  <1>5. FetchOk'
    BY <1>1, GrowsQuietly, KeepsFetch DEF Inv
  <1>6. QED
    BY <1>1, <1>2, <1>3, <1>4, <1>5, PayloadStep

\* The user leaves the project.
LEMMA PrepareInv ==
  ASSUME Inv, prepareWorkspaceLoad
  PROVE  Inv'
  <1>1. /\ UNCHANGED <<server, task, mutation, held>>
        /\ loaded' = FALSE
        /\ docs' = [d \in Doc |-> Absent] /\ undoable' = [d \in Doc |-> Absent]
        /\ typed' = [d \in Doc |-> 0] /\ (fetch' = NoFetch \/ fetch' = fetch)
    BY DEF prepareWorkspaceLoad
  <1>2. used' \in [Counts -> Nat] /\ used'.text = used.text
    BY UsingEffect DEF prepareWorkspaceLoad, Inv, Counts
  <1>3. Grows
    BY <1>1, <1>2, GrowsQuietly DEF Inv
  <1>4. DocsOk' /\ UndoOk' /\ TypedIsKept' /\ CleanIsHeld'
    BY <1>1 DEF DocsOk, Copies, UndoOk, TypedIsKept, CleanIsHeld
  <1>5. TaskOk' /\ MutationOk'
    BY <1>1, <1>3, KeepsTask, KeepsMutation DEF Inv
  <1>6. FetchOk'
    <2>1. CASE fetch' = NoFetch
      BY <2>1 DEF FetchOk, NoFetch
    <2>2. CASE fetch' = fetch
      BY <1>3, <2>2, KeepsFetch DEF Inv
    <2>3. QED
      BY <1>1, <2>1, <2>2
  <1>7. QED
    BY <1>1, <1>2, <1>4, <1>5, <1>6, QuietStep

-----------------------------------------------------------------------------
(* Typing, and writes by others *)

\* Others change the server.
LEMMA ServerChangesInv ==
  ASSUME Inv, NEW d \in Doc, ServerChanges(d)
  PROVE  Inv'
  <1> DEFINE changed(version) == [server EXCEPT ![d].text = NewText, ![d].version = version]
             removed == [server EXCEPT ![d] = Absent]
             row == [text |-> NewText, place |-> 0, version |-> 1]
             added == [server EXCEPT ![d] = row]
  <1>1. UNCHANGED <<loaded, docs, task, mutation, fetch, undoable>>
    BY DEF ServerChanges
  <1>2. server \in Rows(used.text) /\ used.text \in Nat
    BY DEF Inv, ServerOk, UsedOk, Counts
  <1>3. ASSUME NEW next \in Rows(used'.text), ServerHolds(next),
               used' \in [Counts -> Nat], used.text <= used'.text
        PROVE  Inv'
    <2>1. Grows /\ \A x \in Doc : typed'[x] = 0 \/ typed'[x] = typed[x]
      BY <1>3, ServerHoldsEffect DEF Inv, Counts
    <2>2. TaskOk' /\ MutationOk'
      BY <1>1, <2>1, KeepsTask, KeepsMutation DEF Inv
    <2>3. QED
      BY <1>1, <1>3, <2>2, ServerStep
  <1>4. ASSUME server[d] # Absent, Writing("trouble"),
               NEW version \in {server[d].version, server[d].version + 1},
               ServerHolds(changed(version))
        PROVE  Inv'
    <2> DEFINE edited == [server[d] EXCEPT !.text = NewText, !.version = version]
    <2>1. used' \in [Counts -> Nat] /\ used'.text = used.text + 1 /\ NewText = used'.text
      BY <1>4, WritingEffect DEF Inv, Counts
    <2>2. server \in Rows(used'.text) /\ server[d] \in Row(used'.text)
      BY <1>2, <1>4, <2>1, Widen DEF Rows
    <2>3. edited \in Row(used'.text)
      <3>1. NewText \in 0 .. used'.text /\ version \in Nat
        BY <1>2, <2>1, <2>2 DEF Row
      <3>2. QED
        BY <2>2, <3>1 DEF Row
    <2>4. changed(version) = [server EXCEPT ![d] = edited]
      BY <2>2 DEF Rows
    <2>5. changed(version) \in Rows(used'.text)
      BY <2>2, <2>3, <2>4 DEF Rows
    <2> HIDE DEF changed
    <2>6. QED
      BY <1>2, <1>3, <1>4, <2>1, <2>5
  <1>5. CASE Using("trouble") /\ ServerHolds(removed)
    <2>1. used' \in [Counts -> Nat] /\ used'.text = used.text
      BY <1>5, UsingEffect DEF Inv, Counts
    <2>2. removed \in Rows(used'.text)
      BY <1>2, <2>1 DEF Rows
    <2> HIDE DEF removed
    <2>3. QED
      BY <1>2, <1>3, <1>5, <2>1, <2>2
  <1>6. CASE Writing("trouble") /\ ServerHolds(added)
    <2>1. used' \in [Counts -> Nat] /\ used'.text = used.text + 1 /\ NewText = used'.text
      BY <1>6, WritingEffect DEF Inv, Counts
    <2>2. server \in Rows(used'.text) /\ row \in Row(used'.text)
      BY <1>2, <2>1, Widen DEF Row
    <2>3. added \in Rows(used'.text)
      BY <2>2 DEF Rows
    <2> HIDE DEF added
    <2>4. QED
      BY <1>2, <1>3, <1>6, <2>1, <2>3
  <1>7. QED
    BY <1>4, <1>5, <1>6 DEF ServerChanges

\* Another local copy of one document.
LEMMA ReplaceGood ==
  ASSUME NEW m \in Nat, NEW ds \in Copies(m), NEW d \in Doc, NEW c \in Copy(m)
  PROVE  /\ c # Absent
         /\ [ds EXCEPT ![d] = c] \in Copies(m) /\ [ds EXCEPT ![d] = c][d] = c
         /\ \A y \in Doc \ {d} : [ds EXCEPT ![d] = c][y] = ds[y]
  BY NotAbsent DEF Copies

\* The user types: the text is new, dirty, and its save is scheduled.
LEMMA TypesInv ==
  ASSUME Inv, NEW d \in Doc, updateDocumentContent(d)
  PROVE  Inv'
  <1> DEFINE c == [docs[d] EXCEPT !.text = NewText, !.dirty = TRUE]
  <1>1. /\ docs[d] # Absent
        /\ docs' = [docs EXCEPT ![d].text = NewText, ![d].dirty = TRUE]
        /\ task' = [task EXCEPT ![d] = scheduleDocumentSave(task[d], d, docs')]
        /\ typed' = [typed EXCEPT ![d] = NewText]
        /\ UNCHANGED <<loaded, server, mutation, fetch, undoable, held>>
    BY DEF updateDocumentContent
  <1>2. /\ used' \in [Counts -> Nat] /\ used'.text = used.text + 1 /\ NewText = used'.text
        /\ used.text \in Nat /\ used'.text \in Nat
    BY WritingEffect DEF updateDocumentContent, Inv, Counts
  <1>3. Grows
    BY <1>1, <1>2, GrowsByOne DEF Inv
  <1>4. docs \in Copies(used'.text) /\ docs[d] \in Copy(used'.text)
    BY <1>1, <1>2, Widen DEF Inv, DocsOk, Copies
  <1>5. c \in Copy(used'.text) /\ c.text = NewText /\ c.dirty
    <2>1. NewText \in 0 .. used'.text
      BY <1>2
    <2>2. QED
      BY <1>4, <2>1 DEF Copy
  <1>6. docs' = [docs EXCEPT ![d] = c]
    BY <1>1, <1>4 DEF Copies
  <1> HIDE DEF c
  <1>7. docs' \in Copies(used'.text) /\ docs'[d] = c /\ c # Absent
        /\ \A x \in Doc \ {d} : docs'[x] = docs[x]
    <2>1. /\ [docs EXCEPT ![d] = c] \in Copies(used'.text) /\ [docs EXCEPT ![d] = c][d] = c
          /\ c # Absent /\ \A x \in Doc \ {d} : [docs EXCEPT ![d] = c][x] = docs[x]
      BY <1>2, <1>4, <1>5, ReplaceGood
    <2>2. QED
      BY <1>6, <2>1
  <1>8. DocsOk'
    BY <1>1, <1>7 DEF Inv, DocsOk
  <1>9. /\ TaskGood(scheduleDocumentSave(task[d], d, docs'), held'[d], used'.text)
        /\ scheduleDocumentSave(task[d], d, docs').at # "idle"
    <2>1. TaskGood(task[d], held'[d], used'.text)
      BY <1>3, KeepsGood DEF Inv, TaskOk
    <2>2. QED
      BY <1>2, <1>5, <1>7, <2>1, ScheduleGood
  <1>10. /\ TaskOk' /\ task'[d].at # "idle"
         /\ \A x \in Doc \ {d} : task'[x] = task[x]
    BY <1>1, <1>3, <1>9, TaskChanges DEF Inv
  <1>11. /\ typed' \in [Doc -> 0 .. used'.text] /\ typed'[d] = NewText
         /\ \A x \in Doc \ {d} : typed'[x] = typed[x]
    <2>1. typed \in [Doc -> 0 .. used'.text] /\ NewText \in 0 .. used'.text
      BY <1>2 DEF Inv, TypedOk
    <2>2. QED
      BY <1>1, <2>1
  <1>12. TypedOk'
    <2>1. NewText \notin held[d]
      BY <1>2 DEF Inv, ServerOk
    <2>2. QED
      BY <1>1, <1>11, <2>1 DEF Inv, TypedOk
  <1>13. MutationOk'
    BY <1>1, <1>2, <1>3, <1>11, KeepsMutation DEF Inv
  <1>14. ServerOk' /\ FetchOk' /\ UndoOk' /\ UsedOk'
    BY <1>1, <1>2, <1>3, KeepsServer, KeepsFetch, KeepsUndo DEF Inv, UsedOk
  <1>15. TypedIsKept'
    BY <1>5, <1>7, <1>10, <1>11 DEF Inv, TypedIsKept
  <1>16. CleanIsHeld'
    BY <1>1, <1>5, <1>7 DEF Inv, CleanIsHeld
  <1>17. QED
    BY <1>8, <1>10, <1>12, <1>13, <1>14, <1>15, <1>16 DEF Inv

\* The agent's text streams in and counts as held.
LEMMA StreamInv ==
  ASSUME Inv, NEW d \in Doc, applyStreamingDocumentEdit(d)
  PROVE  Inv'
  <1> DEFINE c == [docs[d] EXCEPT !.text = NewText, !.version = docs[d].version + 1,
                                  !.dirty = FALSE]
  <1>1. /\ docs[d] # Absent
        /\ docs' = [docs EXCEPT ![d].text = NewText, ![d].version = @ + 1, ![d].dirty = FALSE]
        /\ held' = [held EXCEPT ![d] = held[d] \cup {NewText}]
        /\ typed' = [typed EXCEPT ![d] = 0]
        /\ UNCHANGED <<loaded, server, task, mutation, fetch, undoable>>
    BY DEF applyStreamingDocumentEdit
  <1>2. /\ used' \in [Counts -> Nat] /\ used'.text = used.text + 1 /\ NewText = used'.text
        /\ used.text \in Nat /\ used'.text \in Nat
    BY WritingEffect DEF applyStreamingDocumentEdit, Inv, Counts
  <1>3. /\ held \in [Doc -> SUBSET (0 .. used.text)]
        /\ held'[d] = held[d] \cup {NewText} /\ \A x \in Doc \ {d} : held'[x] = held[x]
    BY <1>1 DEF Inv, ServerOk
  <1>4. Grows
    BY <1>2, <1>3, GrowsByOne DEF Inv
  <1>5. docs \in Copies(used'.text) /\ docs[d] \in Copy(used'.text)
    BY <1>1, <1>2, Widen DEF Inv, DocsOk, Copies
  <1>6. c \in Copy(used'.text) /\ c.text = NewText /\ ~c.dirty
    <2>1. NewText \in 0 .. used'.text /\ docs[d].version + 1 \in Nat
      BY <1>2, <1>5 DEF Copy
    <2>2. QED
      BY <1>5, <2>1 DEF Copy
  <1>7. docs' = [docs EXCEPT ![d] = c]
    BY <1>1, <1>5 DEF Copies
  <1> HIDE DEF c
  <1>8. docs' \in Copies(used'.text) /\ docs'[d] = c /\ c # Absent
        /\ \A x \in Doc \ {d} : docs'[x] = docs[x]
    <2>1. /\ [docs EXCEPT ![d] = c] \in Copies(used'.text) /\ [docs EXCEPT ![d] = c][d] = c
          /\ c # Absent /\ \A x \in Doc \ {d} : [docs EXCEPT ![d] = c][x] = docs[x]
      BY <1>2, <1>5, <1>6, ReplaceGood
    <2>2. QED
      BY <1>7, <2>1
  <1>9. DocsOk'
    BY <1>1, <1>8 DEF Inv, DocsOk
  <1>10. ServerOk'
    <2>1. held' \in [Doc -> SUBSET (0 .. used'.text)]
      <3>1. \A x \in Doc : held[x] \cup {NewText} \in SUBSET (0 .. used'.text)
                           /\ held[x] \in SUBSET (0 .. used'.text)
        BY <1>2, <1>3
      <3>2. QED
        BY <1>1, <1>3, <3>1
    <2>2. server' \in Rows(used'.text)
      BY <1>1, <1>2, Widen DEF Inv, ServerOk
    <2>3. QED
      BY <1>1, <1>4, <2>1, <2>2 DEF Inv, ServerOk, Among, Grows
  <1>11. /\ typed' \in [Doc -> 0 .. used'.text] /\ typed'[d] = 0
         /\ \A x \in Doc \ {d} : typed'[x] = typed[x]
    <2>1. typed \in [Doc -> 0 .. used'.text] /\ 0 \in 0 .. used'.text
      BY <1>2 DEF Inv, TypedOk
    <2>2. QED
      BY <1>1, <2>1
  <1>12. TypedOk'
    BY <1>3, <1>11 DEF Inv, TypedOk
  <1>13. TaskOk' /\ FetchOk' /\ UndoOk' /\ MutationOk' /\ UsedOk'
    BY <1>1, <1>2, <1>4, <1>11, KeepsTask, KeepsFetch, KeepsUndo, KeepsMutation DEF Inv, UsedOk
  <1>14. TypedIsKept'
    BY <1>1, <1>8, <1>11 DEF Inv, TypedIsKept
  <1>15. CleanIsHeld'
    BY <1>1, <1>3, <1>6, <1>8 DEF Inv, CleanIsHeld
  <1>16. QED
    BY <1>9, <1>10, <1>12, <1>13, <1>14, <1>15 DEF Inv

-----------------------------------------------------------------------------
(* Mutations begin *)

\* A mutation begins: what stays typed was dirty, and is dirty after it with
\* a text that the server never held; what is clean after it was clean
\* before, unless it is what an operation saves.
LEMMA BeginStep ==
  ASSUME Inv, NEW kind \in Kinds, NEW d \in Doc, NEW after, NEW left \in SUBSET Doc,
         Begin(kind, d, after, left), loaded,
         UNCHANGED <<loaded, server, task, fetch, held>>,
         used' \in [Counts -> Nat], used.text <= used'.text,
         after \in Copies(used'.text), typed' \in [Doc -> 0 .. used'.text], UndoOk',
         \A x \in Doc : typed'[x] # 0 =>
           /\ typed[x] # 0 /\ typed'[x] \notin held[x]
           /\ after[x] # Absent /\ after[x].dirty /\ after[x].text = typed'[x],
         \A x \in Doc : after[x] # Absent /\ ~after[x].dirty =>
           \/ docs[x] # Absent /\ ~docs[x].dirty /\ docs[x].text = after[x].text
           \/ kind = "operations",
         \A x \in left : after[x] # Absent /\ kind \notin {"create", "operations"},
         kind = "create" => after[d] # Absent
  PROVE  Inv'
  <1>1. /\ mutation = NoMutation /\ docs' = after
        /\ mutation' = [kind |-> kind, doc |-> d, before |-> docs, after |-> after, left |-> left,
                        answer |-> "none", snapshot |-> Absent]
    BY DEF Begin, Mutation
  <1>2. used.text \in Nat /\ used'.text \in Nat
    BY DEF Inv, UsedOk, Counts
  <1>3. Grows
    BY <1>2 DEF Grows
  <1>4. DocsOk' /\ UsedOk'
    BY <1>1 DEF DocsOk, UsedOk
  <1>5. ServerOk' /\ TaskOk' /\ FetchOk'
    BY <1>3, KeepsServer, KeepsTask, KeepsFetch DEF Inv
  <1>6. TypedOk'
    BY DEF TypedOk
  <1>7. TypedIsKept'
    BY <1>1 DEF Inv, TypedIsKept
  <1>8. mutation'.kind = kind /\ mutation' # NoMutation
    BY <1>1 DEF NoMutation, Kinds
  <1>9. CleanIsHeld'
    BY <1>1, <1>8 DEF Inv, CleanIsHeld
  <1>10. docs \in Copies(used'.text)
    BY <1>2, Widen DEF Inv, DocsOk
  <1>11. mutation' \in Mutations(used'.text)
    BY <1>1, <1>10 DEF Mutations
  <1>12. ASSUME NEW x \in Doc, docs[x] # Absent, ~docs[x].dirty
         PROVE  docs[x].text \in held'[x]
    BY <1>1, <1>12 DEF Inv, CleanIsHeld
  <1>13. ASSUME NEW x \in Doc, typed'[x] # 0
         PROVE  docs[x] # Absent /\ docs[x].dirty
    BY <1>13 DEF Inv, TypedIsKept
  <1>14. MutationOk'
    BY <1>1, <1>11, <1>12, <1>13 DEF MutationOk
  <1>15. QED
    BY <1>4, <1>5, <1>6, <1>7, <1>9, <1>14 DEF Inv

\* No text and no flag changes.
SameTexts(ds, after) ==
  \A x \in Doc : IF ds[x] = Absent THEN after[x] = Absent
                ELSE /\ after[x] # Absent
                     /\ after[x].text = ds[x].text /\ after[x].dirty = ds[x].dirty

\* A mutation that moves documents begins.
LEMMA PlacesStep ==
  ASSUME Inv, NEW kind \in Kinds \ {"create", "operations"}, NEW d \in Doc, NEW after,
         NEW left \in SUBSET Doc, Begin(kind, d, after, left), docs[d] # Absent, Using("user"),
         UNCHANGED <<loaded, server, task, fetch, undoable, typed, held>>,
         after \in Copies(used.text), SameTexts(docs, after), \A x \in left : docs[x] # Absent
  PROVE  Inv'
  <1>1. used' \in [Counts -> Nat] /\ used'.text = used.text /\ used.text \in Nat
    BY UsingEffect DEF Inv, UsedOk, Counts
  <1>2. loaded
    BY DEF Inv, DocsOk
  <1>3. UndoOk' /\ typed' \in [Doc -> 0 .. used'.text]
    BY <1>1 DEF Inv, UndoOk, TypedOk
  <1>4. \A x \in Doc : typed'[x] # 0 =>
          /\ typed[x] # 0 /\ typed'[x] \notin held[x]
          /\ after[x] # Absent /\ after[x].dirty /\ after[x].text = typed'[x]
    BY DEF Inv, TypedIsKept, TypedOk, SameTexts
  <1>5. \A x \in Doc : after[x] # Absent /\ ~after[x].dirty
          => docs[x] # Absent /\ ~docs[x].dirty /\ docs[x].text = after[x].text
    BY DEF SameTexts
  <1>6. \A x \in left : after[x] # Absent /\ kind \notin {"create", "operations"}
    BY DEF SameTexts
  <1>7. QED
    BY <1>1, <1>2, <1>3, <1>4, <1>5, <1>6, BeginStep

\* Another place, or another version, or both.
Turned(c, r) ==
  \/ r = [c EXCEPT !.place = Other(@)]
  \/ r = [c EXCEPT !.version = @ + 1]
  \/ r = [c EXCEPT !.place = Other(@), !.version = @ + 1]

\* Such a copy shows the same text.
LEMMA PlaceGood ==
  ASSUME NEW m \in Nat, NEW c \in Copy(m), NEW r, Turned(c, r)
  PROVE  r \in Copy(m) /\ r # Absent /\ r.text = c.text /\ r.dirty = c.dirty
  <1>1. Other(c.place) \in {0, 1} /\ c.version + 1 \in Nat
    BY DEF Other, Copy
  <1>2. r \in Copy(m) /\ r.text = c.text /\ r.dirty = c.dirty
    <2>1. CASE r = [c EXCEPT !.place = Other(@)]
      BY <1>1, <2>1 DEF Copy
    <2>2. CASE r = [c EXCEPT !.version = @ + 1]
      BY <1>1, <2>2 DEF Copy
    <2>3. CASE r = [c EXCEPT !.place = Other(@), !.version = @ + 1]
      BY <1>1, <2>3 DEF Copy
    <2>4. QED
      BY <2>1, <2>2, <2>3 DEF Turned
  <1>3. QED
    BY <1>2, NotAbsent

\* A function of changed copies has the same texts.
LEMMA SameTextsGood ==
  ASSUME NEW m \in Nat, NEW ds \in Copies(m), NEW after, after = [x \in Doc |-> after[x]],
         \A x \in Doc : \/ after[x] = ds[x]
                        \/ ds[x] # Absent /\ Turned(ds[x], after[x])
  PROVE  after \in Copies(m) /\ SameTexts(ds, after)
  <1>1. ASSUME NEW x \in Doc
        PROVE  /\ after[x] \in Copy(m) \cup {Absent}
               /\ IF ds[x] = Absent THEN after[x] = Absent
                  ELSE /\ after[x] # Absent
                       /\ after[x].text = ds[x].text /\ after[x].dirty = ds[x].dirty
    <2>1. ds[x] \in Copy(m) \cup {Absent}
      BY DEF Copies
    <2>2. CASE after[x] = ds[x]
      BY <2>1, <2>2
    <2>3. CASE ds[x] # Absent /\ Turned(ds[x], after[x])
      <3>1. ds[x] \in Copy(m)
        BY <2>1, <2>3
      <3>2. after[x] \in Copy(m) /\ after[x] # Absent /\ after[x].text = ds[x].text
            /\ after[x].dirty = ds[x].dirty
        BY <2>3, <3>1, PlaceGood
      <3>3. QED
        BY <2>3, <3>2
    <2>4. QED
      BY <2>2, <2>3
  <1>2. after \in Copies(m)
    BY <1>1 DEF Copies
  <1>3. QED
    BY <1>1, <1>2 DEF SameTexts

\* moveDocument.
LEMMA MoveInv ==
  ASSUME Inv, NEW d \in Doc, moveDocument(d)
  PROVE  Inv'
  <1>1. /\ docs[d] # Absent /\ Using("user")
        /\ UNCHANGED <<loaded, server, task, fetch, undoable, typed, held>>
        /\ docs \in Copies(used.text) /\ used.text \in Nat
    BY DEF moveDocument, Inv, DocsOk, UsedOk, Counts
  <1> DEFINE turned(siblings, moved) ==
        [x \in Doc |-> IF x \in {d} \cup moved
                         THEN [docs[x] EXCEPT !.place = Other(@), !.version = @ + 1]
                       ELSE IF x \in siblings THEN [docs[x] EXCEPT !.version = @ + 1] ELSE docs[x]]
  <1>2. PICK siblings \in SUBSET (Present(docs) \ {d}) : \E moved \in SUBSET siblings :
          Begin("move", d, turned(siblings, moved), {d} \cup moved)
    BY DEF moveDocument
  <1>3. PICK moved \in SUBSET siblings :
          Begin("move", d, turned(siblings, moved), {d} \cup moved)
    BY <1>2
  <1> DEFINE after == turned(siblings, moved)
  <1>4. \A x \in {d} \cup moved \cup siblings : docs[x] # Absent /\ x \in Doc
    BY <1>1 DEF Present
  <1>5. after = [x \in Doc |-> after[x]]
    OBVIOUS
  <1>6. \A x \in Doc : \/ after[x] = docs[x]
                       \/ docs[x] # Absent /\ Turned(docs[x], after[x])
    <2>1. ASSUME NEW x \in Doc, x \in {d} \cup moved
          PROVE  docs[x] # Absent /\ Turned(docs[x], after[x])
      BY <1>4, <2>1 DEF Turned
    <2>2. ASSUME NEW x \in Doc, x \notin {d} \cup moved, x \in siblings
          PROVE  docs[x] # Absent /\ Turned(docs[x], after[x])
      BY <1>4, <2>2 DEF Turned
    <2>3. ASSUME NEW x \in Doc, x \notin {d} \cup moved, x \notin siblings
          PROVE  after[x] = docs[x]
      BY <2>3
    <2> HIDE DEF after, turned
    <2>4. QED
      BY <2>1, <2>2, <2>3
  <1>7. Begin("move", d, after, {d} \cup moved)
    BY <1>3
  <1> HIDE DEF after, turned
  <1>8. after \in Copies(used.text) /\ SameTexts(docs, after)
    BY <1>1, <1>5, <1>6, SameTextsGood
  <1>9. {d} \cup moved \in SUBSET Doc
    BY <1>4
  <1>10. QED
    BY <1>1, <1>4, <1>7, <1>8, <1>9, PlacesStep DEF Kinds

\* organizeIntoChapter.
LEMMA OrganizeInv ==
  ASSUME Inv, organizeIntoChapter
  PROVE  Inv'
  <1> DEFINE after == [x \in Doc |-> IF docs[x] = Absent THEN Absent
                                    ELSE [docs[x] EXCEPT !.place = Other(@)]]
  <1>1. /\ Using("user")
        /\ UNCHANGED <<loaded, server, task, fetch, undoable, typed, held>>
        /\ docs \in Copies(used.text) /\ used.text \in Nat
    BY DEF organizeIntoChapter, Inv, DocsOk, UsedOk, Counts
  <1>2. PICK d \in Present(docs) : Begin("organize", d, after, Present(docs))
    BY DEF organizeIntoChapter
  <1>3. after = [x \in Doc |-> after[x]]
    OBVIOUS
  <1>4. \A x \in Doc : \/ after[x] = docs[x]
                       \/ docs[x] # Absent /\ Turned(docs[x], after[x])
    BY DEF Turned
  <1> HIDE DEF after
  <1>5. after \in Copies(used.text) /\ SameTexts(docs, after)
    BY <1>1, <1>3, <1>4, SameTextsGood
  <1>6. Present(docs) \in SUBSET Doc /\ \A x \in Present(docs) : docs[x] # Absent
    BY DEF Present
  <1>7. QED
    BY <1>1, <1>2, <1>5, <1>6, PlacesStep DEF Kinds

\* setDocumentCategory.
LEMMA CategoryInv ==
  ASSUME Inv, NEW d \in Doc, setDocumentCategory(d)
  PROVE  Inv'
  <1> DEFINE after == [docs EXCEPT ![d].place = Other(@), ![d].version = @ + 1]
  <1>1. /\ Using("user") /\ docs[d] # Absent /\ Begin("category", d, after, {d})
        /\ UNCHANGED <<loaded, server, task, fetch, undoable, typed, held>>
        /\ docs \in Copies(used.text) /\ used.text \in Nat
    BY DEF setDocumentCategory, Inv, DocsOk, UsedOk, Counts
  <1>2. after = [docs EXCEPT ![d] = [docs[d] EXCEPT !.place = Other(@), !.version = @ + 1]]
    BY <1>1 DEF Copies
  <1>3. after = [x \in Doc |-> after[x]]
    BY <1>1, <1>2 DEF Copies
  <1>4. Turned(docs[d], after[d]) /\ \A x \in Doc \ {d} : after[x] = docs[x]
    BY <1>1, <1>2 DEF Copies, Turned
  <1> HIDE DEF after
  <1>5. after \in Copies(used.text) /\ SameTexts(docs, after)
    BY <1>1, <1>3, <1>4, SameTextsGood
  <1>6. QED
    BY <1>1, <1>5, PlacesStep DEF Kinds

\* A folder changes.
LEMMA FolderInv ==
  ASSUME Inv, NEW d \in Doc, changeFolder(d)
  PROVE  Inv'
  <1>1. /\ Using("user") /\ docs[d] # Absent /\ Begin("folder", d, docs, {})
        /\ UNCHANGED <<loaded, server, task, fetch, undoable, typed, held>>
        /\ docs \in Copies(used.text)
    BY DEF changeFolder, Inv, DocsOk
  <1>2. SameTexts(docs, docs)
    BY DEF SameTexts
  <1>3. QED
    BY <1>1, <1>2, PlacesStep DEF Kinds

\* createDocument.
LEMMA CreateInv ==
  ASSUME Inv, NEW d \in Doc, createDocument(d)
  PROVE  Inv'
  <1> DEFINE c == [text |-> NewText, place |-> 0, version |-> 1, dirty |-> TRUE]
             after == [docs EXCEPT ![d] = c]
  <1>1. /\ loaded /\ docs[d] = Absent /\ Begin("create", d, after, {})
        /\ UNCHANGED <<loaded, server, task, fetch, undoable, typed, held>>
    BY DEF createDocument
  <1>2. /\ used' \in [Counts -> Nat] /\ used'.text = used.text + 1 /\ NewText = used'.text
        /\ used.text \in Nat /\ used'.text \in Nat /\ used.text <= used'.text
    BY WritingEffect DEF createDocument, Inv, Counts
  <1>3. docs \in Copies(used'.text) /\ c \in Copy(used'.text)
    BY <1>2, Widen DEF Inv, DocsOk, Copy
  <1>4. /\ after \in Copies(used'.text) /\ after[d] = c /\ c # Absent
        /\ \A x \in Doc \ {d} : after[x] = docs[x]
    <2> HIDE DEF c
    <2>1. QED
      BY <1>2, <1>3, ReplaceGood
  <1>5. c.dirty
    OBVIOUS
  <1> HIDE DEF c, after
  <1>6. Grows
    BY <1>1, <1>2, GrowsByOne DEF Inv
  <1>7. UndoOk'
    BY <1>1, <1>6, KeepsUndo DEF Inv
  <1>8. typed' \in [Doc -> 0 .. used'.text]
    BY <1>1, <1>2 DEF Inv, TypedOk
  <1>9. \A x \in Doc : typed'[x] # 0 =>
          /\ typed[x] # 0 /\ typed'[x] \notin held[x]
          /\ after[x] # Absent /\ after[x].dirty /\ after[x].text = typed'[x]
    BY <1>1, <1>4 DEF Inv, TypedIsKept, TypedOk
  <1>10. \A x \in Doc : after[x] # Absent /\ ~after[x].dirty
           => docs[x] # Absent /\ ~docs[x].dirty /\ docs[x].text = after[x].text
    BY <1>4, <1>5
  <1>11. QED
    BY <1>1, <1>2, <1>4, <1>7, <1>8, <1>9, <1>10, BeginStep DEF Kinds

\* deleteDocument.
LEMMA DeleteInv ==
  ASSUME Inv, NEW d \in Doc, deleteDocument(d)
  PROVE  Inv'
  <1> DEFINE after == [docs EXCEPT ![d] = Absent]
  <1>1. /\ docs[d] # Absent /\ Using("user") /\ Begin("delete", d, after, {})
        /\ typed' = [typed EXCEPT ![d] = 0]
        /\ UNCHANGED <<loaded, server, task, fetch, undoable, held>>
        /\ docs \in Copies(used.text)
    BY DEF deleteDocument, Inv, DocsOk
  <1>2. used' \in [Counts -> Nat] /\ used'.text = used.text /\ used.text \in Nat
    BY <1>1, UsingEffect DEF Inv, UsedOk, Counts
  <1>3. /\ after \in Copies(used'.text) /\ after[d] = Absent
        /\ \A x \in Doc \ {d} : after[x] = docs[x]
    BY <1>1, <1>2 DEF Copies
  <1> HIDE DEF after
  <1>4. loaded
    BY <1>1 DEF Inv, DocsOk
  <1>5. UndoOk'
    BY <1>1, <1>2, GrowsQuietly, KeepsUndo DEF Inv
  <1>6. /\ typed' \in [Doc -> 0 .. used'.text] /\ typed'[d] = 0
        /\ \A x \in Doc \ {d} : typed'[x] = typed[x]
    <2>1. typed \in [Doc -> 0 .. used'.text] /\ 0 \in 0 .. used'.text
      BY <1>2 DEF Inv, TypedOk
    <2>2. QED
      BY <1>1, <2>1
  <1>7. \A x \in Doc : typed'[x] # 0 =>
          /\ typed[x] # 0 /\ typed'[x] \notin held[x]
          /\ after[x] # Absent /\ after[x].dirty /\ after[x].text = typed'[x]
    BY <1>3, <1>6 DEF Inv, TypedIsKept, TypedOk
  <1>8. \A x \in Doc : after[x] # Absent /\ ~after[x].dirty
          => docs[x] # Absent /\ ~docs[x].dirty /\ docs[x].text = after[x].text
    BY <1>3
  <1>9. QED
    BY <1>1, <1>2, <1>3, <1>4, <1>5, <1>6, <1>7, <1>8, BeginStep DEF Kinds

\* applyOperations.
LEMMA OperationsInv ==
  ASSUME Inv, NEW d \in Doc, applyOperations(d)
  PROVE  Inv'
  <1> DEFINE c == [docs[d] EXCEPT !.text = NewText, !.version = docs[d].version + 1]
             after == [docs EXCEPT ![d].text = NewText, ![d].version = @ + 1]
  <1>1. /\ docs[d] # Absent /\ Begin("operations", d, after, {})
        /\ undoable' = [undoable EXCEPT ![d] = [text |-> docs[d].text]]
        /\ typed' = [typed EXCEPT ![d] = IF typed[d] # 0 THEN NewText ELSE 0]
        /\ UNCHANGED <<loaded, server, task, fetch, held>>
    BY DEF applyOperations
  <1>2. /\ used' \in [Counts -> Nat] /\ used'.text = used.text + 1 /\ NewText = used'.text
        /\ used.text \in Nat /\ used'.text \in Nat /\ used.text <= used'.text
    BY WritingEffect DEF applyOperations, Inv, Counts
  <1>3. docs \in Copies(used'.text) /\ docs[d] \in Copy(used'.text)
    BY <1>1, <1>2, Widen DEF Inv, DocsOk, Copies
  <1>4. c \in Copy(used'.text) /\ c.text = NewText /\ c.dirty = docs[d].dirty
    <2>1. NewText \in 0 .. used'.text /\ docs[d].version + 1 \in Nat
      BY <1>2, <1>3 DEF Copy
    <2>2. QED
      BY <1>3, <2>1 DEF Copy
  <1>5. after = [docs EXCEPT ![d] = c]
    BY <1>3 DEF Copies
  <1> HIDE DEF c, after
  <1>6. /\ after \in Copies(used'.text) /\ after[d] = c /\ c # Absent
        /\ \A x \in Doc \ {d} : after[x] = docs[x]
    <2>1. /\ [docs EXCEPT ![d] = c] \in Copies(used'.text) /\ [docs EXCEPT ![d] = c][d] = c
          /\ c # Absent /\ \A x \in Doc \ {d} : [docs EXCEPT ![d] = c][x] = docs[x]
      BY <1>2, <1>3, <1>4, ReplaceGood
    <2>2. QED
      BY <1>5, <2>1
  <1>7. loaded
    BY <1>1 DEF Inv, DocsOk
  <1>8. UndoOk'
    <2>1. undoable \in [Doc -> [text : 0 .. used'.text] \cup {Absent}]
      BY <1>1, <1>2 DEF Inv, UndoOk
    <2>2. [text |-> docs[d].text] \in [text : 0 .. used'.text]
      BY <1>3 DEF Copy
    <2>3. QED
      BY <1>1, <2>1, <2>2 DEF UndoOk
  <1>9. /\ typed' \in [Doc -> 0 .. used'.text]
        /\ typed'[d] = IF typed[d] # 0 THEN NewText ELSE 0
        /\ \A x \in Doc \ {d} : typed'[x] = typed[x]
    <2>1. typed \in [Doc -> 0 .. used'.text] /\ 0 \in 0 .. used'.text /\ NewText \in 0 .. used'.text
      BY <1>2 DEF Inv, TypedOk
    <2>2. QED
      BY <1>1, <2>1
  <1>10. NewText \notin held[d]
    BY <1>2 DEF Inv, ServerOk
  <1>11. \A x \in Doc : typed'[x] # 0 =>
           /\ typed[x] # 0 /\ typed'[x] \notin held[x]
           /\ after[x] # Absent /\ after[x].dirty /\ after[x].text = typed'[x]
    BY <1>4, <1>6, <1>9, <1>10 DEF Inv, TypedIsKept, TypedOk
  <1>12. QED
    BY <1>1, <1>2, <1>6, <1>7, <1>8, <1>9, <1>11, BeginStep DEF Kinds

\* undoLastOperation.
LEMMA UndoInv ==
  ASSUME Inv, NEW d \in Doc, undoLastOperation(d)
  PROVE  Inv'
  <1> DEFINE c == [docs[d] EXCEPT !.text = undoable[d].text, !.version = docs[d].version + 1]
             after == [docs EXCEPT ![d].text = undoable[d].text, ![d].version = @ + 1]
  <1>1. /\ docs[d] # Absent /\ undoable[d] # Absent /\ Using("user")
        /\ Begin("operations", d, after, {})
        /\ undoable' = [undoable EXCEPT ![d] = Absent]
        /\ typed' = [typed EXCEPT ![d] = 0]
        /\ UNCHANGED <<loaded, server, task, fetch, held>>
        /\ docs \in Copies(used.text) /\ docs[d] \in Copy(used.text)
        /\ undoable[d].text \in 0 .. used.text
    BY DEF undoLastOperation, Inv, DocsOk, Copies, UndoOk
  <1>2. used' \in [Counts -> Nat] /\ used'.text = used.text /\ used.text \in Nat
    BY <1>1, UsingEffect DEF Inv, UsedOk, Counts
  <1>3. c \in Copy(used.text)
    <2>1. docs[d].version + 1 \in Nat
      BY <1>1 DEF Copy
    <2>2. QED
      BY <1>1, <2>1 DEF Copy
  <1>4. after = [docs EXCEPT ![d] = c]
    BY <1>1 DEF Copies
  <1> HIDE DEF c, after
  <1>5. /\ after \in Copies(used.text) /\ after[d] = c /\ c # Absent
        /\ \A x \in Doc \ {d} : after[x] = docs[x]
    <2>1. /\ [docs EXCEPT ![d] = c] \in Copies(used.text) /\ [docs EXCEPT ![d] = c][d] = c
          /\ c # Absent /\ \A x \in Doc \ {d} : [docs EXCEPT ![d] = c][x] = docs[x]
      BY <1>1, <1>2, <1>3, ReplaceGood
    <2>2. QED
      BY <1>4, <2>1
  <1>6. loaded
    BY <1>1 DEF Inv, DocsOk
  <1>7. UndoOk'
    BY <1>1, <1>2 DEF Inv, UndoOk
  <1>8. /\ typed' \in [Doc -> 0 .. used'.text] /\ typed'[d] = 0
        /\ \A x \in Doc \ {d} : typed'[x] = typed[x]
    <2>1. typed \in [Doc -> 0 .. used'.text] /\ 0 \in 0 .. used'.text
      BY <1>2 DEF Inv, TypedOk
    <2>2. QED
      BY <1>1, <2>1
  <1>9. \A x \in Doc : typed'[x] # 0 =>
          /\ typed[x] # 0 /\ typed'[x] \notin held[x]
          /\ after[x] # Absent /\ after[x].dirty /\ after[x].text = typed'[x]
    BY <1>5, <1>8 DEF Inv, TypedIsKept, TypedOk
  <1>10. QED
    BY <1>1, <1>2, <1>5, <1>6, <1>7, <1>8, <1>9, BeginStep DEF Kinds

-----------------------------------------------------------------------------
(* Mutations are answered *)

\* The server takes up a part of the mutation, or the last of it.
LEMMA MutationServerStep ==
  ASSUME Inv, Waiting, NEW next \in Rows(used.text), ServerHolds(next),
         UNCHANGED <<loaded, docs, task, fetch, undoable, used>>,
         \/ \E left \in SUBSET mutation.left : mutation' = [mutation EXCEPT !.left = left]
         \/ /\ mutation' = Answered(next)
            /\ mutation.kind = "create" =>
                 /\ next[mutation.doc] # Absent
                 /\ next[mutation.doc].text = mutation.after[mutation.doc].text
            /\ mutation.kind = "operations" => \A x \in Doc :
                 mutation.after[x] # Absent =>
                   next[x] # Absent /\ next[x].text = mutation.after[x].text
  PROVE  Inv'
  <1>1. /\ mutation # NoMutation /\ mutation.answer = "none"
        /\ mutation \in Mutations(used.text)
        /\ used \in [Counts -> Nat] /\ used.text \in Nat
    BY DEF Waiting, Inv, MutationOk, UsedOk, Counts
  <1>2. /\ Grows /\ Among(next, held')
        /\ \A d \in Doc : typed'[d] = 0 \/ typed'[d] = typed[d]
    BY <1>1, ServerHoldsEffect DEF Inv
  <1>3. TaskOk'
    BY <1>2, KeepsTask DEF Inv
  <1>4. CASE \E left \in SUBSET mutation.left : mutation' = [mutation EXCEPT !.left = left]
    <2>1. /\ mutation' \in Mutations(used.text)
          /\ mutation'.kind = mutation.kind /\ mutation'.doc = mutation.doc
          /\ mutation'.before = mutation.before /\ mutation'.after = mutation.after
          /\ mutation'.left \subseteq mutation.left /\ mutation'.answer = "none"
      BY <1>1, <1>4 DEF Mutations
    <2>2. MutationOk'
      BY <1>1, <1>2, <2>1, MutationGoesOn DEF Inv
    <2>3. mutation' # NoMutation
      BY <2>1 DEF NoMutation, Mutations, Kinds
    <2>4. QED
      BY <1>1, <1>3, <2>1, <2>2, <2>3, ServerStep
  <1>5. CASE /\ mutation' = Answered(next)
             /\ mutation.kind = "create" =>
                  /\ next[mutation.doc] # Absent
                  /\ next[mutation.doc].text = mutation.after[mutation.doc].text
             /\ mutation.kind = "operations" => \A x \in Doc :
                  mutation.after[x] # Absent =>
                    next[x] # Absent /\ next[x].text = mutation.after[x].text
    <2>1. /\ mutation' \in Mutations(used.text)
          /\ mutation'.kind = mutation.kind /\ mutation'.doc = mutation.doc
          /\ mutation'.before = mutation.before /\ mutation'.after = mutation.after
          /\ mutation'.left = mutation.left /\ mutation'.snapshot = next
      BY <1>1, <1>5 DEF Answered, Mutations
    <2>2. mutation.doc \in Doc
      BY <1>1 DEF Mutations
    <2>3. mutation.kind = "create" => mutation.after[mutation.doc].text \in held'[mutation.doc]
      BY <1>2, <1>5, <2>2 DEF Among
    <2>4. mutation.kind = "operations" => Among(mutation.after, held')
      BY <1>2, <1>5 DEF Among
    <2>5. MutationOk'
      BY <1>1, <1>2, <2>1, <2>3, <2>4, MutationGoesOn DEF Inv
    <2>6. mutation' # NoMutation
      BY <2>1 DEF NoMutation, Mutations, Kinds
    <2>7. QED
      BY <1>1, <1>3, <2>1, <2>5, <2>6, ServerStep
  <1>6. QED
    BY <1>4, <1>5

\* The mutation arrives.
LEMMA MutationArrivesInv ==
  ASSUME Inv, MutationArrives
  PROVE  Inv'
  <1> DEFINE d == mutation.doc
  <1>1. /\ Waiting /\ UNCHANGED <<loaded, docs, task, fetch, undoable, used>>
        /\ mutation # NoMutation /\ mutation.answer = "none"
        /\ mutation \in Mutations(used.text) /\ d \in Doc
        /\ mutation.after \in Copies(used.text) /\ mutation.left \in SUBSET Doc
        /\ server \in Rows(used.text)
        /\ used \in [Counts -> Nat] /\ used.text \in Nat
    BY DEF MutationArrives, Waiting, Inv, MutationOk, Mutations, ServerOk, UsedOk, Counts
  <1>2. ASSUME NEW x \in mutation.left, server[x] # Absent,
               ServerHolds([server EXCEPT ![x].place = mutation.after[x].place,
                                          ![x].version = @ + 1]),
               mutation' = IF mutation.left \ {x} = {}
                             THEN Answered([server EXCEPT ![x].place = mutation.after[x].place,
                                                          ![x].version = @ + 1])
                             ELSE [mutation EXCEPT !.left = mutation.left \ {x}]
        PROVE  Inv'
    <2> DEFINE row == [server[x] EXCEPT !.place = mutation.after[x].place,
                                        !.version = server[x].version + 1]
               next == [server EXCEPT ![x].place = mutation.after[x].place, ![x].version = @ + 1]
    <2>1. mutation.after[x].place \in {0, 1}
      <3>1. mutation.after[x] # Absent
        BY <1>1, <1>2 DEF Inv, MutationOk
      <3>2. QED
        BY <1>1, <1>2, <3>1 DEF Copies, Copy
    <2>2. row \in Row(used.text)
      BY <1>1, <1>2, <2>1 DEF Rows, Row
    <2>3. next = [server EXCEPT ![x] = row]
      BY <1>1, <1>2 DEF Rows
    <2>4. next \in Rows(used.text)
      <3> HIDE DEF row, next
      <3>1. QED
        BY <1>1, <1>2, <2>2, <2>3 DEF Rows
    <2>5. mutation.kind # "create" /\ mutation.kind # "operations"
      BY <1>1, <1>2 DEF Inv, MutationOk
    <2> HIDE DEF next
    <2>6. QED
      BY <1>1, <1>2, <2>4, <2>5, MutationServerStep DEF next
  <1>3. CASE /\ mutation.kind = "folder" /\ mutation' = Answered(server)
             /\ UNCHANGED <<server, typed, held>>
    <2>1. Grows
      BY <1>1, <1>3, GrowsQuietly DEF Inv
    <2>2. /\ mutation' \in Mutations(used.text)
          /\ mutation'.kind = mutation.kind /\ mutation'.doc = mutation.doc
          /\ mutation'.before = mutation.before /\ mutation'.after = mutation.after
          /\ mutation'.left = mutation.left /\ mutation'.snapshot = server
      BY <1>1, <1>3 DEF Answered, Mutations
    <2>3. Among(server, held')
      BY <1>3 DEF Inv, ServerOk
    <2>4. MutationOk'
      BY <1>1, <1>3, <2>1, <2>2, <2>3, MutationGoesOn DEF Inv
    <2>5. DocsOk' /\ TaskOk' /\ FetchOk' /\ UndoOk'
      BY <1>1, <2>1, KeepsDocs, KeepsTask, KeepsFetch, KeepsUndo DEF Inv
    <2>6. TypedIsKept'
      BY <1>1, <1>3, StaysKept DEF Inv
    <2>7. mutation' # NoMutation
      BY <2>2 DEF NoMutation, Mutations, Kinds
    <2>8. CleanIsHeld'
      BY <1>1, <2>1, <2>2, <2>7, StaysClean DEF Inv
    <2>9. typed' \in [Doc -> Nat]
      BY <1>1, <1>3 DEF Inv, TypedOk
    <2>10. QED
      BY <1>1, <1>3, <2>4, <2>5, <2>6, <2>8, <2>9, QuietStep DEF Inv, UsedOk
  <1>4. ASSUME NEW next, ServerHolds(next), mutation' = Answered(next),
               \/ /\ mutation.kind = "create"
                  /\ next = [server EXCEPT ![d] =
                              [text |-> mutation.after[d].text, place |-> 0, version |-> 1]]
               \/ /\ mutation.kind = "delete"
                  /\ next = [server EXCEPT ![d] = Absent]
               \/ /\ mutation.kind = "operations"
                  /\ next = [x \in Doc |-> Remote(mutation.after[x])]
        PROVE  Inv'
    <2>1. CASE /\ mutation.kind = "create"
               /\ next = [server EXCEPT ![d] =
                           [text |-> mutation.after[d].text, place |-> 0, version |-> 1]]
      <3> DEFINE row == [text |-> mutation.after[d].text, place |-> 0, version |-> 1]
      <3>1. mutation.after[d] \in Copy(used.text)
        BY <1>1, <2>1 DEF Inv, MutationOk, Copies
      <3>2. row \in Row(used.text) /\ row.text = mutation.after[d].text
        BY <3>1 DEF Row, Copy
      <3>3. next = [server EXCEPT ![d] = row]
        BY <2>1
      <3> HIDE DEF row
      <3>4. next \in Rows(used.text) /\ next[d] = row /\ row # Absent
        BY <1>1, <3>2, <3>3, NotAbsent DEF Rows
      <3>5. QED
        BY <1>1, <1>4, <2>1, <3>2, <3>4, MutationServerStep
    <2>2. CASE mutation.kind = "delete" /\ next = [server EXCEPT ![d] = Absent]
      <3>1. next \in Rows(used.text)
        BY <1>1, <2>2 DEF Rows
      <3>2. QED
        BY <1>1, <1>4, <2>2, <3>1, MutationServerStep
    <2>3. CASE mutation.kind = "operations" /\ next = [x \in Doc |-> Remote(mutation.after[x])]
      <3>1. ASSUME NEW x \in Doc
            PROVE  /\ Remote(mutation.after[x]) \in Row(used.text) \cup {Absent}
                   /\ mutation.after[x] # Absent =>
                        /\ Remote(mutation.after[x]) # Absent
                        /\ Remote(mutation.after[x]).text = mutation.after[x].text
        <4>1. mutation.after[x] \in Copy(used.text) \cup {Absent}
          BY <1>1 DEF Copies
        <4>2. QED
          BY <1>1, <4>1, LocalRemote
      <3>2. next \in Rows(used.text)
        BY <2>3, <3>1 DEF Rows
      <3>3. \A x \in Doc : next[x] = Remote(mutation.after[x])
        BY <2>3
      <3>4. \A x \in Doc : mutation.after[x] # Absent =>
              next[x] # Absent /\ next[x].text = mutation.after[x].text
        BY <3>1, <3>3
      <3>5. QED
        BY <1>1, <1>4, <2>3, <3>2, <3>4, MutationServerStep
    <2>4. QED
      BY <1>4, <2>1, <2>2, <2>3
  <1>5. QED
    BY <1>2, <1>3, <1>4 DEF MutationArrives

\* A request of the mutation fails.
LEMMA MutationFailsInv ==
  ASSUME Inv, MutationFails
  PROVE  Inv'
  <1>1. /\ UNCHANGED <<loaded, docs, server, task, fetch, undoable, typed, held>>
        /\ mutation' = [mutation EXCEPT !.answer = "error"]
        /\ mutation # NoMutation /\ mutation \in Mutations(used.text)
        /\ used.text \in Nat /\ used \in [Counts -> Nat]
    BY DEF MutationFails, Waiting, Inv, MutationOk, UsedOk, Counts
  <1>2. used' \in [Counts -> Nat] /\ used'.text = used.text
    BY <1>1, UsingEffect DEF MutationFails, Inv, Counts
  <1>3. Grows
    BY <1>1, <1>2, GrowsQuietly DEF Inv
  <1>4. /\ mutation' \in Mutations(used.text)
        /\ mutation'.kind = mutation.kind /\ mutation'.doc = mutation.doc
        /\ mutation'.before = mutation.before /\ mutation'.after = mutation.after
        /\ mutation'.left = mutation.left /\ mutation'.answer = "error"
    BY <1>1 DEF Mutations
  <1>5. MutationOk'
    BY <1>1, <1>2, <1>3, <1>4, MutationGoesOn DEF Inv
  <1>6. DocsOk' /\ TaskOk' /\ FetchOk' /\ UndoOk'
    BY <1>1, <1>3, KeepsDocs, KeepsTask, KeepsFetch, KeepsUndo DEF Inv
  <1>7. TypedIsKept'
    BY <1>1, StaysKept DEF Inv
  <1>8. mutation' # NoMutation
    BY <1>4 DEF NoMutation, Mutations, Kinds
  <1>9. CleanIsHeld'
    BY <1>1, <1>3, <1>4, <1>8, StaysClean DEF Inv
  <1>10. typed' \in [Doc -> Nat]
    BY <1>1 DEF Inv, TypedOk
  <1>11. QED
    BY <1>1, <1>2, <1>5, <1>6, <1>7, <1>9, <1>10, QuietStep DEF Inv, UsedOk

\* The answer of the mutation fills the store.
LEMMA MutationAnsweredInv ==
  ASSUME Inv, MutationAnswered
  PROVE  Inv'
  <1> DEFINE d == mutation.doc
             merged == mergeWorkspaceDocuments(docs, mutation.snapshot)
             created == acknowledgeDocumentSave(merged, d, mutation.after[d], 1)
  <1>1. /\ mutation # NoMutation /\ mutation.answer = "saved" /\ mutation' = NoMutation
        /\ UNCHANGED <<loaded, server, fetch, undoable, used, typed, held>>
        /\ d \in Doc /\ mutation.snapshot \in Rows(used.text) /\ Among(mutation.snapshot, held)
        /\ docs \in Copies(used.text)
        /\ used \in [Counts -> Nat] /\ used.text \in Nat
    BY DEF MutationAnswered, Inv, MutationOk, Mutations, DocsOk, UsedOk, Counts
  <1>2. Grows
    BY <1>1, GrowsQuietly DEF Inv
  <1>3. ASSUME NEW x \in Doc, docs[x] # Absent, ~docs[x].dirty
        PROVE  docs[x].text \in held[x]
    <2>1. mutation.kind = "operations" => Among(mutation.after, held)
      BY <1>1 DEF Inv, MutationOk
    <2>2. QED
      BY <1>3, <2>1 DEF Inv, CleanIsHeld, Among
  <1>4. ASSUME NEW x \in Doc, typed[x] # 0
        PROVE  /\ docs[x] # Absent /\ docs[x].text = typed[x] /\ docs[x].dirty
               /\ task[x].at # "idle" \/ task[x].timer
               /\ typed[x] \notin held[x] /\ loaded
    BY <1>4 DEF Inv, TypedIsKept, TypedOk, DocsOk
  <1>5. MutationOk' /\ FetchOk' /\ UndoOk' /\ typed' \in [Doc -> Nat]
    <2>1. MutationOk'
      BY <1>1 DEF MutationOk, NoMutation
    <2>2. typed' \in [Doc -> Nat]
      BY <1>1 DEF Inv, TypedOk
    <2>3. QED
      BY <1>1, <1>2, <2>1, <2>2, KeepsFetch, KeepsUndo DEF Inv
  <1>6. CASE UNCHANGED <<docs, task>>
    <2>1. DocsOk' /\ TaskOk' /\ TypedIsKept'
      BY <1>1, <1>2, <1>6, KeepsDocs, KeepsTask, StaysKept DEF Inv
    <2>2. CleanIsHeld'
      BY <1>1, <1>3, <1>6 DEF CleanIsHeld
    <2>3. QED
      BY <1>1, <1>5, <2>1, <2>2, QuietStep DEF Inv, UsedOk
  <1>7. /\ merged \in Copies(used.text)
        /\ Merged(docs, merged, mutation.snapshot)
    BY <1>1, MergeGood
  <1>8. CASE loaded /\ docs' = merged /\ UNCHANGED task
    <2> HIDE DEF merged
    <2>1. DocsOk'
      BY <1>1, <1>7, <1>8 DEF DocsOk
    <2>2. TaskOk'
      BY <1>2, <1>8, KeepsTask DEF Inv
    <2>3. TypedIsKept'
      BY <1>1, <1>4, <1>7, <1>8 DEF TypedIsKept, Merged
    <2>4. CleanIsHeld'
      BY <1>1, <1>3, <1>7, <1>8 DEF CleanIsHeld, Merged, Among
    <2>5. QED
      BY <1>1, <1>5, <2>1, <2>2, <2>3, <2>4, QuietStep DEF Inv, UsedOk
  <1>9. CASE /\ loaded /\ mutation.kind = "create" /\ docs' = created
             /\ task' = IF created[d] # Absent /\ created[d].dirty
                          THEN [task EXCEPT ![d] = scheduleDocumentSave(task[d], d, created)]
                          ELSE task
    <2> DEFINE sent == mutation.after[d]
    <2>1. sent.text \in held[d]
      BY <1>1, <1>9 DEF Inv, MutationOk
    <2> HIDE DEF sent, merged
    <2>2. /\ created \in Copies(used.text) /\ \A x \in Doc \ {d} : created[x] = merged[x]
          /\ merged[d] = Absent => created[d] = Absent
          /\ merged[d] # Absent => /\ created[d] # Absent /\ created[d].text = merged[d].text
                                   /\ created[d].text # sent.text => created[d].dirty
                                   /\ ~created[d].dirty => created[d].text = sent.text
      <3>1. created = acknowledgeDocumentSave(merged, d, sent, 1)
        BY DEF sent
      <3>2. QED
        BY <1>1, <1>7, <1>9, <3>1, AcknowledgeGood
    <2> HIDE DEF created, d
    <2>3. DocsOk'
      BY <1>1, <1>9, <2>2 DEF DocsOk
    <2>4. /\ TaskOk' /\ \A x \in Doc \ {d} : task'[x] = task[x]
          /\ created[d] # Absent /\ created[d].dirty => task'[d].at # "idle"
      <3>1. CASE created[d] # Absent /\ created[d].dirty
        <4>1. TaskGood(task[d], held[d], used.text)
          BY <1>1 DEF Inv, TaskOk
        <4>2. /\ TaskGood(scheduleDocumentSave(task[d], d, created), held[d], used.text)
              /\ scheduleDocumentSave(task[d], d, created).at # "idle"
          BY <1>1, <2>2, <3>1, <4>1, ScheduleGood
        <4>3. QED
          BY <1>1, <1>2, <1>9, <3>1, <4>2, TaskChanges DEF Inv
      <3>2. CASE ~(created[d] # Absent /\ created[d].dirty)
        BY <1>2, <1>9, <3>2, KeepsTask DEF Inv
      <3>3. QED
        BY <3>1, <3>2
    <2>5. ASSUME NEW x \in Doc, typed[x] # 0
          PROVE  /\ created[x] # Absent /\ created[x].text = typed[x] /\ created[x].dirty
                 /\ task'[x].at # "idle" \/ task'[x].timer
      <3>1. merged[x] # Absent /\ merged[x].text = typed[x] /\ merged[x].dirty
        BY <1>4, <1>7, <2>5 DEF Merged
      <3>2. CASE x = d
        BY <1>4, <2>1, <2>2, <2>4, <2>5, <3>1, <3>2
      <3>3. CASE x # d
        BY <1>4, <2>2, <2>4, <2>5, <3>1, <3>3
      <3>4. QED
        BY <3>2, <3>3
    <2>6. TypedIsKept'
      BY <1>1, <1>9, <2>5 DEF TypedIsKept
    <2>7. ASSUME NEW x \in Doc, created[x] # Absent, ~created[x].dirty
          PROVE  created[x].text \in held[x]
      <3>1. CASE x = d
        BY <2>1, <2>2, <2>7, <3>1
      <3>2. CASE x # d
        BY <1>1, <1>3, <1>7, <2>2, <2>7, <3>2 DEF Merged, Among
      <3>3. QED
        BY <3>1, <3>2
    <2>8. CleanIsHeld'
      BY <1>1, <1>9, <2>7 DEF CleanIsHeld
    <2>9. QED
      BY <1>1, <1>5, <2>3, <2>4, <2>6, <2>8, QuietStep DEF Inv, UsedOk
  <1>10. QED
    BY <1>6, <1>8, <1>9 DEF MutationAnswered, isCurrentWorkspaceMutationSnapshot

\* The rollback of a mutation.  What was typed before it began and never
\* held is dirty in the snapshot.
LEMMA RollbackInv ==
  ASSUME Inv, rollbackWorkspaceState
  PROVE  Inv'
  <1>1. /\ mutation # NoMutation /\ mutation' = NoMutation
        /\ UNCHANGED <<loaded, server, task, fetch, undoable, used, held>>
        /\ mutation.before \in Copies(used.text)
        /\ used \in [Counts -> Nat] /\ used.text \in Nat
    BY DEF rollbackWorkspaceState, Inv, MutationOk, Mutations, UsedOk, Counts
  <1>2. Grows
    BY <1>1, GrowsQuietly DEF Inv
  <1>3. ServerOk' /\ TaskOk' /\ FetchOk' /\ UndoOk' /\ UsedOk'
    BY <1>1, <1>2, KeepsServer, KeepsTask, KeepsFetch, KeepsUndo DEF Inv, UsedOk
  <1>4. MutationOk'
    BY <1>1 DEF MutationOk, NoMutation
  <1>5. CASE isCurrentWorkspaceMutationSnapshot
    <2>1. /\ loaded /\ docs' = mutation.before
          /\ typed' = [d \in Doc |->
               IF typed[d] = 0 \/ TypedSince(d) \/ mutation.before[d].text \in held[d] THEN 0
               ELSE mutation.before[d].text]
      BY <1>5 DEF rollbackWorkspaceState, isCurrentWorkspaceMutationSnapshot
    <2>2. ASSUME NEW d \in Doc
          PROVE  \/ typed'[d] = 0
                 \/ /\ typed[d] # 0 /\ typed'[d] = mutation.before[d].text
                    /\ mutation.before[d].text \notin held[d]
                    /\ mutation.before[d] # Absent /\ mutation.before[d].dirty
                    /\ mutation.before[d].text \in 0 .. used.text
      <3>1. CASE typed[d] = 0 \/ TypedSince(d) \/ mutation.before[d].text \in held[d]
        BY <2>1, <3>1
      <3>2. CASE ~(typed[d] = 0 \/ TypedSince(d) \/ mutation.before[d].text \in held[d])
        <4>1. typed'[d] = mutation.before[d].text
          BY <2>1, <3>2
        <4>2. mutation.before[d] # Absent /\ mutation.before[d].dirty
          BY <1>1, <3>2 DEF Inv, MutationOk
        <4>3. mutation.before[d].text \in 0 .. used.text
          BY <1>1, <4>2 DEF Copies, Copy
        <4>4. QED
          BY <3>2, <4>1, <4>2, <4>3
      <3>3. QED
        BY <3>1, <3>2
    <2>3. typed' \in [Doc -> 0 .. used'.text]
      <3>1. \A d \in Doc : typed'[d] \in 0 .. used'.text
        BY <1>1, <2>2
      <3>2. DOMAIN typed' = Doc /\ typed' = [d \in Doc |-> typed'[d]]
        BY <2>1
      <3>3. QED
        BY <3>1, <3>2
    <2>4. TypedOk'
      BY <1>1, <2>2, <2>3 DEF TypedOk
    <2>5. DocsOk'
      BY <1>1, <2>1 DEF DocsOk
    <2>6. TypedIsKept'
      BY <1>1, <2>1, <2>2 DEF Inv, TypedIsKept
    <2>7. CleanIsHeld'
      BY <1>1, <2>1 DEF Inv, MutationOk, CleanIsHeld
    <2>8. QED
      BY <1>3, <1>4, <2>4, <2>5, <2>6, <2>7 DEF Inv
  <1>6. CASE ~isCurrentWorkspaceMutationSnapshot
    <2>1. UNCHANGED <<docs, typed>>
      BY <1>6 DEF rollbackWorkspaceState
    <2>2. DocsOk' /\ TypedOk' /\ TypedIsKept'
      BY <1>1, <1>2, <2>1, KeepsDocs, StaysKept DEF Inv, TypedOk
    <2>3. CleanIsHeld'
      BY <1>1, <1>6, <2>1 DEF Inv, CleanIsHeld, DocsOk, isCurrentWorkspaceMutationSnapshot
    <2>4. QED
      BY <1>3, <1>4, <2>2, <2>3 DEF Inv
  <1>7. QED
    BY <1>5, <1>6

-----------------------------------------------------------------------------
(* The theorems *)

\* A fresh store is what the server has.
LEMMA InitInv ==
  ASSUME Init
  PROVE  Inv
  <1>1. used = [what \in Counts |-> 0] /\ used.text = 0
    BY DEF Init, Bounds, Counts
  <1>2. /\ server \in Rows(0)
        /\ \A d \in Doc : server[d] # Absent => server[d].text = 0 /\ held[d] = {0}
        /\ held \in [Doc -> SUBSET (0 .. 0)]
    <2> DEFINE row == [text |-> 0, place |-> 0, version |-> 1]
    <2>1. row \in Row(0) /\ row.text = 0
      BY DEF Row
    <2>2. server = [d \in Doc |-> IF d \in Initial THEN row ELSE Absent]
      BY DEF Init
    <2> HIDE DEF row
    <2>3. server \in Rows(0)
      BY <2>1, <2>2 DEF Rows
    <2>4. \A d \in Doc : server[d] # Absent => d \in Initial /\ server[d].text = 0
      BY <2>1, <2>2
    <2>5. held \in [Doc -> SUBSET (0 .. 0)] /\ \A d \in Initial : held[d] = {0}
      BY DocumentAssumption DEF Init
    <2>6. QED
      BY <2>3, <2>4, <2>5
  <1>3. ASSUME NEW d \in Doc
        PROVE  /\ docs[d] \in Copy(0) \cup {Absent}
               /\ docs[d] # Absent => ~docs[d].dirty /\ docs[d].text = server[d].text
                                      /\ server[d] # Absent
    <2>1. docs[d] = Local(server[d]) /\ server[d] \in Row(0) \cup {Absent}
      BY <1>2 DEF Init, Rows
    <2>2. QED
      BY <2>1, LocalRemote
  <1>4. DocsOk
    <2>1. docs \in Copies(0)
      BY <1>3 DEF Init, Copies
    <2>2. QED
      BY <1>1, <2>1 DEF Init, DocsOk
  <1>5. ServerOk
    BY <1>1, <1>2 DEF ServerOk, Among
  <1>6. TaskOk
    BY <1>1, IdleGood DEF Init, TaskOk
  <1>7. UsedOk /\ FetchOk /\ MutationOk
    BY <1>1 DEF Init, UsedOk, FetchOk, MutationOk
  <1>8. UndoOk /\ TypedOk /\ TypedIsKept
    BY <1>1 DEF Init, UndoOk, TypedOk, TypedIsKept
  <1>9. CleanIsHeld
    BY <1>2, <1>3 DEF CleanIsHeld
  <1>10. QED
    BY <1>4, <1>5, <1>6, <1>7, <1>8, <1>9 DEF Inv

\* Every step keeps the invariant.
LEMMA NextInv ==
  ASSUME Inv, [Next]_vars
  PROVE  Inv'
  <1>1. ASSUME NEW d \in Doc, SaveLoop(d) PROVE Inv'
    BY <1>1, PatchArrivesInv, PatchAnsweredInv, RebaseAnsweredInv, SaveTimerInv DEF SaveLoop
  <1>2. ASSUME NEW d \in Doc, User(d) PROVE Inv'
    BY <1>2, TypesInv, MoveInv, CategoryInv, FolderInv, CreateInv, DeleteInv, OperationsInv,
       UndoInv DEF User
  <1>3. ASSUME NEW d \in Doc,
               PatchFails(d) \/ ServerChanges(d) \/ applyStreamingDocumentEdit(d) \/ applyRemoval(d)
        PROVE  Inv'
    BY <1>3, PatchFailsInv, ServerChangesInv, StreamInv, RemovalInv
  <1>4. CASE organizeIntoChapter \/ prepareWorkspaceLoad
    BY <1>4, OrganizeInv, PrepareInv
  <1>5. CASE AskServer \/ FetchArrives \/ hydrateWorkspaceState \/ applyWorkspaceDelta
    BY <1>5, AskServerInv, FetchArrivesInv, HydrateInv, DeltaInv
  <1>6. CASE MutationArrives \/ MutationFails \/ MutationAnswered \/ rollbackWorkspaceState
    BY <1>6, MutationArrivesInv, MutationFailsInv, MutationAnsweredInv, RollbackInv
  <1>7. CASE UNCHANGED vars
    <2>1. UNCHANGED <<loaded, docs, server, task, mutation, fetch, undoable, used, typed, held>>
      BY <1>7 DEF vars
    <2>2. Grows
      BY <2>1, GrowsQuietly DEF Inv
    <2>3. DocsOk' /\ TaskOk' /\ FetchOk' /\ UndoOk' /\ MutationOk'
      BY <2>1, <2>2, KeepsDocs, KeepsTask, KeepsFetch, KeepsUndo, KeepsMutation DEF Inv
    <2>4. TypedIsKept' /\ CleanIsHeld'
      BY <2>1, <2>2, StaysKept, StaysClean DEF Inv
    <2>5. typed' \in [Doc -> Nat]
      BY <2>1 DEF Inv, TypedOk
    <2>6. QED
      BY <2>1, <2>3, <2>4, <2>5, QuietStep DEF Inv, UsedOk
  <1>8. QED
    BY <1>1, <1>2, <1>3, <1>4, <1>5, <1>6, <1>7 DEF Next

\* The invariant that both theorems stand on.
THEOREM Invariant == Spec => []Inv
  BY InitInv, NextInv, PTL DEF Spec

\* Text that the user typed and that has not reached the server is what the
\* store shows, dirty, with a save or a retry under way, whatever polls,
\* deltas, conflicts and late answers do. A rollback keeps what was typed
\* before its mutation; what was typed since, it takes away, and typed
\* says so (section 7 of the README).
THEOREM TypedStays == Spec => []TypedIsKept
  <1>1. Inv => TypedIsKept
    BY DEF Inv
  <1>2. QED
    BY <1>1, Invariant, PTL

\* The dirty flag is down only on texts that the server has held, or that an
\* operation is saving.
THEOREM CleanStays == Spec => []CleanIsHeld
  <1>1. Inv => CleanIsHeld
    BY DEF Inv
  <1>2. QED
    BY <1>1, Invariant, PTL

-----------------------------------------------------------------------------
(* The types, with the bounds *)

\* Texts are written on somebody's account.
BudgetOk ==
  /\ used.text <= used.user + used.trouble
  /\ used.user <= MaxUser /\ used.trouble <= MaxTrouble

\* What a step does with the counters.
LEMMA CountStep ==
  ASSUME [Next]_vars
  PROVE  \/ UNCHANGED used
         \/ \E what \in Counts \ {"text"} : Using(what)
         \/ \E who \in {"user", "trouble"} : Writing(who)
  <1>1. ASSUME NEW d \in Doc, SaveLoop(d) \/ PatchFails(d)
        PROVE  UNCHANGED used \/ Using("trouble")
    BY <1>1 DEF SaveLoop, PatchArrives, PatchAnswered, RebaseAnswered, SaveTimer, PatchFails
  <1>2. ASSUME NEW d \in Doc, User(d) PROVE Using("user") \/ Writing("user")
    BY <1>2 DEF User, updateDocumentContent, moveDocument, setDocumentCategory, changeFolder,
                createDocument, deleteDocument, applyOperations, undoLastOperation
  <1>3. ASSUME NEW d \in Doc,
               ServerChanges(d) \/ applyStreamingDocumentEdit(d) \/ applyRemoval(d)
        PROVE  UNCHANGED used \/ Using("trouble") \/ Writing("trouble")
    BY <1>3 DEF ServerChanges, applyStreamingDocumentEdit, applyRemoval
  <1>4. CASE \/ organizeIntoChapter \/ prepareWorkspaceLoad \/ AskServer \/ FetchArrives
             \/ hydrateWorkspaceState \/ applyWorkspaceDelta
    BY <1>4 DEF organizeIntoChapter, prepareWorkspaceLoad, AskServer, FetchArrives,
                hydrateWorkspaceState, applyWorkspaceDelta, Counts
  <1>5. CASE MutationArrives \/ MutationFails \/ MutationAnswered \/ rollbackWorkspaceState
    BY <1>5 DEF MutationArrives, MutationFails, MutationAnswered, rollbackWorkspaceState, Counts
  <1>6. CASE UNCHANGED vars
    BY <1>6 DEF vars
  <1>7. QED
    BY <1>1, <1>2, <1>3, <1>4, <1>5, <1>6 DEF Next, Counts

\* No step writes more than its account has.
LEMMA BudgetStep == ASSUME Inv, BudgetOk, [Next]_vars PROVE BudgetOk'
  <1>1. used \in [Counts -> Nat] /\ MaxUser \in Nat /\ MaxTrouble \in Nat
    BY DocumentAssumption DEF Inv, UsedOk
  <1>2. Bounds.user = MaxUser /\ Bounds.trouble = MaxTrouble
    BY DEF Bounds
  <1>3. ASSUME NEW what \in Counts \ {"text"}, Using(what) PROVE BudgetOk'
    BY <1>1, <1>2, <1>3 DEF Using, BudgetOk, Counts
  <1>4. ASSUME NEW who \in {"user", "trouble"}, Writing(who) PROVE BudgetOk'
    <2> DEFINE f == [used EXCEPT ![who] = @ + 1]
    <2>1. /\ f \in [Counts -> Nat] /\ f.user + f.trouble = used.user + used.trouble + 1
          /\ f.user <= MaxUser /\ f.trouble <= MaxTrouble
      <3>1. used[who] < Bounds[who] /\ f \in [Counts -> Nat]
        <4>1. used[who] < Bounds[who]
          BY <1>4 DEF Writing
        <4>2. who \in Counts
          BY DEF Counts
        <4>3. f \in [Counts -> Nat]
          BY <1>1, <4>2
        <4>4. QED
          BY <4>1, <4>3
      <3>2. CASE who = "user"
        BY <1>1, <1>2, <3>1, <3>2 DEF BudgetOk, Counts
      <3>3. CASE who = "trouble"
        BY <1>1, <1>2, <3>1, <3>3 DEF BudgetOk, Counts
      <3>4. QED
        BY <3>2, <3>3
    <2>2. used' = [f EXCEPT !.text = used.text + 1]
      BY <1>4 DEF Writing
    <2> HIDE DEF f
    <2>3. QED
      BY <1>1, <2>1, <2>2 DEF BudgetOk, Counts
  <1>5. CASE UNCHANGED used
    BY <1>5 DEF BudgetOk
  <1>6. QED
    BY <1>3, <1>4, <1>5, CountStep

\* Every variable holds a value of its type: no save, answer, merge or rollback
\* puts anything but a document in a document's place, and the texts are those
\* that somebody wrote.
THEOREM TypeCorrect == Spec => []TypeOK
  <1>1. ASSUME Inv, BudgetOk PROVE TypeOK
    <2>1. used \in [Counts -> Nat] /\ used.text \in Nat /\ used.text <= MaxUser + MaxTrouble
      BY <1>1, DocumentAssumption DEF Inv, UsedOk, BudgetOk, Counts
    <2>2. Bounds.text = MaxUser + MaxTrouble /\ DOMAIN Bounds = Counts
      BY DEF Bounds, Counts
    <2>3. 0 .. used.text \subseteq Text
      BY <2>1, <2>2, DocumentAssumption DEF Text
    <2>4. /\ Copy(used.text) \subseteq LocalDocument /\ Row(used.text) \subseteq Document
          /\ Copies(used.text) \subseteq LocalDocuments /\ Rows(used.text) \subseteq Documents
      BY <2>3 DEF Copy, Row, Copies, Rows, LocalDocument, Document, LocalDocuments, Documents
    <2>5. docs \in LocalDocuments /\ server \in Documents
      BY <1>1, <2>4 DEF Inv, DocsOk, ServerOk
    <2>6. task \in [Doc -> [at : {"idle", "patch", "rebase", "sleep"}, rerun : BOOLEAN,
                            timer : BOOLEAN, attempts : Nat,
                            sent : LocalDocument \cup {Absent}, reply : Reply]]
      <3>1. Replies \subseteq Reply
        BY DEF Replies, Reply, NoReply
      <3>2. Tasks(used.text) \subseteq
              [at : {"idle", "patch", "rebase", "sleep"}, rerun : BOOLEAN, timer : BOOLEAN,
               attempts : Nat, sent : LocalDocument \cup {Absent}, reply : Reply]
        BY <2>4, <3>1 DEF Tasks
      <3>3. task = [d \in Doc |-> task[d]] /\ \A d \in Doc : task[d] \in Tasks(used.text)
        BY <1>1 DEF Inv, TaskOk, TaskGood
      <3>4. QED
        BY <3>2, <3>3
    <2>7. mutation # NoMutation =>
            /\ mutation.doc \in Doc /\ mutation.left \subseteq Doc
            /\ mutation.before \in LocalDocuments /\ mutation.after \in LocalDocuments
            /\ mutation.snapshot \in Documents \cup {Absent}
      <3>1. mutation # NoMutation => mutation \in Mutations(used.text)
        BY <1>1 DEF Inv, MutationOk
      <3>2. QED
        BY <2>4, <3>1 DEF Mutations
    <2>8. fetch # NoFetch => fetch.snapshot \in Documents \cup {Absent}
      <3>1. fetch # NoFetch => fetch \in Fetches(used.text)
        BY <1>1 DEF Inv, FetchOk
      <3>2. QED
        BY <2>4, <3>1 DEF Fetches
    <2>9. /\ undoable \in [Doc -> [text : Text] \cup {Absent}]
          /\ typed \in [Doc -> Text] /\ held \in [Doc -> SUBSET Text]
      BY <1>1, <2>3 DEF Inv, UndoOk, TypedOk, ServerOk
    <2>10. QED
      BY <1>1, <2>1, <2>2, <2>5, <2>6, <2>7, <2>8, <2>9 DEF TypeOK, Inv, UsedOk
  <1>2. Init => BudgetOk
    BY DocumentAssumption DEF Init, BudgetOk, Bounds
  <1>3. Inv /\ BudgetOk /\ [Next]_vars => BudgetOk'
    BY BudgetStep
  <1>4. Spec => []BudgetOk
    BY <1>2, <1>3, Invariant, PTL DEF Spec
  <1>5. QED
    BY <1>1, <1>4, Invariant, PTL

-----------------------------------------------------------------------------
(* Rollbacks that look first *)

\* What NeverRolledBack says, of the mutations whose failure is undone only if
\* the store is still as they left it.
GuardedRollback ==
  (/\ mutation # NoMutation /\ mutation.kind \in {"move", "organize"}
   /\ mutation.answer = "error" /\ mutation' = NoMutation)
    => \A d \in Doc : TypedSince(d) => docs'[d] # Absent /\ docs'[d].text = typed[d]

\* A mutation whose request has failed ends with the rollback.
LEMMA FailedEnds ==
  ASSUME Next, mutation # NoMutation, mutation.answer = "error", mutation' = NoMutation
  PROVE  rollbackWorkspaceState
  <1>1. ~Waiting /\ ~MutationAnswered /\ ~UNCHANGED mutation
    BY DEF Waiting, MutationAnswered
  <1>2. \A kind, d, after, left : ~Begin(kind, d, after, left)
    BY DEF Begin
  <1>3. ASSUME NEW d \in Doc PROVE ~SaveLoop(d) /\ ~PatchFails(d)
    BY <1>1 DEF SaveLoop, PatchArrives, PatchAnswered, RebaseAnswered, SaveTimer, PatchFails
  <1>4. ASSUME NEW d \in Doc PROVE ~User(d)
    BY <1>1, <1>2 DEF User, updateDocumentContent, moveDocument, setDocumentCategory, changeFolder,
                      createDocument, deleteDocument, applyOperations, undoLastOperation
  <1>5. ASSUME NEW d \in Doc
        PROVE  ~ServerChanges(d) /\ ~applyStreamingDocumentEdit(d) /\ ~applyRemoval(d)
    BY <1>1 DEF ServerChanges, applyStreamingDocumentEdit, applyRemoval
  <1>6. /\ ~organizeIntoChapter /\ ~prepareWorkspaceLoad /\ ~AskServer /\ ~FetchArrives
        /\ ~hydrateWorkspaceState /\ ~applyWorkspaceDelta
    BY <1>1, <1>2 DEF organizeIntoChapter, prepareWorkspaceLoad, AskServer, FetchArrives,
                      hydrateWorkspaceState, applyWorkspaceDelta
  <1>7. ~MutationArrives /\ ~MutationFails
    BY <1>1 DEF MutationArrives, MutationFails
  <1>8. QED
    BY <1>1, <1>3, <1>4, <1>5, <1>6, <1>7 DEF Next

\* The rollback of a move or of a new chapter never takes away what the user
\* typed since: isCurrentWorkspaceMutationSnapshot compares the documents, and
\* text that was typed since makes them differ. The finding of section 7 is
\* about the mutations that do not ask this.
THEOREM GuardKeepsTyping == Spec => [][GuardedRollback]_vars
  <1>1. ASSUME Inv, Next PROVE GuardedRollback
    <2> SUFFICES ASSUME mutation # NoMutation, mutation.kind \in {"move", "organize"},
                        mutation.answer = "error", mutation' = NoMutation,
                        NEW d \in Doc, TypedSince(d)
                 PROVE  docs'[d] # Absent /\ docs'[d].text = typed[d]
      BY DEF GuardedRollback
    <2>1. docs[d] # Absent /\ docs[d].text = typed[d]
      BY <1>1 DEF Inv, TypedIsKept, TypedSince
    <2>2. docs # mutation.after
      BY <2>1 DEF TypedSince
    <2>3. UNCHANGED docs
      BY <1>1, <2>2, FailedEnds DEF rollbackWorkspaceState, isCurrentWorkspaceMutationSnapshot
    <2>4. QED
      BY <2>1, <2>3
  <1>2. Inv /\ [Next]_vars => [GuardedRollback]_vars
    BY <1>1
  <1>3. QED
    BY <1>2, Invariant, PTL DEF Spec

=============================================================================
