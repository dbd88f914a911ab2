----------------------------- MODULE AgentChat -----------------------------
(***************************************************************************)
(* The agent's chat panel in the workspace front end (domains/agent): one  *)
(* session of one project.  The server keeps a log of events and sends it  *)
(* over SSE; the panel keeps a store with a cursor into the log, the       *)
(* conversations of the runs and the text they have shown.  The panel      *)
(* hears of the server in four ways which overtake each other: the live    *)
(* stream of a prompt, the stream resumed when the panel is opened, the    *)
(* poll of the session's status, and the transcript fetched as a whole.    *)
(*                                                                         *)
(* An event is started, delta (any output of the agent), ask, resolved (of *)
(* a permission) or ended; its sequence number is its place in the log.    *)
(* JavaScript runs a callback to its end, so each callback is one step.    *)
(***************************************************************************)
EXTENDS Naturals, Sequences, FiniteSets

CONSTANTS MaxRuns,    \* bound on prompts sent
          MaxLog,     \* bound on events of the server; the end of a run always has room
          MaxTrouble  \* bound on lost events, connections and requests, on
                      \* loads of the panel and on stops

ASSUME ChatAssumption ==
  /\ MaxRuns \in Nat \ {0} /\ MaxLog \in Nat /\ MaxTrouble \in Nat

VARIABLES log,        \* the persisted events of the session
          active,     \* the run the server works on, NoRun if none
          runs,       \* how many runs the server has started
          asking,     \* a permission of the active run waits for the user
          here,       \* the project is the one on the screen
          store,      \* useAgentStore
          buffer,     \* pendingAssistantDeltas
          stream,     \* the live and the resumed event source
          prompt,     \* runAgentPrompt: where it is, and the run it started
          stop,       \* stopAgentRun awaits its answer
          status,     \* the status request under way
          chat,       \* the transcript request under way
          due,        \* transcript requests that wait to be sent
          trouble

serverVars == <<log, active, runs, asking>>
requestVars == <<status, chat, due>>
vars == <<log, active, runs, asking, here, store, buffer, stream, prompt, stop,
          status, chat, due, trouble>>

Run == 1 .. MaxRuns
NoRun == 0
Pending == MaxRuns + 1        \* pendingRootRunId
Source == {"live", "resumed"}

NoStream == [open |-> FALSE]
NoRequest == [by |-> "none"]
Idle == [at |-> "idle", run |-> NoRun]

Trouble == trouble < MaxTrouble /\ trouble' = trouble + 1

\* Two fields are history: `missed`, the output that a gap jumped over, and
\* `early`, the output before the first event of an empty store, which is no gap.
EmptyStore == [cursor |-> 0, running |-> FALSE, root |-> NoRun,
               conv |-> [c \in Run \cup {Pending} |-> "none"],
               shown |-> {}, permission |-> FALSE, missed |-> {}, early |-> {}]

Init ==
  /\ log = <<>> /\ active = NoRun /\ runs = 0 /\ asking = FALSE
  /\ here = TRUE
  /\ store = EmptyStore
  /\ buffer = {}
  /\ stream = [s \in Source |-> NoStream]
  /\ prompt = Idle /\ stop = FALSE
  /\ status = NoRequest /\ chat = NoRequest /\ due = {}
  /\ trouble = 0

-----------------------------------------------------------------------------
(* The store *)

deriveIsRunning(conv) == \E c \in DOMAIN conv : conv[c] = "open"
WithConversations(st, conv) == [st EXCEPT !.conv = conv, !.running = deriveIsRunning(conv)]

startRun(st) ==
  [st EXCEPT !.running = TRUE, !.root = Pending, !.conv[Pending] = "open", !.permission = FALSE]

\* bindRootRun: the placeholder becomes the run; a finished one is reopened.
bindRootRun(st, run) ==
  IF st.root = run /\ st.conv[run] # "none" THEN st
  ELSE [WithConversations(st, [st.conv EXCEPT ![run] = "open", ![Pending] = "none"])
          EXCEPT !.root = run]

\* appendAssistantDelta of the events ns: the conversation of the run is
\* reopened or created (nonTerminalConversationStatus).
appendAssistantDelta(st, ns) ==
  IF ns = {} THEN st
  ELSE [WithConversations(st, [c \in DOMAIN st.conv |->
          IF \E n \in ns : log[n].run = c THEN "open" ELSE st.conv[c]])
            EXCEPT !.shown = @ \cup ns]

\* Fault: only the conversation of the root is finished.
FinishRoot(st) ==
  [WithConversations(st, [c \in DOMAIN st.conv |-> IF c = st.root THEN "ended" ELSE st.conv[c]])
     EXCEPT !.permission = FALSE]

\* finishRun, failRun and cancelRun: every conversation that is not over ends.
finishNonTerminalConversations(st) ==
  [WithConversations(st, [c \in DOMAIN st.conv |-> IF st.conv[c] = "none" THEN "none" ELSE "ended"])
     EXCEPT !.permission = FALSE]

Deltas(upto) == {n \in 1 .. upto : log[n].kind = "delta"}

\* The server's transcript names no runs, so it fills the placeholder.
Transcribed(upto, running, permission) ==
  [EmptyStore EXCEPT
     !.cursor = upto, !.running = running,
     !.root = IF upto = 0 THEN NoRun ELSE Pending,
     !.conv[Pending] = IF upto = 0 THEN "none" ELSE IF running THEN "open" ELSE "ended",
     !.shown = Deltas(upto), !.permission = running /\ permission]

\* Faults: the cursor of the store never goes back; it is the next sequence.
HydrateForward(st, upto, running, permission) ==
  [Transcribed(upto, running, permission) EXCEPT !.cursor = IF @ > st.cursor THEN @ ELSE st.cursor]
HydrateAtNext(st, upto, running, permission) ==
  [Transcribed(upto, running, permission) EXCEPT !.cursor = @ + 1]

\* hydrateAgentChatState
hydrateAgentChatState(st, upto, running, permission) == Transcribed(upto, running, permission)

HasMessages(st) == st.root # NoRun \/ \E c \in DOMAIN st.conv : st.conv[c] # "none"

shouldPreserveLocalTranscript(st, upto) == HasMessages(st) /\ st.running /\ upto <= st.cursor

\* applyEventSequence, for an event that is no duplicate.
IsGap(st, n) == st.cursor # 0 /\ n > st.cursor + 1
applyEventSequence(st, n) ==
  LET jumped == Deltas(n - 1) \ Deltas(st.cursor) IN
  [st EXCEPT !.cursor = n,
             !.missed = IF IsGap(st, n) THEN @ \cup jumped ELSE @,
             !.early = IF st.cursor = 0 THEN @ \cup jumped ELSE @]

\* waitForStreamingRun resolves as soon as the store is not running, and the
\* live connection is closed; so does a settled poll.
Settles(next, settle) == prompt.at = "waiting" /\ (settle \/ ~next.running)
StoreBecomes(next, streams, settle) ==
  /\ store' = next
  /\ prompt' = IF Settles(next, settle) THEN Idle ELSE prompt
  /\ stream' = IF Settles(next, settle) THEN [streams EXCEPT !["live"] = NoStream] ELSE streams

-----------------------------------------------------------------------------
(* The server *)

Appended(kind, run) == log' = Append(log, [kind |-> kind, run |-> run])
Room == Len(log) < MaxLog

\* The run says something, asks for a permission, is answered by the user who
\* sees the question, or ends.
ServerWorks ==
  /\ active # NoRun
  /\ \/ Room /\ ~asking /\ Appended("delta", active) /\ UNCHANGED <<active, asking>>
     \/ Room /\ ~asking /\ Appended("ask", active) /\ asking' = TRUE /\ UNCHANGED active
     \/ Room /\ asking /\ store.permission /\ here
        /\ Appended("resolved", active) /\ asking' = FALSE /\ UNCHANGED active
     \/ Appended("ended", active) /\ active' = NoRun /\ asking' = FALSE
  /\ UNCHANGED <<runs, here, store, buffer, stream, prompt, stop, requestVars, trouble>>

-----------------------------------------------------------------------------
(* Event sources *)

\* ManagedEventSource: id is its lastEventId, from which the server replays up
\* to mark; at is how far the server has come; sending says that this
\* connection has not got replay.completed yet, replaying is the client's flag,
\* which no reconnection sets again.  `since` and `cut` are history: the mark of
\* the first connection, and that the server once could not read its history.
OpenStream(after) ==
  [open |-> TRUE, up |-> TRUE, at |-> after, id |-> after, mark |-> Len(log),
   since |-> Len(log), sending |-> TRUE, replaying |-> TRUE, cut |-> FALSE]

Listening(s) == stream[s].open /\ stream[s].up

isLifecycleEventForCurrentRun(st, run) == st.root \in {NoRun, Pending, run}

\* A terminal event is heeded unless it is replayed or of another run.
\* Fault: replayed events count as well.
EndsReplayed(st, e, replay) ==
  e.kind = "ended" /\ isLifecycleEventForCurrentRun(st, e.run)
Ends(st, e, replay) ==
  e.kind = "ended" /\ ~replay /\ isLifecycleEventForCurrentRun(st, e.run)

\* handleStreamingAgentEvent for the event n, with `replay` in its meta: the
\* store, the buffer and the requests it leads to.  Output of the agent is
\* buffered; what is shown at once counts as a buffer flushed at once.
handleStreamingAgentEvent(n, replay) ==
  LET e == log[n]
      counted == applyEventSequence(store, n)
      bound == IF (counted.running /\ counted.root = Pending) \/ e.kind = "started"
                 THEN bindRootRun(counted, e.run) ELSE counted
      flushed == IF e.kind = "delta" THEN {} ELSE {m \in buffer : log[m].run = e.run}
      kept == appendAssistantDelta(bound, flushed)
      ends == Ends(kept, e, replay)
      refresh == IF ends \/ IsGap(store, n) THEN {"refresh"} ELSE {}
  IN [buffer |-> IF e.kind = "delta" THEN buffer \cup {n} ELSE buffer \ flushed,
      due |-> due \cup refresh,
      store |-> IF ends THEN finishNonTerminalConversations(kept)
                ELSE IF e.kind \in {"ask", "resolved"}
                       THEN [kept EXCEPT !.permission = (e.kind = "ask")]
                ELSE kept]

\* The next event arrives.  A duplicate, or one for another project, changes
\* nothing but the stream; the resumed stream closes after any terminal event
\* that leaves the store at rest.
EventArrives(s) ==
  LET n == stream[s].at + 1
      received == [stream EXCEPT ![s].at = n, ![s].id = n]
      after(next) == IF s = "resumed" /\ log[n].kind = "ended" /\ ~next.running
                       THEN [received EXCEPT ![s] = NoStream] ELSE received
  IN
  /\ Listening(s) /\ n <= Len(log)
  /\ \/ /\ ~here \/ (store.cursor # 0 /\ n <= store.cursor)
        /\ StoreBecomes(store, after(store), FALSE)
        /\ UNCHANGED <<buffer, due>>
     \/ /\ here /\ (store.cursor = 0 \/ n > store.cursor)
        /\ LET next == handleStreamingAgentEvent(n, s = "live" /\ stream[s].replaying)
           IN /\ StoreBecomes(next.store, after(next.store), FALSE)
              /\ buffer' = next.buffer /\ due' = next.due
  /\ UNCHANGED <<serverVars, here, stop, status, chat, trouble>>

\* A status request is sent and read by the server at once, unless one is
\* under way already; its answer may come late.
AskedStatus(by) == [by |-> by, running |-> active # NoRun, asking |-> asking]
AskedUnlessBusy(by) == IF status = NoRequest THEN AskedStatus(by) ELSE status

\* The connection's history has been sent, or a page of it could not be read
\* and the rest is left out; the panel asks for the permissions again.
ReplayCompleted(s) ==
  /\ Listening(s) /\ stream[s].sending
  /\ \/ /\ stream[s].at >= stream[s].mark /\ UNCHANGED trouble
        /\ stream' = [stream EXCEPT ![s].sending = FALSE, ![s].replaying = FALSE]
     \/ /\ stream[s].at < stream[s].mark /\ Trouble
        /\ stream' = [stream EXCEPT ![s].sending = FALSE, ![s].replaying = FALSE,
                                    ![s].at = stream[s].mark, ![s].cut = TRUE]
  /\ status' = IF here THEN AskedUnlessBusy("permissions") ELSE status
  /\ UNCHANGED <<serverVars, here, store, buffer, prompt, stop, chat, due>>

\* An event after the history is lost: the subscriber's buffer is full, so it
\* is dropped, or evicted, a run's end too, for a guaranteed event; or it was
\* overtaken by the next one and arrives as a duplicate.
EventDropped(s) ==
  LET n == stream[s].at + 1 IN
  /\ Listening(s) /\ ~stream[s].sending /\ n <= Len(log)
  /\ Trouble
  /\ stream' = [stream EXCEPT ![s].at = n]
  /\ UNCHANGED <<serverVars, here, store, buffer, prompt, stop, requestVars>>

\* The connection breaks, or its heartbeat goes silent; later scheduleReconnect
\* asks for everything after the last id received.
ConnectionBreaks(s) ==
  /\ Listening(s)
  /\ Trouble
  /\ stream' = [stream EXCEPT ![s].up = FALSE]
  /\ UNCHANGED <<serverVars, here, store, buffer, prompt, stop, requestVars>>

Reconnect(s) ==
  /\ stream[s].open /\ ~stream[s].up
  /\ stream' = [stream EXCEPT ![s].up = TRUE, ![s].sending = TRUE,
                             ![s].at = stream[s].id, ![s].mark = Len(log)]
  /\ UNCHANGED <<serverVars, here, store, buffer, prompt, stop, requestVars, trouble>>

\* The timer of a buffered delta runs out.
flushAssistantDeltaBuffer ==
  /\ \E n \in buffer :
       LET flushed == {m \in buffer : log[m].run = log[n].run} IN
       /\ buffer' = buffer \ flushed
       /\ StoreBecomes(appendAssistantDelta(store, flushed), stream, FALSE)
  /\ UNCHANGED <<serverVars, here, stop, requestVars, trouble>>

-----------------------------------------------------------------------------
(* A prompt *)

\* runAgentPrompt, from a composer that is not locked: the optimistic turn, and
\* a live stream in place of the resumed one.
runAgentPrompt ==
  /\ here /\ prompt = Idle /\ ~store.running
  /\ runs < MaxRuns
  /\ store' = startRun(store)
  /\ prompt' = [at |-> "connecting", run |-> NoRun]
  /\ stream' = [live |-> OpenStream(store.cursor), resumed |-> NoStream]
  /\ UNCHANGED <<serverVars, here, buffer, stop, requestVars, trouble>>

\* The stream is there in time, and the permissions are asked for, or it times
\* out and the run has failed.
Connected ==
  /\ prompt.at = "connecting"
  /\ \/ /\ stream["live"].up
        /\ prompt' = [prompt EXCEPT !.at = "sending"]
        /\ status' = AskedUnlessBusy("permissions")
        /\ UNCHANGED <<store, stream, trouble>>
     \/ /\ Trouble
        /\ store' = finishNonTerminalConversations(store)
        /\ prompt' = Idle
        /\ stream' = [stream EXCEPT !["live"] = NoStream]
        /\ UNCHANGED status
  /\ UNCHANGED <<serverVars, here, buffer, stop, chat, due>>

\* The server takes the message, unless a run is active (StartRun): then the
\* run has failed here, as it has when the request or its answer is lost.
SendArrives ==
  /\ prompt.at = "sending" /\ prompt.run = NoRun /\ active = NoRun
  /\ runs < MaxRuns /\ Room
  /\ Appended("started", runs + 1)
  /\ active' = runs + 1 /\ runs' = runs + 1
  /\ prompt' = [prompt EXCEPT !.run = runs + 1]
  /\ UNCHANGED <<asking, here, store, buffer, stream, stop, requestVars, trouble>>

SendFails ==
  /\ prompt.at = "sending"
  /\ \/ prompt.run = NoRun /\ active # NoRun /\ UNCHANGED trouble
     \/ Trouble
  /\ store' = finishNonTerminalConversations(store)
  /\ prompt' = Idle
  /\ stream' = [stream EXCEPT !["live"] = NoStream]
  /\ UNCHANGED <<serverVars, here, buffer, stop, requestVars>>

\* The answer: waitForStreamingRun begins, and may be over at once.
SendAnswered ==
  /\ prompt.at = "sending" /\ prompt.run # NoRun
  /\ IF store.running
       THEN prompt' = [prompt EXCEPT !.at = "waiting"] /\ UNCHANGED stream
       ELSE prompt' = Idle /\ stream' = [stream EXCEPT !["live"] = NoStream]
  /\ UNCHANGED <<serverVars, here, store, buffer, stop, requestVars, trouble>>

\* stopAgentRun: the request cancels the active run or is lost; then the panel
\* ends what it shows.
stopAgentRun ==
  \/ /\ here /\ store.running /\ ~stop
     /\ Trouble
     /\ \/ active # NoRun /\ Appended("ended", active) /\ active' = NoRun /\ asking' = FALSE
        \/ UNCHANGED <<log, active, asking>>
     /\ stop' = TRUE
     /\ UNCHANGED <<runs, here, store, buffer, stream, prompt, requestVars>>
  \/ /\ stop
     /\ stop' = FALSE
     /\ StoreBecomes(finishNonTerminalConversations(store), stream, FALSE)
     /\ UNCHANGED <<serverVars, here, buffer, requestVars, trouble>>

-----------------------------------------------------------------------------
(* The status of the session *)

\* The interval of waitForStreamingRun.
Poll ==
  /\ status = NoRequest /\ prompt.at = "waiting" /\ here
  /\ status' = AskedStatus("wait")
  /\ UNCHANGED <<serverVars, here, store, buffer, stream, prompt, stop, chat, due, trouble>>

\* Fault: the poll leaves the permissions to the stream.
KeepPermission(st) == st

\* syncPermissionRequests
syncPermissionRequests(st) ==
  IF status.by = "recover" THEN st ELSE [st EXCEPT !.permission = status.asking]

\* syncAgentSessionStatus, and the recovery of AgentStateSync: a run that has
\* ended on the server ends here.
syncAgentSessionStatus ==
  LET terminal == ~status.running /\ status.by \in {"wait", "recover"}
      synced == syncPermissionRequests(store)
  IN
  /\ status # NoRequest
  /\ StoreBecomes(IF terminal THEN finishNonTerminalConversations(synced) ELSE synced,
                  stream, FALSE)
  /\ due' = IF terminal THEN due \cup {"refresh"} ELSE due
  /\ status' = NoRequest
  /\ UNCHANGED <<serverVars, here, buffer, stop, chat, trouble>>

\* The poll of a prompt whose project is not on the screen gives up.
PollElsewhere ==
  /\ prompt.at = "waiting" /\ ~here
  /\ StoreBecomes(store, stream, TRUE)
  /\ UNCHANGED <<serverVars, here, buffer, stop, requestVars, trouble>>

-----------------------------------------------------------------------------
(* The transcript *)

\* The server answers a request for the transcript.
AskChat(by) ==
  /\ chat = NoRequest /\ by \in due
  /\ chat' = [by |-> by, upto |-> Len(log), running |-> active # NoRun, asking |-> asking]
  /\ due' = due \ {by}
  /\ UNCHANGED <<serverVars, here, store, buffer, stream, prompt, stop, status, trouble>>

\* refreshAgentChatTranscript, and the load of AgentStateSync, which resumes
\* the stream of a run and then asks for the status.
refreshAgentChatTranscript ==
  LET next == IF shouldPreserveLocalTranscript(store, chat.upto) THEN store
              ELSE hydrateAgentChatState(store, chat.upto, chat.running, chat.asking)
      resumes == chat.by = "load" /\ chat.running /\ ~stream["resumed"].open
  IN
  /\ chat # NoRequest
  /\ StoreBecomes(next, IF resumes THEN [stream EXCEPT !["resumed"] = OpenStream(chat.upto)]
                        ELSE stream, FALSE)
  /\ status' = IF chat.by = "load" THEN AskedUnlessBusy("recover") ELSE status
  /\ chat' = NoRequest
  /\ UNCHANGED <<serverVars, here, buffer, stop, due, trouble>>

\* A request for the status or the transcript fails.
RequestFails ==
  /\ Trouble
  /\ \/ status # NoRequest /\ status' = NoRequest /\ UNCHANGED chat
     \/ chat # NoRequest /\ chat' = NoRequest /\ UNCHANGED status
  /\ UNCHANGED <<serverVars, here, store, buffer, stream, prompt, stop, due>>

\* AgentStateSync: the panel is opened on a route and loads the chat, or its
\* project leaves the screen; then a load or a recovery is abandoned.
VisitRoute ==
  /\ Trouble
  /\ \/ /\ here /\ due' = due \cup {"load"}
        /\ UNCHANGED <<here, store, buffer, stream, chat, status>>
     \/ /\ here' = ~here
        /\ store' = EmptyStore /\ buffer' = {}
        /\ stream' = [stream EXCEPT !["resumed"] = NoStream]
        /\ due' = IF here THEN due \ {"load"} ELSE due \cup {"load"}
        /\ chat' = IF chat.by = "load" THEN NoRequest ELSE chat
        /\ status' = IF status.by = "recover" THEN NoRequest ELSE status
  /\ UNCHANGED <<serverVars, prompt, stop>>

-----------------------------------------------------------------------------

Stream(s) == EventArrives(s) \/ ReplayCompleted(s) \/ Reconnect(s)
Transcripts == AskChat("refresh") \/ AskChat("load") \/ refreshAgentChatTranscript
Prompt == Connected \/ SendArrives \/ SendAnswered \/ SendFails

Next ==
  \/ ServerWorks
  \/ \E s \in Source : Stream(s) \/ EventDropped(s) \/ ConnectionBreaks(s)
  \/ flushAssistantDeltaBuffer
  \/ runAgentPrompt \/ Prompt \/ stopAgentRun
  \/ Poll \/ syncAgentSessionStatus \/ PollElsewhere
  \/ Transcripts \/ RequestFails \/ VisitRoute

Spec == Init /\ [][Next]_vars

\* Requests are answered and the poll's interval ticks.
FairSpec == Spec /\ WF_vars(syncAgentSessionStatus) /\ SF_vars(Poll) /\ WF_vars(PollElsewhere)

-----------------------------------------------------------------------------
(* Properties *)

Stored == [cursor : 0 .. Len(log), running : BOOLEAN, root : 0 .. Pending,
           conv : [Run \cup {Pending} -> {"none", "open", "ended"}],
           shown : SUBSET (1 .. Len(log)), permission : BOOLEAN,
           missed : SUBSET (1 .. Len(log)), early : SUBSET (1 .. Len(log))]

\* Every variable holds a value of its type.
TypeOK ==
  /\ log \in Seq([kind : {"started", "delta", "ask", "resolved", "ended"}, run : Run])
  /\ active \in Run \cup {NoRun} /\ runs \in 0 .. MaxRuns
  /\ asking \in BOOLEAN /\ here \in BOOLEAN
  /\ store \in Stored
  /\ buffer \subseteq 1 .. Len(log)
  /\ \A s \in Source : stream[s].open =>
       /\ {stream[s].up, stream[s].sending, stream[s].replaying, stream[s].cut} \subseteq BOOLEAN
       /\ {stream[s].at, stream[s].id, stream[s].mark, stream[s].since} \subseteq 0 .. Len(log)
  /\ prompt \in [at : {"idle", "connecting", "sending", "waiting"}, run : Run \cup {NoRun}]
  /\ stop \in BOOLEAN
  /\ status.by \in {"none", "permissions", "recover", "wait"}
  /\ chat.by \in {"none", "refresh", "load"}
  /\ due \subseteq {"refresh", "load"}

Jumped(st) == st.missed \cup st.early

\* Output of the agent behind the cursor that is neither shown nor about to be
\* was jumped over: by a gap, which asks for a transcript, or by the first event
\* of an empty store, which nothing notices.  Whatever streams overlap, whatever
\* is replayed after a reconnection and whichever older transcript is put in
\* the store's place, nothing is taken for a duplicate that was never shown.
\* The transcript need not bring back what a gap missed: while the run goes on it
\* is discarded unless it reaches further than the cursor.
UnshownWasJumped ==
  Deltas(store.cursor) \subseteq store.shown \cup buffer \cup Jumped(store)

\* The history that the live stream of a prompt replays, with the ends of
\* earlier runs in it, never ends the prompt: not while the prompt's run has
\* no name yet, and not when the connection breaks during the replay; unless
\* the server could not read the history and said it was complete.
HistoryEndsNothing ==
  [][(EventArrives("live") /\ store.running /\ ~store'.running) =>
       stream["live"].at >= stream["live"].since \/ stream["live"].cut]_vars

\* "a 1s status poll unlocks the UI if a terminal event is missed": a prompt
\* that waits for a run that is over does not wait for ever.
EveryWaitEnds == (prompt.at = "waiting" /\ active = NoRun) ~> (prompt.at # "waiting")

\* A permission the run waits for is shown to the user who waits for the run,
\* even if its event was lost or an older status took it away again.
PermissionIsShown ==
  (prompt.at = "waiting" /\ asking) ~> (prompt.at # "waiting" \/ ~asking \/ store.permission)
=============================================================================
