-------------------------- MODULE AgentChatProofs --------------------------
(***************************************************************************)
(* What TLAPS proves of AgentChat, for every number of runs, events and    *)
(* troubles: the types, that no output of the agent is taken for a         *)
(* duplicate before it was shown, and that replayed history ends no        *)
(* prompt as long as the server can read it.                               *)
(***************************************************************************)
EXTENDS AgentChat, TLAPS

(***************************************************************************)
(* Types, over a log of m events.                                          *)
(***************************************************************************)

Event == [kind : {"started", "delta", "ask", "resolved", "ended"}, run : Run]
Conversations == [Run \cup {Pending} -> {"none", "open", "ended"}]
Stores(m) == [cursor : 0 .. m, running : BOOLEAN, root : 0 .. Pending, conv : Conversations,
              shown : SUBSET (1 .. m), permission : BOOLEAN,
              missed : SUBSET (1 .. m), early : SUBSET (1 .. m)]
Opened(m) == [open : {TRUE}, up : BOOLEAN, at : 0 .. m, id : 0 .. m, mark : 0 .. m,
              since : 0 .. m, sending : BOOLEAN, replaying : BOOLEAN, cut : BOOLEAN]
Streams(m) == [Source -> {NoStream} \cup Opened(m)]
Prompts == [at : {"idle", "connecting", "sending", "waiting"}, run : Run \cup {NoRun}]
Statuses == {NoRequest} \cup [by : {"permissions", "recover", "wait"}, running : BOOLEAN,
                              asking : BOOLEAN]
Chats(m) == {NoRequest} \cup [by : {"refresh", "load"}, upto : 0 .. m, running : BOOLEAN,
                              asking : BOOLEAN]

(***************************************************************************)
(* The invariant.                                                          *)
(***************************************************************************)

ServerOk ==
  /\ log \in Seq(Event)
  /\ active \in Run \cup {NoRun} /\ runs \in 0 .. MaxRuns /\ asking \in BOOLEAN

PanelOk ==
  /\ here \in BOOLEAN /\ stop \in BOOLEAN
  /\ store \in Stores(Len(log)) /\ buffer \subseteq 1 .. Len(log)
  /\ prompt \in Prompts

RequestsOk ==
  /\ stream \in Streams(Len(log))
  /\ status \in Statuses /\ chat \in Chats(Len(log)) /\ due \subseteq {"refresh", "load"}

\* What a connection has received lies before what it has come to.  As long as
\* the server could read its history, it is only behind for events lost after
\* the history was sent, and until the history is over, it says so.
Honest(t) ==
  t.open => /\ t.since <= t.mark /\ t.id <= t.at
            /\ t.sending \/ t.mark <= t.at
            /\ t.cut \/ t.id = t.at \/ t.id >= t.since
            /\ t.cut \/ t.replaying \/ t.id >= t.since

ReplayOk == Honest(stream["live"])

Inv == ServerOk /\ PanelOk /\ RequestsOk /\ UnshownWasJumped /\ ReplayOk

-----------------------------------------------------------------------------
(* Types *)

\* A longer log does not spoil a type.
LEMMA Widen ==
  ASSUME NEW m \in Nat, NEW k \in Nat, m <= k
  PROVE  /\ 1 .. m \subseteq 1 .. k
         /\ Stores(m) \subseteq Stores(k) /\ Streams(m) \subseteq Streams(k)
         /\ Chats(m) \subseteq Chats(k)
  <1>1. 0 .. m \subseteq 0 .. k /\ 1 .. m \subseteq 1 .. k
    OBVIOUS
  <1>2. Stores(m) \subseteq Stores(k)
    BY <1>1 DEF Stores
  <1>3. Opened(m) \subseteq Opened(k)
    BY <1>1 DEF Opened
  <1>4. Streams(m) \subseteq Streams(k)
    BY <1>3 DEF Streams
  <1>5. Chats(m) \subseteq Chats(k)
    BY <1>1 DEF Chats
  <1>6. QED
    BY <1>1, <1>2, <1>4, <1>5

\* The constants of the model have the types of runs.
LEMMA Names ==
  /\ MaxRuns \in Nat /\ Pending \in Nat /\ Pending \notin Run
  /\ Run \subseteq 0 .. Pending /\ NoRun \in 0 .. Pending /\ Pending \in 0 .. Pending
  BY ChatAssumption DEF Run, Pending, NoRun

\* The log is a list of events of runs.
LEMMA Logged ==
  ASSUME ServerOk
  PROVE  /\ Len(log) \in Nat
         /\ \A n \in 1 .. Len(log) : log[n] \in Event /\ log[n].run \in Run
  <1>1. /\ Len(log) \in Nat
        /\ \A n \in 1 .. Len(log) : log[n] \in Event
    BY DEF ServerOk
  <1>2. QED
    BY <1>1 DEF Event

\* A store is running when one of its conversations is open.
LEMMA Derived ==
  ASSUME NEW conv \in Conversations
  PROVE  /\ deriveIsRunning(conv) \in BOOLEAN
         /\ deriveIsRunning(conv) <=> \E c \in Run \cup {Pending} : conv[c] = "open"
  BY DEF deriveIsRunning, Conversations

\* New conversations keep a store a store, with the same output.
LEMMA Conversed ==
  ASSUME NEW m \in Nat, NEW st \in Stores(m), NEW conv \in Conversations
  PROVE  LET next == WithConversations(st, conv) IN
         /\ next \in Stores(m)
         /\ next.cursor = st.cursor /\ next.shown = st.shown /\ Jumped(next) = Jumped(st)
         /\ next.running = deriveIsRunning(conv) /\ next.conv = conv
         /\ next.root = st.root /\ next.permission = st.permission
  <1>1. deriveIsRunning(conv) \in BOOLEAN
    BY Derived
  <1>2. QED
    BY <1>1 DEF WithConversations, Stores, Jumped

\* So does the end of the run.
LEMMA Finished ==
  ASSUME NEW m \in Nat, NEW st \in Stores(m)
  PROVE  LET next == finishNonTerminalConversations(st) IN
         /\ next \in Stores(m)
         /\ next.cursor = st.cursor /\ next.shown = st.shown /\ Jumped(next) = Jumped(st)
  <1> DEFINE conv == [c \in DOMAIN st.conv |-> IF st.conv[c] = "none" THEN "none" ELSE "ended"]
             next == WithConversations(st, conv)
  <1>1. conv \in Conversations
    BY DEF Stores, Conversations
  <1>2. /\ next \in Stores(m)
        /\ next.cursor = st.cursor /\ next.shown = st.shown /\ Jumped(next) = Jumped(st)
    <2> HIDE DEF conv
    <2>1. QED
      BY <1>1, Conversed
  <1>3. finishNonTerminalConversations(st) = [next EXCEPT !.permission = FALSE]
    BY DEF finishNonTerminalConversations
  <1> HIDE DEF next
  <1>4. QED
    BY <1>2, <1>3 DEF Stores, Jumped

\* And the optimistic turn of a prompt.
LEMMA Started ==
  ASSUME NEW m \in Nat, NEW st \in Stores(m)
  PROVE  LET next == startRun(st) IN
         /\ next \in Stores(m)
         /\ next.cursor = st.cursor /\ next.shown = st.shown /\ Jumped(next) = Jumped(st)
  <1>1. [st.conv EXCEPT ![Pending] = "open"] \in Conversations
    BY DEF Stores, Conversations
  <1>2. startRun(st) = [st EXCEPT !.running = TRUE, !.root = Pending,
                                  !.conv = [st.conv EXCEPT ![Pending] = "open"],
                                  !.permission = FALSE]
    BY DEF startRun, Stores
  <1>3. QED
    BY <1>1, <1>2, Names DEF Stores, Jumped

\* Binding a run leaves the output alone, and does not end the store's run.
LEMMA Bound ==
  ASSUME NEW m \in Nat, NEW st \in Stores(m), NEW run \in Run
  PROVE  LET next == bindRootRun(st, run) IN
         /\ next \in Stores(m)
         /\ next.cursor = st.cursor /\ next.shown = st.shown /\ Jumped(next) = Jumped(st)
         /\ st.running => next.running
  <1> DEFINE conv == [st.conv EXCEPT ![run] = "open", ![Pending] = "none"]
             next == WithConversations(st, conv)
  <1>1. conv \in Conversations /\ conv[run] = "open"
    BY Names DEF Stores, Conversations
  <1>2. deriveIsRunning(conv)
    BY <1>1, Derived
  <1>3. /\ next \in Stores(m) /\ next.running
        /\ next.cursor = st.cursor /\ next.shown = st.shown /\ Jumped(next) = Jumped(st)
    <2> HIDE DEF conv
    <2>1. QED
      BY <1>1, <1>2, Conversed
  <1>4. bindRootRun(st, run) = st \/ bindRootRun(st, run) = [next EXCEPT !.root = run]
    BY DEF bindRootRun
  <1> HIDE DEF next
  <1>5. [next EXCEPT !.root = run] \in Stores(m)
    BY <1>3, Names DEF Stores
  <1>6. QED
    BY <1>3, <1>4, <1>5 DEF Stores, Jumped

\* Output shown is added to what was shown, and does not end the store's run.
LEMMA Shows ==
  ASSUME ServerOk, NEW st \in Stores(Len(log)), NEW ns \in SUBSET (1 .. Len(log))
  PROVE  LET next == appendAssistantDelta(st, ns) IN
         /\ next \in Stores(Len(log))
         /\ next.cursor = st.cursor /\ next.shown = st.shown \cup ns
         /\ Jumped(next) = Jumped(st) /\ (st.running => next.running)
  <1> DEFINE conv == [c \in DOMAIN st.conv |->
                        IF \E n \in ns : log[n].run = c THEN "open" ELSE st.conv[c]]
             next == WithConversations(st, conv)
  <1>1. Len(log) \in Nat /\ \A n \in ns : log[n].run \in Run
    BY Logged
  <1>2. conv \in Conversations
    BY DEF Stores, Conversations
  <1>3. ns # {} => deriveIsRunning(conv)
    <2>1. ASSUME NEW n \in ns
          PROVE  conv[log[n].run] = "open"
      BY <1>1 DEF Stores, Conversations
    <2> HIDE DEF conv
    <2>2. QED
      BY <1>1, <1>2, <2>1, Derived
  <1>4. /\ next \in Stores(Len(log)) /\ next.running = deriveIsRunning(conv)
        /\ next.cursor = st.cursor /\ next.shown = st.shown /\ Jumped(next) = Jumped(st)
    <2> HIDE DEF conv
    <2>1. QED
      BY <1>1, <1>2, Conversed
  <1>5. CASE ns = {}
    BY <1>5 DEF appendAssistantDelta, Stores, Jumped
  <1>6. CASE ns # {}
    <2>1. appendAssistantDelta(st, ns) = [next EXCEPT !.shown = @ \cup ns]
      BY <1>6 DEF appendAssistantDelta
    <2> HIDE DEF next, conv
    <2>2. QED
      BY <1>1, <1>3, <1>4, <1>6, <2>1 DEF Stores, Jumped
  <1>7. QED
    BY <1>5, <1>6

-----------------------------------------------------------------------------
(* Output *)

\* The output that is counted is in the store, in the buffer, or was jumped over.
Covered(st, b) == Deltas(st.cursor) \subseteq st.shown \cup b \cup Jumped(st)

\* The output of the log up to some event.
LEMMA Outputs ==
  ASSUME ServerOk, NEW u \in 0 .. Len(log)
  PROVE  /\ Deltas(u) \subseteq 1 .. Len(log)
         /\ \A v \in 0 .. Len(log) : v <= u => Deltas(v) \subseteq Deltas(u)
         /\ u # 0 => Deltas(u) \subseteq Deltas(u - 1)
                       \cup (IF log[u].kind = "delta" THEN {u} ELSE {})
         /\ u = 0 => Deltas(u) = {}
  <1>1. Len(log) \in Nat
    BY Logged
  <1>2. QED
    BY <1>1 DEF Deltas

\* An event put to the end of the log changes no output before it.
LEMMA Appends ==
  ASSUME ServerOk, NEW kind, NEW run, log' = Append(log, [kind |-> kind, run |-> run])
  PROVE  /\ Len(log') = Len(log) + 1
         /\ \A u \in 0 .. Len(log) : Deltas(u)' = Deltas(u)
  <1>1. Len(log) \in Nat /\ log \in Seq(Event)
    BY Logged DEF ServerOk
  <1>2. Len(log') = Len(log) + 1 /\ \A n \in 1 .. Len(log) : log'[n] = log[n]
    BY <1>1
  <1>3. ASSUME NEW u \in 0 .. Len(log)
        PROVE  Deltas(u)' = Deltas(u)
    <2>1. {n \in 1 .. u : log'[n].kind = "delta"} = {n \in 1 .. u : log[n].kind = "delta"}
      BY <1>1, <1>2
    <2>2. QED
      BY <2>1 DEF Deltas
  <1>4. QED
    BY <1>2, <1>3

\* The next event of a stream is counted, and what it jumps over is noted.
LEMMA Counted ==
  ASSUME ServerOk, NEW st \in Stores(Len(log)), NEW b, Covered(st, b),
         NEW n \in 1 .. Len(log), st.cursor = 0 \/ n > st.cursor
  PROVE  LET next == applyEventSequence(st, n) IN
         /\ next \in Stores(Len(log)) /\ next.cursor = n /\ next.shown = st.shown
         /\ next.running = st.running /\ next.root = st.root
         /\ Covered(next, b \cup (IF log[n].kind = "delta" THEN {n} ELSE {}))
  <1> DEFINE jumped == Deltas(n - 1) \ Deltas(st.cursor)
             missed == IF IsGap(st, n) THEN st.missed \cup jumped ELSE st.missed
             early == IF st.cursor = 0 THEN st.early \cup jumped ELSE st.early
             next == applyEventSequence(st, n)
  <1>1. Len(log) \in Nat /\ st.cursor \in 0 .. Len(log) /\ n - 1 \in 0 .. Len(log)
        /\ n \in 0 .. Len(log)
    BY Logged DEF Stores
  <1>2. /\ Deltas(n - 1) \subseteq 1 .. Len(log)
        /\ Deltas(n) \subseteq Deltas(n - 1) \cup (IF log[n].kind = "delta" THEN {n} ELSE {})
    BY <1>1, Outputs
  <1>3. /\ missed \subseteq 1 .. Len(log) /\ early \subseteq 1 .. Len(log)
        /\ Jumped(st) \subseteq missed \cup early
    BY <1>2 DEF Stores, Jumped
  <1>4. Deltas(n - 1) \subseteq Deltas(st.cursor) \cup missed \cup early
    <2>1. CASE st.cursor = 0 \/ IsGap(st, n)
      BY <2>1
    <2>2. CASE ~(st.cursor = 0 \/ IsGap(st, n))
      <3>1. n - 1 = st.cursor
        BY <1>1, <2>2 DEF IsGap
      <3>2. QED
        BY <3>1
    <2>3. QED
      BY <2>1, <2>2
  <1> HIDE DEF missed, early
  <1>5. next = [st EXCEPT !.cursor = n, !.missed = missed, !.early = early]
    BY DEF applyEventSequence, missed, early, Stores
  <1>6. /\ next \in Stores(Len(log)) /\ next.cursor = n /\ next.shown = st.shown
        /\ next.running = st.running /\ next.root = st.root
        /\ Jumped(next) = missed \cup early
    BY <1>1, <1>3, <1>5 DEF Stores, Jumped
  <1> HIDE DEF next
  <1>7. Covered(next, b \cup (IF log[n].kind = "delta" THEN {n} ELSE {}))
    BY <1>2, <1>3, <1>4, <1>6 DEF Covered
  <1>8. QED
    BY <1>6, <1>7 DEF next

\* The server's transcript is a store that shows all the output it counts.
LEMMA Hydrated ==
  ASSUME ServerOk, NEW st, NEW upto \in 0 .. Len(log), NEW running \in BOOLEAN,
         NEW permission \in BOOLEAN, NEW b
  PROVE  LET next == hydrateAgentChatState(st, upto, running, permission) IN
         /\ next \in Stores(Len(log)) /\ Covered(next, b)
  <1> DEFINE conv == [EmptyStore.conv EXCEPT ![Pending] =
                        IF upto = 0 THEN "none" ELSE IF running THEN "open" ELSE "ended"]
             root == IF upto = 0 THEN NoRun ELSE Pending
             next == hydrateAgentChatState(st, upto, running, permission)
  <1>1. conv \in Conversations /\ root \in 0 .. Pending
    BY Names DEF EmptyStore, Conversations
  <1>2. Deltas(upto) \subseteq 1 .. Len(log)
    BY Outputs
  <1>3. (running /\ permission) \in BOOLEAN
    OBVIOUS
  <1> HIDE DEF conv, root
  <1>4. next = [cursor |-> upto, running |-> running, root |-> root, conv |-> conv,
                shown |-> Deltas(upto), permission |-> running /\ permission,
                missed |-> {}, early |-> {}]
    <2>1. hydrateAgentChatState(st, upto, running, permission)
            = [EmptyStore EXCEPT !.cursor = upto, !.running = running, !.root = root,
                 !.conv = conv, !.shown = Deltas(upto), !.permission = running /\ permission]
      BY DEF hydrateAgentChatState, Transcribed, EmptyStore, conv, root
    <2>2. QED
      BY <2>1 DEF EmptyStore
  <1> HIDE DEF next
  <1>5. QED
    BY <1>1, <1>2, <1>3, <1>4 DEF Stores, Covered, next

\* The empty store counts nothing.
LEMMA Emptied ==
  ASSUME ServerOk, NEW b
  PROVE  EmptyStore \in Stores(Len(log)) /\ Covered(EmptyStore, b)
  <1>1. [c \in Run \cup {Pending} |-> "none"] \in Conversations
    BY DEF Conversations
  <1>2. EmptyStore.cursor = 0 /\ Len(log) \in Nat
    BY Logged DEF EmptyStore
  <1>3. Deltas(EmptyStore.cursor) = {}
    BY <1>2, Outputs
  <1>4. EmptyStore \in Stores(Len(log))
    BY <1>1, <1>2, Names DEF EmptyStore, Stores
  <1>5. QED
    BY <1>3, <1>4 DEF Covered

\* An event that is handled is counted, and shown, buffered or no output; one
\* that is replayed does not end the run.
LEMMA Handled ==
  ASSUME ServerOk, store \in Stores(Len(log)), buffer \subseteq 1 .. Len(log),
         due \subseteq {"refresh", "load"}, Covered(store, buffer),
         NEW n \in 1 .. Len(log), store.cursor = 0 \/ n > store.cursor, NEW replay \in BOOLEAN
  PROVE  LET next == handleStreamingAgentEvent(n, replay) IN
         /\ next.store \in Stores(Len(log)) /\ next.buffer \subseteq 1 .. Len(log)
         /\ next.due \subseteq {"refresh", "load"}
         /\ Covered(next.store, next.buffer)
         /\ (replay /\ store.running) => next.store.running
  <1> DEFINE e == log[n]
             counted == applyEventSequence(store, n)
             binds == (counted.running /\ counted.root = Pending) \/ e.kind = "started"
             bound == IF binds THEN bindRootRun(counted, e.run) ELSE counted
             flushed == IF e.kind = "delta" THEN {} ELSE {m \in buffer : log[m].run = e.run}
             kept == appendAssistantDelta(bound, flushed)
             ends == Ends(kept, e, replay)
             refresh == IF ends \/ IsGap(store, n) THEN {"refresh"} ELSE {}
             more == IF e.kind = "delta" THEN {n} ELSE {}
             asks == e.kind \in {"ask", "resolved"}
             last == IF ends THEN finishNonTerminalConversations(kept)
                     ELSE IF asks THEN [kept EXCEPT !.permission = (e.kind = "ask")] ELSE kept
             rest == IF e.kind = "delta" THEN buffer \cup {n} ELSE buffer \ flushed
  <1>1. /\ counted \in Stores(Len(log)) /\ counted.running = store.running
        /\ Covered(counted, buffer \cup more)
    BY Counted
  <1>2. e.run \in Run
    BY Logged
  <1> HIDE DEF counted
  <1>3. /\ bound \in Stores(Len(log)) /\ (store.running => bound.running)
        /\ bound.cursor = counted.cursor /\ bound.shown = counted.shown
        /\ Jumped(bound) = Jumped(counted)
    <2>1. Len(log) \in Nat
      BY Logged
    <2>2. CASE binds
      BY <1>1, <1>2, <2>1, <2>2, Bound
    <2>3. CASE ~binds
      BY <1>1, <2>3
    <2>4. QED
      BY <2>2, <2>3
  <1>4. flushed \in SUBSET (1 .. Len(log)) /\ flushed \subseteq buffer
    OBVIOUS
  <1> HIDE DEF bound
  <1>5. /\ kept \in Stores(Len(log)) /\ (store.running => kept.running)
        /\ kept.cursor = bound.cursor /\ kept.shown = bound.shown \cup flushed
        /\ Jumped(kept) = Jumped(bound)
    <2> HIDE DEF flushed
    <2>1. QED
      BY <1>3, <1>4, Shows
  <1>6. Covered(kept, rest) /\ rest \subseteq 1 .. Len(log)
    <2>1. buffer \cup more \subseteq flushed \cup rest
      OBVIOUS
    <2>2. rest \subseteq 1 .. Len(log)
      BY <1>4
    <2> HIDE DEF flushed, rest, more, kept
    <2>3. QED
      BY <1>1, <1>3, <1>5, <2>1, <2>2 DEF Covered
  <1>7. replay => ~ends
    BY DEF Ends
  <1> HIDE DEF kept, ends, rest, flushed
  <1>8. /\ last \in Stores(Len(log))
        /\ last.cursor = kept.cursor /\ last.shown = kept.shown /\ Jumped(last) = Jumped(kept)
        /\ ~ends => last.running = kept.running
    <2>1. CASE ends
      <3>1. Len(log) \in Nat
        BY Logged
      <3>2. QED
        BY <1>5, <2>1, <3>1, Finished
    <2>2. CASE ~ends /\ asks
      <3>1. last = [kept EXCEPT !.permission = (e.kind = "ask")] /\ (e.kind = "ask") \in BOOLEAN
        BY <2>2
      <3> HIDE DEF last
      <3>2. QED
        BY <1>5, <3>1 DEF Stores, Jumped
    <2>3. CASE ~ends /\ ~asks
      BY <1>5, <2>3
    <2>4. QED
      BY <2>1, <2>2, <2>3
  <1>9. handleStreamingAgentEvent(n, replay)
          = [buffer |-> rest, due |-> due \cup refresh, store |-> last]
    BY DEF handleStreamingAgentEvent, counted, bound, flushed, kept, ends, rest
  <1> HIDE DEF last
  <1>10. Covered(last, rest)
    BY <1>6, <1>8 DEF Covered
  <1>11. QED
    BY <1>5, <1>6, <1>7, <1>8, <1>9, <1>10

-----------------------------------------------------------------------------
(* Streams *)

\* A prompt that settles closes the live stream and nothing else.
LEMMA Becomes ==
  ASSUME ServerOk, prompt \in Prompts,
         NEW next \in Stores(Len(log)), NEW streams \in Streams(Len(log)), NEW settle,
         Honest(streams["live"]), StoreBecomes(next, streams, settle)
  PROVE  /\ store' = next /\ prompt' \in Prompts
         /\ stream' \in Streams(Len(log)) /\ Honest(stream'["live"])
  <1>1. store' = next /\ prompt' \in Prompts
    <2>1. Idle \in Prompts
      BY DEF Idle, Prompts
    <2>2. QED
      BY <2>1 DEF StoreBecomes
  <1>2. CASE Settles(next, settle)
    <2>1. stream' = [streams EXCEPT !["live"] = NoStream]
      BY <1>2 DEF StoreBecomes
    <2>2. stream' \in Streams(Len(log)) /\ stream'["live"] = NoStream
      BY <2>1 DEF Streams, Source
    <2>3. QED
      BY <1>1, <2>2 DEF Honest, NoStream
  <1>3. CASE ~Settles(next, settle)
    BY <1>1, <1>3 DEF StoreBecomes
  <1>4. QED
    BY <1>2, <1>3

\* A new connection starts with the history.
LEMMA Opens ==
  ASSUME ServerOk, NEW after \in 0 .. Len(log)
  PROVE  OpenStream(after) \in Opened(Len(log)) /\ Honest(OpenStream(after))
  <1>1. Len(log) \in Nat
    BY Logged
  <1>2. QED
    BY <1>1 DEF OpenStream, Opened, Honest

-----------------------------------------------------------------------------
(* Steps *)

\* A step that leaves the log alone keeps the invariant when what it leaves
\* behind has the types of before.
LEMMA SameLog ==
  ASSUME Inv, log' = log,
         active' \in Run \cup {NoRun}, runs' \in 0 .. MaxRuns, asking' \in BOOLEAN,
         here' \in BOOLEAN, stop' \in BOOLEAN, prompt' \in Prompts,
         store' \in Stores(Len(log)), buffer' \subseteq 1 .. Len(log), Covered(store', buffer'),
         stream' \in Streams(Len(log)), Honest(stream'["live"]),
         status' \in Statuses, chat' \in Chats(Len(log)), due' \subseteq {"refresh", "load"}
  PROVE  Inv'
  <1>1. ServerOk'
    BY DEF Inv, ServerOk
  <1>2. PanelOk' /\ RequestsOk' /\ ReplayOk'
    BY DEF PanelOk, RequestsOk, ReplayOk
  <1>3. UnshownWasJumped'
    BY DEF UnshownWasJumped, Covered, Deltas
  <1>4. QED
    BY <1>1, <1>2, <1>3 DEF Inv

\* A step that puts an event to the log and leaves the panel alone keeps it.
LEMMA NewEvent ==
  ASSUME Inv, NEW kind, NEW run \in Run, Appended(kind, run),
         kind \in {"started", "delta", "ask", "resolved", "ended"},
         active' \in Run \cup {NoRun}, runs' \in 0 .. MaxRuns, asking' \in BOOLEAN,
         here' = here, stop' \in BOOLEAN, prompt' \in Prompts, store' = store, buffer' = buffer,
         stream' = stream, UNCHANGED requestVars
  PROVE  Inv'
  <1>1. Len(log) \in Nat /\ ServerOk /\ PanelOk /\ RequestsOk
    BY Logged DEF Inv
  <1>2. Len(log') = Len(log) + 1 /\ \A u \in 0 .. Len(log) : Deltas(u)' = Deltas(u)
    BY <1>1, Appends DEF Appended
  <1>3. ServerOk'
    <2>1. [kind |-> kind, run |-> run] \in Event
      BY DEF Event
    <2>2. log' \in Seq(Event)
      BY <1>1, <2>1 DEF Appended, ServerOk
    <2>3. QED
      BY <2>2 DEF ServerOk
  <1>4. /\ 1 .. Len(log) \subseteq 1 .. Len(log') /\ Stores(Len(log)) \subseteq Stores(Len(log'))
        /\ Streams(Len(log)) \subseteq Streams(Len(log'))
        /\ Chats(Len(log)) \subseteq Chats(Len(log'))
    <2>1. Len(log') \in Nat /\ Len(log) <= Len(log')
      BY <1>1, <1>2
    <2>2. QED
      BY <1>1, <2>1, Widen
  <1>5. PanelOk'
    BY <1>1, <1>4 DEF PanelOk
  <1>6. RequestsOk'
    BY <1>1, <1>4 DEF RequestsOk, requestVars
  <1>7. UnshownWasJumped'
    <2>1. store.cursor \in 0 .. Len(log)
      BY <1>1 DEF PanelOk, Stores
    <2>2. Deltas(store.cursor)' = Deltas(store.cursor)
      <3>1. Deltas(store.cursor)' = {n \in 1 .. store.cursor : log'[n].kind = "delta"}
        BY DEF Deltas
      <3>2. {n \in 1 .. store.cursor : log'[n].kind = "delta"} = Deltas(store.cursor)
        BY <1>2, <2>1 DEF Deltas
      <3>3. QED
        BY <3>1, <3>2
    <2>3. QED
      BY <2>2 DEF Inv, UnshownWasJumped
  <1>8. ReplayOk'
    BY DEF Inv, ReplayOk
  <1>9. QED
    BY <1>3, <1>5, <1>6, <1>7, <1>8 DEF Inv

\* The parts of the invariant in the form the steps use.
LEMMA Parts ==
  ASSUME Inv
  PROVE  /\ ServerOk /\ Len(log) \in Nat
         /\ active \in Run \cup {NoRun} /\ runs \in 0 .. MaxRuns /\ asking \in BOOLEAN
         /\ here \in BOOLEAN /\ stop \in BOOLEAN /\ prompt \in Prompts
         /\ store \in Stores(Len(log)) /\ buffer \subseteq 1 .. Len(log)
         /\ Covered(store, buffer)
         /\ stream \in Streams(Len(log)) /\ Honest(stream["live"])
         /\ status \in Statuses /\ chat \in Chats(Len(log)) /\ due \subseteq {"refresh", "load"}
  <1>1. Len(log) \in Nat
    BY Logged DEF Inv
  <1>2. QED
    BY <1>1 DEF Inv, ServerOk, PanelOk, RequestsOk, UnshownWasJumped, Covered, ReplayOk

\* The empty values have their types.
LEMMA Nothing ==
  ASSUME NEW m \in Nat
  PROVE  /\ NoRequest \in Statuses /\ NoRequest \in Chats(m)
         /\ Idle \in Prompts /\ NoStream \notin Opened(m)
         /\ Honest(NoStream)
  BY DEF Statuses, Chats, Idle, Prompts, NoStream, Opened, Honest

\* A status that is asked for says what the server says.
LEMMA Asked ==
  ASSUME Inv, NEW by \in {"permissions", "recover", "wait"}
  PROVE  AskedStatus(by) \in Statuses /\ AskedUnlessBusy(by) \in Statuses
  <1>1. AskedStatus(by) \in Statuses
    <2>1. (active # NoRun) \in BOOLEAN
      OBVIOUS
    <2>2. QED
      BY <2>1, Parts DEF AskedStatus, Statuses
  <1>2. QED
    BY <1>1, Parts DEF AskedUnlessBusy

\* An open stream.
LEMMA OpenOne ==
  ASSUME Inv, NEW s \in Source, stream[s].open
  PROVE  stream[s] \in Opened(Len(log))
  BY Parts DEF Streams, NoStream

\* An open stream counts events.
LEMMA Counts ==
  ASSUME Inv, NEW u \in Opened(Len(log))
  PROVE  /\ {u.at, u.id, u.mark, u.since} \subseteq Nat
         /\ {u.at, u.id, u.mark, u.since} \subseteq 0 .. Len(log)
         /\ u.open
  <1>1. 0 .. Len(log) \subseteq Nat
    OBVIOUS
  <1>2. /\ u.at \in 0 .. Len(log) /\ u.id \in 0 .. Len(log) /\ u.mark \in 0 .. Len(log)
        /\ u.since \in 0 .. Len(log) /\ u.open
    BY DEF Opened
  <1>3. QED
    BY <1>1, <1>2

\* A stream that becomes another one.
LEMMA Restreamed ==
  ASSUME Inv, NEW s \in Source, NEW t \in {NoStream} \cup Opened(Len(log)),
         s = "live" => Honest(t)
  PROVE  /\ [stream EXCEPT ![s] = t] \in Streams(Len(log))
         /\ Honest([stream EXCEPT ![s] = t]["live"])
  BY Parts DEF Streams, Source

\* The server's run says something or ends.
LEMMA ServerStep ==
  ASSUME Inv, ServerWorks
  PROVE  Inv'
  <1>1. active \in Run /\ active' \in Run \cup {NoRun} /\ asking' \in BOOLEAN
    BY Parts DEF ServerWorks
  <1>2. PICK kind \in {"delta", "ask", "resolved", "ended"} : Appended(kind, active)
    BY DEF ServerWorks
  <1>3. QED
    BY <1>1, <1>2, Parts, NewEvent DEF ServerWorks

\* An event that a stream brings.  It ends the prompt only when the history is
\* over.
LEMMA ArrivalStep ==
  ASSUME Inv, NEW s \in Source, EventArrives(s)
  PROVE  /\ Inv'
         /\ (s = "live" /\ store.running /\ ~store'.running)
              => stream["live"].at >= stream["live"].since \/ stream["live"].cut
  <1> DEFINE n == stream[s].at + 1
             received == [stream EXCEPT ![s].at = n, ![s].id = n]
             t == [stream[s] EXCEPT !.at = n, !.id = n]
             after(next) == IF s = "resumed" /\ log[n].kind = "ended" /\ ~next.running
                              THEN [received EXCEPT ![s] = NoStream] ELSE received
  <1>1. stream[s] \in Opened(Len(log)) /\ n \in 1 .. Len(log) /\ n <= Len(log)
    <2>1. stream[s] \in Opened(Len(log)) /\ n <= Len(log)
      BY OpenOne DEF EventArrives, Listening
    <2>2. stream[s].at \in 0 .. Len(log) /\ Len(log) \in Nat
      BY <2>1, Parts DEF Opened
    <2>3. QED
      BY <2>1, <2>2
  <1>2. t \in Opened(Len(log)) /\ (s = "live" => Honest(t))
    <2> DEFINE u == stream[s]
    <2>1. u \in Opened(Len(log)) /\ u.at + 1 \in 0 .. Len(log) /\ (s = "live" => Honest(u))
      BY <1>1, Parts
    <2> HIDE DEF u
    <2>2. [u EXCEPT !.at = u.at + 1, !.id = u.at + 1] \in Opened(Len(log))
      BY <2>1 DEF Opened
    <2>3. u.at \in Nat /\ u.id \in Nat /\ u.since \in Nat
      BY <2>1, Counts
    <2>4. s = "live" => Honest([u EXCEPT !.at = u.at + 1, !.id = u.at + 1])
      BY <2>1, <2>3 DEF Opened, Honest
    <2>5. QED
      BY <2>2, <2>4 DEF u
  <1>3. received = [stream EXCEPT ![s] = t]
    BY Parts DEF Streams
  <1>4. received \in Streams(Len(log)) /\ Honest(received["live"])
    <2> HIDE DEF t, received
    <2>1. QED
      BY <1>2, <1>3, Restreamed
  <1>5. /\ log' = log /\ active' = active /\ runs' = runs /\ asking' = asking
        /\ here' = here /\ stop' = stop /\ status' = status /\ chat' = chat
    BY DEF EventArrives, serverVars
  <1>6. ASSUME NEW next
        PROVE  after(next) \in Streams(Len(log)) /\ Honest(after(next)["live"])
    <2> DEFINE closed == [received EXCEPT ![s] = NoStream]
    <2>1. CASE s = "resumed"
      <3>1. closed = [stream EXCEPT ![s] = NoStream]
        BY <1>3, Parts DEF Streams
      <3>2. closed \in Streams(Len(log)) /\ Honest(closed["live"])
        BY <3>1, Restreamed, Nothing, Parts
      <3> HIDE DEF closed, t, received
      <3>3. QED
        BY <1>4, <3>2 DEF closed
    <2>2. CASE s # "resumed"
      <3> HIDE DEF t, received
      <3>1. QED
        BY <1>4, <2>2
    <2>3. QED
      BY <2>1, <2>2
  <1> HIDE DEF t, received, after
  <1>7. CASE StoreBecomes(store, after(store), FALSE) /\ UNCHANGED <<buffer, due>>
    <2>1. /\ after(store) \in Streams(Len(log)) /\ Honest(after(store)["live"])
      BY <1>6
    <2>2. /\ store' = store /\ prompt' \in Prompts
          /\ stream' \in Streams(Len(log)) /\ Honest(stream'["live"])
      BY <1>7, <2>1, Parts, Becomes
    <2>3. QED
      BY <1>5, <1>7, <2>2, Parts, SameLog
  <1>8. CASE /\ store.cursor = 0 \/ n > store.cursor
             /\ LET next == handleStreamingAgentEvent(n, s = "live" /\ stream[s].replaying)
                IN /\ StoreBecomes(next.store, after(next.store), FALSE)
                   /\ buffer' = next.buffer /\ due' = next.due
    <2> DEFINE replay == s = "live" /\ stream[s].replaying
               next == handleStreamingAgentEvent(n, replay)
    <2>1. replay \in BOOLEAN
      BY <1>1 DEF Opened
    <2>2. /\ StoreBecomes(next.store, after(next.store), FALSE)
          /\ buffer' = next.buffer /\ due' = next.due
      BY <1>8
    <2> HIDE DEF n, replay
    <2>3. /\ next.store \in Stores(Len(log)) /\ next.buffer \subseteq 1 .. Len(log)
          /\ next.due \subseteq {"refresh", "load"}
          /\ Covered(next.store, next.buffer)
          /\ (replay /\ store.running) => next.store.running
      BY <1>1, <1>8, <2>1, Parts, Handled
    <2> HIDE DEF next
    <2>4. after(next.store) \in Streams(Len(log)) /\ Honest(after(next.store)["live"])
      BY <1>6
    <2>5. /\ store' = next.store /\ prompt' \in Prompts
          /\ stream' \in Streams(Len(log)) /\ Honest(stream'["live"])
      BY <2>2, <2>3, <2>4, Parts, Becomes
    <2>6. Inv'
      BY <1>5, <2>2, <2>3, <2>5, Parts, SameLog
    <2>7. (s = "live" /\ store.running /\ ~store'.running)
            => stream["live"].at >= stream["live"].since \/ stream["live"].cut
      <3>1. s = "live" => Honest(stream[s]) /\ stream[s].open
        BY <1>1, Parts DEF Opened
      <3>2. stream[s].at \in Nat /\ stream[s].id \in Nat /\ stream[s].since \in Nat
        BY <1>1, Counts
      <3>3. s = "live" /\ ~stream["live"].replaying
              => stream["live"].at >= stream["live"].since \/ stream["live"].cut
        BY <3>1, <3>2 DEF Honest
      <3>4. QED
        BY <2>3, <2>5, <3>3 DEF replay
    <2>8. QED
      BY <2>6, <2>7
  <1>9. QED
    BY <1>7, <1>8 DEF EventArrives, received, after

\* The history has been sent, or the rest of it is left out.
LEMMA ReplayedStep ==
  ASSUME Inv, NEW s \in Source, ReplayCompleted(s)
  PROVE  Inv'
  <1> DEFINE u == stream[s]
             whole == [u EXCEPT !.sending = FALSE, !.replaying = FALSE]
             part == [u EXCEPT !.sending = FALSE, !.replaying = FALSE, !.at = u.mark, !.cut = TRUE]
  <1>1. u \in Opened(Len(log)) /\ (s = "live" => Honest(u))
    BY OpenOne, Parts DEF ReplayCompleted, Listening
  <1>2. \/ u.at >= u.mark /\ stream' = [stream EXCEPT ![s] = whole]
        \/ u.at < u.mark /\ stream' = [stream EXCEPT ![s] = part]
    BY Parts DEF ReplayCompleted, Streams
  <1> HIDE DEF u
  <1>3. whole \in Opened(Len(log)) /\ part \in Opened(Len(log))
    BY <1>1 DEF Opened
  <1>4. u.at \in Nat /\ u.id \in Nat /\ u.mark \in Nat /\ u.since \in Nat
    BY <1>1, Counts
  <1>5. s = "live" /\ u.at >= u.mark => Honest(whole)
    BY <1>1, <1>4 DEF Honest, Opened
  <1>6. s = "live" /\ u.at < u.mark => Honest(part)
    BY <1>1, <1>4 DEF Honest, Opened
  <1> HIDE DEF whole, part
  <1>7. stream' \in Streams(Len(log)) /\ Honest(stream'["live"])
    BY <1>2, <1>3, <1>5, <1>6, Restreamed
  <1>8. status' \in Statuses
    BY Asked, Parts DEF ReplayCompleted
  <1>9. QED
    BY <1>7, <1>8, Parts, SameLog DEF ReplayCompleted, serverVars

\* A stream connects again, with what was missed as its history.
LEMMA ReconnectStep ==
  ASSUME Inv, NEW s \in Source, Reconnect(s)
  PROVE  Inv'
  <1> DEFINE u == stream[s]
             t == [u EXCEPT !.up = TRUE, !.sending = TRUE, !.at = u.id, !.mark = Len(log)]
  <1>1. u \in Opened(Len(log))
    BY OpenOne DEF Reconnect
  <1>2. (s = "live" => Honest(u)) /\ stream' = [stream EXCEPT ![s] = t]
    BY Parts DEF Reconnect, Streams
  <1> HIDE DEF u
  <1>3. t \in Opened(Len(log)) /\ (s = "live" => Honest(t))
    <2>1. /\ u.id \in 0 .. Len(log) /\ u.since \in 0 .. Len(log) /\ Len(log) \in Nat
          /\ Len(log) \in 0 .. Len(log)
      BY <1>1, Counts, Parts
    <2>2. t \in Opened(Len(log))
      BY <1>1, <2>1 DEF Opened
    <2>3. s = "live" => Honest(t)
      BY <1>1, <1>2, <2>1 DEF Honest, Opened
    <2>4. QED
      BY <2>2, <2>3
  <1> HIDE DEF t
  <1>4. stream' \in Streams(Len(log)) /\ Honest(stream'["live"])
    BY <1>2, <1>3, Restreamed
  <1>5. QED
    BY <1>4, Parts, SameLog DEF Reconnect, serverVars, requestVars

\* An event is lost, which happens after the history only.
LEMMA DropStep ==
  ASSUME Inv, NEW s \in Source, EventDropped(s)
  PROVE  Inv'
  <1> DEFINE u == stream[s]
             n == u.at + 1
             t == [u EXCEPT !.at = n]
  <1>1. u \in Opened(Len(log)) /\ ~u.sending /\ n <= Len(log)
    BY OpenOne DEF EventDropped, Listening
  <1>2. (s = "live" => Honest(u)) /\ stream' = [stream EXCEPT ![s] = t]
    BY Parts DEF EventDropped, Streams
  <1> HIDE DEF u
  <1>3. t \in Opened(Len(log)) /\ (s = "live" => Honest(t))
    <2>1. /\ u.at \in Nat /\ u.id \in Nat /\ u.mark \in Nat /\ u.since \in Nat
          /\ n \in 0 .. Len(log)
      BY <1>1, Counts, Parts
    <2>2. t \in Opened(Len(log))
      BY <1>1, <2>1 DEF Opened
    <2>3. s = "live" => Honest(t)
      BY <1>1, <1>2, <2>1 DEF Honest, Opened
    <2>4. QED
      BY <2>2, <2>3
  <1> HIDE DEF t
  <1>4. stream' \in Streams(Len(log)) /\ Honest(stream'["live"])
    BY <1>2, <1>3, Restreamed
  <1>5. QED
    BY <1>4, Parts, SameLog DEF EventDropped, serverVars, requestVars

\* A connection breaks.
LEMMA BreakStep ==
  ASSUME Inv, NEW s \in Source, ConnectionBreaks(s)
  PROVE  Inv'
  <1> DEFINE u == stream[s]
             t == [u EXCEPT !.up = FALSE]
  <1>1. u \in Opened(Len(log))
    BY OpenOne DEF ConnectionBreaks, Listening
  <1>2. (s = "live" => Honest(u)) /\ stream' = [stream EXCEPT ![s] = t]
    BY Parts DEF ConnectionBreaks, Streams
  <1> HIDE DEF u
  <1>3. t \in Opened(Len(log)) /\ (s = "live" => Honest(t))
    BY <1>1, <1>2 DEF Honest, Opened
  <1> HIDE DEF t
  <1>4. stream' \in Streams(Len(log)) /\ Honest(stream'["live"])
    BY <1>2, <1>3, Restreamed
  <1>5. QED
    BY <1>4, Parts, SameLog DEF ConnectionBreaks, serverVars, requestVars

\* Buffered output is shown.
LEMMA FlushStep ==
  ASSUME Inv, flushAssistantDeltaBuffer
  PROVE  Inv'
  <1>1. PICK n \in buffer :
          LET flushed == {m \in buffer : log[m].run = log[n].run} IN
          /\ buffer' = buffer \ flushed
          /\ StoreBecomes(appendAssistantDelta(store, flushed), stream, FALSE)
    BY DEF flushAssistantDeltaBuffer
  <1> DEFINE flushed == {m \in buffer : log[m].run = log[n].run}
             next == appendAssistantDelta(store, flushed)
  <1>2. flushed \in SUBSET (1 .. Len(log)) /\ flushed \subseteq buffer
    BY Parts
  <1>3. buffer' = buffer \ flushed /\ StoreBecomes(next, stream, FALSE)
    BY <1>1
  <1> HIDE DEF flushed
  <1>4. /\ next \in Stores(Len(log)) /\ next.cursor = store.cursor
        /\ next.shown = store.shown \cup flushed /\ Jumped(next) = Jumped(store)
    BY <1>2, Parts, Shows
  <1> HIDE DEF next
  <1>5. Covered(next, buffer')
    BY <1>3, <1>4, Parts DEF Covered
  <1>6. /\ store' = next /\ prompt' \in Prompts
        /\ stream' \in Streams(Len(log)) /\ Honest(stream'["live"])
    BY <1>3, <1>4, Parts, Becomes
  <1>7. buffer' \subseteq 1 .. Len(log)
    BY <1>3, Parts
  <1>8. QED
    BY <1>4, <1>5, <1>6, <1>7, Parts, SameLog DEF flushAssistantDeltaBuffer, serverVars, requestVars

\* What is shown after a run has ended, or a prompt begun, counts no more
\* output than before.
LEMMA Covers ==
  ASSUME Inv
  PROVE  /\ finishNonTerminalConversations(store) \in Stores(Len(log))
         /\ Covered(finishNonTerminalConversations(store), buffer)
         /\ startRun(store) \in Stores(Len(log)) /\ Covered(startRun(store), buffer)
  <1>1. Len(log) \in Nat /\ store \in Stores(Len(log)) /\ Covered(store, buffer)
    BY Parts
  <1>2. /\ finishNonTerminalConversations(store) \in Stores(Len(log))
        /\ Covered(finishNonTerminalConversations(store), buffer)
    BY <1>1, Finished DEF Covered
  <1>3. startRun(store) \in Stores(Len(log)) /\ Covered(startRun(store), buffer)
    BY <1>1, Started DEF Covered
  <1>4. QED
    BY <1>2, <1>3

\* A prompt that is over.
LEMMA Closes ==
  ASSUME Inv
  PROVE  /\ [stream EXCEPT !["live"] = NoStream] \in Streams(Len(log))
         /\ Honest([stream EXCEPT !["live"] = NoStream]["live"])
         /\ Idle \in Prompts
  <1>1. "live" \in Source /\ Honest(NoStream)
    BY DEF Source, Honest, NoStream
  <1>2. Idle \in Prompts
    BY DEF Idle, Prompts
  <1>3. QED
    BY <1>1, <1>2, Restreamed

\* The user sends a prompt.
LEMMA PromptStep ==
  ASSUME Inv, runAgentPrompt
  PROVE  Inv'
  <1>1. store.cursor \in 0 .. Len(log)
    BY Parts DEF Stores
  <1>2. OpenStream(store.cursor) \in Opened(Len(log)) /\ Honest(OpenStream(store.cursor))
    BY <1>1, Parts, Opens
  <1>3. stream' = [live |-> OpenStream(store.cursor), resumed |-> NoStream]
    BY DEF runAgentPrompt
  <1>4. stream' \in Streams(Len(log)) /\ Honest(stream'["live"])
    BY <1>2, <1>3 DEF Streams, Source
  <1>5. prompt' \in Prompts
    BY DEF runAgentPrompt, Prompts
  <1>6. store' \in Stores(Len(log)) /\ Covered(store', buffer)
    BY Covers DEF runAgentPrompt
  <1>7. QED
    BY <1>4, <1>5, <1>6, Parts, SameLog DEF runAgentPrompt, serverVars, requestVars

\* The stream of a prompt is there, or is not.
LEMMA ConnectedStep ==
  ASSUME Inv, Connected
  PROVE  Inv'
  <1>1. CASE /\ prompt' = [prompt EXCEPT !.at = "sending"]
             /\ status' = AskedUnlessBusy("permissions")
             /\ UNCHANGED <<store, stream, trouble>>
    <2>1. prompt' \in Prompts
      BY <1>1, Parts DEF Prompts
    <2>2. status' \in Statuses
      BY <1>1, Asked
    <2>3. QED
      BY <1>1, <2>1, <2>2, Parts, SameLog DEF Connected, serverVars
  <1>2. CASE /\ store' = finishNonTerminalConversations(store) /\ prompt' = Idle
             /\ stream' = [stream EXCEPT !["live"] = NoStream] /\ UNCHANGED status
    BY <1>2, Covers, Closes, Parts, SameLog DEF Connected, serverVars
  <1>3. QED
    BY <1>1, <1>2 DEF Connected

\* The server takes the prompt.
LEMMA SendStep ==
  ASSUME Inv, SendArrives
  PROVE  Inv'
  <1>1. runs + 1 \in Run /\ runs + 1 \in 0 .. MaxRuns
    BY Parts, Names DEF SendArrives, Run
  <1>2. prompt' \in Prompts
    BY <1>1, Parts DEF SendArrives, Prompts
  <1>3. QED
    BY <1>1, <1>2, Parts, NewEvent DEF SendArrives

\* The answer to the prompt.
LEMMA AnsweredStep ==
  ASSUME Inv, SendFails \/ SendAnswered
  PROVE  Inv'
  <1>1. CASE SendFails
    BY <1>1, Covers, Closes, Parts, SameLog DEF SendFails, serverVars, requestVars
  <1>2. CASE SendAnswered
    <2>1. [prompt EXCEPT !.at = "waiting"] \in Prompts
      BY Parts DEF Prompts
    <2>2. QED
      BY <1>2, <2>1, Closes, Parts, SameLog DEF SendAnswered, serverVars, requestVars
  <1>3. QED
    BY <1>1, <1>2

\* The user stops the run.
LEMMA StopStep ==
  ASSUME Inv, stopAgentRun
  PROVE  Inv'
  <1>1. CASE /\ active # NoRun /\ Appended("ended", active) /\ active' = NoRun /\ asking' = FALSE
             /\ stop' = TRUE
             /\ UNCHANGED <<runs, here, store, buffer, stream, prompt, requestVars>>
    <2>1. active \in Run
      BY <1>1, Parts
    <2>2. QED
      BY <1>1, <2>1, Parts, NewEvent
  <1>2. CASE /\ UNCHANGED <<log, active, asking>> /\ stop' = TRUE
             /\ UNCHANGED <<runs, here, store, buffer, stream, prompt, requestVars>>
    BY <1>2, Parts, SameLog DEF requestVars
  <1>3. CASE /\ stop' = FALSE
             /\ StoreBecomes(finishNonTerminalConversations(store), stream, FALSE)
             /\ UNCHANGED <<serverVars, here, buffer, requestVars, trouble>>
    <2>1. /\ store' = finishNonTerminalConversations(store) /\ prompt' \in Prompts
          /\ stream' \in Streams(Len(log)) /\ Honest(stream'["live"])
      BY <1>3, Covers, Parts, Becomes
    <2>2. QED
      BY <1>3, <2>1, Covers, Parts, SameLog DEF serverVars, requestVars
  <1>4. QED
    BY <1>1, <1>2, <1>3 DEF stopAgentRun

\* The status is asked for, or the prompt gives up.
LEMMA PollStep ==
  ASSUME Inv, Poll \/ PollElsewhere
  PROVE  Inv'
  <1>1. CASE Poll
    <2>1. status' \in Statuses
      BY <1>1, Asked DEF Poll
    <2>2. QED
      BY <1>1, <2>1, Parts, SameLog DEF Poll, serverVars
  <1>2. CASE PollElsewhere
    <2>1. /\ store' = store /\ prompt' \in Prompts
          /\ stream' \in Streams(Len(log)) /\ Honest(stream'["live"])
      BY <1>2, Parts, Becomes DEF PollElsewhere
    <2>2. QED
      BY <1>2, <2>1, Parts, SameLog DEF PollElsewhere, serverVars, requestVars
  <1>3. QED
    BY <1>1, <1>2

\* The status of the session ends the run or leaves the output alone.
LEMMA StatusStep ==
  ASSUME Inv, syncAgentSessionStatus
  PROVE  Inv'
  <1> DEFINE terminal == ~status.running /\ status.by \in {"wait", "recover"}
             synced == syncPermissionRequests(store)
             next == IF terminal THEN finishNonTerminalConversations(synced) ELSE synced
  <1>1. /\ synced \in Stores(Len(log)) /\ synced.cursor = store.cursor
        /\ synced.shown = store.shown /\ Jumped(synced) = Jumped(store)
    <2>1. status.asking \in BOOLEAN
      BY Parts DEF syncAgentSessionStatus, Statuses
    <2>2. QED
      BY <2>1, Parts DEF syncPermissionRequests, Stores, Jumped
  <1>2. StoreBecomes(next, stream, FALSE) /\ due' \subseteq {"refresh", "load"}
    BY Parts DEF syncAgentSessionStatus
  <1> HIDE DEF synced
  <1>3. next \in Stores(Len(log)) /\ Covered(next, buffer)
    <2>1. Len(log) \in Nat /\ Covered(store, buffer)
      BY Parts
    <2>2. /\ finishNonTerminalConversations(synced) \in Stores(Len(log))
          /\ Covered(finishNonTerminalConversations(synced), buffer)
      BY <1>1, <2>1, Finished DEF Covered
    <2>3. QED
      BY <1>1, <2>1, <2>2 DEF Covered
  <1> HIDE DEF next
  <1>4. /\ store' = next /\ prompt' \in Prompts
        /\ stream' \in Streams(Len(log)) /\ Honest(stream'["live"])
    BY <1>2, <1>3, Parts, Becomes
  <1>5. status' \in Statuses
    BY DEF syncAgentSessionStatus, Statuses
  <1>6. QED
    BY <1>2, <1>3, <1>4, <1>5, Parts, SameLog DEF syncAgentSessionStatus, serverVars

\* A transcript is asked for.
LEMMA AskStep ==
  ASSUME Inv, NEW by \in {"refresh", "load"}, AskChat(by)
  PROVE  Inv'
  <1>1. Len(log) \in 0 .. Len(log) /\ (active # NoRun) \in BOOLEAN /\ asking \in BOOLEAN
    BY Parts
  <1>2. chat' \in Chats(Len(log)) /\ due' \subseteq {"refresh", "load"}
    BY <1>1, Parts DEF AskChat, Chats
  <1>3. QED
    BY <1>2, Parts, SameLog DEF AskChat, serverVars

\* A transcript is put in the store's place or dropped.
LEMMA TranscriptStep ==
  ASSUME Inv, refreshAgentChatTranscript
  PROVE  Inv'
  <1> DEFINE resumes == chat.by = "load" /\ chat.running /\ ~stream["resumed"].open
             hydrated == hydrateAgentChatState(store, chat.upto, chat.running, chat.asking)
             next == IF shouldPreserveLocalTranscript(store, chat.upto) THEN store ELSE hydrated
             streams == IF resumes THEN [stream EXCEPT !["resumed"] = OpenStream(chat.upto)]
                        ELSE stream
  <1>1. chat.upto \in 0 .. Len(log) /\ chat.running \in BOOLEAN /\ chat.asking \in BOOLEAN
    BY Parts DEF refreshAgentChatTranscript, Chats
  <1>2. next \in Stores(Len(log)) /\ Covered(next, buffer)
    <2>1. hydrated \in Stores(Len(log)) /\ Covered(hydrated, buffer)
      BY <1>1, Parts, Hydrated
    <2> HIDE DEF hydrated
    <2>2. QED
      BY <2>1, Parts
  <1>3. streams \in Streams(Len(log)) /\ Honest(streams["live"])
    <2>1. OpenStream(chat.upto) \in Opened(Len(log)) /\ Honest(OpenStream(chat.upto))
      BY <1>1, Parts, Opens
    <2>2. "resumed" \in Source
      BY DEF Source
    <2>3. QED
      BY <2>1, <2>2, Parts, Restreamed
  <1>4. StoreBecomes(next, streams, FALSE)
    BY DEF refreshAgentChatTranscript
  <1> HIDE DEF next, streams
  <1>5. /\ store' = next /\ prompt' \in Prompts
        /\ stream' \in Streams(Len(log)) /\ Honest(stream'["live"])
    BY <1>2, <1>3, <1>4, Parts, Becomes
  <1>6. status' \in Statuses /\ chat' \in Chats(Len(log))
    BY Asked, Parts DEF refreshAgentChatTranscript, Chats
  <1>7. QED
    BY <1>2, <1>5, <1>6, Parts, SameLog DEF refreshAgentChatTranscript, serverVars

\* A request fails.
LEMMA FailStep ==
  ASSUME Inv, RequestFails
  PROVE  Inv'
  <1>1. status' \in Statuses /\ chat' \in Chats(Len(log))
    BY Parts DEF RequestFails, Statuses, Chats
  <1>2. QED
    BY <1>1, Parts, SameLog DEF RequestFails, serverVars

\* The panel is opened or left.
LEMMA VisitStep ==
  ASSUME Inv, VisitRoute
  PROVE  Inv'
  <1>1. CASE /\ here /\ due' = due \cup {"load"}
             /\ UNCHANGED <<here, store, buffer, stream, chat, status>>
    BY <1>1, Parts, SameLog DEF VisitRoute, serverVars
  <1>2. CASE /\ here' = ~here
             /\ store' = EmptyStore /\ buffer' = {}
             /\ stream' = [stream EXCEPT !["resumed"] = NoStream]
             /\ due' = IF here THEN due \ {"load"} ELSE due \cup {"load"}
             /\ chat' = IF chat.by = "load" THEN NoRequest ELSE chat
             /\ status' = IF status.by = "recover" THEN NoRequest ELSE status
    <2>1. store' \in Stores(Len(log)) /\ Covered(store', buffer')
      BY <1>2, Parts, Emptied
    <2>2. stream' \in Streams(Len(log)) /\ Honest(stream'["live"])
      <3>1. "resumed" \in Source
        BY DEF Source
      <3>2. QED
        BY <1>2, <3>1, Parts, Restreamed
    <2>3. status' \in Statuses /\ chat' \in Chats(Len(log))
      BY <1>2, Parts, Nothing
    <2>4. due' \subseteq {"refresh", "load"} /\ here' \in BOOLEAN
      BY <1>2, Parts
    <2>5. QED
      BY <1>2, <2>1, <2>2, <2>3, <2>4, Parts, SameLog DEF VisitRoute, serverVars
  <1>3. QED
    BY <1>1, <1>2 DEF VisitRoute

\* Stuttering.
LEMMA StutterStep ==
  ASSUME Inv, UNCHANGED vars
  PROVE  Inv'
  BY Parts, SameLog DEF vars, serverVars, requestVars

\* The panel starts with nothing.
LEMMA InitInv == Init => Inv
  <1> SUFFICES ASSUME Init PROVE Inv
    OBVIOUS
  <1>1. ServerOk
    <2>1. log = <<>> /\ active = NoRun /\ runs = 0 /\ asking = FALSE
      BY DEF Init
    <2>2. <<>> \in Seq(Event) /\ 0 \in 0 .. MaxRuns
      BY ChatAssumption
    <2>3. QED
      BY <2>1, <2>2 DEF ServerOk
  <1>2. store \in Stores(Len(log)) /\ Covered(store, buffer)
    BY <1>1, Emptied DEF Init
  <1>3. PanelOk
    BY <1>2 DEF Init, PanelOk, Idle, Prompts
  <1>4. stream["live"] = NoStream
    BY DEF Init, Source
  <1>5. RequestsOk
    <2>1. stream \in Streams(Len(log))
      BY DEF Init, Streams
    <2>2. status \in Statuses /\ chat \in Chats(Len(log)) /\ due = {}
      BY DEF Init, Statuses, Chats
    <2>3. QED
      BY <2>1, <2>2 DEF RequestsOk
  <1>6. ReplayOk
    BY <1>4 DEF ReplayOk, Honest, NoStream
  <1>7. QED
    BY <1>1, <1>2, <1>3, <1>5, <1>6 DEF Inv, UnshownWasJumped, Covered

\* Every step keeps the invariant.
LEMMA NextInv == Inv /\ [Next]_vars => Inv'
  <1> SUFFICES ASSUME Inv, [Next]_vars PROVE Inv'
    OBVIOUS
  <1>1. CASE ServerWorks
    BY <1>1, ServerStep
  <1>2. ASSUME NEW s \in Source, Stream(s) \/ EventDropped(s) \/ ConnectionBreaks(s)
        PROVE  Inv'
    BY <1>2, ArrivalStep, ReplayedStep, ReconnectStep, DropStep, BreakStep DEF Stream
  <1>3. CASE flushAssistantDeltaBuffer
    BY <1>3, FlushStep
  <1>4. CASE runAgentPrompt \/ Prompt \/ stopAgentRun
    BY <1>4, PromptStep, ConnectedStep, SendStep, AnsweredStep, StopStep DEF Prompt
  <1>5. CASE Poll \/ syncAgentSessionStatus \/ PollElsewhere
    BY <1>5, PollStep, StatusStep
  <1>6. CASE Transcripts
    BY <1>6, AskStep, TranscriptStep DEF Transcripts
  <1>7. CASE RequestFails \/ VisitRoute
    BY <1>7, FailStep, VisitStep
  <1>8. CASE UNCHANGED vars
    BY <1>8, StutterStep
  <1>9. QED
    BY <1>1, <1>2, <1>3, <1>4, <1>5, <1>6, <1>7, <1>8 DEF Next

\* The invariant that the theorems stand on.
THEOREM Invariant == Spec => []Inv
  BY InitInv, NextInv, PTL DEF Spec

\* The log, the store, the streams, the prompt and the requests have their
\* types; the cursor and all that is shown lie in the log.
THEOREM TypeCorrect == Spec => []TypeOK
  <1>1. ASSUME Inv PROVE TypeOK
    <2>1. store \in Stored
      BY <1>1, Parts DEF Stores, Stored, Conversations
    <2>2. ASSUME NEW s \in Source, stream[s].open
          PROVE  /\ {stream[s].up, stream[s].sending, stream[s].replaying, stream[s].cut}
                      \subseteq BOOLEAN
                 /\ {stream[s].at, stream[s].id, stream[s].mark, stream[s].since}
                      \subseteq 0 .. Len(log)
      <3>1. stream[s] \in Opened(Len(log))
        BY <1>1, <2>2, OpenOne
      <3>2. QED
        BY <1>1, <3>1, Counts DEF Opened
    <2>3. status.by \in {"none", "permissions", "recover", "wait"}
      BY <1>1, Parts DEF Statuses, NoRequest
    <2>4. chat.by \in {"none", "refresh", "load"}
      BY <1>1, Parts DEF Chats, NoRequest
    <2>5. log \in Seq([kind : {"started", "delta", "ask", "resolved", "ended"}, run : Run])
      BY <1>1 DEF Inv, ServerOk, Event
    <2>6. prompt \in [at : {"idle", "connecting", "sending", "waiting"}, run : Run \cup {NoRun}]
      BY <1>1, Parts DEF Prompts
    <2>7. QED
      BY <1>1, <2>1, <2>2, <2>3, <2>4, <2>5, <2>6, Parts DEF TypeOK
  <1>2. QED
    BY <1>1, Invariant, PTL

\* Output of the agent behind the cursor that is neither shown nor about to be
\* was jumped over, by a gap or by the first event of an empty store, whatever
\* streams, reconnections and transcripts overlap: none was dropped as a
\* duplicate.
THEOREM OnlyJumpsHide == Spec => []UnshownWasJumped
  <1>1. Inv => UnshownWasJumped
    BY DEF Inv
  <1>2. QED
    BY <1>1, Invariant, PTL

\* The history that the live stream of a prompt replays never ends the
\* prompt, however often the connection breaks meanwhile, as long as the server
\* could read the history.
THEOREM HistoryIsHarmless == Spec => HistoryEndsNothing
  <1>1. ASSUME Inv, EventArrives("live"), store.running, ~store'.running
        PROVE  stream["live"].at >= stream["live"].since \/ stream["live"].cut
    <2>1. "live" \in Source
      BY DEF Source
    <2>2. QED
      BY <1>1, <2>1, ArrivalStep
  <1>2. Inv /\ [Next]_vars =>
          [(EventArrives("live") /\ store.running /\ ~store'.running) =>
             stream["live"].at >= stream["live"].since \/ stream["live"].cut]_vars
    BY <1>1
  <1>3. QED
    BY <1>2, Invariant, PTL DEF Spec, HistoryEndsNothing

=============================================================================
