-------------------------- MODULE PromptPackEditor --------------------------
(***************************************************************************)
(* The prompt pack editor: a desktop window of its own in which the user   *)
(* edits a draft of a local pack, kept in localStorage, and saves the      *)
(* whole of it under the revision it was started from.                     *)
(*                                                                         *)
(* Three processes take part.  Electron's main process (electron/src/      *)
(* main.ts) opens the window and asks its page before it lets the window   *)
(* or the application go.  The page (pages/PromptPackEditor.tsx and        *)
(* PromptPackWorkspace.tsx) keeps the drafts, an SWR cache of the packs'   *)
(* contents and at most one save.  The server holds the packs, which the   *)
(* settings of the main window change as well.                             *)
(*                                                                         *)
(* The contents of a pack are the set of its entries; adding or removing   *)
(* one stands for every edit of an entry or a category.  The server's      *)
(* revision is a hash of the contents, so contents are their own revision. *)
(***************************************************************************)
EXTENDS Naturals, FiniteSets

CONSTANTS Pack,
          Mine,        \* entries the editor may add or remove
          Unnamed,     \* those of them that fail the draft's validation
          Theirs,      \* entries the settings of the main window may add or remove
          None,
          MaxGestures, \* bound on the edits of drafts and on the wishes to close and to quit
          MaxTrouble   \* bound on failed saves, edits of others, deletions,
                       \* loads of the page and restarts

Entry == Mine \cup Theirs
Contents == [pack : Pack, body : SUBSET Entry]
Draft == [base : SUBSET Entry, working : SUBSET Entry]
Request == [pack : Pack, base : SUBSET Entry, working : SUBSET Entry]

ASSUME PackAssumption ==
  /\ None \notin Pack /\ None \notin Draft
  /\ Unnamed \subseteq Mine /\ Mine \cap Theirs = {}
  /\ MaxGestures \in Nat /\ MaxTrouble \in Nat

VARIABLES packs,         \* the server's contents of each pack, None once deleted
          drafts,        \* draftsByPackId, in localStorage
          cache,         \* what SWR holds under each pack's contents key
          due,           \* packs whose contents the page is about to fetch
          page,          \* the window and its page: closed, loading or open
          selected,      \* the packId of the route
          isEditing,
          saving,        \* the save the page waits for
          deleting,      \* the pack whose deletion the page waits for
          orphans,       \* saves whose page went away before they were answered
          closing,       \* pendingPromptPackEditorClose
          wire,          \* between main process and page: idle, asked or answered
          app,           \* running or exited
          gestures, trouble

serverVars == <<packs, orphans>>
pageVars == <<cache, due, page, selected, isEditing, saving, deleting>>
mainVars == <<closing, wire, app>>
vars == <<packs, drafts, cache, due, page, selected, isEditing, saving, deleting, orphans,
          closing, wire, app, gestures, trouble>>

Gesture == gestures < MaxGestures /\ gestures' = gestures + 1
Trouble == trouble < MaxTrouble /\ trouble' = trouble + 1

Init ==
  /\ packs = [p \in Pack |-> {}]
  /\ drafts = [p \in Pack |-> None]
  /\ cache = [p \in Pack |-> None] /\ due = {}
  /\ page = "closed" /\ selected = None /\ isEditing = FALSE
  /\ saving = None /\ deleting = None /\ orphans = {}
  /\ closing = None /\ wire = "idle" /\ app = "running"
  /\ gestures = 0 /\ trouble = 0

-----------------------------------------------------------------------------
(* The page comes and goes *)

\* What a page that is loaded, closed or killed takes with it: all but the
\* drafts.  A save it had sent is with the server all the same; of a pack it was
\* deleting, the draft stays behind.
PageGone ==
  /\ cache' = [p \in Pack |-> None] /\ due' = {}
  /\ selected' = None /\ isEditing' = FALSE /\ saving' = None /\ deleting' = None
  /\ orphans' = IF saving # None /\ saving.at = "sent"
                THEN orphans \cup {[pack |-> saving.pack, base |-> saving.base,
                                    working |-> saving.working]}
                ELSE orphans

\* Fault: a request to close outlives its window.
WindowClosedUnasked == page' = "closed" /\ PageGone /\ wire' = "idle" /\ UNCHANGED closing

\* The handler of "closed", which also resets promptPackEditorCloseAllowed.
WindowClosed ==
  /\ page' = "closed" /\ PageGone
  /\ closing' = None /\ wire' = "idle"

\* A new window, or a window that is open loads its route again; what the
\* main process still expects from the page then stays expected.
OpenEditor ==
  /\ app = "running"
  /\ page # "closed" => Trouble
  /\ page = "closed" => UNCHANGED trouble
  /\ page' = "loading" /\ PageGone
  /\ IF page = "closed" THEN closing' = None /\ wire' = "idle"
                        ELSE UNCHANGED <<closing, wire>>
  /\ UNCHANGED <<packs, drafts, app, gestures>>

PageReady ==
  /\ page = "loading" /\ page' = "open"
  /\ UNCHANGED <<packs, drafts, cache, due, selected, isEditing, saving, deleting, orphans,
                 closing, wire, app, gestures, trouble>>

\* Fault: the last wish counts.
AskLatest(action) ==
  /\ closing' = action
  /\ wire' = IF closing = None THEN "asked" ELSE wire

\* requestPromptPackEditorClose(action) where the window exists: the page is
\* asked once, and a later wish to quit outranks the wish to close.
Ask(action) ==
  IF closing = None THEN closing' = action /\ wire' = "asked"
  ELSE closing' = (IF action = "quit" THEN "quit" ELSE closing) /\ UNCHANGED wire

\* The handler of the window's "close".
CloseWindow ==
  /\ app = "running" /\ page # "closed" /\ Gesture
  /\ Ask("close")
  /\ UNCHANGED <<serverVars, pageVars, drafts, app, trouble>>

\* app.quit() and the handler of "before-quit"; a quit that is not prevented
\* closes every window and ends the application.
Quit ==
  /\ app = "running" /\ Gesture
  /\ IF page = "closed" THEN app' = "exited" /\ WindowClosed
     ELSE Ask("quit") /\ UNCHANGED <<pageVars, orphans, app>>
  /\ UNCHANGED <<packs, drafts, trouble>>

\* The page's listener allows every request; a page that is still loading
\* has no listener, and the message is lost.
Deliver ==
  /\ wire = "asked"
  /\ wire' = IF page = "open" THEN "answered" ELSE "idle"
  /\ UNCHANGED <<serverVars, pageVars, drafts, closing, app, gestures, trouble>>

\* completePromptPackEditorClose sets promptPackEditorCloseAllowed, and close()
\* or quit() is not prevented any more.
CompleteClose ==
  /\ wire = "answered" /\ closing # None
  /\ app' = IF closing = "quit" THEN "exited" ELSE app
  /\ WindowClosed
  /\ UNCHANGED <<packs, drafts, gestures, trouble>>

\* The application is started again, and with it the server.
Restart ==
  /\ app = "exited" /\ Trouble /\ app' = "running"
  /\ orphans' = {}
  /\ UNCHANGED <<packs, pageVars, drafts, closing, wire, gestures>>

-----------------------------------------------------------------------------
(* Editing *)

\* selectPack is not held back by an edit or a save, only by the dialog of a
\* deletion, which stays open until the answer has come.  SWR fetches the new
\* key's contents unless it did so within the last two seconds.
SelectPack(p) ==
  /\ page = "open" /\ p # selected /\ deleting = None
  /\ p # None => packs[p] # None
  /\ selected' = p /\ isEditing' = FALSE
  /\ \/ due' = {p} \ {None}
     \/ p # None /\ cache[p] # None /\ due' = {}
  /\ UNCHANGED <<packs, drafts, cache, page, saving, deleting, orphans, mainVars, gestures, trouble>>

FetchContents(p) ==
  /\ p \in due /\ p = selected
  /\ due' = due \ {p}
  /\ cache' = IF packs[p] = None THEN cache
              ELSE [cache EXCEPT ![p] = [pack |-> p, body |-> packs[p]]]
  /\ UNCHANGED <<packs, drafts, page, selected, isEditing, saving, deleting, orphans, mainVars,
                 gestures, trouble>>

\* createPromptPackDraft files the draft under the pack the contents name.
startDraft(contents) ==
  [drafts EXCEPT ![contents.pack] = [base |-> contents.body, working |-> contents.body]]

\* beginEdit: a draft of another revision is refused.
BeginEdit ==
  /\ page = "open" /\ ~isEditing /\ selected # None /\ cache[selected] # None
  /\ drafts[selected] # None => drafts[selected].base = cache[selected].body
  /\ isEditing' = TRUE
  /\ drafts' = IF drafts[selected] = None THEN startDraft(cache[selected]) ELSE drafts
  /\ UNCHANGED <<packs, cache, due, page, selected, saving, deleting, orphans, mainVars,
                 gestures, trouble>>

EditsDraft == page = "open" /\ isEditing /\ selected # None /\ drafts[selected] # None

Toggled(set, e) == IF e \in set THEN set \ {e} ELSE set \cup {e}

\* Every change of an entry or a category: updateWorking of the whole copy.
Type(e) ==
  /\ EditsDraft /\ Gesture
  /\ drafts' = [drafts EXCEPT ![selected].working = Toggled(@, e)]
  /\ UNCHANGED <<serverVars, pageVars, mainVars, trouble>>

Dirty(draft) == draft # None /\ draft.base # draft.working

\* abandonDraft, confirmed.  The button is disabled in an editor that saves,
\* but a dialog opened before the shortcut for saving was pressed can still be
\* confirmed; in read mode it is offered for a draft with changes.
Abandon ==
  /\ page = "open" /\ selected # None /\ drafts[selected] # None
  /\ isEditing \/ Dirty(drafts[selected])
  /\ drafts' = [drafts EXCEPT ![selected] = None]
  /\ isEditing' = FALSE
  /\ UNCHANGED <<serverVars, cache, due, page, selected, saving, deleting, mainVars, gestures, trouble>>

\* deletePack, from the list of packs: the server uninstalls the pack.
DeletePack(p) ==
  /\ page = "open" /\ selected = None /\ deleting = None
  /\ packs[p] # None /\ Trouble
  /\ packs' = [packs EXCEPT ![p] = None]
  /\ deleting' = p
  /\ UNCHANGED <<drafts, cache, due, page, selected, isEditing, saving, orphans, mainVars, gestures>>

\* The answer takes the draft along, unless it is lost.
PackDeleted ==
  /\ deleting # None
  /\ drafts' \in {drafts, [drafts EXCEPT ![deleting] = None]}
  /\ deleting' = None
  /\ UNCHANGED <<serverVars, cache, due, page, selected, isEditing, saving, mainVars, gestures, trouble>>

-----------------------------------------------------------------------------
(* Saving *)

\* saveAll reads the latest draft and sends it if it is valid.
StartSave ==
  /\ EditsDraft /\ saving = None
  /\ Dirty(drafts[selected]) /\ drafts[selected].working \cap Unnamed = {}
  /\ saving' = [pack |-> selected, base |-> drafts[selected].base,
                working |-> drafts[selected].working, at |-> "sent"]
  /\ UNCHANGED <<serverVars, drafts, cache, due, page, selected, isEditing, deleting, mainVars,
                 gestures, trouble>>

\* Fault: the base revision is not compared.
AcceptsAny(request) == packs[request.pack] # None

\* SavePackDraft replaces the contents if they still have the base revision.
Accepts(request) == packs[request.pack] = request.base

Written(request) ==
  IF Accepts(request) THEN [packs EXCEPT ![request.pack] = request.working] ELSE packs

\* A refused save (409, or the pack is gone) leaves the draft as it is.
ServerSave ==
  /\ saving # None /\ saving.at = "sent"
  /\ packs' = Written(saving)
  /\ saving' = IF Accepts(saving) THEN [saving EXCEPT !.at = "saved"] ELSE None
  /\ UNCHANGED <<drafts, cache, due, page, selected, isEditing, deleting, orphans, mainVars,
                 gestures, trouble>>

\* Fault: the draft goes whether or not it was saved.
SaveFailsDropping ==
  /\ saving # None /\ saving.at = "sent" /\ Trouble
  /\ packs' \in {packs, Written(saving)}
  /\ drafts' = [drafts EXCEPT ![saving.pack] = None]
  /\ saving' = None
  /\ UNCHANGED <<cache, due, page, selected, isEditing, deleting, orphans, mainVars, gestures>>

\* The request or its answer is lost, which the page cannot tell apart.
SaveFails ==
  /\ saving # None /\ saving.at = "sent" /\ Trouble
  /\ packs' \in {packs, Written(saving)}
  /\ saving' = None
  /\ UNCHANGED <<drafts, cache, due, page, selected, isEditing, deleting, orphans, mainVars, gestures>>

OrphanSaves(request) ==
  /\ request \in orphans /\ orphans' = orphans \ {request}
  /\ packs' = Written(request)
  /\ UNCHANGED <<pageVars, drafts, mainVars, gestures, trouble>>

\* saveAll after the answer: mutateContents writes it under the key the hook
\* has by now, the one of the selected pack; then the draft goes, and
\* onChanged fetches the contents on the screen again.
Saved ==
  /\ saving # None /\ saving.at = "saved"
  /\ cache' = [p \in Pack |-> IF p # selected THEN cache[p]
                              ELSE [pack |-> saving.pack, body |-> saving.working]]
  /\ due' = {selected} \ {None}
  /\ drafts' = [drafts EXCEPT ![saving.pack] = None]
  /\ saving' = [pack |-> saving.pack, base |-> {}, working |-> {}, at |-> "refreshing"]
  /\ UNCHANGED <<serverVars, page, selected, isEditing, deleting, mainVars, gestures, trouble>>

\* onChanged is back, which need not be after the last fetch; the editor of
\* whichever pack is selected leaves edit mode.
Refreshed ==
  /\ saving # None /\ saving.at = "refreshing"
  /\ saving' = None /\ isEditing' = FALSE
  /\ UNCHANGED <<serverVars, drafts, cache, due, page, selected, deleting, mainVars, gestures, trouble>>

\* The settings of the main window save or remove an entry at once.
OthersEdit(p, e) ==
  /\ app = "running" /\ packs[p] # None /\ Trouble
  /\ packs' = [packs EXCEPT ![p] = Toggled(@, e)]
  /\ UNCHANGED <<pageVars, drafts, orphans, mainVars, gestures>>

-----------------------------------------------------------------------------
Next ==
  \/ OpenEditor \/ PageReady \/ CloseWindow \/ Quit \/ Deliver \/ CompleteClose \/ Restart
  \/ \E p \in Pack \cup {None} : SelectPack(p)
  \/ \E p \in Pack : FetchContents(p) \/ DeletePack(p)
  \/ BeginEdit \/ Abandon \/ PackDeleted
  \/ \E e \in Mine : Type(e)
  \/ StartSave \/ ServerSave \/ SaveFails \/ Saved \/ Refreshed
  \/ \E request \in orphans : OrphanSaves(request)
  \/ \E p \in Pack, e \in Theirs : OthersEdit(p, e)

Spec == Init /\ [][Next]_vars

\* Messages between the processes arrive and handlers run; the user owes nothing.
FairSpec == Spec /\ WF_vars(Deliver) /\ WF_vars(CompleteClose)

-----------------------------------------------------------------------------
(* Properties *)

\* Types; a close is pending, and a draft is edited, only with a window.
TypeOK ==
  /\ packs \in [Pack -> (SUBSET Entry) \cup {None}]
  /\ drafts \in [Pack -> Draft \cup {None}]
  /\ cache \in [Pack -> Contents \cup {None}]
  /\ due \subseteq Pack
  /\ page \in {"closed", "loading", "open"}
  /\ selected \in Pack \cup {None}
  /\ isEditing \in BOOLEAN
  /\ saving \in {None} \cup [pack : Pack, base : SUBSET Entry, working : SUBSET Entry,
                             at : {"sent", "saved", "refreshing"}]
  /\ deleting \in Pack \cup {None}
  /\ orphans \subseteq Request
  /\ closing \in {None, "close", "quit"}
  /\ wire \in {"idle", "asked", "answered"}
  /\ app \in {"running", "exited"}
  /\ gestures \in 0 .. MaxGestures /\ trouble \in 0 .. MaxTrouble
  /\ closing # None => page # "closed"
  /\ isEditing => page = "open" /\ selected # None

\* A save never undoes what the settings of the main window have put into a
\* pack or taken out of it, however old the draft or the cached contents it
\* was started from, and also when its page is long gone: SavePackDraft's
\* revision, sent through draft, cache and request, keeps a stale draft out.
OthersStand ==
  [][\A p \in Pack :
        packs[p] # None /\ packs'[p] # None /\ packs[p] \cap Theirs # packs'[p] \cap Theirs
        => UNCHANGED <<saving, orphans>>]_vars

\* The contents of another pack under the key of the selected one.
Misfiled == selected # None /\ cache[selected] # None /\ cache[selected].pack # selected

\* A draft with changes outlives failed saves, loads of the page, closed
\* windows and restarts.  It goes when the user abandons it or has deleted the
\* pack, and when the server has accepted a save of it (with what was typed
\* since).  Contents filed under the wrong key may also replace it.
DraftIsKept ==
  [][\A p \in Pack :
        Dirty(drafts[p]) /\ (drafts'[p] = None \/ drafts'[p].base # drafts[p].base)
        => \/ p = selected /\ Abandon
           \/ p = deleting
           \/ saving # None /\ saving.pack = p /\ saving.at = "saved"
           \/ Misfiled /\ BeginEdit]_vars

\* The main process waits for an answer that will never come: the page was
\* loading when it was asked.
Unheard == closing # None /\ wire = "idle"

\* A window that is asked to close goes, and an application that is asked to
\* quit ends, even when the two wishes cross, unless the page was not heard.
LeavingEnds ==
  /\ closing = "quit" ~> (app = "exited" \/ Unheard)
  /\ closing = "close" ~> (page = "closed" \/ Unheard)

=============================================================================
