----------------------- MODULE PromptPackEditorProofs -----------------------
(***************************************************************************)
(* What TLAPS proves of PromptPackEditor, for every set of packs and       *)
(* entries and any number of gestures, failed saves and restarts: its      *)
(* types, that saves leave alone what the settings of the main window put  *)
(* into a pack, and what a draft with changes may fall to.                 *)
(***************************************************************************)
EXTENDS PromptPackEditor, TLAPS

(***************************************************************************)
(* The records the page keeps.                                             *)
(***************************************************************************)

SaveRecord == [pack : Pack, base : SUBSET Entry, working : SUBSET Entry,
               at : {"sent", "saved", "refreshing"}]

\* What there is of a draft, a save and cached contents, once they are there.
LEMMA Held ==
  ASSUME TypeOK
  PROVE  /\ \A p \in Pack : drafts[p] # None => drafts[p] \in Draft
         /\ \A p \in Pack : cache[p] # None => cache[p] \in Contents
         /\ \A p \in Pack : packs[p] # None => packs[p] \in SUBSET Entry
         /\ saving # None => saving \in SaveRecord
         /\ selected # None => selected \in Pack
  BY DEF TypeOK, SaveRecord

\* An entry that is put in or taken out was an entry.
LEMMA ToggledEntry ==
  ASSUME NEW set \in SUBSET Entry, NEW e \in Entry
  PROVE  Toggled(set, e) \in SUBSET Entry
  BY DEF Toggled

\* What the server holds after a save that had a pack and a body.
LEMMA WrittenPacks ==
  ASSUME TypeOK, NEW request, request.pack \in Pack, request.working \in SUBSET Entry
  PROVE  Written(request) \in [Pack -> (SUBSET Entry) \cup {None}]
  BY DEF TypeOK, Written

\* What a page that goes away leaves behind is well typed.
LEMMA PageGoneTypes ==
  ASSUME TypeOK, PageGone
  PROVE  /\ cache' \in [Pack -> Contents \cup {None}]
         /\ due' \subseteq Pack
         /\ selected' = None /\ isEditing' = FALSE /\ saving' = None
         /\ deleting' = None
         /\ orphans' \subseteq Request
  <1>1. saving # None =>
          [pack |-> saving.pack, base |-> saving.base, working |-> saving.working] \in Request
    BY Held DEF SaveRecord, Request
  <1>2. orphans' \subseteq Request
    BY <1>1 DEF PageGone, TypeOK
  <1>3. QED
    BY <1>2 DEF PageGone

(***************************************************************************)
(* Type correctness.                                                       *)
(***************************************************************************)

LEMMA TypeInit == Init => TypeOK
  <1> SUFFICES ASSUME Init PROVE TypeOK
    OBVIOUS
  <1>1. packs \in [Pack -> (SUBSET Entry) \cup {None}]
    BY DEF Init
  <1>2. /\ drafts \in [Pack -> Draft \cup {None}]
        /\ cache \in [Pack -> Contents \cup {None}]
    BY DEF Init
  <1>3. gestures \in 0 .. MaxGestures /\ trouble \in 0 .. MaxTrouble
    BY PackAssumption DEF Init
  <1>4. QED
    BY <1>1, <1>2, <1>3 DEF Init, TypeOK

LEMMA TypeStep == TypeOK /\ [Next]_vars => TypeOK'
  <1> SUFFICES ASSUME TypeOK, [Next]_vars PROVE TypeOK'
    OBVIOUS
  <1> USE PackAssumption
  <1>1. CASE OpenEditor
    <2>1. PageGone
      BY <1>1 DEF OpenEditor
    <2>2. trouble' \in 0 .. MaxTrouble
      BY <1>1 DEF OpenEditor, Trouble, TypeOK
    <2>3. closing' \in {None, "close", "quit"} /\ wire' \in {"idle", "asked", "answered"}
      BY <1>1 DEF OpenEditor, TypeOK
    <2>4. QED
      BY <1>1, <2>1, <2>2, <2>3, PageGoneTypes DEF OpenEditor, TypeOK
  <1>2. CASE PageReady
    BY <1>2 DEF PageReady, TypeOK
  <1>3. CASE CloseWindow
    BY <1>3 DEF CloseWindow, Ask, Gesture, serverVars, pageVars, TypeOK
  <1>4. CASE Quit
    <2>1. CASE page = "closed"
      <3>1. PageGone /\ page' = "closed" /\ closing' = None /\ wire' = "idle"
        BY <1>4, <2>1 DEF Quit, WindowClosed
      <3>2. gestures' \in 0 .. MaxGestures
        BY <1>4 DEF Quit, Gesture, TypeOK
      <3>3. QED
        BY <1>4, <2>1, <3>1, <3>2, PageGoneTypes DEF Quit, TypeOK
    <2>2. CASE page # "closed"
      BY <1>4, <2>2 DEF Quit, Ask, Gesture, pageVars, TypeOK
    <2>3. QED
      BY <2>1, <2>2
  <1>5. CASE Deliver
    BY <1>5 DEF Deliver, serverVars, pageVars, TypeOK
  <1>6. CASE CompleteClose
    BY <1>6, PageGoneTypes DEF CompleteClose, WindowClosed, TypeOK
  <1>7. CASE Restart
    BY <1>7 DEF Restart, Trouble, pageVars, TypeOK
  <1>8. ASSUME NEW p \in Pack \cup {None}, SelectPack(p) PROVE TypeOK'
    BY <1>8 DEF SelectPack, mainVars, TypeOK
  <1>9. ASSUME NEW p \in Pack, FetchContents(p) PROVE TypeOK'
    <2>1. packs[p] # None => [pack |-> p, body |-> packs[p]] \in Contents
      BY Held DEF Contents
    <2>2. cache' \in [Pack -> Contents \cup {None}]
      BY <1>9, <2>1 DEF FetchContents, TypeOK
    <2>3. QED
      BY <1>9, <2>2 DEF FetchContents, mainVars, TypeOK
  <1>10. ASSUME NEW p \in Pack, DeletePack(p) PROVE TypeOK'
    BY <1>10 DEF DeletePack, Trouble, mainVars, TypeOK
  <1>11. CASE BeginEdit
    <2>1. /\ selected \in Pack /\ cache[selected] \in Contents
      BY <1>11, Held DEF BeginEdit
    <2>2. [base |-> cache[selected].body, working |-> cache[selected].body] \in Draft
      BY <2>1 DEF Contents, Draft
    <2>3. startDraft(cache[selected]) \in [Pack -> Draft \cup {None}]
      BY <2>1, <2>2 DEF startDraft, Contents, TypeOK
    <2>4. drafts' \in [Pack -> Draft \cup {None}]
      BY <1>11, <2>3 DEF BeginEdit, TypeOK
    <2>5. QED
      BY <1>11, <2>1, <2>4 DEF BeginEdit, mainVars, TypeOK
  <1>12. CASE Abandon
    BY <1>12 DEF Abandon, serverVars, mainVars, TypeOK
  <1>12a. CASE PackDeleted
    BY <1>12a DEF PackDeleted, serverVars, mainVars, TypeOK
  <1>13. ASSUME NEW e \in Mine, Type(e) PROVE TypeOK'
    <2>1. /\ selected \in Pack /\ drafts[selected] \in Draft
      BY <1>13, Held DEF Type, EditsDraft
    <2>2. Toggled(drafts[selected].working, e) \in SUBSET Entry
      BY <2>1, ToggledEntry DEF Entry, Draft
    <2>3. drafts' \in [Pack -> Draft \cup {None}]
      BY <1>13, <2>1, <2>2 DEF Type, Draft, TypeOK
    <2>4. QED
      BY <1>13, <2>3 DEF Type, Gesture, serverVars, pageVars, mainVars, TypeOK
  <1>14. CASE StartSave
    <2>1. /\ selected \in Pack /\ drafts[selected] \in Draft
      BY <1>14, Held DEF StartSave, EditsDraft
    <2>2. saving' \in SaveRecord
      BY <1>14, <2>1 DEF StartSave, SaveRecord, Draft
    <2>3. QED
      BY <1>14, <2>2 DEF StartSave, serverVars, mainVars, SaveRecord, TypeOK
  <1>15. CASE ServerSave
    <2>1. saving \in SaveRecord
      BY <1>15, Held DEF ServerSave
    <2>2. packs' \in [Pack -> (SUBSET Entry) \cup {None}]
      BY <1>15, <2>1, WrittenPacks DEF ServerSave, SaveRecord
    <2>3. saving' \in {None} \cup SaveRecord
      BY <1>15, <2>1 DEF ServerSave, SaveRecord
    <2>4. QED
      BY <1>15, <2>2, <2>3 DEF ServerSave, mainVars, SaveRecord, TypeOK
  <1>16. CASE SaveFails
    <2>1. saving \in SaveRecord
      BY <1>16, Held DEF SaveFails
    <2>2. packs' \in [Pack -> (SUBSET Entry) \cup {None}]
      BY <1>16, <2>1, WrittenPacks DEF SaveFails, SaveRecord, TypeOK
    <2>3. QED
      BY <1>16, <2>2 DEF SaveFails, Trouble, mainVars, TypeOK
  <1>17. CASE Saved
    <2>1. saving \in SaveRecord
      BY <1>17, Held DEF Saved
    <2>2. [pack |-> saving.pack, body |-> saving.working] \in Contents
      BY <2>1 DEF SaveRecord, Contents
    <2>3. cache' \in [Pack -> Contents \cup {None}]
      BY <1>17, <2>2 DEF Saved, TypeOK
    <2>4. saving' \in SaveRecord
      BY <1>17, <2>1 DEF Saved, SaveRecord
    <2>5. QED
      BY <1>17, <2>3, <2>4 DEF Saved, serverVars, mainVars, SaveRecord, TypeOK
  <1>18. CASE Refreshed
    BY <1>18 DEF Refreshed, serverVars, mainVars, TypeOK
  <1>19. ASSUME NEW request \in orphans, OrphanSaves(request) PROVE TypeOK'
    <2>1. request \in Request
      BY DEF TypeOK
    <2>2. packs' \in [Pack -> (SUBSET Entry) \cup {None}]
      BY <1>19, <2>1, WrittenPacks DEF OrphanSaves, Request
    <2>3. QED
      BY <1>19, <2>2 DEF OrphanSaves, pageVars, mainVars, TypeOK
  <1>20. ASSUME NEW p \in Pack, NEW e \in Theirs, OthersEdit(p, e) PROVE TypeOK'
    <2>1. Toggled(packs[p], e) \in SUBSET Entry
      BY <1>20, Held, ToggledEntry DEF OthersEdit, Entry
    <2>2. packs' \in [Pack -> (SUBSET Entry) \cup {None}]
      BY <1>20, <2>1 DEF OthersEdit, TypeOK
    <2>3. QED
      BY <1>20, <2>2 DEF OthersEdit, Trouble, pageVars, mainVars, TypeOK
  <1>21. CASE UNCHANGED vars
    BY <1>21 DEF vars, TypeOK
  <1>22. QED
    BY <1>1, <1>2, <1>3, <1>4, <1>5, <1>6, <1>7, <1>8, <1>9, <1>10, <1>11, <1>12, <1>12a,
       <1>13, <1>14, <1>15, <1>16, <1>17, <1>18, <1>19, <1>20, <1>21 DEF Next

\* Every reachable state is well typed; in particular a close is pending, and
\* a draft is edited, only with a window.
THEOREM TypeCorrect == Spec => []TypeOK
  BY TypeInit, TypeStep, PTL DEF Spec

(***************************************************************************)
(* Saves and the settings of the main window.                              *)
(***************************************************************************)

\* What was typed into a copy left the entries of the main window alone.
SameOthers(copy) == copy.base \cap Theirs = copy.working \cap Theirs

\* So it is with every draft, with the save and with those nobody waits for:
\* a copy that differs from the pack there differs from its base as well.
OthersAside ==
  /\ \A p \in Pack : drafts[p] # None => SameOthers(drafts[p])
  /\ saving # None => SameOthers(saving)
  /\ \A request \in orphans : SameOthers(request)

IInv == TypeOK /\ OthersAside

\* A save, written or refused, changes none of the main window's entries.
LEMMA WrittenKeepsOthers ==
  ASSUME TypeOK, NEW request, request.pack \in Pack, SameOthers(request),
         NEW p \in Pack, packs[p] # None
  PROVE  packs[p] \cap Theirs = Written(request)[p] \cap Theirs
  <1>1. CASE Accepts(request) /\ p = request.pack
    BY <1>1 DEF Written, Accepts, SameOthers, TypeOK
  <1>2. CASE ~(Accepts(request) /\ p = request.pack)
    BY <1>2 DEF Written, TypeOK
  <1>3. QED
    BY <1>1, <1>2

\* A page that goes away turns its save into an orphan, and nothing else.
LEMMA PageGoneOthers ==
  ASSUME IInv, PageGone, UNCHANGED drafts
  PROVE  OthersAside'
  <1>1. \A p \in Pack : drafts'[p] # None => SameOthers(drafts'[p])
    BY DEF IInv, OthersAside
  <1>2. saving # None =>
          SameOthers([pack |-> saving.pack, base |-> saving.base, working |-> saving.working])
    BY DEF IInv, OthersAside, SameOthers
  <1>3. saving' = None /\ \A request \in orphans' : SameOthers(request)
    BY <1>2 DEF PageGone, IInv, OthersAside
  <1>4. QED
    BY <1>1, <1>3 DEF OthersAside

LEMMA OthersInit == Init => OthersAside
  BY DEF Init, OthersAside

LEMMA OthersStep == IInv /\ [Next]_vars => OthersAside'
  <1> SUFFICES ASSUME IInv, [Next]_vars PROVE OthersAside'
    OBVIOUS
  <1>1. TypeOK /\ OthersAside
    BY DEF IInv
  <1>2. CASE UNCHANGED <<drafts, saving, orphans>>
    BY <1>1, <1>2 DEF OthersAside
  <1>3. CASE OpenEditor \/ CompleteClose \/ (Quit /\ page = "closed")
    BY <1>3, PageGoneOthers DEF OpenEditor, CompleteClose, Quit, WindowClosed
  <1>4. CASE PageReady \/ CloseWindow \/ (Quit /\ page # "closed") \/ Deliver \/ UNCHANGED vars
    BY <1>2, <1>4 DEF PageReady, CloseWindow, Quit, Deliver, vars, serverVars, pageVars
  <1>5. CASE Restart
    BY <1>1, <1>5 DEF Restart, pageVars, OthersAside
  <1>6. ASSUME NEW p \in Pack \cup {None}, SelectPack(p) PROVE OthersAside'
    BY <1>2, <1>6 DEF SelectPack
  <1>7. ASSUME NEW p \in Pack, FetchContents(p) PROVE OthersAside'
    BY <1>2, <1>7 DEF FetchContents
  <1>8. ASSUME NEW p \in Pack, DeletePack(p) PROVE OthersAside'
    BY <1>2, <1>8 DEF DeletePack
  <1>9. CASE BeginEdit
    <2>1. \A p \in Pack : drafts'[p] # None => SameOthers(drafts'[p])
      BY <1>1, <1>9, Held DEF BeginEdit, startDraft, OthersAside, SameOthers, TypeOK, Contents
    <2>2. QED
      BY <1>1, <1>9, <2>1 DEF BeginEdit, OthersAside
  <1>10. CASE Abandon
    BY <1>1, <1>10 DEF Abandon, serverVars, OthersAside, TypeOK
  <1>10a. CASE PackDeleted
    BY <1>1, <1>10a DEF PackDeleted, serverVars, OthersAside, TypeOK
  <1>11. ASSUME NEW e \in Mine, Type(e) PROVE OthersAside'
    <2>1. /\ selected \in Pack /\ drafts[selected] \in Draft
          /\ SameOthers(drafts[selected])
      BY <1>1, <1>11, Held DEF Type, EditsDraft, OthersAside
    <2>2. drafts'[selected] = [drafts[selected] EXCEPT !.working = Toggled(@, e)]
      BY <1>1, <1>11, <2>1 DEF Type, TypeOK
    <2>3. Toggled(drafts[selected].working, e) \cap Theirs = drafts[selected].working \cap Theirs
      BY PackAssumption DEF Toggled
    <2>4. SameOthers(drafts'[selected])
      BY <2>1, <2>2, <2>3 DEF SameOthers, Draft
    <2>5. \A p \in Pack : drafts'[p] # None => SameOthers(drafts'[p])
      BY <1>1, <1>11, <2>4 DEF Type, OthersAside, TypeOK
    <2>6. QED
      BY <1>1, <1>11, <2>5 DEF Type, serverVars, pageVars, OthersAside
  <1>12. CASE StartSave
    <2>1. selected \in Pack /\ drafts[selected] # None
      BY <1>1, <1>12, Held DEF StartSave, EditsDraft
    <2>2. SameOthers(saving')
      BY <1>1, <1>12, <2>1 DEF StartSave, OthersAside, SameOthers
    <2>3. QED
      BY <1>1, <1>12, <2>2 DEF StartSave, serverVars, OthersAside
  <1>13. CASE ServerSave
    <2>1. saving' # None => SameOthers(saving')
      BY <1>1, <1>13, Held DEF ServerSave, OthersAside, SameOthers, SaveRecord
    <2>2. QED
      BY <1>1, <1>13, <2>1 DEF ServerSave, OthersAside
  <1>14. CASE SaveFails
    BY <1>1, <1>14 DEF SaveFails, OthersAside
  <1>15. CASE Saved
    <2>1. SameOthers(saving')
      BY <1>15 DEF Saved, SameOthers
    <2>2. \A p \in Pack : drafts'[p] # None => SameOthers(drafts'[p])
      BY <1>1, <1>15 DEF Saved, OthersAside, TypeOK
    <2>3. QED
      BY <1>1, <1>15, <2>1, <2>2 DEF Saved, serverVars, OthersAside
  <1>16. CASE Refreshed
    BY <1>1, <1>16 DEF Refreshed, serverVars, OthersAside
  <1>17. ASSUME NEW request \in orphans, OrphanSaves(request) PROVE OthersAside'
    BY <1>1, <1>17 DEF OrphanSaves, pageVars, OthersAside
  <1>18. ASSUME NEW p \in Pack, NEW e \in Theirs, OthersEdit(p, e) PROVE OthersAside'
    BY <1>2, <1>18 DEF OthersEdit, pageVars
  <1>19. QED
    BY <1>3, <1>4, <1>5, <1>6, <1>7, <1>8, <1>9, <1>10, <1>10a, <1>11, <1>12, <1>13, <1>14,
       <1>15, <1>16, <1>17, <1>18 DEF Next

\* One step of OthersStand.
OthersStandStep ==
  \A p \in Pack :
    packs[p] # None /\ packs'[p] # None /\ packs[p] \cap Theirs # packs'[p] \cap Theirs
    => UNCHANGED <<saving, orphans>>

LEMMA SavesKeepOthers == IInv /\ [Next]_vars => OthersStandStep
  <1> SUFFICES ASSUME IInv, [Next]_vars PROVE OthersStandStep
    OBVIOUS
  <1>1. TypeOK /\ OthersAside
    BY DEF IInv
  <1>2. CASE UNCHANGED packs
    BY <1>2 DEF OthersStandStep
  <1>3. CASE \/ OpenEditor \/ PageReady \/ CloseWindow \/ Quit \/ Deliver \/ CompleteClose
             \/ Restart \/ BeginEdit \/ Abandon \/ PackDeleted \/ StartSave \/ Saved
             \/ Refreshed \/ UNCHANGED vars
    BY <1>2, <1>3 DEF OpenEditor, PageReady, CloseWindow, Quit, Deliver, CompleteClose,
       Restart, BeginEdit, Abandon, PackDeleted, StartSave, Saved, Refreshed, serverVars, vars
  <1>4. ASSUME NEW p \in Pack \cup {None}, SelectPack(p) PROVE OthersStandStep
    BY <1>2, <1>4 DEF SelectPack
  <1>5. ASSUME NEW p \in Pack, FetchContents(p) PROVE OthersStandStep
    BY <1>2, <1>5 DEF FetchContents
  <1>6. ASSUME NEW e \in Mine, Type(e) PROVE OthersStandStep
    BY <1>2, <1>6 DEF Type, serverVars
  <1>7. ASSUME NEW p \in Pack, DeletePack(p) PROVE OthersStandStep
    BY <1>1, <1>7 DEF DeletePack, OthersStandStep, TypeOK
  <1>8. CASE ServerSave \/ SaveFails
    <2>1. saving.pack \in Pack /\ SameOthers(saving)
      BY <1>1, <1>8, Held DEF ServerSave, SaveFails, OthersAside, SaveRecord
    <2>2. packs' \in {packs, Written(saving)}
      BY <1>8 DEF ServerSave, SaveFails
    <2>3. QED
      BY <1>1, <2>1, <2>2, WrittenKeepsOthers DEF OthersStandStep
  <1>9. ASSUME NEW request \in orphans, OrphanSaves(request) PROVE OthersStandStep
    <2>1. request.pack \in Pack /\ SameOthers(request)
      BY <1>1 DEF OthersAside, TypeOK, Request
    <2>2. packs' = Written(request)
      BY <1>9 DEF OrphanSaves
    <2>3. QED
      BY <1>1, <2>1, <2>2, WrittenKeepsOthers DEF OthersStandStep
  <1>10. ASSUME NEW p \in Pack, NEW e \in Theirs, OthersEdit(p, e) PROVE OthersStandStep
    BY <1>10 DEF OthersEdit, pageVars, OthersStandStep
  <1>11. QED
    BY <1>3, <1>4, <1>5, <1>6, <1>7, <1>8, <1>9, <1>10 DEF Next

\* However old the draft or the cached contents it was started from, and also
\* when its page is gone, a save never undoes what the settings of the main
\* window have put into a pack or taken out of it.
THEOREM SavesLeaveOthersAlone == Spec => OthersStand
  <1>1. Init => IInv
    BY TypeInit, OthersInit DEF IInv
  <1>2. IInv /\ [Next]_vars => IInv'
    BY TypeStep, OthersStep DEF IInv
  <1>3. IInv /\ [Next]_vars => [OthersStandStep]_vars
    BY SavesKeepOthers
  <1>4. Spec => [][OthersStandStep]_vars
    BY <1>1, <1>2, <1>3, PTL DEF Spec
  <1>5. QED
    BY <1>4 DEF OthersStand, OthersStandStep

(***************************************************************************)
(* Drafts.                                                                 *)
(***************************************************************************)

\* One step of DraftIsKept.
DraftIsKeptStep ==
  \A p \in Pack :
    Dirty(drafts[p]) /\ (drafts'[p] = None \/ drafts'[p].base # drafts[p].base)
    => \/ p = selected /\ Abandon
       \/ p = deleting
       \/ saving # None /\ saving.pack = p /\ saving.at = "saved"
       \/ Misfiled /\ BeginEdit

LEMMA DraftStep == TypeOK /\ [Next]_vars => DraftIsKeptStep
  <1> SUFFICES ASSUME TypeOK, [Next]_vars PROVE DraftIsKeptStep
    OBVIOUS
  <1>1. CASE UNCHANGED drafts
    BY <1>1 DEF DraftIsKeptStep, Dirty
  <1>2. CASE \/ OpenEditor \/ PageReady \/ CloseWindow \/ Quit \/ Deliver \/ CompleteClose
             \/ Restart \/ StartSave \/ ServerSave \/ SaveFails \/ Refreshed \/ UNCHANGED vars
    BY <1>1, <1>2 DEF OpenEditor, PageReady, CloseWindow, Quit, Deliver, CompleteClose,
       Restart, StartSave, ServerSave, SaveFails, Refreshed, vars
  <1>3. ASSUME NEW p \in Pack \cup {None}, SelectPack(p) PROVE DraftIsKeptStep
    BY <1>1, <1>3 DEF SelectPack
  <1>4. ASSUME NEW p \in Pack, FetchContents(p) PROVE DraftIsKeptStep
    BY <1>1, <1>4 DEF FetchContents
  <1>5. ASSUME NEW request \in orphans, OrphanSaves(request) PROVE DraftIsKeptStep
    BY <1>1, <1>5 DEF OrphanSaves
  <1>6. ASSUME NEW p \in Pack, NEW e \in Theirs, OthersEdit(p, e) PROVE DraftIsKeptStep
    BY <1>1, <1>6 DEF OthersEdit
  <1>7. ASSUME NEW p \in Pack, DeletePack(p) PROVE DraftIsKeptStep
    BY <1>1, <1>7 DEF DeletePack
  <1>8. CASE BeginEdit
    <2>1. selected \in Pack /\ cache[selected] \in Contents
      BY <1>8, Held DEF BeginEdit
    <2>2. ASSUME NEW p \in Pack, Dirty(drafts[p]), ~Misfiled
          PROVE  drafts'[p] = drafts[p]
      BY <1>8, <2>1, <2>2 DEF BeginEdit, startDraft, Misfiled, Dirty, Contents, TypeOK
    <2>3. QED
      BY <1>8, <2>2 DEF DraftIsKeptStep, Dirty
  <1>9. CASE Abandon
    BY <1>9 DEF Abandon, DraftIsKeptStep, Dirty, TypeOK
  <1>9a. CASE PackDeleted
    BY <1>9a DEF PackDeleted, DraftIsKeptStep, Dirty, TypeOK
  <1>10. ASSUME NEW e \in Mine, Type(e) PROVE DraftIsKeptStep
    <2>1. selected \in Pack /\ drafts[selected] \in Draft
      BY <1>10, Held DEF Type, EditsDraft
    <2>2. ASSUME NEW p \in Pack, drafts[p] # None
          PROVE  drafts'[p] # None /\ drafts'[p].base = drafts[p].base
      <3>1. CASE p = selected
        <4>1. Toggled(drafts[selected].working, e) \in SUBSET Entry
          BY <2>1, ToggledEntry DEF Entry, Draft
        <4>2. drafts'[selected] = [drafts[selected] EXCEPT !.working
                                      = Toggled(drafts[selected].working, e)]
          BY <1>10, <2>1 DEF Type, TypeOK
        <4>3. drafts'[selected] \in Draft /\ drafts'[selected].base = drafts[selected].base
          BY <2>1, <4>1, <4>2 DEF Draft
        <4>4. QED
          BY <3>1, <4>3, PackAssumption
      <3>2. CASE p # selected
        BY <1>10, <2>2, <3>2 DEF Type, TypeOK
      <3>3. QED
        BY <3>1, <3>2
    <2>3. QED
      BY <2>2 DEF DraftIsKeptStep, Dirty
  <1>11. CASE Saved
    BY <1>11 DEF Saved, DraftIsKeptStep, Dirty, TypeOK
  <1>12. QED
    BY <1>2, <1>3, <1>4, <1>5, <1>6, <1>7, <1>8, <1>9, <1>9a, <1>10, <1>11 DEF Next

\* A draft with changes outlives failed saves, loads of the page, closed windows
\* and restarts: only the user, a save of it that was accepted, or contents
\* filed under the wrong key make it go.
THEOREM DraftsAreKept == Spec => DraftIsKept
  <1>1. TypeOK /\ [Next]_vars => [DraftIsKeptStep]_vars
    BY DraftStep
  <1>2. Spec => [][DraftIsKeptStep]_vars
    BY <1>1, TypeInit, TypeStep, PTL DEF Spec
  <1>3. QED
    BY <1>2 DEF DraftIsKept, DraftIsKeptStep
=============================================================================
