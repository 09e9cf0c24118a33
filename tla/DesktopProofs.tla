----------------------------- MODULE DesktopProofs ------------------------------
(***************************************************************************)
(* Proofs about what is on screen and on disk, and about the modules that  *)
(* Desktop composes: the editor, the transfers, the files the Files tool   *)
(* walks and changes, the stores of profiles and passphrases, and the      *)
(* trust in host keys, the layout of the workspace, and the views of the   *)
(* deployments.  Each has an invariant of its own; that none reads what    *)
(* another one writes makes the steps of one harmless to the others.       *)
(* Their first conjuncts are types, and what follows is what a step leans  *)
(* on: what the calls and prompts under way carry, which panes make the    *)
(* tree whole, and which call will bring what is shown up to date.         *)
(***************************************************************************)
EXTENDS Desktop, SequenceTheorems, FiniteSetTheorems, FunctionTheorems, TLAPS

(***************************************************************************)
(* Editing a remote file.                                                  *)
(***************************************************************************)
\* A text that has been typed belongs to the file f; 0 is the empty text, of any file.
TextOf(text, f, home) == text # 0 => home[text] = f

\* Wherever a text is, on the server, on display, read or about to be saved, it is one
\* that has been typed, with the file it was typed into.
EdTexts ==
    /\ \A f \in EditFile : edDisk[f] <= edTyped /\ TextOf(edDisk[f], f, edHome)
    /\ edOpen # None =>
           edOpen.content <= edTyped /\ TextOf(edOpen.content, edOpen.path, edHome)
    /\ \A r \in edReads : r.content # None =>
           r.content <= edTyped /\ TextOf(r.content, r.path, edHome)
    /\ \A w \in edSaves :
           w.file.content <= edTyped /\ TextOf(w.file.content, w.file.path, edHome)

EdInv == EdTypeOK /\ EdTexts

\* What is displayed is the text and the path that came, saved or not.
LEMMA DisplayedFacts ==
    ASSUME NEW file \in OpenFile
    PROVE  /\ Displayed(file) \in OpenFile /\ Displayed(file).path = file.path
           /\ Displayed(file).content = file.content
BY DEF Displayed, OpenFile

LEMMA OpenedFacts ==
    ASSUME NEW f \in EditFile, NEW text \in Text
    PROVE  /\ Opened(f, text) \in OpenFile /\ Opened(f, text).path = f
           /\ Opened(f, text).content = text
BY DEF Opened, OpenFile

LEMMA EdInitInv == EdInit => EdInv
<1> SUFFICES ASSUME EdInit PROVE EdInv
  OBVIOUS
<1>1. 0 \in Text
  BY MaxTypedAssumption DEF Text
<1> QED
  BY <1>1 DEF EdInit, EdInv, EdTypeOK, EdTexts, TextOf

\* A file comes on display with a text of its own.
LEMMA EdDisplays ==
    ASSUME EdInv, NEW file \in OpenFile, edOpen' = Displayed(file),
           file.content <= edTyped, TextOf(file.content, file.path, edHome),
           UNCHANGED <<edTool, edTyped, edHome>>,
           edDisk' \in [EditFile -> Text],
           \A f \in EditFile : edDisk'[f] = edDisk[f] \/ edDisk'[f] = 0,
           edReads' \subseteq edReads, edSaves' \subseteq edSaves
    PROVE  EdInv'
<1>1. /\ edOpen' \in OpenFile /\ edOpen'.path = file.path /\ edOpen'.content = file.content
  BY DisplayedFacts
<1>2. 0 <= edTyped
  BY MaxTypedAssumption DEF EdInv, EdTypeOK, Text
<1>3. EdTypeOK'
  BY <1>1 DEF EdInv, EdTypeOK
<1>4. EdTexts'
  BY <1>1, <1>2 DEF EdInv, EdTexts, TextOf
<1> QED
  BY <1>3, <1>4 DEF EdInv

LEMMA EdReadKeeps ==
    ASSUME EdInv, NEW r \in edReads, EdReads(r)
    PROVE  EdInv'
<1>1. r \in [path : EditFile, content : Text \cup {None}] /\ r.path \in EditFile
  BY DEF EdInv, EdTypeOK
<1>2. PICK read : read = [r EXCEPT !.content = edDisk[r.path]]
  OBVIOUS
<1>3. edDisk[r.path] \in Text
  BY <1>1 DEF EdInv, EdTypeOK
<1>4. /\ read \in [path : EditFile, content : Text \cup {None}] /\ read.path = r.path
      /\ read.content = edDisk[r.path]
  BY <1>1, <1>2, <1>3
<1>5. /\ edReads' = (edReads \ {r}) \cup {read}
      /\ UNCHANGED <<edTool, edOpen, edDisk, edSaves, edTyped, edHome>>
  BY <1>2 DEF EdReads
<1>6. EdTypeOK'
  BY <1>4, <1>5 DEF EdInv, EdTypeOK
<1>7. EdTexts'
  BY <1>1, <1>4, <1>5 DEF EdInv, EdTexts
<1> QED
  BY <1>6, <1>7 DEF EdInv

\* A new text belongs to the open file, and every other text keeps its home.
LEMMA EdTypesKeeps ==
    ASSUME EdInv, EdTypes
    PROVE  EdInv'
<1>1. /\ edOpen \in OpenFile /\ edTyped \in Nat /\ edTyped + 1 \in 1..MaxTyped
      /\ edTyped + 1 \in Text
  BY MaxTypedAssumption DEF EdInv, EdTypeOK, EdTypes, Text
<1>2. /\ edOpen' \in OpenFile /\ edOpen'.content = edTyped + 1 /\ edOpen'.path = edOpen.path
      /\ edOpen' # None => TRUE
  BY <1>1 DEF EdTypes, OpenFile
<1>3. /\ edHome' \in [1..MaxTyped -> EditFile \cup {None}]
      /\ edHome'[edTyped + 1] = edOpen.path
      /\ \A text \in 1..MaxTyped : text # edTyped + 1 => edHome'[text] = edHome[text]
  BY <1>1 DEF EdInv, EdTypeOK, EdTypes, OpenFile
<1>4. edTyped' = edTyped + 1 /\ UNCHANGED <<edTool, edDisk, edReads, edSaves>>
  BY DEF EdTypes
<1>5. ASSUME NEW text \in Text, NEW f, text <= edTyped, TextOf(text, f, edHome)
      PROVE  text <= edTyped' /\ TextOf(text, f, edHome')
  <2>1. text # 0 => text \in 1..MaxTyped /\ text # edTyped + 1
    BY <1>1, <1>5, MaxTypedAssumption DEF Text
  <2>2. text <= edTyped + 1
    BY <1>1, <1>5, MaxTypedAssumption DEF Text
  <2> QED
    BY <1>3, <1>4, <1>5, <2>1, <2>2 DEF TextOf
<1>6. EdTypeOK'
  BY <1>1, <1>2, <1>3, <1>4 DEF EdInv, EdTypeOK
<1>7. EdTexts'
  <2>1. \A f \in EditFile : edDisk'[f] <= edTyped' /\ TextOf(edDisk'[f], f, edHome')
    BY <1>4, <1>5 DEF EdInv, EdTypeOK, EdTexts
  <2>2. edOpen'.content <= edTyped' /\ TextOf(edOpen'.content, edOpen'.path, edHome')
    BY <1>1, <1>2, <1>3, <1>4 DEF TextOf
  <2>3. \A r \in edReads' : r.content # None =>
            r.content <= edTyped' /\ TextOf(r.content, r.path, edHome')
    BY <1>4, <1>5 DEF EdInv, EdTypeOK, EdTexts
  <2>4. \A w \in edSaves' :
            w.file.content <= edTyped' /\ TextOf(w.file.content, w.file.path, edHome')
    <3>1. \A w \in edSaves : w.file.content \in Text
      BY DEF EdInv, EdTypeOK, Save, OpenFile
    <3> QED
      BY <1>4, <1>5, <3>1 DEF EdInv, EdTexts
  <2> QED
    BY <2>1, <2>2, <2>3, <2>4 DEF EdTexts
<1> QED
  BY <1>6, <1>7 DEF EdInv

LEMMA EdLandsKeeps ==
    ASSUME EdInv, NEW w \in edSaves, EdLands(w)
    PROVE  EdInv'
<1>1. w \in Save /\ w.file \in OpenFile /\ w.file.path \in EditFile /\ w.file.content \in Text
  BY DEF EdInv, EdTypeOK, Save, OpenFile
<1>2. PICK landed : landed = [w EXCEPT !.landed = TRUE]
  OBVIOUS
<1>3. landed \in Save /\ landed.file = w.file
  BY <1>1, <1>2 DEF Save
<1>4. /\ edSaves' = (edSaves \ {w}) \cup {landed}
      /\ edDisk' = [edDisk EXCEPT ![w.file.path] = w.file.content]
      /\ UNCHANGED <<edTool, edOpen, edReads, edTyped, edHome>>
  BY <1>2 DEF EdLands, Landed
<1>5. /\ edDisk' \in [EditFile -> Text] /\ edDisk'[w.file.path] = w.file.content
      /\ \A f \in EditFile : f # w.file.path => edDisk'[f] = edDisk[f]
  BY <1>1, <1>4 DEF EdInv, EdTypeOK
<1>6. EdTypeOK'
  BY <1>3, <1>4, <1>5 DEF EdInv, EdTypeOK
<1>7. EdTexts'
  BY <1>3, <1>4, <1>5 DEF EdInv, EdTexts
<1> QED
  BY <1>6, <1>7 DEF EdInv

LEMMA EdStepInv == EdInv /\ [EdNext]_edVars => EdInv'
<1> SUFFICES ASSUME EdInv, [EdNext]_edVars PROVE EdInv'
  OBVIOUS
<1>0. EdTypeOK /\ EdTexts /\ 0 \in Text /\ 0 <= edTyped
  BY MaxTypedAssumption DEF EdInv, EdTypeOK, Text
<1>1. ASSUME NEW f \in EditFile, EdAsksFor(f) PROVE EdInv'
  <2>1. [path |-> f, content |-> None] \in [path : EditFile, content : Text \cup {None}]
    OBVIOUS
  <2> QED
    BY <1>0, <1>1, <2>1 DEF EdAsksFor, EdInv, EdTypeOK, EdTexts
<1>2. ASSUME NEW f \in EditFile, EdCreates(f) PROVE EdInv'
  <2>1. /\ Opened(f, 0) \in OpenFile /\ Opened(f, 0).content = 0
    BY <1>0, OpenedFacts
  <2>2. /\ edDisk' \in [EditFile -> Text]
        /\ \A g \in EditFile : edDisk'[g] = edDisk[g] \/ edDisk'[g] = 0
    BY <1>0, <1>2 DEF EdTypeOK, EdCreates
  <2> QED
    BY <1>0, <1>2, <2>1, <2>2, EdDisplays DEF EdCreates, TextOf
<1>3. ASSUME NEW r \in edReads, EdReads(r) PROVE EdInv'
  BY <1>3, EdReadKeeps
<1>4. ASSUME NEW r \in edReads, EdShows(r) PROVE EdInv'
  <2>1. /\ r.path \in EditFile /\ r.content \in Text
        /\ r.content <= edTyped /\ TextOf(r.content, r.path, edHome)
    BY <1>0, <1>4 DEF EdShows, EdTypeOK, EdTexts
  <2>2. /\ Opened(r.path, r.content) \in OpenFile /\ Opened(r.path, r.content).path = r.path
        /\ Opened(r.path, r.content).content = r.content
    BY <2>1, OpenedFacts
  <2> QED
    BY <1>0, <1>4, <2>1, <2>2, EdDisplays DEF EdShows, EdTypeOK
<1>5. ASSUME NEW r \in edReads, EdReadFails(r) PROVE EdInv'
  BY <1>0, <1>5 DEF EdReadFails, EdInv, EdTypeOK, EdTexts
<1>6. ASSUME NEW w \in edSaves, EdLands(w) PROVE EdInv'
  BY <1>6, EdLandsKeeps
<1>7. ASSUME NEW w \in edSaves, EdSaved(w) PROVE EdInv'
  <2>1. PICK file : file = [w.file EXCEPT !.dirty = FALSE]
    OBVIOUS
  <2>2. /\ file \in OpenFile /\ file.path = w.file.path /\ file.content = w.file.content
    BY <1>0, <2>1 DEF EdTypeOK, Save, OpenFile
  <2> QED
    BY <1>0, <1>7, <2>1, <2>2, EdDisplays DEF EdSaved, EdTypeOK, EdTexts
<1>8. ASSUME NEW w \in edSaves, EdSaveFails(w) PROVE EdInv'
  BY <1>0, <1>8 DEF EdSaveFails, EdInv, EdTypeOK, EdTexts
<1>9. CASE EdTypes
  BY <1>9, EdTypesKeeps
<1>10. CASE EdAsksToSave
  <2>1. [file |-> edOpen, landed |-> FALSE] \in Save
    BY <1>0, <1>10 DEF EdAsksToSave, EdTypeOK, Save
  <2>2. UNCHANGED <<edTool, edOpen, edDisk, edReads, edTyped, edHome>>
    BY <1>10 DEF EdAsksToSave
  <2>3. EdTypeOK'
    BY <1>0, <1>10, <2>1, <2>2 DEF EdAsksToSave, EdTypeOK
  <2>4. EdTexts'
    BY <1>0, <1>10, <2>2 DEF EdAsksToSave, EdTexts
  <2> QED
    BY <2>3, <2>4 DEF EdInv
<1>11. CASE EdCloses
  BY <1>0, <1>11 DEF EdCloses, EdInv, EdTypeOK, EdTexts
<1>12. CASE UNCHANGED edVars
  BY <1>0, <1>12 DEF edVars, EdInv, EdTypeOK, EdTexts
<1> QED
  BY <1>1, <1>2, <1>3, <1>4, <1>5, <1>6, <1>7, <1>8, <1>9, <1>10, <1>11, <1>12 DEF EdNext

LEMMA EdInvHome == EdInv => EdTextStaysHome
BY MaxTypedAssumption DEF EdInv, EdTypeOK, EdTexts, TextOf, EdTextStaysHome

\* What is shown as saved was read from the server, or its write was acknowledged.
EdCleanStep ==
    \A t \in 1..MaxTyped :
        edOpen' # None /\ edOpen'.content = t /\ ~edOpen'.dirty =>
            \/ edOpen = edOpen'
            \/ \E r \in edReads : r.content = t
            \/ \E w \in edSaves : w.landed /\ w.file.content = t

LEMMA EdStepClean ==
    ASSUME EdInv, [EdNext]_edVars
    PROVE  EdCleanStep
<1>1. ASSUME NEW t \in 1..MaxTyped, edOpen' # None, edOpen'.content = t, ~edOpen'.dirty,
             edOpen # edOpen'
      PROVE  \/ \E r \in edReads : r.content = t
             \/ \E w \in edSaves : w.landed /\ w.file.content = t
  <2>1. CASE EdTypes
    BY <1>1, <2>1 DEF EdTypes, EdInv, EdTypeOK, OpenFile
  <2>2. ASSUME NEW r \in edReads, EdShows(r) PROVE r.content = t
    <3>1. r.path \in EditFile /\ r.content \in Text
      BY <2>2 DEF EdInv, EdTypeOK, EdShows
    <3>2. Opened(r.path, r.content) \in OpenFile /\ Opened(r.path, r.content).content = r.content
      BY <3>1, OpenedFacts
    <3> QED
      BY <1>1, <2>2, <3>2, DisplayedFacts DEF EdShows
  <2>3. ASSUME NEW w \in edSaves, EdSaved(w) PROVE w.landed /\ w.file.content = t
    <3>1. PICK file : file = [w.file EXCEPT !.dirty = FALSE]
      OBVIOUS
    <3>2. file \in OpenFile /\ file.content = w.file.content
      BY <3>1 DEF EdInv, EdTypeOK, Save, OpenFile
    <3> QED
      BY <1>1, <2>3, <3>1, <3>2, DisplayedFacts DEF EdSaved
  <2>4. ASSUME NEW f \in EditFile, EdCreates(f) PROVE FALSE
    <3>1. Opened(f, 0) \in OpenFile /\ Opened(f, 0).content = 0
      BY MaxTypedAssumption, OpenedFacts DEF Text
    <3>2. edOpen'.content = 0
      BY <2>4, <3>1, DisplayedFacts DEF EdCreates
    <3> QED
      BY <1>1, <3>2
  <2>5. CASE EdCloses
    BY <1>1, <2>5 DEF EdCloses
  <2>6. CASE edOpen' = edOpen
    BY <1>1, <2>6
  <2> QED
    BY <2>1, <2>2, <2>3, <2>4, <2>5, <2>6
       DEF EdNext, edVars, EdAsksFor, EdReads, EdReadFails, EdLands, EdSaveFails, EdAsksToSave
<1> QED
  BY <1>1 DEF EdCleanStep

(***************************************************************************)
(* Transfers.                                                              *)
(***************************************************************************)
\* A transfer is listed from its call to its end, is whole only when it is over, and
\* counts one end at most.
TrOrdered(state, ended) ==
    /\ state.at = "new" => ~state.listed /\ ended = 0
    /\ state.listed => ended = 0
    /\ state.file = "whole" => state.at = "over"
\* A row that says complete is of a whole file, and nothing is left to report of it.
TrShown(state, view) == view = "complete" => state.file = "whole" /\ ~state.listed

TrInv ==
    /\ TrTypeOK
    /\ \A t \in Transfer : TrOrdered(trMain[t], trEnded[t]) /\ TrShown(trMain[t], trView[t])

\* One transfer changes, with its row and its end.
LEMMA TrOne ==
    ASSUME TrInv, NEW t \in Transfer, NEW state \in TransferRecord, NEW view \in ViewStatus,
           NEW ended \in {0, 1}, TrOrdered(state, ended), TrShown(state, view),
           trMain' = [trMain EXCEPT ![t] = state],
           trView' = trView \/ trView' = [trView EXCEPT ![t] = view], trView'[t] = view,
           trEnded' = trEnded \/ trEnded' = [trEnded EXCEPT ![t] = ended], trEnded'[t] = ended,
           trClicked' \subseteq Transfer
    PROVE  TrInv'
<1>1. /\ trMain \in [Transfer -> TransferRecord] /\ trView \in [Transfer -> ViewStatus]
      /\ trEnded \in [Transfer -> {0, 1}]
  BY DEF TrInv, TrTypeOK
<1>2. /\ trMain' \in [Transfer -> TransferRecord] /\ trMain'[t] = state
      /\ \A u \in Transfer : u # t => trMain'[u] = trMain[u]
  BY <1>1
<1>3. /\ trView' \in [Transfer -> ViewStatus] /\ trView'[t] = view
      /\ \A u \in Transfer : u # t => trView'[u] = trView[u]
  BY <1>1
<1>4. /\ trEnded' \in [Transfer -> {0, 1}] /\ trEnded'[t] = ended
      /\ \A u \in Transfer : u # t => trEnded'[u] = trEnded[u]
  BY <1>1
<1>5. TrTypeOK'
  BY <1>2, <1>3, <1>4 DEF TrTypeOK
<1>6. \A u \in Transfer : TrOrdered(trMain'[u], trEnded'[u]) /\ TrShown(trMain'[u], trView'[u])
  BY <1>2, <1>3, <1>4 DEF TrInv
<1> QED
  BY <1>5, <1>6 DEF TrInv

\* What a step leaves alone or reports of one row.
LEMMA ProgressFacts ==
    ASSUME NEW view \in [Transfer -> ViewStatus], NEW t \in Transfer
    PROVE  /\ Progress(view, t) \in [Transfer -> ViewStatus] /\ Progress(view, t)[t] = "active"
           /\ \A u \in Transfer : u # t => Progress(view, t)[u] = view[u]
BY DEF Progress, ViewStatus

LEMMA CompleteFacts ==
    ASSUME NEW view \in [Transfer -> ViewStatus], NEW t \in Transfer, NEW success \in BOOLEAN
    PROVE  /\ Complete(view, t, success) \in [Transfer -> ViewStatus]
           /\ Complete(view, t, success)[t] \in {"none", IF success THEN "complete" ELSE "cancelled"}
           /\ \A u \in Transfer : u # t => Complete(view, t, success)[u] = view[u]
BY DEF Complete, ViewStatus

\* A transfer ends: it is reported if it is still listed.
LEMMA TrFinishKeeps ==
    ASSUME TrInv, NEW t \in Transfer, NEW success \in BOOLEAN, NEW state \in TransferRecord,
           NEW view \in [Transfer -> ViewStatus], Finish(t, success, state, view),
           \A u \in Transfer : u # t => view[u] = trView[u],
           state.at # "new", state.file = "whole" => state.at = "over",
           state.listed = trMain[t].listed, success => state.file = "whole",
           TrShown(state, view[t]), trClicked' \subseteq Transfer
    PROVE  TrInv'
<1>1. /\ trMain \in [Transfer -> TransferRecord] /\ trView \in [Transfer -> ViewStatus]
      /\ trEnded \in [Transfer -> {0, 1}] /\ TrOrdered(trMain[t], trEnded[t])
  BY DEF TrInv, TrTypeOK
<1>2. CASE state.listed
  <2>1. PICK after : after = [state EXCEPT !.listed = FALSE]
    OBVIOUS
  <2>2. /\ after \in TransferRecord /\ after.listed = FALSE /\ after.file = state.file
        /\ after.at = state.at
    BY <2>1 DEF TransferRecord
  <2>3. PICK now : now = Complete(view, t, success)
    OBVIOUS
  <2>4. /\ now \in [Transfer -> ViewStatus]
        /\ now[t] \in {"none", IF success THEN "complete" ELSE "cancelled"}
        /\ \A u \in Transfer : u # t => now[u] = trView[u]
    BY <2>3, CompleteFacts
  <2>5. /\ trMain' = [trMain EXCEPT ![t] = after] /\ trView' = now
        /\ trEnded' = [trEnded EXCEPT ![t] = trEnded[t] + 1]
    BY <1>2, <2>1, <2>3 DEF Finish, TransferIs
  <2>6. trEnded[t] = 0
    BY <1>1, <1>2 DEF TrOrdered
  <2>7. trView' = [trView EXCEPT ![t] = now[t]]
    BY <1>1, <2>4, <2>5
  <2>8. TrOrdered(after, 1) /\ TrShown(after, now[t])
    BY <2>2, <2>4 DEF TrOrdered, TrShown
  <2>9. trEnded' = [trEnded EXCEPT ![t] = 1] /\ trEnded'[t] = 1 /\ trView'[t] = now[t]
    BY <1>1, <2>5, <2>6
  <2>10. now[t] \in ViewStatus
    BY <2>4
  <2> QED
    BY <2>2, <2>5, <2>7, <2>8, <2>9, <2>10, TrOne
<1>3. CASE ~state.listed
  <2>1. trMain' = [trMain EXCEPT ![t] = state] /\ trView' = view /\ trEnded' = trEnded
    BY <1>3 DEF Finish, TransferIs
  <2>2. trView' = [trView EXCEPT ![t] = view[t]]
    BY <1>1, <2>1
  <2>3. trEnded[t] \in {0, 1} /\ view[t] \in ViewStatus
    BY <1>1
  <2>4. TrOrdered(state, trEnded[t])
    BY <1>3 DEF TrOrdered
  <2>5. trView'[t] = view[t] /\ trEnded'[t] = trEnded[t]
    BY <2>1
  <2> QED
    BY <2>1, <2>2, <2>3, <2>4, <2>5, TrOne
<1> QED
  BY <1>2, <1>3

LEMMA TrInitInv == TrInit => TrInv
<1> SUFFICES ASSUME TrInit PROVE TrInv
  OBVIOUS
<1>1. PICK kind \in [Transfer -> Kind] :
          trMain = [t \in Transfer |-> [kind |-> kind[t], at |-> "new", listed |-> FALSE,
                                        cancelled |-> FALSE, file |-> "absent"]]
  BY DEF TrInit
<1>2. \A t \in Transfer :
          trMain[t] \in TransferRecord /\ trMain[t].at = "new" /\ ~trMain[t].listed
             /\ trMain[t].file = "absent"
  BY <1>1 DEF TransferRecord
<1>3. trMain \in [Transfer -> TransferRecord]
  BY <1>1, <1>2
<1>4. TrTypeOK
  BY <1>3 DEF TrInit, TrTypeOK, ViewStatus
<1>5. \A t \in Transfer : TrOrdered(trMain[t], trEnded[t]) /\ TrShown(trMain[t], trView[t])
  BY <1>2 DEF TrInit, TrOrdered, TrShown
<1> QED
  BY <1>4, <1>5 DEF TrInv

LEMMA TrStepInv == TrInv /\ [TrNext]_trVars => TrInv'
<1> SUFFICES ASSUME TrInv, [TrNext]_trVars PROVE TrInv'
  OBVIOUS
<1>1. /\ trMain \in [Transfer -> TransferRecord] /\ trView \in [Transfer -> ViewStatus]
      /\ trEnded \in [Transfer -> {0, 1}] /\ trClicked \subseteq Transfer
      /\ \A t \in Transfer : TrOrdered(trMain[t], trEnded[t]) /\ TrShown(trMain[t], trView[t])
  BY DEF TrInv, TrTypeOK
<1>2. ASSUME NEW t \in Transfer,
             \/ TrStarts(t) \/ TrOpens(t) \/ TrFailsQuietly(t) \/ TrSteps(t) \/ TrMoved(t)
             \/ TrFails(t) \/ TrCancelClicked(t) \/ TrCancels(t) \/ TrDismissed(t)
      PROVE  TrInv'
  <2>1. /\ trMain[t] \in TransferRecord /\ trView[t] \in ViewStatus /\ trEnded[t] \in {0, 1}
        /\ TrOrdered(trMain[t], trEnded[t]) /\ TrShown(trMain[t], trView[t])
    BY <1>1
  <2>2. /\ Progress(trView, t) = [trView EXCEPT ![t] = "active"] /\ "active" \in ViewStatus
        /\ Progress(trView, t)[t] = "active"
    BY <1>1 DEF Progress, ViewStatus
  <2>3. CASE TrStarts(t)
    <3>1. PICK state : state = [trMain[t] EXCEPT !.at = "sftp", !.listed = TRUE]
      OBVIOUS
    <3>2. /\ state \in TransferRecord /\ state.at = "sftp" /\ state.file = trMain[t].file
      BY <2>1, <3>1 DEF TransferRecord
    <3>3. /\ trMain' = [trMain EXCEPT ![t] = state]
          /\ trView' \in {trView, Progress(trView, t)}
          /\ trEnded' = trEnded /\ trClicked' = trClicked /\ trMain[t].at = "new"
      BY <2>3, <3>1 DEF TrStarts, TransferIs
    <3>4. TrOrdered(state, trEnded[t]) /\ TrShown(state, trView'[t])
      BY <2>1, <2>2, <3>2, <3>3 DEF TrOrdered, TrShown
    <3>5. trView'[t] \in ViewStatus /\ trEnded'[t] = trEnded[t]
      BY <2>1, <2>2, <3>3
    <3>6. trView' = trView \/ trView' = [trView EXCEPT ![t] = trView'[t]]
      BY <2>2, <3>3
    <3>7. PICK view \in ViewStatus : view = trView'[t]
      BY <3>5
    <3> QED
      BY <1>1, <2>1, <3>2, <3>3, <3>4, <3>5, <3>6, <3>7, TrOne
  <2>4. CASE TrOpens(t) \/ TrFailsQuietly(t)
    <3>1. PICK at \in {"moving", "over"} :
            trMain' = [trMain EXCEPT ![t] = [trMain[t] EXCEPT !.at = at]]
      <4>1. CASE TrOpens(t)
        BY <4>1 DEF TrOpens, TransferIs
      <4>2. CASE TrFailsQuietly(t)
        BY <4>2 DEF TrFailsQuietly, TransferIs
      <4> QED
        BY ONLY <2>4, <4>1, <4>2
    <3>2. PICK state : state = [trMain[t] EXCEPT !.at = at]
      OBVIOUS
    <3>3. /\ state \in TransferRecord /\ state.at = at /\ state.file = trMain[t].file
          /\ state.listed = trMain[t].listed
      BY <2>1, <3>2 DEF TransferRecord
    <3>4. /\ trMain[t].at \in {"sftp", "moving"} /\ UNCHANGED <<trView, trClicked, trEnded>>
      BY <2>4 DEF TrOpens, TrFailsQuietly
    <3>5. TrOrdered(state, trEnded[t]) /\ TrShown(state, trView[t])
      BY <2>1, <3>3, <3>4 DEF TrOrdered, TrShown
    <3>6. trMain' = [trMain EXCEPT ![t] = state] /\ trView' = trView /\ trEnded' = trEnded
      BY ONLY <3>1, <3>2, <3>4
    <3>7. trView'[t] = trView[t] /\ trEnded'[t] = trEnded[t] /\ trClicked' \subseteq Transfer
      BY ONLY <1>1, <3>4
    <3> QED
      BY <2>1, <3>3, <3>5, <3>6, <3>7, TrOne
  <2>5. CASE TrSteps(t)
    <3>1. PICK state : state = [trMain[t] EXCEPT !.file = "partial"]
      OBVIOUS
    <3>2. /\ state \in TransferRecord /\ state.file = "partial" /\ state.at = trMain[t].at
          /\ state.listed = trMain[t].listed
      BY <2>1, <3>1 DEF TransferRecord
    <3>3. TrOrdered(state, trEnded[t]) /\ TrShown(state, "active")
      BY <2>1, <3>2 DEF TrOrdered, TrShown
    <3>4. /\ trMain' = [trMain EXCEPT ![t] = state] /\ trView' = Progress(trView, t)
          /\ trEnded' = trEnded /\ trClicked' = trClicked
      BY <2>5, <3>1 DEF TrSteps, TransferIs
    <3> QED
      BY <1>1, <2>1, <2>2, <3>2, <3>3, <3>4, TrOne
  <2>6. CASE TrMoved(t)
    <3>1. PICK state : state = [trMain[t] EXCEPT !.at = "over", !.file = "whole"]
      OBVIOUS
    <3>2. /\ state \in TransferRecord /\ state.file = "whole" /\ state.at = "over"
          /\ state.listed = trMain[t].listed
      BY <2>1, <3>1 DEF TransferRecord
    <3>3. trMain[t].at = "moving" /\ trClicked' = trClicked
      BY <2>6 DEF TrMoved
    <3>4. trView[t] # "complete"
      BY <2>1, <3>3 DEF TrOrdered, TrShown
    <3>5. CASE trMain[t].cancelled
      <4>1. trMain' = [trMain EXCEPT ![t] = state] /\ UNCHANGED <<trView, trEnded>>
        BY <2>6, <3>1, <3>5 DEF TrMoved, TransferIs
      <4>2. TrOrdered(state, trEnded[t]) /\ TrShown(state, trView[t])
        BY <2>1, <3>2, <3>4 DEF TrOrdered, TrShown
      <4> QED
        BY <1>1, <2>1, <3>2, <3>3, <4>1, <4>2, TrOne
    <3>6. CASE ~trMain[t].cancelled
      <4>1. PICK view : view = IF trMain[t].kind = "chunk" THEN Progress(trView, t) ELSE trView
        OBVIOUS
      <4>2. Finish(t, TRUE, state, view)
        BY <2>6, <3>1, <3>6, <4>1 DEF TrMoved
      <4>3. /\ view \in [Transfer -> ViewStatus] /\ view[t] # "complete"
            /\ \A u \in Transfer : u # t => view[u] = trView[u]
        BY <1>1, <3>4, <4>1, ProgressFacts
      <4>4. TrShown(state, view[t])
        BY <4>3 DEF TrShown
      <4> QED
        BY <1>1, <3>2, <3>3, <4>2, <4>3, <4>4, TrFinishKeeps
    <3> QED
      BY <3>5, <3>6
  <2>7. CASE TrFails(t)
    <3>1. PICK state : state = [trMain[t] EXCEPT !.at = "over"]
      OBVIOUS
    <3>2. /\ state \in TransferRecord /\ state.file = trMain[t].file /\ state.at = "over"
          /\ state.listed = trMain[t].listed
      BY <2>1, <3>1 DEF TransferRecord
    <3>3. trMain[t].at = "moving" /\ trClicked' = trClicked
      BY <2>7 DEF TrFails
    <3>4. trView[t] # "complete" /\ TrShown(state, trView[t])
      BY <2>1, <3>3 DEF TrOrdered, TrShown
    <3>5. CASE trMain[t].cancelled
      <4>1. trMain' = [trMain EXCEPT ![t] = state] /\ UNCHANGED <<trView, trEnded>>
        BY <2>7, <3>1, <3>5 DEF TrFails, TransferIs
      <4>2. TrOrdered(state, trEnded[t])
        BY <2>1, <3>2 DEF TrOrdered
      <4> QED
        BY <1>1, <2>1, <3>2, <3>3, <3>4, <4>1, <4>2, TrOne
    <3>6. CASE ~trMain[t].cancelled
      <4>1. Finish(t, FALSE, state, trView)
        BY <2>7, <3>1, <3>6 DEF TrFails
      <4> QED
        BY <1>1, <3>2, <3>3, <3>4, <4>1, TrFinishKeeps
    <3> QED
      BY <3>5, <3>6
  <2>8. CASE TrCancels(t)
    <3>1. trClicked' \subseteq Transfer
      BY <1>1, <2>8 DEF TrCancels
    <3>2. CASE trMain[t].listed
      <4>1. PICK state : state = [trMain[t] EXCEPT !.cancelled = TRUE]
        OBVIOUS
      <4>2. /\ state \in TransferRecord /\ state.file = trMain[t].file /\ state.at = trMain[t].at
            /\ state.listed = trMain[t].listed
        BY <2>1, <4>1 DEF TransferRecord
      <4>3. Finish(t, FALSE, state, trView)
        BY <2>8, <3>2, <4>1 DEF TrCancels
      <4>4. state.at # "new" /\ (state.file = "whole" => state.at = "over")
        BY <2>1, <3>2, <4>2 DEF TrOrdered
      <4>5. TrShown(state, trView[t])
        BY <2>1, <4>2 DEF TrShown
      <4> QED
        BY <1>1, <3>1, <4>2, <4>3, <4>4, <4>5, TrFinishKeeps
    <3>3. CASE ~trMain[t].listed
      <4>1. UNCHANGED <<trMain, trView, trEnded>>
        BY <2>8, <3>3 DEF TrCancels
      <4> QED
        BY <3>1, <4>1 DEF TrInv, TrTypeOK
    <3> QED
      BY <3>2, <3>3
  <2>9. CASE TrCancelClicked(t) \/ TrDismissed(t)
    <3>1. PICK view \in {"cancelled", "none"} : trView' = [trView EXCEPT ![t] = view]
      BY <2>9 DEF TrCancelClicked, TrDismissed
    <3>2. UNCHANGED <<trMain, trEnded>> /\ trClicked' \subseteq Transfer
      BY <1>1, <2>9 DEF TrCancelClicked, TrDismissed
    <3>3. /\ trView' \in [Transfer -> ViewStatus] /\ trView'[t] = view
          /\ \A u \in Transfer : u # t => trView'[u] = trView[u]
      BY <1>1, <3>1 DEF ViewStatus
    <3>4. TrTypeOK'
      BY <1>1, <3>2, <3>3 DEF TrTypeOK
    <3>5. \A u \in Transfer : TrOrdered(trMain'[u], trEnded'[u]) /\ TrShown(trMain'[u], trView'[u])
      BY <1>1, <3>2, <3>3 DEF TrShown
    <3> QED
      BY <3>4, <3>5 DEF TrInv
  <2> QED
    BY <1>2, <2>3, <2>4, <2>5, <2>6, <2>7, <2>8, <2>9
<1>3. CASE UNCHANGED trVars
  BY <1>3 DEF trVars, TrInv, TrTypeOK
<1> QED
  BY <1>2, <1>3 DEF TrNext

LEMMA TrInvWhole == TrInv => TrCompleteIsWhole
BY DEF TrInv, TrShown, TrCompleteIsWhole

\* A row that says complete says so until it is dismissed.
TrFinalStep ==
    \A t \in Transfer : trView[t] = "complete" => trView'[t] \in {"complete", "none"}

LEMMA TrStepFinal ==
    ASSUME TrInv, [TrNext]_trVars
    PROVE  TrFinalStep
<1>1. ASSUME NEW t \in Transfer, trView[t] = "complete",
             NEW u \in Transfer,
             \/ TrStarts(u) \/ TrOpens(u) \/ TrFailsQuietly(u) \/ TrSteps(u) \/ TrMoved(u)
             \/ TrFails(u) \/ TrCancelClicked(u) \/ TrCancels(u) \/ TrDismissed(u)
      PROVE  trView'[t] \in {"complete", "none"}
  <2>1. trView \in [Transfer -> ViewStatus] /\ trMain[t].at = "over" /\ ~trMain[t].listed
    BY <1>1 DEF TrInv, TrTypeOK, TrOrdered, TrShown
  <2>2. CASE u # t
    <3>1. /\ \A success \in BOOLEAN : Complete(trView, u, success)[t] = trView[t]
          /\ Progress(trView, u)[t] = trView[t]
          /\ \A success \in BOOLEAN : Complete(Progress(trView, u), u, success)[t] = trView[t]
      BY <2>1, <2>2, ProgressFacts, CompleteFacts
    <3>2. CASE TrStarts(u) \/ TrOpens(u) \/ TrFailsQuietly(u) \/ TrSteps(u)
      BY <1>1, <3>1, <3>2 DEF TrStarts, TrOpens, TrFailsQuietly, TrSteps
    <3>3. CASE TrMoved(u) \/ TrFails(u) \/ TrCancels(u)
      BY <1>1, <3>1, <3>3 DEF TrMoved, TrFails, TrCancels, Finish
    <3>4. CASE TrCancelClicked(u) \/ TrDismissed(u)
      BY <1>1, <2>1, <2>2, <3>4 DEF TrCancelClicked, TrDismissed
    <3> QED
      BY <1>1, <3>2, <3>3, <3>4
  <2>3. CASE u = t
    <3>1. CASE TrCancels(t) \/ TrDismissed(t)
      BY <1>1, <2>1, <3>1 DEF TrCancels, TrDismissed
    <3>2. CASE ~(TrCancels(t) \/ TrDismissed(t))
      BY <1>1, <2>1, <2>3, <3>2
         DEF TrStarts, TrOpens, TrFailsQuietly, TrSteps, TrMoved, TrFails, TrCancelClicked
    <3> QED
      BY <3>1, <3>2
  <2> QED
    BY <2>2, <2>3
<1>2. CASE UNCHANGED trVars
  BY <1>2 DEF trVars, TrFinalStep
<1> QED
  BY <1>1, <1>2 DEF TrNext, TrFinalStep

(***************************************************************************)
(* Host keys.                                                              *)
(***************************************************************************)
HkDialRecord ==
    [id : Server, host : Host, key : Key, test : BOOLEAN,
     phase : {"prompted", "saving", "accepted", "refused", "over"}]
HkMessage == [prompt : Dial \cup {None}]
HkAnswer == [id : Server, decision : {"accept", "reject"}]

\* Whatever refers to a dial refers to one that is there, of the server it is kept for.
HkThere(v) == v # None => v \in Dial /\ hkDial[v] # NoDial
HkTyped ==
    /\ hkDial \in [Dial -> HkDialRecord \cup {NoDial}]
    /\ hkTest \in Dial \cup {None} /\ hkPrompt \in Dial \cup {None}
    /\ hkPending \in [Server -> Dial \cup {None}]
    /\ hkKnown \in [Host -> Key \cup {None}]
    /\ hkAccepted \subseteq Host \X Key /\ hkMixed \in BOOLEAN
    /\ hkToWindow \in Seq(HkMessage)
    /\ hkAnswers = <<>> \/ \E a \in HkAnswer : hkAnswers = <<a>>
HkRefers ==
    /\ HkThere(hkTest) /\ HkThere(hkPrompt)
    /\ \A i \in DOMAIN hkToWindow : HkThere(hkToWindow[i].prompt)
    /\ \A s \in Server : hkPending[s] # None => HkThere(hkPending[s]) /\ hkDial[hkPending[s]].id = s

\* The prompt of v, of the server s, waits, travels or is on display.
HkOut(v, s) ==
    /\ hkDial[v] # NoDial /\ hkDial[v].id = s
    /\ \/ v \in {hkTest, hkPending[s], hkPrompt}
       \/ \E i \in DOMAIN hkToWindow : hkToWindow[i].prompt = v
HkAgreed(v) == <<hkDial[v].host, hkDial[v].key>> \in hkAccepted

\* As long as no two prompts of one server have met: each server has one, an answer on its
\* way is to that one, and what is known and what goes on was accepted.
HkOnlyOne ==
    ~hkMixed => \A s \in Server : \A v, w \in Dial : HkOut(v, s) /\ HkOut(w, s) => v = w
HkAnswersThat ==
    ~hkMixed => \A a \in HkAnswer : hkAnswers = <<a>> /\ a.decision = "accept" =>
                    \A v \in Dial : HkOut(v, a.id) => HkAgreed(v)
HkTrusted ==
    ~hkMixed =>
        /\ \A h \in Host : hkKnown[h] # None => <<h, hkKnown[h]>> \in hkAccepted
        /\ \A v \in Dial : hkDial[v] # NoDial /\ hkDial[v].phase \in {"saving", "accepted"} =>
               HkAgreed(v)

HkInv == HkTyped /\ HkRefers /\ HkOnlyOne /\ HkAnswersThat /\ HkTrusted

LEMMA NoDialFacts == NoDial \notin HkDialRecord
<1>1. ASSUME NoDial \in HkDialRecord PROVE FALSE
  <2>1. "id" \in DOMAIN NoDial
    BY <1>1 DEF HkDialRecord
  <2> QED
    BY <2>1 DEF NoDial
<1> QED
  BY <1>1

\* A dial in another phase is the same dial.
LEMMA PhaseFacts ==
    ASSUME NEW dial \in HkDialRecord,
           NEW phase \in {"prompted", "saving", "accepted", "refused", "over"}
    PROVE  /\ [dial EXCEPT !.phase = phase] \in HkDialRecord
           /\ [dial EXCEPT !.phase = phase].id = dial.id
           /\ [dial EXCEPT !.phase = phase].host = dial.host
           /\ [dial EXCEPT !.phase = phase].key = dial.key
           /\ [dial EXCEPT !.phase = phase].phase = phase
BY DEF HkDialRecord

LEMMA MovedFacts ==
    ASSUME HkTyped, NEW v \in Dial, hkDial[v] # NoDial,
           NEW phase \in {"prompted", "saving", "accepted", "refused", "over"}
    PROVE  /\ Moved(v, phase) \in [Dial -> HkDialRecord \cup {NoDial}]
           /\ \A w \in Dial : w # v => Moved(v, phase)[w] = hkDial[w]
           /\ Moved(v, phase)[v] # NoDial /\ Moved(v, phase)[v].id = hkDial[v].id
           /\ Moved(v, phase)[v].host = hkDial[v].host
           /\ Moved(v, phase)[v].key = hkDial[v].key
           /\ Moved(v, phase)[v].phase = phase
<1>1. hkDial \in [Dial -> HkDialRecord \cup {NoDial}] /\ hkDial[v] \in HkDialRecord
  BY DEF HkTyped
<1> DEFINE now == [hkDial[v] EXCEPT !.phase = phase]
<1>2. /\ now \in HkDialRecord /\ now.id = hkDial[v].id /\ now.host = hkDial[v].host
      /\ now.key = hkDial[v].key /\ now.phase = phase
  BY <1>1 DEF HkDialRecord
<1>3. now # NoDial
  BY <1>2, NoDialFacts
<1>4. Moved(v, phase) = [hkDial EXCEPT ![v] = now]
  BY DEF Moved
<1> HIDE DEF now
<1>5. Moved(v, phase) \in [Dial -> HkDialRecord \cup {NoDial}]
  BY <1>1, <1>2, <1>4
<1>6. Moved(v, phase)[v] = now /\ \A w \in Dial : w # v => Moved(v, phase)[w] = hkDial[w]
  BY <1>1, <1>4
<1> QED
  BY ONLY <1>2, <1>3, <1>5, <1>6

\* The dials are the same ones as before, some of them further.
HkSameDials ==
    \A v \in Dial : /\ (hkDial'[v] # NoDial <=> hkDial[v] # NoDial)
                    /\ hkDial[v] # NoDial => /\ hkDial'[v].id = hkDial[v].id
                                             /\ hkDial'[v].host = hkDial[v].host
                                             /\ hkDial'[v].key = hkDial[v].key

LEMMA MovedSame ==
    ASSUME HkTyped, NEW v \in Dial, hkDial[v] # NoDial,
           NEW phase \in {"prompted", "saving", "accepted", "refused", "over"},
           hkDial' = Moved(v, phase)
    PROVE  /\ hkDial' \in [Dial -> HkDialRecord \cup {NoDial}] /\ HkSameDials
           /\ \A w \in Dial : w # v => hkDial'[w] = hkDial[w]
           /\ hkDial'[v].phase = phase
BY MovedFacts DEF HkSameDials

\* No prompt is out that was not before, and no answer more than before.
LEMMA HkGoesOn ==
    ASSUME HkInv, hkMixed' = hkMixed, hkAnswers' = hkAnswers \/ hkAnswers' = <<>>,
           \A v \in Dial, s \in Server :
               HkOut(v, s)' => HkOut(v, s) /\ (HkAgreed(v) => HkAgreed(v)')
    PROVE  HkOnlyOne' /\ HkAnswersThat'
<1>1. ASSUME ~hkMixed', NEW s \in Server, NEW v \in Dial, NEW w \in Dial,
             HkOut(v, s)', HkOut(w, s)'
      PROVE  v = w
  <2>1. HkOut(v, s) /\ HkOut(w, s)
    BY <1>1
  <2> QED
    BY <1>1, <2>1 DEF HkInv, HkOnlyOne
<1>2. ASSUME ~hkMixed', NEW a \in HkAnswer, hkAnswers' = <<a>>, a.decision = "accept",
             NEW v \in Dial, HkOut(v, a.id)'
      PROVE  HkAgreed(v)'
  <2>1. a.id \in Server /\ hkAnswers = <<a>>
    BY <1>2 DEF HkAnswer
  <2>2. HkOut(v, a.id) /\ (HkAgreed(v) => HkAgreed(v)')
    BY <1>2, <2>1
  <2>3. HkAgreed(v)
    BY <1>2, <2>1, <2>2 DEF HkInv, HkAnswersThat
  <2> QED
    BY <2>2, <2>3
<1>3. HkOnlyOne'
  BY <1>1 DEF HkOnlyOne
<1>4. HkAnswersThat'
  BY <1>2 DEF HkAnswersThat
<1> QED
  BY <1>3, <1>4

LEMMA HkInitInv ==
    ASSUME HkInit
    PROVE  HkInv
<1>1. hkDial = [v \in Dial |-> NoDial] /\ \A v \in Dial : hkDial[v] = NoDial
  BY DEF HkInit
<1>2. HkTyped
  <2>1. hkDial \in [Dial -> HkDialRecord \cup {NoDial}]
    BY DEF HkInit
  <2>2. hkToWindow \in Seq(HkMessage)
    BY DEF HkInit
  <2> QED
    BY <2>1, <2>2 DEF HkInit, HkTyped
<1>3. HkRefers
  BY DEF HkInit, HkRefers, HkThere
<1>4. HkOnlyOne /\ HkAnswersThat
  BY <1>1 DEF HkOnlyOne, HkAnswersThat, HkOut
<1>5. HkTrusted
  BY <1>1 DEF HkInit, HkTrusted
<1> QED
  BY <1>2, <1>3, <1>4, <1>5 DEF HkInv

LEMMA HkInvTrust ==
    ASSUME HkInv
    PROVE  HkTypeOK /\ HkTrustIsTheUsers
<1>1. HkTypeOK
  <2>1. hkAnswers = <<>> \/ \E a \in HkAnswer : hkAnswers = <<a>>
    BY DEF HkInv, HkTyped
  <2>2. Len(hkAnswers) <= 1
    <3>1. CASE hkAnswers = <<>>
      BY <3>1
    <3>2. CASE \E a \in HkAnswer : hkAnswers = <<a>>
      <4>1. PICK a \in HkAnswer : hkAnswers = <<a>>
        BY <3>2
      <4>2. Len(hkAnswers) = 1
        BY <4>1
      <4> QED
        BY <4>2
    <3> QED
      BY <2>1, <3>1, <3>2
  <2> QED
    BY <2>2 DEF HkInv, HkTyped, HkTypeOK
<1>2. HkTrustIsTheUsers
  BY DEF HkInv, HkTrusted, HkTrustIsTheUsers, HkAgreed
<1> QED
  BY <1>1, <1>2

LEMMA MessageFacts ==
    ASSUME HkTyped, NEW i \in DOMAIN hkToWindow
    PROVE  hkToWindow[i].prompt \in Dial \cup {None}
<1>1. hkToWindow \in Seq(HkMessage)
  BY DEF HkTyped
<1>2. hkToWindow[i] \in HkMessage
  BY <1>1
<1> QED
  BY <1>2 DEF HkMessage

\* As long as the dials that were there stay the same ones, so do those referred to.
LEMMA HkSameRefers ==
    ASSUME HkTyped, HkRefers,
           \A v \in Dial : hkDial[v] # NoDial =>
               hkDial'[v] # NoDial /\ hkDial'[v].id = hkDial[v].id,
           hkTest' \in {hkTest, None},
           hkPrompt' = hkPrompt, hkToWindow' = hkToWindow,
           \A s \in Server : hkPending'[s] \in {hkPending[s], None}
    PROVE  HkRefers'
<1>1. \A v \in Dial \cup {None} : HkThere(v) => HkThere(v)'
  BY HkNoneAssumption DEF HkThere
<1>2. HkThere(hkTest)' /\ HkThere(hkPrompt)'
  BY <1>1 DEF HkTyped, HkRefers, HkThere
<1>3. \A i \in DOMAIN hkToWindow : HkThere(hkToWindow[i].prompt)'
  BY <1>1, MessageFacts DEF HkRefers
<1>4. ASSUME NEW s \in Server, hkPending'[s] # None
      PROVE  /\ hkPending'[s] \in Dial /\ hkDial'[hkPending'[s]] # NoDial
             /\ hkDial'[hkPending'[s]].id = s
  BY <1>4 DEF HkTyped, HkRefers, HkThere
<1> QED
  BY <1>2, <1>3, <1>4 DEF HkRefers, HkThere

LEMMA HkKnowsStep ==
    ASSUME HkInv, NEW v \in Dial, NEW s \in Server, NEW h \in Host, NEW k \in Key,
           NEW test \in BOOLEAN, HkKnows(v, s, h, k, test)
    PROVE  HkInv'
<1> DEFINE new == [id |-> s, host |-> h, key |-> k, test |-> test, phase |-> "accepted"]
<1>1. /\ new \in HkDialRecord /\ new # NoDial /\ new.id = s /\ new.host = h /\ new.key = k
      /\ new.phase = "accepted"
  BY NoDialFacts DEF HkDialRecord
<1>2. hkDial' = [hkDial EXCEPT ![v] = new] /\ hkDial[v] = NoDial /\ hkKnown[h] = k
  BY DEF HkKnows
<1>3. UNCHANGED <<hkTest, hkPending, hkKnown, hkPrompt, hkToWindow, hkAnswers, hkAccepted, hkMixed>>
  BY DEF HkKnows
<1> HIDE DEF new
<1>4. hkDial \in [Dial -> HkDialRecord \cup {NoDial}]
  BY DEF HkInv, HkTyped
<1>5. hkDial' \in [Dial -> HkDialRecord \cup {NoDial}] /\ hkDial'[v] = new
      /\ \A w \in Dial : w # v => hkDial'[w] = hkDial[w]
  BY <1>1, <1>2, <1>4
<1>6. HkTyped'
  BY <1>3, <1>5 DEF HkInv, HkTyped
<1>7. \A w \in Dial : HkThere(w) => HkThere(w)' /\ hkDial'[w] = hkDial[w]
  BY <1>2, <1>5, HkNoneAssumption DEF HkThere
<1>8. HkThere(None)'
  BY DEF HkThere
<1>9. HkRefers'
  BY <1>2, <1>3, <1>5, HkSameRefers DEF HkInv
<1>10. \A w \in Dial, t \in Server : HkOut(w, t)' => HkOut(w, t) /\ (HkAgreed(w) => HkAgreed(w)')
  <2>1. ASSUME NEW w \in Dial, NEW t \in Server, HkOut(w, t)'
        PROVE  HkOut(w, t) /\ (HkAgreed(w) => HkAgreed(w)')
    <3>1. w \in {hkTest, hkPending[t], hkPrompt} \/ \E i \in DOMAIN hkToWindow : hkToWindow[i].prompt = w
      BY <1>3, <2>1 DEF HkOut
    <3>2. HkThere(w)
      BY <3>1 DEF HkInv, HkRefers, HkThere
    <3>3. hkDial'[w] = hkDial[w] /\ hkDial[w] # NoDial
      BY <1>7, <3>2, HkNoneAssumption DEF HkThere
    <3> QED
      BY <1>3, <2>1, <3>3 DEF HkOut, HkAgreed
  <2> QED
    BY <2>1
<1>11. HkOnlyOne' /\ HkAnswersThat'
  BY <1>3, <1>10, HkGoesOn
<1>12. HkTrusted'
  <2>1. ASSUME ~hkMixed, NEW w \in Dial, hkDial'[w] # NoDial, hkDial'[w].phase \in {"saving", "accepted"}
        PROVE  HkAgreed(w)'
    <3>1. CASE w = v
      <4>1. <<h, k>> \in hkAccepted
        BY <1>2, <2>1, HkNoneAssumption DEF HkInv, HkTrusted
      <4> QED
        BY <1>1, <1>3, <1>5, <3>1, <4>1 DEF HkAgreed
    <3>2. CASE w # v
      BY <1>3, <1>5, <2>1, <3>2 DEF HkInv, HkTrusted, HkAgreed
    <3> QED
      BY <3>1, <3>2
  <2> QED
    BY <1>3, <2>1 DEF HkInv, HkTrusted
<1> QED
  BY <1>6, <1>9, <1>11, <1>12 DEF HkInv

LEMMA HkPromptsStep ==
    ASSUME HkInv, NEW v \in Dial, NEW s \in Server, NEW h \in Host, NEW k \in Key,
           NEW test \in BOOLEAN, HkPrompts(v, s, h, k, test)
    PROVE  HkInv'
<1> DEFINE new == [id |-> s, host |-> h, key |-> k, test |-> test, phase |-> "prompted"]
           message == [prompt |-> v]
<1>1. new \in HkDialRecord /\ new # NoDial /\ new.id = s /\ new.phase = "prompted"
  BY NoDialFacts DEF HkDialRecord
<1>2. hkDial' = [hkDial EXCEPT ![v] = new] /\ hkDial[v] = NoDial
  BY DEF HkPrompts
<1>3. UNCHANGED <<hkKnown, hkPrompt, hkAnswers, hkAccepted>>
  BY DEF HkPrompts
<1>4. /\ hkToWindow' = Append(hkToWindow, message) /\ hkMixed' = (hkMixed \/ PromptOut(s))
      /\ hkTest' = IF test THEN v ELSE hkTest
      /\ hkPending' = IF test THEN hkPending ELSE [hkPending EXCEPT ![s] = v]
  BY DEF HkPrompts
<1>5. message \in HkMessage /\ message.prompt = v
  BY DEF HkMessage
<1> HIDE DEF new, message
<1>6. hkDial \in [Dial -> HkDialRecord \cup {NoDial}] /\ hkToWindow \in Seq(HkMessage)
      /\ hkPending \in [Server -> Dial \cup {None}]
  BY DEF HkInv, HkTyped
<1>7. hkDial' \in [Dial -> HkDialRecord \cup {NoDial}] /\ hkDial'[v] = new
      /\ \A w \in Dial : w # v => hkDial'[w] = hkDial[w]
  BY <1>1, <1>2, <1>6
<1>8. /\ hkToWindow' \in Seq(HkMessage)
      /\ \A i \in DOMAIN hkToWindow' :
             hkToWindow'[i] = message \/ (i \in DOMAIN hkToWindow /\ hkToWindow'[i] = hkToWindow[i])
  BY <1>4, <1>5, <1>6
<1>9. HkTyped'
  <2>1. hkMixed' \in BOOLEAN
    BY <1>4
  <2>2. hkTest' \in Dial \cup {None} /\ hkPending' \in [Server -> Dial \cup {None}]
    BY <1>4, <1>6 DEF HkInv, HkTyped
  <2> QED
    BY <1>3, <1>7, <1>8, <2>1, <2>2 DEF HkInv, HkTyped
<1>10. \A w \in Dial \cup {None} : HkThere(w) => HkThere(w)' /\ (w # None => w # v /\ hkDial'[w] = hkDial[w])
  BY <1>2, <1>7, HkNoneAssumption DEF HkThere
<1>11. HkThere(v)'
  BY <1>1, <1>7 DEF HkThere
<1>12. HkRefers'
  <2>1. HkThere(hkTest)' /\ HkThere(hkPrompt)'
    <3>1. hkTest \in Dial \cup {None} /\ hkPrompt \in Dial \cup {None}
      BY DEF HkInv, HkTyped
    <3> QED
      BY <3>1, <1>3, <1>4, <1>10, <1>11 DEF HkInv, HkRefers, HkThere
  <2>2. ASSUME NEW i \in DOMAIN hkToWindow'
        PROVE  hkToWindow'[i].prompt # None =>
                   hkToWindow'[i].prompt \in Dial /\ hkDial'[hkToWindow'[i].prompt] # NoDial
    <3>1. CASE hkToWindow'[i] = message
      BY <3>1, <1>5, <1>11 DEF HkThere
    <3>2. CASE i \in DOMAIN hkToWindow /\ hkToWindow'[i] = hkToWindow[i]
      BY <3>2, <1>10, MessageFacts DEF HkInv, HkRefers, HkThere
    <3> QED
      BY <1>8, <3>1, <3>2
  <2>3. ASSUME NEW t \in Server, hkPending'[t] # None
        PROVE  /\ hkPending'[t] \in Dial /\ hkDial'[hkPending'[t]] # NoDial
               /\ hkDial'[hkPending'[t]].id = t
    <3>1. CASE hkPending'[t] = hkPending[t]
      <4>1. HkThere(hkPending[t]) /\ hkDial[hkPending[t]].id = t /\ hkPending[t] \in Dial \cup {None}
        BY <2>3, <3>1 DEF HkInv, HkTyped, HkRefers
      <4> QED
        BY <2>3, <3>1, <4>1, <1>10 DEF HkThere
    <3>2. CASE t = s /\ hkPending'[t] = v
      BY <3>2, <1>1, <1>7
    <3>3. hkPending'[t] = hkPending[t] \/ (t = s /\ hkPending'[t] = v)
      BY <1>4, <1>6
    <3> QED
      BY <3>1, <3>2, <3>3
  <2> QED
    BY <2>1, <2>2, <2>3 DEF HkRefers, HkThere
<1>13. \A w \in Dial, t \in Server : HkOut(w, t)' =>
           (w = v /\ t = s) \/ (w # v /\ HkOut(w, t) /\ hkDial'[w] = hkDial[w])
  <2>1. ASSUME NEW w \in Dial, NEW t \in Server, HkOut(w, t)', w = v
        PROVE  t = s
    BY <1>1, <1>7, <2>1 DEF HkOut
  <2>2. ASSUME NEW w \in Dial, NEW t \in Server, HkOut(w, t)', w # v
        PROVE  HkOut(w, t) /\ hkDial'[w] = hkDial[w]
    <3>1. w = hkTest' => w = hkTest
      BY <1>4, <2>2
    <3>2. w = hkPending'[t] => w = hkPending[t]
      BY <1>4, <1>6, <2>2
    <3>3. ASSUME NEW i \in DOMAIN hkToWindow', hkToWindow'[i].prompt = w
          PROVE  i \in DOMAIN hkToWindow /\ hkToWindow[i].prompt = w
      BY <1>5, <1>8, <2>2, <3>3
    <3> QED
      BY <1>3, <1>7, <2>2, <3>1, <3>2, <3>3 DEF HkOut
  <2> QED
    BY <2>1, <2>2
<1>14. ASSUME ~hkMixed', NEW w \in Dial
       PROVE  ~HkOut(w, s)
  <2>1. ~PromptOut(s)
    BY <1>4, <1>14
  <2> QED
    BY <2>1 DEF PromptOut, HkOut
<1>15. HkOnlyOne'
  <2>1. ASSUME ~hkMixed', NEW t \in Server, NEW w \in Dial, NEW x \in Dial, HkOut(w, t)', HkOut(x, t)'
        PROVE  w = x
    <3>1. ~hkMixed
      BY <1>4, <2>1
    <3> QED
      BY <1>13, <1>14, <2>1, <3>1 DEF HkInv, HkOnlyOne
  <2> QED
    BY <2>1 DEF HkOnlyOne
<1>16. HkAnswersThat'
  <2>1. ASSUME ~hkMixed', NEW a \in HkAnswer, hkAnswers' = <<a>>, a.decision = "accept",
               NEW w \in Dial, HkOut(w, a.id)'
        PROVE  HkAgreed(w)'
    <3>1. ~hkMixed /\ ~PromptOut(s) /\ a.id \in Server
      BY <1>4, <2>1 DEF HkAnswer
    <3>2. hkAnswers = <<a>>
      BY <1>3, <2>1
    <3>3. a.id # s
      <4>1. 1 \in DOMAIN hkAnswers /\ hkAnswers[1] = a
        BY <3>2
      <4> QED
        BY <3>1, <4>1 DEF PromptOut
    <3>4. HkOut(w, a.id) /\ hkDial'[w] = hkDial[w]
      BY <1>13, <2>1, <3>1, <3>3
    <3>5. HkAgreed(w)
      BY <2>1, <3>1, <3>2, <3>4 DEF HkInv, HkAnswersThat
    <3> QED
      BY <1>3, <3>4, <3>5 DEF HkAgreed
  <2> QED
    BY <2>1 DEF HkAnswersThat
<1>17. HkTrusted'
  <2>1. ASSUME ~hkMixed', NEW w \in Dial, hkDial'[w] # NoDial, hkDial'[w].phase \in {"saving", "accepted"}
        PROVE  HkAgreed(w)'
    <3>1. w # v
      BY <1>1, <1>7, <2>1
    <3> QED
      BY <1>3, <1>4, <1>7, <2>1, <3>1 DEF HkInv, HkTrusted, HkAgreed
  <2> QED
    BY <1>3, <1>4, <2>1 DEF HkInv, HkTrusted
<1> QED
  BY <1>9, <1>12, <1>15, <1>16, <1>17 DEF HkInv

\* The parts that refer to dials refer to none that they did not refer to before.
HkLess ==
    /\ hkTest' \in {hkTest, None}
    /\ hkPrompt' \in {hkPrompt, None} \/ \E i \in DOMAIN hkToWindow : hkPrompt' = hkToWindow[i].prompt
    /\ \A s \in Server : hkPending'[s] \in {hkPending[s], None}
    /\ \A i \in DOMAIN hkToWindow' :
           hkToWindow'[i].prompt = None \/ \E j \in DOMAIN hkToWindow : hkToWindow'[i].prompt = hkToWindow[j].prompt

LEMMA HkLessRefers ==
    ASSUME HkInv, HkSameDials, HkLess
    PROVE  HkRefers'
<1>1. \A v \in Dial : HkThere(v) => HkThere(v)'
  BY HkNoneAssumption DEF HkThere, HkSameDials
<1>2. /\ hkTest \in Dial \cup {None} /\ hkPrompt \in Dial \cup {None}
      /\ \A i \in DOMAIN hkToWindow : hkToWindow[i].prompt \in Dial \cup {None}
  BY MessageFacts DEF HkInv, HkTyped
<1>3. /\ HkThere(hkTest) /\ HkThere(hkPrompt)
      /\ \A i \in DOMAIN hkToWindow : HkThere(hkToWindow[i].prompt)
  BY DEF HkInv, HkRefers
<1>4. hkTest' # None => hkTest' \in Dial /\ hkDial'[hkTest'] # NoDial
  BY <1>2, <1>3 DEF HkLess, HkThere, HkSameDials
<1>5. hkPrompt' # None => hkPrompt' \in Dial /\ hkDial'[hkPrompt'] # NoDial
  BY <1>2, <1>3 DEF HkLess, HkThere, HkSameDials
<1>6. \A i \in DOMAIN hkToWindow' : hkToWindow'[i].prompt # None =>
          hkToWindow'[i].prompt \in Dial /\ hkDial'[hkToWindow'[i].prompt] # NoDial
  BY <1>2, <1>3 DEF HkLess, HkThere, HkSameDials
<1>7. \A s \in Server : hkPending'[s] # None =>
          /\ hkPending'[s] \in Dial /\ hkDial'[hkPending'[s]] # NoDial
          /\ hkDial'[hkPending'[s]].id = s
  BY DEF HkInv, HkTyped, HkRefers, HkThere, HkLess, HkSameDials
<1> QED
  BY <1>4, <1>5, <1>6, <1>7 DEF HkRefers, HkThere

\* The dials that are there are the same ones as before.
HkStill ==
    \A v \in Dial : hkDial'[v] # NoDial =>
        /\ hkDial[v] # NoDial /\ hkDial'[v].id = hkDial[v].id
        /\ hkDial'[v].host = hkDial[v].host /\ hkDial'[v].key = hkDial[v].key

LEMMA HkKeeps ==
    ASSUME HkInv, HkTyped', HkRefers', HkTrusted', HkStill, HkLess,
           hkMixed' = hkMixed, hkAnswers' = hkAnswers \/ hkAnswers' = <<>>,
           hkAccepted \subseteq hkAccepted'
    PROVE  HkInv'
<1>1. ASSUME NEW v \in Dial, NEW s \in Server, HkOut(v, s)'
      PROVE  HkOut(v, s) /\ (HkAgreed(v) => HkAgreed(v)')
  <2>1. hkDial'[v] # NoDial /\ hkDial'[v].id = s
    BY <1>1 DEF HkOut
  <2>2. v # None
    BY HkNoneAssumption
  <2>3. \/ v \in {hkTest, hkPending[s], hkPrompt}
        \/ \E i \in DOMAIN hkToWindow : hkToWindow[i].prompt = v
    <3>1. \/ v = hkTest' \/ v = hkPending'[s] \/ v = hkPrompt'
          \/ \E i \in DOMAIN hkToWindow' : hkToWindow'[i].prompt = v
      BY <1>1 DEF HkOut
    <3>2. v = hkTest' => v = hkTest
      BY <2>2 DEF HkLess
    <3>3. v = hkPending'[s] => v = hkPending[s]
      BY <2>2 DEF HkLess
    <3>4. v = hkPrompt' => v = hkPrompt \/ \E i \in DOMAIN hkToWindow : hkToWindow[i].prompt = v
      BY <2>2 DEF HkLess
    <3>5. ASSUME NEW i \in DOMAIN hkToWindow', hkToWindow'[i].prompt = v
          PROVE  \E j \in DOMAIN hkToWindow : hkToWindow[j].prompt = v
      BY <2>2, <3>5 DEF HkLess
    <3> QED
      BY <3>1, <3>2, <3>3, <3>4, <3>5
  <2> QED
    BY <2>1, <2>3 DEF HkOut, HkAgreed, HkStill
<1>2. HkOnlyOne' /\ HkAnswersThat'
  BY <1>1, HkGoesOn
<1> QED
  BY <1>2 DEF HkInv

LEMMA HkTrustKept ==
    ASSUME HkInv, HkStill, hkMixed' = hkMixed, hkAccepted \subseteq hkAccepted',
           \A h \in Host : \/ hkKnown'[h] = hkKnown[h]
                           \/ ~hkMixed => <<h, hkKnown'[h]>> \in hkAccepted,
           \A v \in Dial : hkDial'[v].phase \in {"saving", "accepted"} =>
               \/ hkDial[v].phase \in {"saving", "accepted"}
               \/ ~hkMixed => HkAgreed(v)
    PROVE  HkTrusted'
<1>1. ASSUME ~hkMixed, NEW v \in Dial, hkDial'[v] # NoDial, hkDial'[v].phase \in {"saving", "accepted"}
      PROVE  HkAgreed(v)'
  <2>1. hkDial[v] # NoDial /\ hkDial'[v].host = hkDial[v].host /\ hkDial'[v].key = hkDial[v].key
    BY <1>1 DEF HkStill
  <2>2. HkAgreed(v)
    BY <1>1, <2>1 DEF HkInv, HkTrusted
  <2> QED
    BY <2>1, <2>2 DEF HkAgreed
<1>2. ASSUME ~hkMixed, NEW h \in Host, hkKnown'[h] # None
      PROVE  <<h, hkKnown'[h]>> \in hkAccepted'
  BY <1>2 DEF HkInv, HkTrusted
<1> QED
  BY <1>1, <1>2 DEF HkTrusted

LEMMA HkEndsStep ==
    ASSUME HkInv, NEW v \in Dial, HkEnds(v)
    PROVE  HkInv'
<1>1. hkDial' = [hkDial EXCEPT ![v] = NoDial]
  BY DEF HkEnds
<1>2. UNCHANGED <<hkTest, hkPending, hkKnown, hkPrompt, hkToWindow, hkAnswers, hkAccepted, hkMixed>>
  BY DEF HkEnds
<1>3. hkDial \in [Dial -> HkDialRecord \cup {NoDial}]
  BY DEF HkInv, HkTyped
<1>4. hkDial' \in [Dial -> HkDialRecord \cup {NoDial}] /\ hkDial'[v] = NoDial
      /\ \A w \in Dial : w # v => hkDial'[w] = hkDial[w]
  BY <1>1, <1>3
<1>5. HkTyped'
  BY <1>2, <1>4 DEF HkInv, HkTyped
<1>6. HkStill
  BY <1>4 DEF HkStill
<1>7. HkLess
  BY <1>2 DEF HkLess
<1>8. /\ hkTest # v /\ hkPrompt # v /\ \A i \in DOMAIN hkToWindow : hkToWindow[i].prompt # v
      /\ \A s \in Server : hkPending[s] # v
  <2>1. ASSUME NEW s \in Server, hkPending[s] = v
        PROVE  FALSE
    <3>1. hkDial[v].id = s
      BY <2>1, HkNoneAssumption DEF HkInv, HkRefers
    <3> QED
      BY <2>1, <3>1 DEF HkEnds
  <2> QED
    BY <2>1 DEF HkEnds
<1>9. HkRefers'
  <2>2. /\ hkTest \in Dial \cup {None} /\ hkPrompt \in Dial \cup {None}
        /\ \A i \in DOMAIN hkToWindow : hkToWindow[i].prompt \in Dial \cup {None}
    BY MessageFacts DEF HkInv, HkTyped
  <2>3. HkThere(hkTest)' /\ HkThere(hkPrompt)'
    BY <1>2, <1>4, <1>8 DEF HkInv, HkRefers, HkThere
  <2>4. \A i \in DOMAIN hkToWindow : hkToWindow[i].prompt # None =>
            hkToWindow[i].prompt \in Dial /\ hkDial'[hkToWindow[i].prompt] # NoDial
    BY <1>4, <1>8, <2>2 DEF HkInv, HkRefers, HkThere
  <2>5. \A s \in Server : hkPending[s] # None =>
            /\ hkPending[s] \in Dial /\ hkDial'[hkPending[s]] # NoDial
            /\ hkDial'[hkPending[s]].id = s
    BY <1>4, <1>8 DEF HkInv, HkTyped, HkRefers, HkThere
  <2> QED
    BY <1>2, <2>3, <2>4, <2>5 DEF HkRefers, HkThere
<1>10. HkTrusted'
  <2>1. \A w \in Dial : hkDial'[w].phase \in {"saving", "accepted"} =>
            hkDial[w].phase \in {"saving", "accepted"}
    <3>1. NoDial.phase = "none"
      BY DEF NoDial
    <3> QED
      BY <1>4, <3>1
  <2> QED
    BY <1>2, <1>6, <2>1, HkTrustKept
<1> QED
  BY <1>2, <1>5, <1>6, <1>7, <1>9, <1>10, HkKeeps

\* A dial that goes to another phase, with the references of HkLess.
LEMMA HkMovesKeeps ==
    ASSUME HkInv, HkTyped', NEW v \in Dial, hkDial[v] # NoDial,
           NEW phase \in {"prompted", "saving", "accepted", "refused", "over"},
           hkDial' \in {hkDial, Moved(v, phase)}, HkLess,
           UNCHANGED <<hkAccepted, hkMixed>>, hkAnswers' = hkAnswers \/ hkAnswers' = <<>>,
           \A h \in Host : \/ hkKnown'[h] = hkKnown[h]
                           \/ ~hkMixed => <<h, hkKnown'[h]>> \in hkAccepted,
           phase \in {"saving", "accepted"} =>
               hkDial[v].phase \in {"saving", "accepted"} \/ (~hkMixed => HkAgreed(v))
    PROVE  HkInv'
<1>1. HkTyped
  BY DEF HkInv
<1>2. HkSameDials /\ \A w \in Dial : hkDial'[w] = hkDial[w] \/ (w = v /\ hkDial'[w].phase = phase)
  <2>1. CASE hkDial' = hkDial
    BY <2>1 DEF HkSameDials
  <2>2. CASE hkDial' = Moved(v, phase)
    BY <1>1, <2>2, MovedSame
  <2> QED
    BY <2>1, <2>2
<1>3. HkStill
  BY <1>2 DEF HkSameDials, HkStill
<1>4. HkRefers'
  BY <1>2, HkLessRefers
<1>5. HkTrusted'
  <2>1. \A w \in Dial : hkDial'[w].phase \in {"saving", "accepted"} =>
               \/ hkDial[w].phase \in {"saving", "accepted"}
               \/ ~hkMixed => HkAgreed(w)
    BY <1>2
  <2> QED
    BY <2>1, <1>3, HkTrustKept
<1> QED
  BY <1>3, <1>4, <1>5, HkKeeps

LEMMA HkMovedTyped ==
    ASSUME HkTyped, NEW v \in Dial, hkDial[v] # NoDial,
           NEW phase \in {"prompted", "saving", "accepted", "refused", "over"},
           hkDial' \in {hkDial, Moved(v, phase)},
           UNCHANGED <<hkPrompt, hkAccepted, hkMixed>>, hkTest' \in {hkTest, None},
           hkPending' \in [Server -> Dial \cup {None}],
           hkKnown' \in [Host -> Key \cup {None}],
           hkAnswers' = hkAnswers \/ hkAnswers' = <<>>,
           hkToWindow' \in Seq(HkMessage)
    PROVE  HkTyped'
<1>1. hkDial' \in [Dial -> HkDialRecord \cup {NoDial}]
  BY MovedFacts DEF HkTyped
<1>2. /\ hkTest' \in Dial \cup {None}
      /\ hkAnswers' = <<>> \/ \E a \in HkAnswer : hkAnswers' = <<a>>
  BY DEF HkTyped
<1> QED
  BY <1>1, <1>2 DEF HkTyped

LEMMA HkPhaseSteps ==
    ASSUME HkInv, NEW v \in Dial, HkGivesUp(v) \/ HkSaved(v) \/ HkSaveFails(v)
    PROVE  HkInv'
<1>1. hkDial[v] # NoDial
  <2>1. NoDial.phase = "none"
    BY DEF NoDial
  <2> QED
    BY <2>1 DEF HkGivesUp, HkSaved, HkSaveFails, Waits
<1>2. PICK phase \in {"prompted", "saving", "accepted", "refused", "over"} :
          hkDial' = Moved(v, phase) /\ (phase \in {"saving", "accepted"} => hkDial[v].phase = "saving")
  BY DEF HkGivesUp, HkSaved, HkSaveFails, Becomes
<1>3. /\ hkTest' \in {hkTest, None}
      /\ UNCHANGED <<hkPending, hkKnown, hkPrompt, hkToWindow, hkAnswers, hkAccepted, hkMixed>>
  BY DEF HkGivesUp, HkSaved, HkSaveFails
<1>4. HkTyped'
  BY <1>1, <1>2, <1>3, HkMovedTyped DEF HkInv, HkTyped
<1>5. HkLess
  BY <1>3 DEF HkLess
<1> QED
  BY <1>1, <1>2, <1>3, <1>4, <1>5, HkMovesKeeps

LEMMA HkDisconnectsStep ==
    ASSUME HkInv, NEW s \in Server, HkDisconnects(s)
    PROVE  HkInv'
<1>1. hkPending[s] \in Dial /\ hkDial[hkPending[s]] # NoDial
  BY DEF HkInv, HkRefers, HkThere, HkDisconnects
<1>2. hkDial' \in {hkDial, Moved(hkPending[s], "refused")} /\ hkPending' = [hkPending EXCEPT ![s] = None]
  BY DEF HkDisconnects
<1>3. UNCHANGED <<hkTest, hkKnown, hkPrompt, hkToWindow, hkAnswers, hkAccepted, hkMixed>>
  BY DEF HkDisconnects
<1>4. hkPending \in [Server -> Dial \cup {None}]
  BY DEF HkInv, HkTyped
<1>5. hkPending' \in [Server -> Dial \cup {None}] /\ \A t \in Server : hkPending'[t] \in {hkPending[t], None}
  BY <1>2, <1>4
<1>6. HkTyped'
  BY <1>1, <1>2, <1>3, <1>5, HkMovedTyped DEF HkInv, HkTyped
<1>7. HkLess
  BY <1>3, <1>5 DEF HkLess
<1> QED
  BY <1>1, <1>2, <1>3, <1>6, <1>7, HkMovesKeeps

LEMMA HkArrivesStep ==
    ASSUME HkInv, HkArrives
    PROVE  HkInv'
<1>1. /\ hkToWindow # <<>> /\ hkPrompt' = Head(hkToWindow).prompt
      /\ hkToWindow' = Tail(hkToWindow)
      /\ UNCHANGED <<hkDial, hkTest, hkPending, hkKnown, hkAnswers, hkAccepted, hkMixed>>
  BY DEF HkArrives
<1>2. hkToWindow \in Seq(HkMessage)
  BY DEF HkInv, HkTyped
<1>3. 1 \in DOMAIN hkToWindow /\ Head(hkToWindow) = hkToWindow[1]
  BY <1>1, <1>2
<1>4. /\ hkToWindow' \in Seq(HkMessage)
      /\ \A i \in DOMAIN hkToWindow' : i + 1 \in DOMAIN hkToWindow /\ hkToWindow'[i] = hkToWindow[i + 1]
  BY <1>1, <1>2
<1>5. hkPrompt' \in Dial \cup {None}
  BY <1>1, <1>3, MessageFacts DEF HkInv
<1>6. HkTyped'
  BY <1>1, <1>4, <1>5 DEF HkInv, HkTyped
<1>7. HkLess
  BY <1>1, <1>3, <1>4 DEF HkLess
<1>8. HkSameDials /\ HkStill
  BY <1>1 DEF HkSameDials, HkStill
<1>9. HkRefers'
  BY <1>7, <1>8, HkLessRefers
<1>10. HkTrusted'
  BY <1>1, <1>8, HkTrustKept
<1> QED
  BY <1>1, <1>6, <1>7, <1>8, <1>9, <1>10, HkKeeps

LEMMA HkAnswersPromptStep ==
    ASSUME HkInv, NEW decision \in {"accept", "reject"}, HkAnswersPrompt(decision)
    PROVE  HkInv'
<1> DEFINE dial == hkDial[hkPrompt]
           answer == [id |-> dial.id, decision |-> decision]
<1>1. hkPrompt \in Dial /\ dial # NoDial /\ dial \in HkDialRecord
  BY DEF HkInv, HkTyped, HkRefers, HkThere, HkAnswersPrompt
<1>2. dial.id \in Server /\ dial.host \in Host /\ dial.key \in Key
  BY <1>1 DEF HkDialRecord
<1>3. answer \in HkAnswer /\ answer.id = dial.id /\ answer.decision = decision
  BY <1>2 DEF HkAnswer
<1>4. /\ hkAnswers' = <<answer>>
      /\ hkAccepted' = IF decision = "accept" THEN hkAccepted \cup {<<dial.host, dial.key>>} ELSE hkAccepted
      /\ UNCHANGED <<hkDial, hkTest, hkPending, hkKnown, hkPrompt, hkToWindow, hkMixed>>
  BY DEF HkAnswersPrompt
<1> HIDE DEF answer
<1>5. HkTyped'
  BY <1>2, <1>3, <1>4 DEF HkInv, HkTyped
<1>6. HkRefers'
  BY <1>4 DEF HkInv, HkRefers, HkThere
<1>7. \A v \in Dial, s \in Server : HkOut(v, s)' <=> HkOut(v, s)
  BY <1>4 DEF HkOut
<1>8. HkOnlyOne'
  BY <1>4, <1>7 DEF HkInv, HkOnlyOne
<1>9. HkAnswersThat'
  <2>1. ASSUME ~hkMixed', NEW a \in HkAnswer, hkAnswers' = <<a>>, a.decision = "accept",
               NEW v \in Dial, HkOut(v, a.id)'
        PROVE  HkAgreed(v)'
    <3>1. a = answer
      BY <1>4, <2>1
    <3>2. HkOut(v, dial.id) /\ ~hkMixed
      BY <1>2, <1>3, <1>4, <1>7, <2>1, <3>1
    <3>3. HkOut(hkPrompt, dial.id)
      BY <1>1 DEF HkOut
    <3>4. v = hkPrompt
      BY <1>1, <1>2, <3>2, <3>3 DEF HkInv, HkOnlyOne
    <3> QED
      BY <1>3, <1>4, <2>1, <3>1, <3>4 DEF HkAgreed
  <2> QED
    BY <2>1 DEF HkAnswersThat
<1>10. HkTrusted'
  BY <1>4 DEF HkInv, HkTrusted, HkAgreed
<1> QED
  BY <1>5, <1>6, <1>8, <1>9, <1>10 DEF HkInv

LEMMA HkAnsweredStep ==
    ASSUME HkInv, HkAnswered
    PROVE  HkInv'
<1> DEFINE tested(a) == hkTest # None /\ hkDial[hkTest].id = a.id
           to(a) == IF tested(a) THEN hkTest ELSE hkPending[a.id]
<1>1. PICK answer \in HkAnswer : hkAnswers = <<answer>>
  BY DEF HkInv, HkTyped, HkAnswered
<1>2. Head(hkAnswers) = answer /\ Tail(hkAnswers) = <<>>
  BY <1>1
<1>3. answer.id \in Server /\ answer.decision \in {"accept", "reject"}
  BY DEF HkAnswer
<1>4. PICK v : v = to(answer)
  OBVIOUS
<1>5. /\ hkAnswers' = <<>>
      /\ IF v = None THEN UNCHANGED <<hkDial, hkKnown>> ELSE Resolves(v, answer.decision)
      /\ hkTest' \in {hkTest, None}
      /\ hkPending' \in {hkPending, [hkPending EXCEPT ![answer.id] = None]}
      /\ hkToWindow' \in {Append(hkToWindow, Reply), hkToWindow}
  BY <1>2, <1>4 DEF HkAnswered
<1>6. UNCHANGED <<hkPrompt, hkAccepted, hkMixed>>
  BY DEF HkAnswered
<1>7. hkPending \in [Server -> Dial \cup {None}] /\ hkToWindow \in Seq(HkMessage)
      /\ hkKnown \in [Host -> Key \cup {None}]
  BY DEF HkInv, HkTyped
<1>8. hkPending' \in [Server -> Dial \cup {None}] /\ \A t \in Server : hkPending'[t] \in {hkPending[t], None}
  BY <1>5, <1>7
<1>9. Reply \in HkMessage /\ Reply.prompt = None
  BY DEF Reply, HkMessage
<1>10. /\ hkToWindow' \in Seq(HkMessage)
       /\ \A i \in DOMAIN hkToWindow' :
              hkToWindow'[i] = Reply \/ (i \in DOMAIN hkToWindow /\ hkToWindow'[i] = hkToWindow[i])
  <2> HIDE DEF to
  <2>1. CASE hkToWindow' = hkToWindow
    BY <2>1, <1>7
  <2>2. CASE hkToWindow' = Append(hkToWindow, Reply)
    <3>1. PICK reply \in HkMessage : reply = Reply
      BY <1>9
    <3> QED
      BY <2>2, <3>1, <1>7
  <2> QED
    BY <1>5, <2>1, <2>2
<1>11. HkLess
  <2>1. \A i \in DOMAIN hkToWindow' :
            hkToWindow'[i].prompt = None \/ \E j \in DOMAIN hkToWindow : hkToWindow'[i].prompt = hkToWindow[j].prompt
    BY <1>9, <1>10
  <2> QED
    BY <1>5, <1>6, <1>8, <2>1 DEF HkLess
<1>12. CASE v = None
  <2>1. UNCHANGED <<hkDial, hkKnown>>
    BY <1>5, <1>12
  <2>2. hkTest' \in Dial \cup {None}
    BY <1>5 DEF HkInv, HkTyped
  <2>3. HkTyped'
    BY <1>5, <1>6, <1>8, <1>10, <2>1, <2>2 DEF HkInv, HkTyped
  <2>4. HkSameDials /\ HkStill
    BY <2>1 DEF HkSameDials, HkStill
  <2>5. HkRefers'
    BY <1>11, <2>4, HkLessRefers
  <2>6. HkTrusted'
    BY <1>6, <2>1, <2>4, HkTrustKept
  <2> QED
    BY <1>5, <1>6, <1>11, <2>3, <2>4, <2>5, <2>6, HkKeeps
<1>13. CASE v # None
  <2>1. v \in Dial /\ hkDial[v] # NoDial /\ HkOut(v, answer.id)
    <3>1. CASE tested(answer)
      <4>1. v = hkTest /\ hkDial[hkTest].id = answer.id
        BY <1>4, <3>1
      <4> QED
        BY <1>13, <4>1 DEF HkInv, HkRefers, HkThere, HkOut
    <3>2. CASE ~tested(answer)
      <4>1. v = hkPending[answer.id]
        BY <1>4, <3>2
      <4> QED
        BY <1>3, <1>13, <4>1 DEF HkInv, HkRefers, HkThere, HkOut
    <3> QED
      BY <3>1, <3>2
  <2> HIDE DEF to, tested
  <2>2. hkDial[v] \in HkDialRecord
    BY <2>1 DEF HkInv, HkTyped
  <2>3. hkDial[v].host \in Host /\ hkDial[v].key \in Key
    BY <2>2 DEF HkDialRecord
  <2>4. CASE answer.decision = "accept"
    <3>1. hkKnown' = [hkKnown EXCEPT ![hkDial[v].host] = hkDial[v].key] /\ hkDial' \in {hkDial, Moved(v, "saving")}
      BY <1>5, <1>13, <2>4 DEF Resolves
    <3>2. ~hkMixed => HkAgreed(v)
      BY <1>1, <2>1, <2>4 DEF HkInv, HkAnswersThat
    <3>3. hkKnown' \in [Host -> Key \cup {None}]
      BY <1>7, <2>3, <3>1
    <3>4. \A h \in Host : hkKnown'[h] = hkKnown[h] \/ (~hkMixed => <<h, hkKnown'[h]>> \in hkAccepted)
      BY <1>7, <2>3, <3>1, <3>2 DEF HkAgreed
    <3>5. HkTyped'
      BY <1>5, <1>6, <1>8, <1>10, <2>1, <3>1, <3>3, HkMovedTyped DEF HkInv
    <3> QED
      BY <1>5, <1>6, <1>11, <2>1, <3>1, <3>2, <3>4, <3>5, HkMovesKeeps
  <2>5. CASE answer.decision # "accept"
    <3>1. hkKnown' = hkKnown /\ hkDial' \in {hkDial, Moved(v, "refused")}
      BY <1>5, <1>13, <2>5 DEF Resolves
    <3>2. HkTyped'
      BY <1>5, <1>6, <1>7, <1>8, <1>10, <2>1, <3>1, HkMovedTyped DEF HkInv
    <3> QED
      BY <1>5, <1>6, <1>11, <2>1, <3>1, <3>2, HkMovesKeeps
  <2> QED
    BY <2>4, <2>5
<1> QED
  BY <1>12, <1>13

LEMMA HkStepInv ==
    ASSUME HkInv, [HkNext]_hkVars
    PROVE  HkInv'
<1>1. CASE UNCHANGED hkVars
  BY <1>1 DEF hkVars, HkInv, HkTyped, HkRefers, HkThere, HkOnlyOne, HkAnswersThat, HkTrusted,
              HkOut, HkAgreed
<1>2. CASE HkArrives
  BY <1>2, HkArrivesStep
<1>3. CASE HkAnswered
  BY <1>3, HkAnsweredStep
<1>4. ASSUME NEW decision \in {"accept", "reject"}, HkAnswersPrompt(decision)
      PROVE  HkInv'
  BY <1>4, HkAnswersPromptStep
<1>5. ASSUME NEW s \in Server, HkDisconnects(s)
      PROVE  HkInv'
  BY <1>5, HkDisconnectsStep
<1>6. ASSUME NEW v \in Dial, NEW s \in Server, NEW h \in Host, NEW k \in Key,
             NEW test \in BOOLEAN, HkKnows(v, s, h, k, test) \/ HkPrompts(v, s, h, k, test)
      PROVE  HkInv'
  BY <1>6, HkKnowsStep, HkPromptsStep
<1>7. ASSUME NEW v \in Dial, HkEnds(v) \/ HkGivesUp(v) \/ HkSaved(v) \/ HkSaveFails(v)
      PROVE  HkInv'
  BY <1>7, HkEndsStep, HkPhaseSteps
<1> QED
  BY <1>1, <1>2, <1>3, <1>4, <1>5, <1>6, <1>7 DEF HkNext

(***************************************************************************)
(* Profiles and passphrases.                                               *)
(***************************************************************************)
ProfilesContent == {Whole(order) : order \in List}
SecretsContent == {Whole(kept) : kept \in SUBSET Profile}
Content(file) == IF file = "profiles" THEN ProfilesContent ELSE SecretsContent

PsCallRecord ==
    [op : {"create", "update", "remove", "dial"}, id : Profile, typed : BOOLEAN,
     phase : {"mkdir", "writing", "secrets", "reading"}, file : PsFile,
     payload : ProfilesContent \cup SecretsContent]
PsDiskRecord ==
    [profiles : ProfilesContent \cup {Torn}, secrets : SecretsContent \cup {Torn}]

PsTyped ==
    /\ psUp \in BOOLEAN /\ psLoaded \in BOOLEAN /\ psCollided \in BOOLEAN
    /\ psProfiles \in List /\ psShown \in List /\ psSecrets \in SUBSET Profile
    /\ psDisk \in PsDiskRecord
    /\ psCall \in [Call -> PsCallRecord \cup {NoCall}]
    /\ \A c \in Call : At(c, "writing") => psCall[c].payload \in Content(psCall[c].file)

LEMMA NoCallFacts == NoCall \notin PsCallRecord
<1>1. ASSUME NoCall \in PsCallRecord PROVE FALSE
  <2>1. "id" \in DOMAIN NoCall
    BY <1>1 DEF PsCallRecord
  <2> QED
    BY <2>1 DEF NoCall
<1> QED
  BY <1>1

LEMMA ContentFacts ==
    /\ \A order \in List : Whole(order) \in ProfilesContent
    /\ \A kept \in SUBSET Profile : Whole(kept) \in SecretsContent
    /\ \A content \in ProfilesContent : content # Torn /\ Head(content) \in List /\ content = Whole(Head(content))
    /\ \A content \in SecretsContent : content # Torn /\ Head(content) \in SUBSET Profile /\ content = Whole(Head(content))
<1>1. \A x : Whole(x) # Torn /\ Head(Whole(x)) = x
  BY DEF Whole, Torn
<1> QED
  BY <1>1 DEF ProfilesContent, SecretsContent

\* A call that goes to another phase is the same call.
LEMMA PsPhaseFacts ==
    ASSUME NEW call \in PsCallRecord, NEW phase \in {"mkdir", "writing", "secrets", "reading"}
    PROVE  /\ [call EXCEPT !.phase = phase] \in PsCallRecord
           /\ [call EXCEPT !.phase = phase].op = call.op
           /\ [call EXCEPT !.phase = phase].id = call.id
           /\ [call EXCEPT !.phase = phase].typed = call.typed
           /\ [call EXCEPT !.phase = phase].file = call.file
           /\ [call EXCEPT !.phase = phase].payload = call.payload
           /\ [call EXCEPT !.phase = phase].phase = phase
BY DEF PsCallRecord

LEMMA DiskFacts ==
    ASSUME psDisk \in PsDiskRecord, NEW file \in PsFile, NEW content \in Content(file) \cup {Torn},
           psDisk' = [psDisk EXCEPT ![file] = content]
    PROVE  /\ psDisk' \in PsDiskRecord /\ psDisk'[file] = content
           /\ \A other \in PsFile : other # file => psDisk'[other] = psDisk[other]
<1>1. CASE file = "profiles"
  BY <1>1 DEF PsDiskRecord, PsFile, Content
<1>2. CASE file = "secrets"
  BY <1>2 DEF PsDiskRecord, PsFile, Content
<1> QED
  BY <1>1, <1>2 DEF PsFile

\* The passphrases that are kept: in memory, or in the file as long as nobody has read it.
PsEff == IF psLoaded THEN psSecrets ELSE Head(psDisk.secrets)

Works(call, p) == call # NoCall /\ call.op # "dial" /\ call.id = p
\* What a request under way has done so far.
CallFits(call, profiles, shown, loaded, eff) ==
    /\ call.op = "dial" => call.phase \in {"secrets", "reading"} /\ ~call.typed
    /\ call.op = "remove" => ~call.typed /\ profiles[call.id] = "removed"
    /\ call.op \in {"create", "update"} =>
           /\ profiles[call.id] \in Auth
           /\ profiles[call.id] = "locked" => call.typed \/ call.id \in eff
    /\ call.op = "update" => shown[call.id] \in Auth
    /\ call.phase \in {"mkdir", "writing"} /\ call.file = "secrets" =>
           /\ loaded
           /\ call.typed => call.id \in eff
           /\ call.op = "remove" => call.id \notin eff
\* A profile no request works on.
Settled(p, profiles, shown, eff) ==
    /\ shown[p] = profiles[p]
    /\ profiles[p] = "locked" => p \in eff
    /\ p \in eff => profiles[p] \in Auth

PsDown == ~psUp => \A c \in Call : ~Busy(c)
PsApart == \A p \in Profile : \A c, d \in Call : Works(psCall[c], p) /\ Works(psCall[d], p) => c = d
PsCallsFit == \A c \in Call : Busy(c) => CallFits(psCall[c], psProfiles, psShown, psLoaded, PsEff)
PsSettled ==
    \A p \in Profile : (\A c \in Call : ~Works(psCall[c], p)) => Settled(p, psProfiles, psShown, PsEff)

WritesTo(call, file) == call # NoCall /\ call.phase = "writing" /\ call.file = file
WillWrite(call, file) == call # NoCall /\ call.phase = "mkdir" /\ call.file = file
PsOneWriter == \A file \in PsFile : \A c, d \in Call :
    WritesTo(psCall[c], file) /\ WritesTo(psCall[d], file) => c = d
\* A file holds what is in memory, is being written with it, or will be.
PsFresh(file) ==
    \/ \E c \in Call : WillWrite(psCall[c], file)
    \/ \E c \in Call : WritesTo(psCall[c], file) /\ psCall[c].payload = InMemory(file)
    \/ psDisk[file] = InMemory(file) /\ \A c \in Call : ~WritesTo(psCall[c], file)
PsFiles ==
    /\ PsOneWriter /\ PsFresh("profiles")
    /\ psLoaded => PsFresh("secrets")
    /\ ~psLoaded => psDisk.secrets # Torn

PsGood == PsDown /\ PsApart /\ PsCallsFit /\ PsSettled /\ PsFiles
PsInv == PsTyped /\ (~psCollided => PsGood)

LEMMA PsInitInv ==
    ASSUME PsInit
    PROVE  PsInv
<1>1. psProfiles \in List
  BY DEF PsInit, List
<1>2. psCall \in [Call -> PsCallRecord \cup {NoCall}] /\ \A c \in Call : psCall[c] = NoCall
  BY DEF PsInit
<1>3. Whole(psProfiles) \in ProfilesContent /\ Whole({}) \in SecretsContent /\ Head(Whole({})) = {}
      /\ Whole({}) # Torn
  BY <1>1, ContentFacts DEF Whole
<1>4. /\ psDisk \in PsDiskRecord /\ psDisk.profiles = Whole(psProfiles)
      /\ psDisk.secrets = Whole({})
  BY <1>3 DEF PsInit, PsDiskRecord
<1>5. PsTyped
  BY <1>1, <1>2, <1>4 DEF PsInit, PsTyped, At, Busy
<1>6. PsEff = {}
  BY <1>3, <1>4 DEF PsEff, PsInit
<1>7. PsDown /\ PsApart /\ PsCallsFit
  BY <1>2 DEF PsDown, PsApart, PsCallsFit, Works, Busy
<1>8. PsSettled
  BY <1>6 DEF PsInit, PsSettled, Settled
<1>9. PsFiles
  BY <1>2, <1>3, <1>4 DEF PsInit, PsFiles, PsOneWriter, PsFresh, WritesTo, WillWrite, InMemory
<1> QED
  BY <1>5, <1>7, <1>8, <1>9 DEF PsInv, PsGood

LEMMA PsInvAgree ==
    ASSUME PsInv
    PROVE  PsTypeOK /\ PsStoresAgree
<1>1. PsTypeOK
  <2>1. psDisk.profiles \in ProfilesContent \cup {Torn} /\ psDisk.secrets \in SecretsContent \cup {Torn}
    BY DEF PsInv, PsTyped, PsDiskRecord
  <2>2. \A c \in Call : Busy(c) => psCall[c].phase \in {"mkdir", "writing", "secrets", "reading"}
    BY DEF PsInv, PsTyped, Busy, PsCallRecord
  <2> QED
    BY <2>1, <2>2, ContentFacts DEF PsInv, PsTyped, PsTypeOK
<1>2. ASSUME psUp, ~psCollided, \A c \in Call : ~Busy(c)
      PROVE  /\ psDisk.profiles = Whole(psProfiles) /\ psShown = psProfiles
             /\ psLoaded => psDisk.secrets = Whole(psSecrets)
             /\ \A p \in Profile : psProfiles[p] = "locked" => p \in Head(psDisk.secrets)
             /\ Head(psDisk.secrets) \subseteq Listed(psProfiles)
  <2>1. \A c \in Call : psCall[c] = NoCall
    BY <1>2 DEF Busy
  <2>2. PsGood
    BY <1>2 DEF PsInv
  <2>3. psDisk.profiles = Whole(psProfiles) /\ (psLoaded => psDisk.secrets = Whole(psSecrets))
    BY <2>1, <2>2 DEF PsGood, PsFiles, PsFresh, WritesTo, WillWrite, InMemory
  <2>4. Head(psDisk.secrets) = PsEff
    BY <2>3 DEF PsEff, Whole
  <2>5. \A p \in Profile : Settled(p, psProfiles, psShown, PsEff)
    BY <2>1, <2>2 DEF PsGood, PsSettled, Works
  <2>6. psShown = psProfiles
    BY <2>5 DEF PsInv, PsTyped, List, Settled
  <2>7. PsEff \subseteq Profile
    <3>1. psDisk.secrets \in SecretsContent \cup {Torn} /\ (~psLoaded => psDisk.secrets # Torn)
      BY <2>2 DEF PsInv, PsTyped, PsDiskRecord, PsGood, PsFiles
    <3> QED
      BY <3>1, ContentFacts DEF PsEff, PsInv, PsTyped
  <2> QED
    BY <2>3, <2>4, <2>5, <2>6, <2>7 DEF Settled, Listed
<1> QED
  BY <1>1, <1>2 DEF PsStoresAgree

\* A file no request has turned to or away from is as it was.
LEMMA FreshKept ==
    ASSUME NEW file \in PsFile, PsFresh(file),
           psDisk'[file] = psDisk[file], InMemory(file)' = InMemory(file),
           \A d \in Call : WillWrite(psCall[d], file) => psCall'[d] = psCall[d],
           \A d \in Call : WritesTo(psCall[d], file) \/ WritesTo(psCall'[d], file) => psCall'[d] = psCall[d]
    PROVE  PsFresh(file)'
<1>1. CASE \E c \in Call : WillWrite(psCall[c], file)
  BY <1>1 DEF PsFresh
<1>2. CASE \E c \in Call : WritesTo(psCall[c], file) /\ psCall[c].payload = InMemory(file)
  BY <1>2 DEF PsFresh
<1>3. CASE psDisk[file] = InMemory(file) /\ \A c \in Call : ~WritesTo(psCall[c], file)
  BY <1>3 DEF PsFresh
<1> QED
  BY <1>1, <1>2, <1>3 DEF PsFresh

\* A request goes on with its work: profiles and window as they were, the passphrases
\* changed at most for its own profile.
LEMMA CallGoesOn ==
    ASSUME PsTyped, PsGood, NEW c \in Call, Busy(c), Busy(c)',
           \A d \in Call : d # c => psCall'[d] = psCall[d],
           psCall'[c].op = psCall[c].op, psCall'[c].id = psCall[c].id,
           psUp' = psUp, psProfiles' = psProfiles, psShown' = psShown,
           psLoaded => psLoaded',
           psCall[c].op = "dial" => PsEff' = PsEff,
           \A q \in Profile : q # psCall[c].id => (q \in PsEff' <=> q \in PsEff),
           CallFits(psCall'[c], psProfiles, psShown, psLoaded', PsEff')
    PROVE  PsDown' /\ PsApart' /\ PsCallsFit' /\ PsSettled'
<1>1. psCall[c] # NoCall /\ psCall'[c] # NoCall
  BY DEF Busy
<1>2. \A d \in Call, p \in Profile : Works(psCall'[d], p) <=> Works(psCall[d], p)
  BY <1>1 DEF Works
<1>3. PsApart'
  BY <1>2 DEF PsGood, PsApart
<1>4. PsDown'
  BY DEF PsGood, PsDown
<1>5. ASSUME NEW d \in Call, Busy(d)'
      PROVE  CallFits(psCall'[d], psProfiles, psShown, psLoaded', PsEff')
  <2>1. CASE d = c
    BY <2>1
  <2>2. CASE d # c
    <3>1. Busy(d) /\ psCall'[d] = psCall[d] /\ psCall[d] \in PsCallRecord
      BY <1>5, <2>2 DEF Busy, PsTyped
    <3>2. CallFits(psCall[d], psProfiles, psShown, psLoaded, PsEff)
      BY <3>1 DEF PsGood, PsCallsFit
    <3>3. psCall[d].id \in Profile /\ psCall[d].op \in {"create", "update", "remove", "dial"}
      BY <3>1 DEF PsCallRecord
    <3>4. CASE psCall[c].op = "dial"
      BY <3>1, <3>2, <3>4 DEF CallFits
    <3>5. CASE psCall[d].op = "dial"
      BY <3>1, <3>2, <3>5 DEF CallFits
    <3>6. CASE psCall[c].op # "dial" /\ psCall[d].op # "dial"
      <4>1. psCall[d].id # psCall[c].id
        BY <1>1, <2>2, <3>1, <3>3, <3>6 DEF PsGood, PsApart, Works, Busy
      <4>2. psCall[d].id \in PsEff' <=> psCall[d].id \in PsEff
        BY <3>3, <4>1
      <4> QED
        BY <3>1, <3>2, <4>2 DEF CallFits
    <3> QED
      BY <3>4, <3>5, <3>6
  <2> QED
    BY <2>1, <2>2
<1>6. PsCallsFit'
  BY <1>5 DEF PsCallsFit
<1>7. ASSUME NEW p \in Profile, \A d \in Call : ~Works(psCall'[d], p)
      PROVE  Settled(p, psProfiles, psShown, PsEff')
  <2>1. Settled(p, psProfiles, psShown, PsEff)
    BY <1>2, <1>7 DEF PsGood, PsSettled
  <2>2. p \in PsEff' <=> p \in PsEff
    BY <1>1, <1>2, <1>7 DEF Works
  <2> QED
    BY <2>1, <2>2 DEF Settled
<1>8. PsSettled'
  BY <1>7 DEF PsSettled
<1> QED
  BY <1>3, <1>4, <1>6, <1>8

\* A request is answered, and the order of the window takes its profile.
LEMMA CallEnds ==
    ASSUME PsTyped, PsGood, NEW c \in Call, Busy(c), Ends(c),
           psUp' = psUp, psProfiles' = psProfiles, psShown' = ShownAfter(psCall[c]),
           psLoaded' = psLoaded, PsEff' = PsEff,
           psCall[c].op # "dial" =>
               /\ psProfiles[psCall[c].id] = "locked" => psCall[c].id \in PsEff
               /\ psCall[c].id \in PsEff => psProfiles[psCall[c].id] \in Auth
    PROVE  PsDown' /\ PsApart' /\ PsCallsFit' /\ PsSettled' /\ psShown' \in List
<1> DEFINE call == psCall[c]
<1>1. call \in PsCallRecord /\ call # NoCall
  BY DEF PsTyped, Busy
<1>2. call.id \in Profile /\ call.op \in {"create", "update", "remove", "dial"}
  BY <1>1 DEF PsCallRecord
<1>3. psCall'[c] = NoCall /\ \A d \in Call : d # c => psCall'[d] = psCall[d]
  BY DEF Ends, PsTyped
<1>4. CallFits(call, psProfiles, psShown, psLoaded, PsEff)
  BY DEF PsGood, PsCallsFit
<1>5. psProfiles \in List /\ psShown \in List
  BY DEF PsTyped
<1>6. /\ psShown' \in List /\ \A p \in Profile : p # call.id => psShown'[p] = psShown[p]
      /\ call.op = "dial" => psShown' = psShown
      /\ call.op # "dial" => psShown'[call.id] = psProfiles[call.id]
  <2>1. CASE call.op = "create"
    BY <2>1, <1>2, <1>5 DEF ShownAfter, List
  <2>2. CASE call.op = "update"
    BY <2>2, <1>2, <1>4, <1>5 DEF ShownAfter, List, CallFits
  <2>3. CASE call.op = "remove"
    BY <2>3, <1>2, <1>4, <1>5 DEF ShownAfter, List, CallFits
  <2>4. CASE call.op = "dial"
    BY <2>4, <1>5 DEF ShownAfter
  <2> QED
    BY <1>2, <2>1, <2>2, <2>3, <2>4
<1>7. PsDown'
  BY <1>3 DEF PsGood, PsDown, Busy
<1>8. PsApart'
  BY <1>3 DEF PsGood, PsApart, Works
<1>9. ASSUME NEW d \in Call, Busy(d)'
      PROVE  CallFits(psCall'[d], psProfiles, psShown', psLoaded, PsEff)
  <2>1. d # c /\ psCall'[d] = psCall[d] /\ psCall[d] # NoCall /\ psCall[d] \in PsCallRecord
    BY <1>3, <1>9 DEF Busy, PsTyped
  <2>2. CallFits(psCall[d], psProfiles, psShown, psLoaded, PsEff)
    BY <2>1 DEF PsGood, PsCallsFit, Busy
  <2>3. psCall[d].id \in Profile /\ psCall[d].op \in {"create", "update", "remove", "dial"}
    BY <2>1 DEF PsCallRecord
  <2>4. psCall[d].op = "update" => psShown'[psCall[d].id] = psShown[psCall[d].id]
    BY <1>1, <1>2, <1>6, <2>1, <2>3 DEF PsGood, PsApart, Works
  <2> QED
    BY <2>1, <2>2, <2>4 DEF CallFits
<1>10. PsCallsFit'
  BY <1>9 DEF PsCallsFit
<1>11. ASSUME NEW p \in Profile, \A d \in Call : ~Works(psCall'[d], p)
       PROVE  Settled(p, psProfiles, psShown', PsEff)
  <2>1. CASE Works(call, p)
    <3>1. p = call.id /\ call.op # "dial"
      BY <2>1 DEF Works
    <3> QED
      BY <1>6, <3>1 DEF Settled
  <2>2. CASE ~Works(call, p)
    <3>1. \A d \in Call : ~Works(psCall[d], p)
      BY <1>3, <1>11, <2>2
    <3>2. Settled(p, psProfiles, psShown, PsEff)
      BY <3>1 DEF PsGood, PsSettled
    <3>3. psShown'[p] = psShown[p]
      BY <1>1, <1>6, <2>2 DEF Works
    <3> QED
      BY <3>2, <3>3 DEF Settled
  <2> QED
    BY <2>1, <2>2
<1>12. PsSettled'
  BY <1>11 DEF PsSettled
<1> QED
  BY <1>6, <1>7, <1>8, <1>10, <1>12

LEMMA AsksKeeps ==
    ASSUME PsInv, NEW c \in Call, NEW p \in Profile, NEW op \in {"create", "update", "remove"},
           NEW typed \in BOOLEAN, Asks(c, op, p, typed),
           psProfiles' \in List, \A q \in Profile : q # p => psProfiles'[q] = psProfiles[q],
           op = "remove" => typed = FALSE /\ psProfiles'[p] = "removed",
           op \in {"create", "update"} =>
               /\ psProfiles'[p] \in Auth
               /\ psProfiles'[p] = "locked" => typed \/ (op = "update" /\ psShown[p] = "locked"),
           op = "update" => psShown[p] \in Auth
    PROVE  PsInv'
<1> DEFINE new == [op |-> op, id |-> p, typed |-> typed, phase |-> "mkdir", file |-> "profiles",
                   payload |-> Whole(psProfiles)]
<1>1. /\ new \in PsCallRecord /\ new.op = op /\ new.id = p /\ new.typed = typed
      /\ new.phase = "mkdir" /\ new.file = "profiles" /\ new # NoCall
  <2>1. Whole(psProfiles) \in ProfilesContent
    BY ContentFacts DEF PsInv, PsTyped
  <2>2. new \in PsCallRecord
    BY <2>1 DEF PsCallRecord, PsFile
  <2> QED
    BY <2>2, NoCallFacts
<1>2. /\ psCall' = [psCall EXCEPT ![c] = new] /\ psCall[c] = NoCall /\ psUp
      /\ psCollided' = (psCollided \/ \E d \in Call : Busy(d) /\ psCall[d].id = p)
      /\ UNCHANGED <<psUp, psSecrets, psLoaded, psDisk, psShown>>
  BY DEF Asks, Busy
<1> HIDE DEF new
<1>3. psCall' \in [Call -> PsCallRecord \cup {NoCall}] /\ psCall'[c] = new
      /\ \A d \in Call : d # c => psCall'[d] = psCall[d]
  BY <1>1, <1>2 DEF PsInv, PsTyped
<1>4. PsTyped'
  <2>1. \A d \in Call : At(d, "writing")' => psCall'[d].payload \in Content(psCall'[d].file)
    BY <1>1, <1>3 DEF PsInv, PsTyped, At, Busy
  <2>2. psCollided' \in BOOLEAN
    BY <1>2
  <2> QED
    BY <1>2, <1>3, <2>1, <2>2 DEF PsInv, PsTyped
<1>5. SUFFICES ASSUME ~psCollided' PROVE PsGood'
  BY <1>4 DEF PsInv
<1>6. PsGood /\ \A d \in Call : psCall[d] # NoCall => psCall[d].id # p
  BY <1>2, <1>5 DEF PsInv, Busy
<1>7. PsEff' = PsEff
  BY <1>2 DEF PsEff
<1>8. Settled(p, psProfiles, psShown, PsEff)
  BY <1>6 DEF PsGood, PsSettled, Works
<1>9. PsDown'
  BY <1>2 DEF PsDown
<1>10. PsApart'
  BY <1>1, <1>3, <1>6 DEF PsGood, PsApart, Works
<1>11. ASSUME NEW d \in Call, Busy(d)'
       PROVE  CallFits(psCall'[d], psProfiles', psShown, psLoaded, PsEff)
  <2>1. CASE d = c
    <3>1. psProfiles'[p] = "locked" => typed \/ p \in PsEff
      BY <1>8 DEF Settled
    <3> QED
      BY <2>1, <3>1, <1>1, <1>3 DEF CallFits
  <2>2. CASE d # c
    <3>1. psCall'[d] = psCall[d] /\ psCall[d] # NoCall /\ psCall[d] \in PsCallRecord
      BY <1>3, <1>11, <2>2 DEF Busy, PsInv, PsTyped
    <3>2. CallFits(psCall[d], psProfiles, psShown, psLoaded, PsEff)
      BY <1>6, <3>1 DEF PsGood, PsCallsFit, Busy
    <3>3. psCall[d].id \in Profile /\ psCall[d].id # p
      BY <1>6, <3>1 DEF PsCallRecord
    <3> QED
      BY <3>1, <3>2, <3>3 DEF CallFits
  <2> QED
    BY <2>1, <2>2
<1>12. PsCallsFit'
  BY <1>2, <1>7, <1>11 DEF PsCallsFit
<1>13. ASSUME NEW q \in Profile, \A d \in Call : ~Works(psCall'[d], q)
       PROVE  Settled(q, psProfiles', psShown, PsEff)
  <2>1. q # p
    BY <1>1, <1>3, <1>13 DEF Works
  <2>2. \A d \in Call : ~Works(psCall[d], q)
    BY <1>2, <1>3, <1>13 DEF Works
  <2>3. Settled(q, psProfiles, psShown, PsEff)
    BY <1>6, <2>2 DEF PsGood, PsSettled
  <2> QED
    BY <2>1, <2>3 DEF Settled
<1>14. PsSettled'
  BY <1>2, <1>7, <1>13 DEF PsSettled
<1>15. PsFiles'
  <2>1. PsFresh("profiles")'
    BY <1>1, <1>3 DEF PsFresh, WillWrite
  <2>2. psLoaded => PsFresh("secrets")'
    <3>1. ASSUME psLoaded PROVE PsFresh("secrets")'
      <4>1. PsFresh("secrets")
        BY <1>6, <3>1 DEF PsGood, PsFiles
      <4>2. InMemory("secrets")' = InMemory("secrets")
        BY <1>2 DEF InMemory
      <4>3. \A d \in Call : WillWrite(psCall[d], "secrets") => psCall'[d] = psCall[d]
        BY <1>2, <1>3 DEF WillWrite
      <4>4. \A d \in Call : WritesTo(psCall[d], "secrets") \/ WritesTo(psCall'[d], "secrets")
                => psCall'[d] = psCall[d]
        BY <1>1, <1>2, <1>3 DEF WritesTo
      <4> QED
        BY <1>2, <4>1, <4>2, <4>3, <4>4, FreshKept DEF PsFile
    <3> QED
      BY <3>1
  <2>3. PsOneWriter'
    BY <1>1, <1>3, <1>6 DEF PsGood, PsFiles, PsOneWriter, WritesTo
  <2> QED
    BY <1>2, <1>6, <2>1, <2>2, <2>3 DEF PsGood, PsFiles
<1> QED
  BY <1>9, <1>10, <1>12, <1>14, <1>15 DEF PsGood

LEMMA PsAsksSteps ==
    ASSUME PsInv, NEW c \in Call, NEW p \in Profile, NEW kind \in {"agent", "key"},
           NEW typed \in BOOLEAN,
           PsCreates(c, p, kind, typed) \/ PsUpdates(c, p, kind, typed) \/ PsRemoves(c, p)
    PROVE  PsInv'
<1>1. psProfiles \in List /\ psShown \in List
  BY DEF PsInv, PsTyped
<1>2. \A before : /\ Chosen(kind, typed, before) \in Auth
                  /\ Chosen(kind, typed, before) = "locked" => typed \/ before = "locked"
  BY DEF Chosen, Auth
<1>3. CASE PsCreates(c, p, kind, typed)
  <2>1. /\ psProfiles' = [psProfiles EXCEPT ![p] = Chosen(kind, typed, "none")]
        /\ Asks(c, "create", p, typed)
    BY <1>3 DEF PsCreates
  <2>2. psProfiles' \in List /\ psProfiles'[p] = Chosen(kind, typed, "none")
        /\ \A q \in Profile : q # p => psProfiles'[q] = psProfiles[q]
    BY <1>1, <1>2, <2>1 DEF List
  <2>3. psProfiles'[p] \in Auth /\ (psProfiles'[p] = "locked" => typed)
    BY <1>2, <2>2
  <2> QED
    BY <2>1, <2>2, <2>3, AsksKeeps
<1>4. CASE PsUpdates(c, p, kind, typed)
  <2>1. /\ psProfiles' = [psProfiles EXCEPT ![p] = Chosen(kind, typed, psShown[p])]
        /\ Asks(c, "update", p, typed) /\ psShown[p] \in Auth
    BY <1>4 DEF PsUpdates, Listed
  <2>2. psProfiles' \in List /\ psProfiles'[p] = Chosen(kind, typed, psShown[p])
        /\ \A q \in Profile : q # p => psProfiles'[q] = psProfiles[q]
    BY <1>1, <1>2, <2>1 DEF List
  <2>3. psProfiles'[p] \in Auth /\ (psProfiles'[p] = "locked" => typed \/ psShown[p] = "locked")
    BY <1>2, <2>2
  <2> QED
    BY <2>1, <2>2, <2>3, AsksKeeps
<1>5. CASE PsRemoves(c, p)
  <2>1. psProfiles' = [psProfiles EXCEPT ![p] = "removed"] /\ Asks(c, "remove", p, FALSE)
    BY <1>5 DEF PsRemoves
  <2>2. psProfiles' \in List /\ psProfiles'[p] = "removed"
        /\ \A q \in Profile : q # p => psProfiles'[q] = psProfiles[q]
    BY <1>1, <2>1 DEF List
  <2> QED
    BY <2>1, <2>2, AsksKeeps
<1> QED
  BY <1>3, <1>4, <1>5

LEMMA PsDialsStep ==
    ASSUME PsInv, NEW c \in Call, NEW p \in Profile, PsDials(c, p)
    PROVE  PsInv'
<1> DEFINE new == [op |-> "dial", id |-> p, typed |-> FALSE, phase |-> "secrets", file |-> "secrets",
                   payload |-> Whole(psSecrets)]
<1>1. /\ new \in PsCallRecord /\ new.op = "dial" /\ new.id = p /\ new.typed = FALSE
      /\ new.phase = "secrets" /\ new.file = "secrets" /\ new # NoCall
  <2>1. Whole(psSecrets) \in SecretsContent
    BY ContentFacts DEF PsInv, PsTyped
  <2>2. new \in PsCallRecord
    BY <2>1 DEF PsCallRecord, PsFile
  <2> QED
    BY <2>2, NoCallFacts
<1>2. /\ psCall' = [psCall EXCEPT ![c] = new] /\ psCall[c] = NoCall /\ psUp
      /\ UNCHANGED <<psUp, psProfiles, psSecrets, psLoaded, psDisk, psShown, psCollided>>
  BY DEF PsDials, Busy
<1> HIDE DEF new
<1>3. psCall' \in [Call -> PsCallRecord \cup {NoCall}] /\ psCall'[c] = new
      /\ \A d \in Call : d # c => psCall'[d] = psCall[d]
  BY <1>1, <1>2 DEF PsInv, PsTyped
<1>4. PsTyped'
  <2>1. \A d \in Call : At(d, "writing")' => psCall'[d].payload \in Content(psCall'[d].file)
    BY <1>1, <1>3 DEF PsInv, PsTyped, At, Busy
  <2> QED
    BY <1>2, <1>3, <2>1 DEF PsInv, PsTyped
<1>5. SUFFICES ASSUME ~psCollided PROVE PsGood'
  BY <1>2, <1>4 DEF PsInv
<1>6. PsGood
  BY <1>5 DEF PsInv
<1>7. PsEff' = PsEff
  BY <1>2 DEF PsEff
<1>8. \A d \in Call, q \in Profile : Works(psCall'[d], q) <=> Works(psCall[d], q)
  BY <1>1, <1>2, <1>3 DEF Works
<1>9. PsDown' /\ PsApart' /\ PsSettled'
  BY <1>2, <1>6, <1>7, <1>8 DEF PsGood, PsDown, PsApart, PsSettled
<1>10. PsCallsFit'
  <2>1. CallFits(new, psProfiles, psShown, psLoaded, PsEff)
    BY <1>1 DEF CallFits
  <2> QED
    BY <1>2, <1>3, <1>6, <1>7, <2>1 DEF PsGood, PsCallsFit, Busy
<1>11. PsFiles'
  <2>1. \A file \in PsFile : \A d \in Call :
            /\ WillWrite(psCall[d], file) => psCall'[d] = psCall[d]
            /\ WritesTo(psCall[d], file) \/ WritesTo(psCall'[d], file) => psCall'[d] = psCall[d]
    BY <1>1, <1>2, <1>3 DEF WillWrite, WritesTo
  <2>2. \A file \in PsFile : InMemory(file)' = InMemory(file) /\ psDisk'[file] = psDisk[file]
    BY <1>2 DEF InMemory
  <2>3. \A file \in PsFile : PsFresh(file) => PsFresh(file)'
    BY <2>1, <2>2, FreshKept
  <2>4. PsOneWriter'
    BY <1>6, <2>1 DEF PsGood, PsFiles, PsOneWriter
  <2> QED
    BY <1>2, <1>6, <2>3, <2>4 DEF PsGood, PsFiles, PsFile
<1> QED
  BY <1>6, <1>9, <1>10, <1>11 DEF PsGood

\* One request is replaced by itself in another phase, or by none.
LEMMA OneCallChanges ==
    ASSUME PsTyped, NEW c \in Call, NEW now \in PsCallRecord \cup {NoCall},
           psCall' = [psCall EXCEPT ![c] = now]
    PROVE  /\ psCall' \in [Call -> PsCallRecord \cup {NoCall}] /\ psCall'[c] = now
           /\ \A d \in Call : d # c => psCall'[d] = psCall[d]
BY DEF PsTyped

LEMMA CallIsRecord ==
    ASSUME PsTyped, NEW c \in Call, Busy(c)
    PROVE  /\ psCall[c] \in PsCallRecord /\ psCall[c] # NoCall /\ psCall[c].id \in Profile
           /\ psCall[c].file \in PsFile /\ psCall[c].typed \in BOOLEAN
           /\ psCall[c].op \in {"create", "update", "remove", "dial"}
BY DEF PsTyped, Busy, PsCallRecord

LEMMA PsWritesStep ==
    ASSUME PsInv, NEW c \in Call, PsWrites(c)
    PROVE  PsInv'
<1> DEFINE call == psCall[c]
<1>1. PsTyped /\ Busy(c) /\ call.phase = "mkdir"
  BY DEF PsInv, PsWrites, At
<1>2. call \in PsCallRecord /\ call # NoCall /\ call.file \in PsFile
  BY <1>1, CallIsRecord
<1>3. PICK file \in PsFile : file = call.file
  BY <1>2
<1>4. PICK now : now = [call EXCEPT !.phase = "writing", !.payload = InMemory(file)]
  OBVIOUS
<1>5. /\ InMemory("profiles") \in ProfilesContent /\ InMemory("secrets") \in SecretsContent
      /\ InMemory(file) \in Content(file) /\ InMemory(file) \in ProfilesContent \cup SecretsContent
  BY <1>1, ContentFacts DEF PsTyped, InMemory, Content, PsFile
<1>6. /\ now \in PsCallRecord /\ now.op = call.op /\ now.id = call.id /\ now.typed = call.typed
      /\ now.file = file /\ now.payload = InMemory(file) /\ now.phase = "writing" /\ now # NoCall
  <2>1. PICK payload \in ProfilesContent \cup SecretsContent : payload = InMemory(file)
    BY <1>5
  <2>2. PICK before \in PsCallRecord : before = call
    BY <1>2
  <2>3. now = [before EXCEPT !.phase = "writing", !.payload = payload]
    BY <1>4, <2>1, <2>2
  <2>4. now \in PsCallRecord
    BY <2>3 DEF PsCallRecord
  <2>5. now.op = before.op /\ now.id = before.id /\ now.typed = before.typed /\ now.file = before.file
    BY <2>3 DEF PsCallRecord
  <2>6. now.payload = payload /\ now.phase = "writing"
    BY <2>3 DEF PsCallRecord
  <2> QED
    BY <1>3, <2>1, <2>2, <2>4, <2>5, <2>6, NoCallFacts
<1>7. /\ psDisk' = [psDisk EXCEPT ![file] = Torn] /\ psCall' = [psCall EXCEPT ![c] = now]
      /\ psCollided' = (psCollided \/ OthersWrite(c, file))
      /\ UNCHANGED <<psUp, psProfiles, psSecrets, psLoaded, psShown>>
  BY <1>3, <1>4 DEF PsWrites
<1>8. psCall' \in [Call -> PsCallRecord \cup {NoCall}] /\ psCall'[c] = now
      /\ \A d \in Call : d # c => psCall'[d] = psCall[d]
  BY <1>1, <1>6, <1>7, OneCallChanges
<1>9. /\ psDisk' \in PsDiskRecord
      /\ \A other \in PsFile : other # file => psDisk'[other] = psDisk[other]
  <2>1. PICK content \in Content(file) \cup {Torn} : content = Torn
    OBVIOUS
  <2>2. psDisk \in PsDiskRecord /\ psDisk' = [psDisk EXCEPT ![file] = content]
    BY <1>1, <1>7, <2>1 DEF PsTyped
  <2> QED
    BY <2>2, DiskFacts
<1>10. PsTyped'
  <2>1. \A d \in Call : At(d, "writing")' => psCall'[d].payload \in Content(psCall'[d].file)
    BY <1>1, <1>5, <1>6, <1>8 DEF PsTyped, At, Busy
  <2>2. psCollided' \in BOOLEAN
    BY <1>7
  <2> QED
    BY <1>1, <1>7, <1>8, <1>9, <2>1, <2>2 DEF PsTyped
<1>11. SUFFICES ASSUME ~psCollided' PROVE PsGood'
  BY <1>10 DEF PsInv
<1>12. PsGood /\ ~OthersWrite(c, file)
  BY <1>7, <1>11 DEF PsInv
<1>13. CallFits(call, psProfiles, psShown, psLoaded, PsEff)
  BY <1>1, <1>12 DEF PsGood, PsCallsFit
<1>14. (file = "secrets" => psLoaded) /\ call.op # "dial"
  BY <1>1, <1>3, <1>13 DEF CallFits
<1>15. PsEff' = PsEff
  BY <1>7, <1>9, <1>14 DEF PsEff, PsFile
<1>16. PsDown' /\ PsApart' /\ PsCallsFit' /\ PsSettled'
  <2>1. CallFits(now, psProfiles, psShown, psLoaded, PsEff)
    BY <1>1, <1>3, <1>6, <1>13 DEF CallFits
  <2> QED
    BY <1>1, <1>6, <1>7, <1>8, <1>12, <1>15, <2>1, CallGoesOn DEF Busy
<1>17. PsFiles'
  <2>1. ASSUME NEW other \in PsFile, PsFresh(other)
        PROVE  PsFresh(other)'
    <3>1. InMemory(other)' = InMemory(other)
      BY <1>7 DEF InMemory
    <3>2. CASE other = file
      BY <1>6, <1>8, <3>1, <3>2 DEF PsFresh, WritesTo
    <3>3. CASE other # file
      <4>1. \A d \in Call : WillWrite(psCall[d], other) => psCall'[d] = psCall[d]
        BY <1>3, <1>8, <3>3 DEF WillWrite
      <4>2. \A d \in Call : WritesTo(psCall[d], other) \/ WritesTo(psCall'[d], other)
                => psCall'[d] = psCall[d]
        BY <1>3, <1>6, <1>8, <3>3 DEF WritesTo
      <4> QED
        BY <1>9, <2>1, <3>1, <3>3, <4>1, <4>2, FreshKept
    <3> QED
      BY <3>2, <3>3
  <2>2. \A d \in Call : d # c => ~WritesTo(psCall[d], file)
    BY <1>12 DEF OthersWrite, WritesTo, At, Busy
  <2>3. \A other \in PsFile, d \in Call : WritesTo(psCall'[d], other) =>
            (d = c /\ other = file) \/ (d # c /\ WritesTo(psCall[d], other))
    BY <1>6, <1>8 DEF WritesTo
  <2>4. PsOneWriter'
    BY <1>12, <2>2, <2>3 DEF PsGood, PsFiles, PsOneWriter
  <2>5. ~psLoaded => psDisk'.secrets # Torn
    BY <1>9, <1>12, <1>14 DEF PsGood, PsFiles, PsFile
  <2> QED
    BY <1>7, <1>12, <2>1, <2>4, <2>5 DEF PsGood, PsFiles, PsFile
<1> QED
  BY <1>16, <1>17 DEF PsGood

LEMMA PsWrittenStep ==
    ASSUME PsInv, NEW c \in Call, PsWritten(c)
    PROVE  PsInv'
<1> DEFINE call == psCall[c]
<1>1. PsTyped /\ Busy(c) /\ call.phase = "writing" /\ At(c, "writing")
  BY DEF PsInv, PsWritten, At
<1>2. /\ call \in PsCallRecord /\ call # NoCall /\ call.file \in PsFile
      /\ call.op \in {"create", "update", "remove", "dial"} /\ call.id \in Profile
  BY <1>1, CallIsRecord
<1>3. PICK file \in PsFile : file = call.file
  BY <1>2
<1>4. PICK content \in {call.payload} \cup (IF OthersWrite(c, file) THEN {Torn} ELSE {}) :
          psDisk' = [psDisk EXCEPT ![file] = content]
  BY <1>3 DEF PsWritten
<1>5. content \in Content(file) \cup {Torn}
  BY <1>1, <1>3, <1>4 DEF PsTyped
<1>6. psDisk' \in PsDiskRecord /\ psDisk'[file] = content
      /\ \A other \in PsFile : other # file => psDisk'[other] = psDisk[other]
  <2>1. psDisk \in PsDiskRecord
    BY <1>1 DEF PsTyped
  <2> QED
    BY <1>4, <1>5, <2>1, DiskFacts
<1>7. UNCHANGED <<psUp, psProfiles, psSecrets, psLoaded, psCollided>>
  BY DEF PsWritten
<1>8. \/ file = "profiles" /\ NeedsSecrets(call) /\ Goes(c, "secrets") /\ psShown' = psShown
      \/ ~(file = "profiles" /\ NeedsSecrets(call)) /\ Ends(c) /\ psShown' = ShownAfter(call)
  BY <1>3 DEF PsWritten
<1>9. PICK now : now = IF file = "profiles" /\ NeedsSecrets(call)
                       THEN [call EXCEPT !.phase = "secrets"] ELSE NoCall
  OBVIOUS
<1>10. /\ now \in PsCallRecord \cup {NoCall} /\ psCall' = [psCall EXCEPT ![c] = now]
       /\ now # NoCall => /\ now.phase = "secrets" /\ now.op = call.op /\ now.id = call.id
                          /\ now.typed = call.typed
       /\ file = "profiles" /\ NeedsSecrets(call) => now # NoCall
  BY <1>2, <1>8, <1>9, PsPhaseFacts, NoCallFacts DEF Goes, Ends
<1>11. psCall' \in [Call -> PsCallRecord \cup {NoCall}] /\ psCall'[c] = now
       /\ \A d \in Call : d # c => psCall'[d] = psCall[d]
  BY <1>1, <1>10, OneCallChanges
<1>12. psShown' \in List
  BY <1>1, <1>2, <1>8 DEF PsTyped, ShownAfter, List
<1>13. PsTyped'
  <2>1. \A d \in Call : At(d, "writing")' => psCall'[d].payload \in Content(psCall'[d].file)
    BY <1>1, <1>10, <1>11 DEF PsTyped, At, Busy
  <2> QED
    BY <1>1, <1>6, <1>7, <1>11, <1>12, <2>1 DEF PsTyped
<1>14. SUFFICES ASSUME ~psCollided PROVE PsGood'
  BY <1>7, <1>13 DEF PsInv
<1>15. PsGood
  BY <1>14 DEF PsInv
<1>16. CallFits(call, psProfiles, psShown, psLoaded, PsEff)
  BY <1>1, <1>15 DEF PsGood, PsCallsFit
<1>17. (file = "secrets" => psLoaded) /\ call.op # "dial"
  BY <1>1, <1>3, <1>16 DEF CallFits
<1>18. PsEff' = PsEff
  BY <1>6, <1>7, <1>17 DEF PsEff, PsFile
<1>19. PsDown' /\ PsApart' /\ PsCallsFit' /\ PsSettled'
  <2>1. CASE file = "profiles" /\ NeedsSecrets(call)
    <3>1. CallFits(now, psProfiles, psShown, psLoaded, PsEff)
      BY <1>10, <1>16, <1>17, <2>1 DEF CallFits
    <3>2. psShown' = psShown
      BY <1>8, <2>1
    <3> QED
      BY <1>1, <1>7, <1>10, <1>11, <1>15, <1>18, <2>1, <3>1, <3>2, CallGoesOn DEF Busy
  <2>2. CASE ~(file = "profiles" /\ NeedsSecrets(call))
    <3>1. /\ psProfiles[call.id] = "locked" => call.id \in PsEff
          /\ call.id \in PsEff => psProfiles[call.id] \in Auth
      <4>1. CASE file = "secrets"
        BY <1>1, <1>2, <1>3, <1>16, <1>17, <4>1 DEF CallFits, Auth
      <4>2. CASE file = "profiles"
        BY <1>2, <1>16, <1>17, <2>2, <4>2 DEF CallFits, NeedsSecrets
      <4> QED
        BY <4>1, <4>2 DEF PsFile
    <3>2. Ends(c) /\ psShown' = ShownAfter(psCall[c])
      BY <1>8, <2>2
    <3> QED
      BY <1>1, <1>7, <1>15, <1>18, <3>1, <3>2, CallEnds
  <2> QED
    BY <2>1, <2>2
<1>20. PsFiles'
  <2>1. WritesTo(call, file) /\ \A d \in Call : d # c => ~WritesTo(psCall[d], file)
    BY <1>1, <1>2, <1>3, <1>15 DEF PsGood, PsFiles, PsOneWriter, WritesTo
  <2>2. content = call.payload
    BY <1>4, <2>1 DEF OthersWrite, WritesTo, At, Busy
  <2>3. \A other \in PsFile, d \in Call :
            WritesTo(psCall'[d], other) => d # c /\ WritesTo(psCall[d], other)
    BY <1>10, <1>11 DEF WritesTo
  <2>4. ASSUME NEW other \in PsFile, PsFresh(other)
        PROVE  PsFresh(other)'
    <3>1. InMemory(other)' = InMemory(other)
      BY <1>7 DEF InMemory
    <3>2. CASE other = file
      <4>1. CASE \E d \in Call : WillWrite(psCall[d], file)
        <5>1. PICK d \in Call : WillWrite(psCall[d], file)
          BY <4>1
        <5>2. d # c
          BY <1>1, <5>1 DEF WillWrite
        <5> QED
          BY <1>11, <3>2, <5>1, <5>2 DEF PsFresh
      <4>2. CASE call.payload = InMemory(file)
        <5>1. psDisk'[file] = InMemory(file)'
          BY <1>6, <2>2, <3>1, <3>2, <4>2
        <5>2. \A d \in Call : ~WritesTo(psCall'[d], file)
          BY <2>1, <2>3
        <5> QED
          BY <3>2, <5>1, <5>2 DEF PsFresh
      <4>3. (\E d \in Call : WillWrite(psCall[d], file)) \/ call.payload = InMemory(file)
        <5>1. \A d \in Call : WritesTo(psCall[d], file) => d = c
          BY <2>1
        <5> QED
          BY <2>1, <2>4, <3>2, <5>1 DEF PsFresh
      <4> QED
        BY <4>1, <4>2, <4>3
    <3>3. CASE other # file
      <4>1. \A d \in Call : WillWrite(psCall[d], other) => psCall'[d] = psCall[d]
        BY <1>1, <1>11 DEF WillWrite
      <4>2. \A d \in Call : WritesTo(psCall[d], other) \/ WritesTo(psCall'[d], other)
                => psCall'[d] = psCall[d]
        BY <1>3, <1>11, <2>3, <3>3 DEF WritesTo
      <4> QED
        BY <1>6, <2>4, <3>1, <3>3, <4>1, <4>2, FreshKept
    <3> QED
      BY <3>2, <3>3
  <2>5. PsOneWriter'
    BY <1>15, <2>3 DEF PsGood, PsFiles, PsOneWriter
  <2>6. ~psLoaded => psDisk'.secrets # Torn
    BY <1>6, <1>15, <1>17 DEF PsGood, PsFiles, PsFile
  <2> QED
    BY <1>7, <1>15, <2>4, <2>5, <2>6 DEF PsGood, PsFiles, PsFile
<1> QED
  BY <1>19, <1>20 DEF PsGood

LEMMA PsWriteFailsStep ==
    ASSUME PsInv, NEW c \in Call, PsWriteFails(c)
    PROVE  PsInv'
<1>1. psCall' = [psCall EXCEPT ![c] = NoCall] /\ psCollided' = TRUE
      /\ UNCHANGED <<psUp, psProfiles, psSecrets, psLoaded, psDisk, psShown>>
  BY DEF PsWriteFails, Ends
<1>2. psCall' \in [Call -> PsCallRecord \cup {NoCall}] /\ psCall'[c] = NoCall
      /\ \A d \in Call : d # c => psCall'[d] = psCall[d]
  BY <1>1, OneCallChanges DEF PsInv
<1>3. \A d \in Call : At(d, "writing")' => psCall'[d].payload \in Content(psCall'[d].file)
  BY <1>2 DEF PsInv, PsTyped, At, Busy
<1> QED
  BY <1>1, <1>2, <1>3 DEF PsInv, PsTyped

\* A request that reads, or has read, the passphrases writes nothing yet.
LEMMA NoWriter ==
    ASSUME NEW c \in Call, psCall[c].phase \in {"secrets", "reading"},
           psCall'[c] = NoCall \/ psCall'[c].phase \in {"secrets", "reading"},
           \A d \in Call : d # c => psCall'[d] = psCall[d],
           NEW file \in PsFile
    PROVE  /\ \A d \in Call : WillWrite(psCall[d], file) => psCall'[d] = psCall[d]
           /\ \A d \in Call : WritesTo(psCall[d], file) \/ WritesTo(psCall'[d], file)
                  => psCall'[d] = psCall[d]
BY DEF WillWrite, WritesTo

LEMMA FilesQuiet ==
    ASSUME PsGood, NEW c \in Call, psCall[c].phase \in {"secrets", "reading"},
           psCall'[c] = NoCall \/ psCall'[c].phase \in {"secrets", "reading"},
           \A d \in Call : d # c => psCall'[d] = psCall[d],
           UNCHANGED <<psProfiles, psSecrets, psLoaded, psDisk>>
    PROVE  PsFiles'
<1>1. \A file \in PsFile : InMemory(file)' = InMemory(file) /\ psDisk'[file] = psDisk[file]
  BY DEF InMemory
<1>2. \A file \in PsFile : PsFresh(file) => PsFresh(file)'
  BY <1>1, NoWriter, FreshKept
<1>3. PsOneWriter'
  BY NoWriter DEF PsGood, PsFiles, PsOneWriter
<1> QED
  BY <1>2, <1>3 DEF PsGood, PsFiles, PsFile

LEMMA PsAsksForSecretsStep ==
    ASSUME PsInv, NEW c \in Call, PsAsksForSecrets(c)
    PROVE  PsInv'
<1> DEFINE call == psCall[c]
           now == [call EXCEPT !.phase = "reading"]
<1>1. PsTyped /\ Busy(c) /\ call.phase = "secrets"
  BY DEF PsInv, PsAsksForSecrets, At
<1>2. call \in PsCallRecord /\ call # NoCall
  BY <1>1, CallIsRecord
<1>3. /\ now \in PsCallRecord /\ now.op = call.op /\ now.id = call.id /\ now.typed = call.typed
      /\ now.file = call.file /\ now.phase = "reading" /\ now # NoCall
  BY <1>2, PsPhaseFacts, NoCallFacts
<1>4. /\ psCall' = [psCall EXCEPT ![c] = now]
      /\ UNCHANGED <<psUp, psProfiles, psSecrets, psLoaded, psDisk, psShown, psCollided>>
  BY DEF PsAsksForSecrets, Goes
<1> HIDE DEF now
<1>5. psCall' \in [Call -> PsCallRecord \cup {NoCall}] /\ psCall'[c] = now
      /\ \A d \in Call : d # c => psCall'[d] = psCall[d]
  BY <1>1, <1>3, <1>4, OneCallChanges
<1>6. PsTyped'
  <2>1. \A d \in Call : At(d, "writing")' => psCall'[d].payload \in Content(psCall'[d].file)
    BY <1>1, <1>3, <1>5 DEF PsTyped, At, Busy
  <2> QED
    BY <1>1, <1>4, <1>5, <2>1 DEF PsTyped
<1>7. SUFFICES ASSUME ~psCollided PROVE PsGood'
  BY <1>4, <1>6 DEF PsInv
<1>8. PsGood
  BY <1>7 DEF PsInv
<1>9. PsEff' = PsEff
  BY <1>4 DEF PsEff
<1>10. CallFits(now, psProfiles, psShown, psLoaded, PsEff)
  <2>1. CallFits(call, psProfiles, psShown, psLoaded, PsEff)
    BY <1>1, <1>8 DEF PsGood, PsCallsFit
  <2> QED
    BY <1>3, <2>1 DEF CallFits
<1>11. PsDown' /\ PsApart' /\ PsCallsFit' /\ PsSettled'
  BY <1>1, <1>3, <1>4, <1>5, <1>8, <1>9, <1>10, CallGoesOn DEF Busy
<1>12. PsFiles'
  BY <1>1, <1>3, <1>4, <1>5, <1>8, FilesQuiet
<1> QED
  BY <1>11, <1>12 DEF PsGood

LEMMA PsReadsStep ==
    ASSUME PsInv, NEW c \in Call, PsReads(c)
    PROVE  PsInv'
<1> DEFINE call == psCall[c]
           now == [call EXCEPT !.phase = "secrets"]
<1>1. PsTyped /\ Busy(c) /\ call.phase = "reading"
  BY DEF PsInv, PsReads, At
<1>2. call \in PsCallRecord /\ call # NoCall
  BY <1>1, CallIsRecord
<1>3. /\ now \in PsCallRecord /\ now.op = call.op /\ now.id = call.id /\ now.typed = call.typed
      /\ now.file = call.file /\ now.phase = "secrets" /\ now # NoCall
  BY <1>2, PsPhaseFacts, NoCallFacts
<1>4. /\ psCall' = [psCall EXCEPT ![c] = now] /\ psDisk.secrets # Torn
      /\ psSecrets' = Head(psDisk.secrets) /\ psLoaded' = TRUE
      /\ psCollided' = (psCollided \/ psLoaded)
      /\ UNCHANGED <<psUp, psProfiles, psDisk, psShown>>
  BY DEF PsReads, Goes
<1> HIDE DEF now
<1>5. psCall' \in [Call -> PsCallRecord \cup {NoCall}] /\ psCall'[c] = now
      /\ \A d \in Call : d # c => psCall'[d] = psCall[d]
  BY <1>1, <1>3, <1>4, OneCallChanges
<1>6. psSecrets' \in SUBSET Profile /\ psDisk.secrets = Whole(psSecrets')
  <2>1. psDisk.secrets \in SecretsContent
    BY <1>1, <1>4 DEF PsTyped, PsDiskRecord
  <2> QED
    BY <1>4, <2>1, ContentFacts
<1>7. PsTyped'
  <2>1. \A d \in Call : At(d, "writing")' => psCall'[d].payload \in Content(psCall'[d].file)
    BY <1>1, <1>3, <1>5 DEF PsTyped, At, Busy
  <2>2. psCollided' \in BOOLEAN
    BY <1>4
  <2> QED
    BY <1>1, <1>4, <1>5, <1>6, <2>1, <2>2 DEF PsTyped
<1>8. SUFFICES ASSUME ~psCollided' PROVE PsGood'
  BY <1>7 DEF PsInv
<1>9. PsGood /\ ~psLoaded
  BY <1>4, <1>8 DEF PsInv
<1>10. PsEff' = PsEff
  BY <1>4, <1>9 DEF PsEff
<1>11. CallFits(now, psProfiles, psShown, psLoaded', PsEff)
  <2>1. CallFits(call, psProfiles, psShown, psLoaded, PsEff)
    BY <1>1, <1>9 DEF PsGood, PsCallsFit
  <2> QED
    BY <1>3, <2>1 DEF CallFits
<1>12. PsDown' /\ PsApart' /\ PsCallsFit' /\ PsSettled'
  BY <1>1, <1>3, <1>4, <1>5, <1>9, <1>10, <1>11, CallGoesOn DEF Busy
<1>13. \A d \in Call : ~WritesTo(psCall[d], "secrets")
  <2>1. ASSUME NEW d \in Call, WritesTo(psCall[d], "secrets")
        PROVE  FALSE
    <3>1. CallFits(psCall[d], psProfiles, psShown, psLoaded, PsEff)
      BY <1>9, <2>1 DEF PsGood, PsCallsFit, WritesTo, Busy
    <3> QED
      BY <1>9, <2>1, <3>1 DEF CallFits, WritesTo
  <2> QED
    BY <2>1
<1>14. PsFiles'
  <2>1. PsFresh("profiles")'
    <3>1. InMemory("profiles")' = InMemory("profiles")
      BY <1>4 DEF InMemory
    <3>2. \A d \in Call : WillWrite(psCall[d], "profiles") => psCall'[d] = psCall[d]
      BY <1>1, <1>5 DEF WillWrite
    <3>3. \A d \in Call : WritesTo(psCall[d], "profiles") \/ WritesTo(psCall'[d], "profiles")
              => psCall'[d] = psCall[d]
      BY <1>1, <1>3, <1>5 DEF WritesTo
    <3>4. PsFresh("profiles")
      BY <1>9 DEF PsGood, PsFiles
    <3> QED
      BY <1>4, <3>1, <3>2, <3>3, <3>4, FreshKept DEF PsFile
  <2>2. PsFresh("secrets")'
    <3>1. psDisk'["secrets"] = InMemory("secrets")'
      BY <1>4, <1>6 DEF InMemory
    <3>2. \A d \in Call : ~WritesTo(psCall'[d], "secrets")
      BY <1>3, <1>5, <1>13 DEF WritesTo
    <3> QED
      BY <3>1, <3>2 DEF PsFresh
  <2>3. PsOneWriter'
    BY <1>1, <1>3, <1>5, <1>9 DEF PsGood, PsFiles, PsOneWriter, WritesTo
  <2> QED
    BY <1>4, <2>1, <2>2, <2>3 DEF PsFiles
<1> QED
  BY <1>12, <1>14 DEF PsGood

LEMMA PsSecretsFailStep ==
    ASSUME PsInv, NEW c \in Call, PsSecretsFail(c)
    PROVE  PsInv'
<1>1. PsTyped /\ Busy(c) /\ psCall[c].phase \in {"secrets", "reading"}
  BY DEF PsInv, PsSecretsFail, At
<1>2. /\ Ends(c) /\ psCollided' = (psCollided \/ psCall[c].op # "dial")
      /\ UNCHANGED <<psUp, psProfiles, psSecrets, psLoaded, psDisk, psShown>>
  BY DEF PsSecretsFail
<1>3. psCall' \in [Call -> PsCallRecord \cup {NoCall}] /\ psCall'[c] = NoCall
      /\ \A d \in Call : d # c => psCall'[d] = psCall[d]
  BY <1>1, <1>2, OneCallChanges DEF Ends
<1>4. PsTyped'
  <2>1. \A d \in Call : At(d, "writing")' => psCall'[d].payload \in Content(psCall'[d].file)
    BY <1>3 DEF PsInv, PsTyped, At, Busy
  <2>2. psCollided' \in BOOLEAN
    BY <1>2
  <2> QED
    BY <1>1, <1>2, <1>3, <2>1, <2>2 DEF PsTyped
<1>5. SUFFICES ASSUME ~psCollided' PROVE PsGood'
  BY <1>4 DEF PsInv
<1>6. PsGood /\ psCall[c].op = "dial"
  BY <1>2, <1>5 DEF PsInv
<1>7. psShown' = ShownAfter(psCall[c])
  BY <1>2, <1>6 DEF ShownAfter
<1>8. PsEff' = PsEff
  BY <1>2 DEF PsEff
<1>9. PsDown' /\ PsApart' /\ PsCallsFit' /\ PsSettled'
  BY <1>1, <1>2, <1>6, <1>7, <1>8, CallEnds
<1>10. PsFiles'
  BY <1>1, <1>2, <1>3, <1>6, FilesQuiet
<1> QED
  BY <1>9, <1>10 DEF PsGood

LEMMA PsKeepsStep ==
    ASSUME PsInv, NEW c \in Call, PsKeeps(c)
    PROVE  PsInv'
<1> DEFINE call == psCall[c]
<1>1. PsTyped /\ Busy(c) /\ call.phase = "secrets" /\ psLoaded
  BY DEF PsInv, PsKeeps, At
<1>2. /\ call \in PsCallRecord /\ call # NoCall /\ call.typed \in BOOLEAN
      /\ call.op \in {"create", "update", "remove", "dial"} /\ call.id \in Profile
  BY <1>1, CallIsRecord
<1>3. /\ psSecrets' = IF call.op = "remove" THEN psSecrets \ {call.id}
                      ELSE IF call.typed THEN psSecrets \cup {call.id} ELSE psSecrets
      /\ UNCHANGED <<psUp, psProfiles, psLoaded, psDisk, psCollided>>
  BY DEF PsKeeps
<1>4. IF call.typed \/ psSecrets' # psSecrets
      THEN GoesToSecrets(c) /\ psShown' = psShown
      ELSE Ends(c) /\ psShown' = ShownAfter(call)
  BY DEF PsKeeps
<1>5. psSecrets' \in SUBSET Profile
  BY <1>1, <1>2, <1>3 DEF PsTyped
<1>6. PICK now : now = IF call.typed \/ psSecrets' # psSecrets
                       THEN [call EXCEPT !.phase = "mkdir", !.file = "secrets"] ELSE NoCall
  OBVIOUS
<1>7. /\ now \in PsCallRecord \cup {NoCall}
      /\ now # NoCall => /\ now.op = call.op /\ now.id = call.id /\ now.typed = call.typed
                         /\ now.phase = "mkdir" /\ now.file = "secrets"
      /\ call.typed \/ psSecrets' # psSecrets => now # NoCall
  <2>1. CASE call.typed \/ psSecrets' # psSecrets
    <3>1. PICK before \in PsCallRecord : before = call
      BY <1>2
    <3>2. now = [before EXCEPT !.phase = "mkdir", !.file = "secrets"]
      BY <1>6, <2>1, <3>1
    <3>3. now \in PsCallRecord
      BY <3>2 DEF PsCallRecord, PsFile
    <3>4. now.op = before.op /\ now.id = before.id /\ now.typed = before.typed
      BY <3>2 DEF PsCallRecord
    <3>5. now.phase = "mkdir" /\ now.file = "secrets"
      BY <3>2 DEF PsCallRecord
    <3> QED
      BY <3>1, <3>3, <3>4, <3>5, NoCallFacts
  <2>2. CASE ~(call.typed \/ psSecrets' # psSecrets)
    BY <1>6, <2>2
  <2> QED
    BY <2>1, <2>2
<1>8. psCall' = [psCall EXCEPT ![c] = now]
  BY <1>4, <1>6 DEF GoesToSecrets, Ends
<1>9. psCall' \in [Call -> PsCallRecord \cup {NoCall}] /\ psCall'[c] = now
      /\ \A d \in Call : d # c => psCall'[d] = psCall[d]
  BY <1>1, <1>7, <1>8, OneCallChanges
<1>10. PsTyped'
  <2>1. \A d \in Call : At(d, "writing")' => psCall'[d].payload \in Content(psCall'[d].file)
    BY <1>1, <1>7, <1>9 DEF PsTyped, At, Busy
  <2>2. psShown' \in List
    BY <1>1, <1>2, <1>4 DEF PsTyped, ShownAfter, List
  <2> QED
    BY <1>1, <1>3, <1>5, <1>9, <2>1, <2>2 DEF PsTyped
<1>11. SUFFICES ASSUME ~psCollided PROVE PsGood'
  BY <1>3, <1>10 DEF PsInv
<1>12. PsGood
  BY <1>11 DEF PsInv
<1>13. PsEff = psSecrets /\ PsEff' = psSecrets'
  BY <1>1, <1>3 DEF PsEff
<1>14. CallFits(call, psProfiles, psShown, psLoaded, PsEff)
  BY <1>1, <1>12 DEF PsGood, PsCallsFit
<1>15. PsDown' /\ PsApart' /\ PsCallsFit' /\ PsSettled'
  <2>1. CASE call.typed \/ psSecrets' # psSecrets
    <3>1. CallFits(now, psProfiles, psShown, psLoaded, PsEff')
      <4>1. call.op # "dial"
        BY <1>3, <1>14, <2>1 DEF CallFits
      <4>2. now.typed => call.id \in PsEff'
        BY <1>3, <1>7, <1>13, <1>14, <2>1 DEF CallFits
      <4>3. now.op = "remove" => call.id \notin PsEff'
        BY <1>3, <1>7, <1>13, <2>1
      <4>4. now.op \in {"create", "update"} => \A q \in Profile : q \in PsEff => q \in PsEff'
        BY <1>3, <1>7, <1>13, <2>1
      <4> QED
        BY <1>1, <1>2, <1>7, <1>14, <2>1, <4>1, <4>2, <4>3, <4>4 DEF CallFits
    <3>2. \A q \in Profile : q # call.id => (q \in PsEff' <=> q \in PsEff)
      BY <1>3, <1>13
    <3>3. call.op = "dial" => PsEff' = PsEff
      BY <1>3, <1>13, <1>14 DEF CallFits
    <3>4. psShown' = psShown
      BY <1>4, <2>1
    <3> QED
      BY <1>1, <1>3, <1>7, <1>9, <1>12, <2>1, <3>1, <3>2, <3>3, <3>4, CallGoesOn DEF Busy
  <2>2. CASE ~(call.typed \/ psSecrets' # psSecrets)
    <3>1. Ends(c) /\ psShown' = ShownAfter(psCall[c]) /\ PsEff' = PsEff
      BY <1>4, <1>13, <2>2
    <3>2. call.op # "dial" =>
              /\ psProfiles[call.id] = "locked" => call.id \in PsEff
              /\ call.id \in PsEff => psProfiles[call.id] \in Auth
      BY <1>2, <1>3, <1>13, <1>14, <2>2 DEF CallFits, Auth
    <3> QED
      BY <1>1, <1>3, <1>12, <3>1, <3>2, CallEnds
  <2> QED
    BY <2>1, <2>2
<1>16. PsFiles'
  <2>1. CASE psSecrets' = psSecrets /\ now = NoCall
    BY <1>1, <1>3, <1>9, <1>12, <2>1, FilesQuiet
  <2>2. CASE now # NoCall
    <3>1. PsFresh("secrets")'
      BY <1>7, <1>9, <2>2 DEF PsFresh, WillWrite
    <3>2. PsFresh("profiles")'
      <4>1. InMemory("profiles")' = InMemory("profiles")
        BY <1>3 DEF InMemory
      <4>2. \A d \in Call : WillWrite(psCall[d], "profiles") => psCall'[d] = psCall[d]
        BY <1>1, <1>9 DEF WillWrite
      <4>3. \A d \in Call : WritesTo(psCall[d], "profiles") \/ WritesTo(psCall'[d], "profiles")
                => psCall'[d] = psCall[d]
        BY <1>1, <1>7, <1>9, <2>2 DEF WritesTo
      <4>4. PsFresh("profiles")
        BY <1>12 DEF PsGood, PsFiles
      <4> QED
        BY <1>3, <4>1, <4>2, <4>3, <4>4, FreshKept DEF PsFile
    <3>3. PsOneWriter'
      BY <1>1, <1>7, <1>9, <1>12, <2>2 DEF PsGood, PsFiles, PsOneWriter, WritesTo
    <3> QED
      BY <1>1, <1>3, <3>1, <3>2, <3>3 DEF PsFiles
  <2> QED
    BY <1>7, <2>1, <2>2
<1> QED
  BY <1>15, <1>16 DEF PsGood

LEMMA PsStopsStep ==
    ASSUME PsInv, PsStops
    PROVE  PsInv'
<1>1. /\ psUp' = FALSE /\ psCall' = [c \in Call |-> NoCall]
      /\ psCollided' = (psCollided \/ \E c \in Call : Busy(c) /\ psCall[c].op # "dial")
      /\ UNCHANGED <<psProfiles, psSecrets, psLoaded, psDisk, psShown>>
  BY DEF PsStops
<1>2. psCall' \in [Call -> PsCallRecord \cup {NoCall}] /\ \A c \in Call : psCall'[c] = NoCall
  BY <1>1
<1>3. PsTyped'
  <2>1. psCollided' \in BOOLEAN
    BY <1>1
  <2>2. \A d \in Call : ~At(d, "writing")'
    BY <1>2 DEF At, Busy
  <2> QED
    BY <1>1, <1>2, <2>1, <2>2 DEF PsInv, PsTyped
<1>4. SUFFICES ASSUME ~psCollided' PROVE PsGood'
  BY <1>3 DEF PsInv
<1>5. PsGood /\ \A c \in Call : Busy(c) => psCall[c].op = "dial"
  BY <1>1, <1>4 DEF PsInv
<1>6. \A c \in Call, file \in PsFile : ~WillWrite(psCall[c], file) /\ ~WritesTo(psCall[c], file)
  BY <1>5 DEF PsGood, PsCallsFit, CallFits, WillWrite, WritesTo, Busy
<1>7. \A c \in Call, p \in Profile : ~Works(psCall[c], p)
  BY <1>5 DEF Works, Busy
<1>8. PsEff' = PsEff
  BY <1>1 DEF PsEff
<1>9. PsDown' /\ PsApart' /\ PsCallsFit'
  BY <1>2 DEF PsDown, PsApart, PsCallsFit, Works, Busy
<1>10. PsSettled'
  BY <1>1, <1>5, <1>7, <1>8 DEF PsGood, PsSettled
<1>11. \A file \in PsFile : PsFresh(file) => PsFresh(file)'
  <2>1. \A file \in PsFile : PsFresh(file) => psDisk[file] = InMemory(file)
    BY <1>6 DEF PsFresh
  <2>2. \A file \in PsFile : InMemory(file)' = InMemory(file)
    BY <1>1 DEF InMemory
  <2> QED
    BY <1>1, <1>2, <2>1, <2>2 DEF PsFresh, WritesTo
<1>12. PsOneWriter'
  BY <1>2 DEF PsOneWriter, WritesTo
<1>13. PsFiles'
  BY <1>1, <1>5, <1>11, <1>12 DEF PsGood, PsFiles, PsFile
<1> QED
  BY <1>9, <1>10, <1>13 DEF PsGood

LEMMA PsStartsStep ==
    ASSUME PsInv, PsStarts
    PROVE  PsInv'
<1>1. /\ ~psUp /\ psDisk.profiles # Torn /\ psUp' = TRUE
      /\ psProfiles' = Head(psDisk.profiles) /\ psShown' = Head(psDisk.profiles)
      /\ psSecrets' = {} /\ psLoaded' = FALSE
      /\ UNCHANGED <<psDisk, psCall, psCollided>>
  BY DEF PsStarts
<1>2. Head(psDisk.profiles) \in List
  <2>1. psDisk.profiles \in ProfilesContent
    BY <1>1 DEF PsInv, PsTyped, PsDiskRecord
  <2> QED
    BY <2>1, ContentFacts
<1>3. PsTyped'
  <2>1. \A d \in Call : At(d, "writing")' => psCall'[d].payload \in Content(psCall'[d].file)
    BY <1>1 DEF PsInv, PsTyped, At, Busy
  <2> QED
    BY <1>1, <1>2, <2>1 DEF PsInv, PsTyped
<1>4. SUFFICES ASSUME ~psCollided PROVE PsGood'
  BY <1>1, <1>3 DEF PsInv
<1>5. PsGood /\ \A c \in Call : psCall[c] = NoCall
  BY <1>1, <1>4 DEF PsInv, PsGood, PsDown, Busy
<1>6. psDisk.profiles = Whole(psProfiles) /\ psDisk.secrets # Torn /\ PsEff = Head(psDisk.secrets)
  <2>1. psDisk["profiles"] = InMemory("profiles")
    BY <1>5 DEF PsGood, PsFiles, PsFresh, WillWrite, WritesTo
  <2>2. psLoaded => psDisk["secrets"] = InMemory("secrets")
    BY <1>5 DEF PsGood, PsFiles, PsFresh, WillWrite, WritesTo
  <2>3. psLoaded => psDisk.secrets = Whole(psSecrets)
    BY <2>2 DEF InMemory
  <2> QED
    BY <1>5, <2>1, <2>3 DEF PsGood, PsFiles, InMemory, PsEff, Whole, Torn
<1>7. psProfiles' = psProfiles /\ PsEff' = PsEff
  BY <1>1, <1>6 DEF PsEff, Whole
<1>8. PsDown' /\ PsApart' /\ PsCallsFit'
  BY <1>1, <1>5 DEF PsDown, PsApart, PsCallsFit, Works, Busy
<1>9. PsSettled'
  <2>1. \A p \in Profile : Settled(p, psProfiles, psShown, PsEff)
    BY <1>5 DEF PsGood, PsSettled, Works
  <2>2. psShown' = psProfiles
    BY <1>1, <1>7
  <2> QED
    BY <1>7, <2>1, <2>2 DEF PsSettled, Settled
<1>10. PsFiles'
  <2>1. psDisk'["profiles"] = InMemory("profiles")'
    BY <1>1, <1>6, <1>7 DEF InMemory
  <2>2. PsFresh("profiles")'
    BY <1>1, <1>5, <2>1 DEF PsFresh, WritesTo
  <2>3. PsOneWriter'
    BY <1>1, <1>5 DEF PsOneWriter, WritesTo
  <2> QED
    BY <1>1, <1>6, <2>2, <2>3 DEF PsFiles
<1> QED
  BY <1>8, <1>9, <1>10 DEF PsGood

LEMMA PsStepInv ==
    ASSUME PsInv, [PsNext]_psVars
    PROVE  PsInv'
<1>1. CASE UNCHANGED psVars
  <2>1. UNCHANGED <<psUp, psProfiles, psSecrets, psLoaded, psDisk, psShown, psCall, psCollided>>
    BY <1>1 DEF psVars
  <2>2. PsTyped'
    BY <2>1 DEF PsInv, PsTyped, At, Busy
  <2>3. PsEff' = PsEff
    BY <2>1 DEF PsEff
  <2>4. \A file \in PsFile : PsFresh(file)' <=> PsFresh(file)
    BY <2>1 DEF PsFresh, InMemory
  <2>5. PsGood => PsGood'
    BY <2>1, <2>3, <2>4 DEF PsGood, PsDown, PsApart, PsCallsFit, PsSettled, PsFiles, PsOneWriter,
                            Busy, PsFile
  <2> QED
    BY <2>1, <2>2, <2>5 DEF PsInv
<1>2. CASE PsStops \/ PsStarts
  BY <1>2, PsStopsStep, PsStartsStep
<1>3. ASSUME NEW c \in Call, NEW p \in Profile, NEW kind \in {"agent", "key"},
             NEW typed \in BOOLEAN, PsCreates(c, p, kind, typed) \/ PsUpdates(c, p, kind, typed)
      PROVE  PsInv'
  BY <1>3, PsAsksSteps
<1>4. ASSUME NEW c \in Call, NEW p \in Profile, PsRemoves(c, p) \/ PsDials(c, p)
      PROVE  PsInv'
  <2>1. "agent" \in {"agent", "key"} /\ TRUE \in BOOLEAN
    OBVIOUS
  <2> QED
    BY <1>4, <2>1, PsAsksSteps, PsDialsStep
<1>5. ASSUME NEW c \in Call, PsWrites(c) \/ PsWritten(c) \/ PsWriteFails(c)
      PROVE  PsInv'
  BY <1>5, PsWritesStep, PsWrittenStep, PsWriteFailsStep
<1>6. ASSUME NEW c \in Call, PsAsksForSecrets(c) \/ PsReads(c) \/ PsSecretsFail(c) \/ PsKeeps(c)
      PROVE  PsInv'
  BY <1>6, PsAsksForSecretsStep, PsReadsStep, PsSecretsFailStep, PsKeepsStep
<1> QED
  BY <1>1, <1>2, <1>3, <1>4, <1>5, <1>6 DEF PsNext

(***************************************************************************)
(* Walking the directories.                                                *)
(***************************************************************************)
\* The listing that is answered last is one of the path, as long as none was missed.
FbLastIsPath ==
    ~fbMissed => /\ fbLists = <<>> => fbShown = {fbPath}
                 /\ fbLists # <<>> => fbLists[Len(fbLists)] = fbPath
FbInv == FbTypeOK /\ FbLastIsPath /\ FbPastesTogether

LEMMA FbInvShows ==
    ASSUME FbInv
    PROVE  FbTypeOK /\ FbShowsPath /\ FbPastesTogether
BY DEF FbInv, FbLastIsPath, FbShowsPath

LEMMA FbInitInv ==
    ASSUME FbInit
    PROVE  FbInv
<1>1. FbTypeOK
  <2>1. fbBack \in Seq(Dir) /\ fbForward \in Seq(Dir)
    BY DEF FbInit
  <2>2. fbLists \in Seq(Dir)
    BY RootAssumption DEF FbInit
  <2>3. fbPaste \in [to : Dir, left : 0..PasteSize]
    BY RootAssumption DEF FbInit, PasteSize
  <2> QED
    BY <2>1, <2>2, <2>3, RootAssumption DEF FbInit, FbTypeOK
<1>2. FbLastIsPath
  BY DEF FbInit, FbLastIsPath
<1> QED
  BY <1>1, <1>2 DEF FbInit, FbInv, FbPastesTogether

\* The last element, and what is left without it.
LEMMA TrailFacts ==
    ASSUME NEW S, NEW trail \in Seq(S), trail # <<>>
    PROVE  Last(trail) \in S /\ Front(trail) \in Seq(S)
<1>1. Len(trail) \in Nat \ {0}
  BY EmptySeq
<1>2. Last(trail) = trail[Len(trail)] /\ trail[Len(trail)] \in S
  BY <1>1 DEF Last
<1>3. Front(trail) = SubSeq(trail, 1, Len(trail) - 1)
  BY DEF Front
<1>4. SubSeq(trail, 1, Len(trail) - 1) \in Seq(S)
  BY <1>1
<1> QED
  BY <1>2, <1>3, <1>4

\* The first of several is taken away, and the last one stays.
LEMMA OneLessFacts ==
    ASSUME NEW S, NEW s \in Seq(S), NEW i \in DOMAIN s
    PROVE  /\ RemoveAt(s, i) \in Seq(S) /\ Len(RemoveAt(s, i)) = Len(s) - 1
           /\ i = 1 /\ Len(s) > 1 => RemoveAt(s, i)[Len(s) - 1] = s[Len(s)]
<1> DEFINE a == SubSeq(s, 1, i - 1)
           b == SubSeq(s, i + 1, Len(s))
<1>1. Len(s) \in Nat /\ i \in 1..Len(s)
  OBVIOUS
<1>2. a \in Seq(S) /\ Len(a) = i - 1
  BY <1>1
<1>3. b \in Seq(S) /\ Len(b) = Len(s) - i /\ \A j \in 1..(Len(s) - i) : b[j] = s[i + j]
  BY <1>1
<1>4. RemoveAt(s, i) = a \o b
  BY DEF RemoveAt
<1> HIDE DEF a, b
<1>5. a \o b \in Seq(S) /\ Len(a \o b) = Len(a) + Len(b)
  BY <1>2, <1>3
<1>6. Len(a \o b) = Len(s) - 1
  BY <1>1, <1>2, <1>3, <1>5
<1>7. ASSUME i = 1, Len(s) > 1
      PROVE  (a \o b)[Len(s) - 1] = s[Len(s)]
  <2>1. Len(a) = 0 /\ Len(b) = Len(s) - 1 /\ Len(s) - 1 \in 1..(Len(s) - i)
    BY <1>1, <1>2, <1>3, <1>7
  <2>2. (a \o b)[Len(s) - 1] = b[Len(s) - 1]
    BY <1>1, <1>2, <1>3, <2>1
  <2>3. b[Len(s) - 1] = s[i + (Len(s) - 1)]
    BY <1>3, <2>1
  <2>4. i + (Len(s) - 1) = Len(s)
    BY <1>1, <1>7
  <2> QED
    BY <2>2, <2>3, <2>4
<1> QED
  BY <1>4, <1>5, <1>6, <1>7

LEMMA ListingFacts ==
    ASSUME fbLists \in Seq(Dir), NEW path \in Dir, Listing(path)
    PROVE  /\ fbLists' \in Seq(Dir) /\ fbLists' # <<>>
           /\ fbLists'[Len(fbLists')] = path
<1>1. fbLists' = Append(fbLists, path)
  BY DEF Listing
<1>2. Len(fbLists') = Len(fbLists) + 1 /\ fbLists' \in Seq(Dir)
  BY <1>1
<1> QED
  BY <1>1, <1>2

LEMMA FbStepInv ==
    ASSUME FbInv, [FbNext]_fbVars
    PROVE  FbInv'
<1> USE DEF FbInv
<1>1. ASSUME NEW path \in Dir, FbNavigates(path)
      PROVE  FbInv'
  <2>1. fbLists' \in Seq(Dir) /\ fbLists' # <<>> /\ fbLists'[Len(fbLists')] = path
    BY <1>1, ListingFacts DEF FbTypeOK, FbNavigates
  <2>2. fbBack' \in Seq(Dir) /\ fbForward' \in Seq(Dir)
    BY <1>1 DEF FbTypeOK, FbNavigates
  <2> QED
    BY <1>1, <2>1, <2>2 DEF FbTypeOK, FbNavigates, FbLastIsPath, FbPastesTogether
<1>2. ASSUME FbGoesBack
      PROVE  FbInv'
  <2>1. Last(fbBack) \in Dir /\ Front(fbBack) \in Seq(Dir)
    BY <1>2, TrailFacts DEF FbTypeOK, FbGoesBack
  <2>2. PICK path \in Dir : path = fbPath'
    BY <1>2, <2>1 DEF FbGoesBack
  <2>3. fbLists' \in Seq(Dir) /\ fbLists' # <<>> /\ fbLists'[Len(fbLists')] = path
    BY <1>2, <2>2, ListingFacts DEF FbTypeOK, FbGoesBack
  <2>4. fbBack' \in Seq(Dir) /\ fbForward' \in Seq(Dir)
    BY <1>2, <2>1 DEF FbTypeOK, FbGoesBack
  <2> QED
    BY <1>2, <2>2, <2>3, <2>4 DEF FbTypeOK, FbGoesBack, FbLastIsPath, FbPastesTogether
<1>3. ASSUME FbGoesForward
      PROVE  FbInv'
  <2>1. Last(fbForward) \in Dir /\ Front(fbForward) \in Seq(Dir)
    BY <1>3, TrailFacts DEF FbTypeOK, FbGoesForward
  <2>2. PICK path \in Dir : path = fbPath'
    BY <1>3, <2>1 DEF FbGoesForward
  <2>3. fbLists' \in Seq(Dir) /\ fbLists' # <<>> /\ fbLists'[Len(fbLists')] = path
    BY <1>3, <2>2, ListingFacts DEF FbTypeOK, FbGoesForward
  <2>4. fbBack' \in Seq(Dir) /\ fbForward' \in Seq(Dir)
    BY <1>3, <2>1 DEF FbTypeOK, FbGoesForward
  <2> QED
    BY <1>3, <2>2, <2>3, <2>4 DEF FbTypeOK, FbGoesForward, FbLastIsPath, FbPastesTogether
<1>4. ASSUME FbRefreshes
      PROVE  FbInv'
  <2>1. fbLists' \in Seq(Dir) /\ fbLists' # <<>> /\ fbLists'[Len(fbLists')] = fbPath
    BY <1>4, ListingFacts DEF FbTypeOK, FbRefreshes
  <2> QED
    BY <1>4, <2>1 DEF FbTypeOK, FbRefreshes, FbLastIsPath, FbPastesTogether
<1>5. ASSUME NEW i \in DOMAIN fbLists, FbListed(i)
      PROVE  FbInv'
  <2>1. /\ fbShown' = {fbLists[i]} /\ fbLists' = RemoveAt(fbLists, i)
        /\ fbMissed' = (fbMissed \/ i # 1)
        /\ UNCHANGED <<fbPath, fbBack, fbForward, fbPaste, fbPasted>>
    BY <1>5 DEF FbListed
  <2>2. fbLists \in Seq(Dir) /\ fbLists[i] \in Dir /\ i \in 1..Len(fbLists) /\ Len(fbLists) \in Nat
    BY DEF FbTypeOK
  <2>3. /\ fbLists' \in Seq(Dir) /\ Len(fbLists') = Len(fbLists) - 1
        /\ i = 1 /\ Len(fbLists) > 1 => fbLists'[Len(fbLists) - 1] = fbLists[Len(fbLists)]
    BY <2>1, <2>2, OneLessFacts
  <2>4. fbMissed' \in BOOLEAN
    BY <2>1
  <2>5. FbTypeOK'
    BY <2>1, <2>2, <2>3, <2>4 DEF FbTypeOK
  <2>6. ASSUME ~fbMissed'
        PROVE  /\ fbLists' = <<>> => fbShown' = {fbPath}
               /\ fbLists' # <<>> => fbLists'[Len(fbLists')] = fbPath
    <3>1. ~fbMissed /\ i = 1 /\ fbLists # <<>> /\ fbLists[Len(fbLists)] = fbPath
      <4>1. ~fbMissed /\ i = 1
        BY <2>1, <2>6
      <4>2. fbLists # <<>>
        BY <2>2
      <4> QED
        BY <4>1, <4>2 DEF FbLastIsPath
    <3>2. CASE Len(fbLists) = 1
      <4>1. fbLists' = <<>>
        BY <2>3, <3>2, EmptySeq
      <4>2. fbLists[i] = fbPath
        BY <3>1, <3>2
      <4>3. fbShown' = {fbPath}
        BY <2>1, <4>2
      <4> QED
        BY <4>1, <4>3
    <3>3. CASE Len(fbLists) > 1
      <4>1. fbLists' # <<>>
        BY <2>2, <2>3, <3>3, EmptySeq
      <4>2. fbLists'[Len(fbLists')] = fbPath
        BY <2>3, <3>1, <3>3
      <4> QED
        BY <4>1, <4>2
    <3>4. PICK n \in Nat : n = Len(fbLists)
      BY <2>2
    <3>5. n >= 1
      BY <2>2, <3>4
    <3>6. n = 1 \/ n > 1
      BY <3>5
    <3> QED
      BY <3>2, <3>3, <3>4, <3>6
  <2> QED
    BY <2>1, <2>5, <2>6 DEF FbLastIsPath, FbPastesTogether
<1>6. ASSUME NEW i \in DOMAIN fbLists, FbListFails(i)
      PROVE  FbInv'
  <2>1. fbLists' = RemoveAt(fbLists, i) /\ fbLists \in Seq(Dir)
    BY <1>6 DEF FbListFails, FbTypeOK
  <2>2. fbLists' \in Seq(Dir)
    BY <2>1, OneLessFacts
  <2> QED
    BY <1>6, <2>2 DEF FbListFails, FbTypeOK, FbLastIsPath, FbPastesTogether
<1>7. ASSUME FbPastes
      PROVE  FbInv'
  BY <1>7 DEF FbPastes, FbTypeOK, FbLastIsPath, FbPastesTogether, PasteSize
<1>8. ASSUME FbPasteStep
      PROVE  FbInv'
  <2>1. PICK to \in Dir, left \in 0..PasteSize : fbPaste = [to |-> to, left |-> left]
    BY DEF FbTypeOK
  <2>2. left > 0 /\ fbPaste' = [to |-> to, left |-> left - 1] /\ fbPasted' = fbPasted \cup {to}
    BY <1>8, <2>1 DEF FbPasteStep
  <2>3. fbPaste' \in [to : Dir, left : 0..PasteSize] /\ fbPaste'.to = to
    BY <2>2 DEF PasteSize
  <2>4. UNCHANGED <<fbPath, fbBack, fbForward, fbShown>>
    BY <1>8 DEF FbPasteStep
  <2>5. fbPasted' \subseteq {to} /\ fbPasted' \subseteq Dir
    BY <2>1, <2>2 DEF FbTypeOK, FbPastesTogether
  <2>6. CASE left = 1
    <3>1. Listing(to) /\ fbMissed' = (fbMissed \/ to # fbPath)
      BY <1>8, <2>1, <2>6 DEF FbPasteStep
    <3>2. fbLists' \in Seq(Dir) /\ fbLists' # <<>> /\ fbLists'[Len(fbLists')] = to
      BY <3>1, ListingFacts DEF FbTypeOK
    <3>3. fbMissed' \in BOOLEAN
      BY <3>1
    <3> QED
      BY <2>3, <2>4, <2>5, <3>1, <3>2, <3>3 DEF FbTypeOK, FbLastIsPath, FbPastesTogether
  <2>7. CASE left # 1
    <3>1. UNCHANGED <<fbLists, fbMissed>>
      BY <1>8, <2>1, <2>7 DEF FbPasteStep
    <3> QED
      BY <2>3, <2>4, <2>5, <3>1 DEF FbTypeOK, FbLastIsPath, FbPastesTogether
  <2> QED
    BY <2>6, <2>7
<1>9. ASSUME FbPasteFails
      PROVE  FbInv'
  BY <1>9 DEF FbPasteFails, FbTypeOK, FbLastIsPath, FbPastesTogether, PasteSize
<1>10. CASE UNCHANGED fbVars
  BY <1>10 DEF fbVars, FbTypeOK, FbLastIsPath, FbPastesTogether
<1> QED
  BY <1>1, <1>2, <1>3, <1>4, <1>5, <1>6, <1>7, <1>8, <1>9, <1>10 DEF FbNext

(***************************************************************************)
(* What the Files tool does to remote files.                               *)
(***************************************************************************)
FoKind == {"file", "folder"}
FoMode == {"create-file", "create-folder", "rename", "delete"}
FoRunKind == FoMode \cup {"copy", "move"}
FoItem == [kind : FoKind, of : FilePath \cup {None}]
FoEntry == [path : FilePath, kind : FoKind]
FoClipboard == [mode : {"copy", "move"}, paths : SUBSET FilePath]
FoPromptRecord == [mode : FoMode, target : SUBSET FoEntry, marked : SUBSET FilePath]
FoPanelRecord ==
    [dir : FileDir, entries : SUBSET FoEntry, query : FileName \cup {None},
     selected : SUBSET FilePath, clipboard : FoClipboard \cup {None},
     prompt : FoPromptRecord \cup {None}, asksToPaste : BOOLEAN, off : BOOLEAN]
FoRunRecord ==
    [kind : FoRunKind, dir : FileDir, todo : SUBSET FilePath, from : SUBSET FilePath,
     confirmed : BOOLEAN, phrase : BOOLEAN, recursive : BOOLEAN]
FoDoneRecord ==
    [marked : SUBSET FilePath, deleted : SUBSET FilePath, gone : SUBSET (FilePath \cup {None}),
     unasked : SUBSET FoRunKind]

\* What an operation may still do was marked, and confirmed with the phrase if at all.
RunFits(run, marked) ==
    /\ run.kind = "delete" => run.todo \subseteq marked
    /\ run.kind \in {"delete", "copy", "move"} /\ run.confirmed => run.phrase
    /\ run.kind = "rename" /\ run.todo # {} => run.from # {}
FittingRuns(marked) == {run \in FoRunRecord : RunFits(run, marked)}

\* What a prompt that deletes would take is among what it showed when it opened.
PromptFits(panel) ==
    panel.prompt # None /\ panel.prompt.mode = "delete" =>
        /\ panel.prompt.target # {} => {e.path : e \in panel.prompt.target} = panel.prompt.marked
        /\ panel.prompt.target = {} => panel.selected \subseteq panel.prompt.marked

FoServerTyped == foServer \in [FilePath -> FoItem \cup {None}]
FoTyped ==
    /\ FoServerTyped /\ foPanel \in FoPanelRecord /\ foLists \in Seq(FileDir)
    /\ foDone \in FoDoneRecord /\ foRuns \in Seq(FittingRuns(foDone.marked))
FoStillThere ==
    \A path \in {p \in FilePath : Initial(p) # None} :
        path \in foDone.gone \/ \E p \in FilePath : ItemAt(p) # None /\ ItemAt(p).of = path
FoInv ==
    /\ FoTyped /\ PromptFits(foPanel)
    /\ foDone.deleted \subseteq foDone.marked /\ FoStillThere
    /\ foDone.unasked \cap {"delete", "copy", "move"} = {}

LEMMA FoInvGoes ==
    ASSUME FoInv
    PROVE  FoTypeOK /\ FoOnlyMarkedGoes
<1>1. foPanel.dir \in FileDir /\ foPanel.selected \subseteq FilePath /\ foDone.marked \subseteq FilePath
  BY DEF FoInv, FoTyped, FoPanelRecord, FoDoneRecord
<1>2. \A path \in FilePath : ItemAt(path) = None \/ ItemAt(path).kind \in {"file", "folder"}
  BY DEF FoInv, FoTyped, FoServerTyped, FoItem, FoKind, ItemAt
<1>3. FoTypeOK
  BY <1>1, <1>2 DEF FoInv, FoTyped, FoTypeOK
<1>4. FoOnlyMarkedGoes
  BY DEF FoInv, FoOnlyMarkedGoes, FoStillThere
<1> QED
  BY <1>3, <1>4

LEMMA PathFacts ==
    /\ \A path \in FilePath : path[1] \in FileDir /\ path[2] \in FileName
    /\ \A dir \in FileDir, name \in FileName : <<dir, name>> \in FilePath
BY DEF FilePath

LEMMA EntriesFacts ==
    ASSUME FoServerTyped, NEW dir \in FileDir
    PROVE  EntriesOf(dir) \in SUBSET FoEntry
<1>1. ASSUME NEW p \in {dir} \X FileName, ItemAt(p) # None
      PROVE  [path |-> p, kind |-> ItemAt(p).kind] \in FoEntry
  <2>1. p \in FilePath
    BY DEF FilePath
  <2>2. ItemAt(p).kind \in FoKind
    BY <1>1, <2>1 DEF FoServerTyped, ItemAt, FoItem
  <2> QED
    BY <2>1, <2>2 DEF FoEntry
<1> QED
  BY <1>1 DEF EntriesOf

LEMMA FoInitInv ==
    ASSUME FoInit
    PROVE  FoInv
<1>1. foServer = [path \in FilePath |-> Initial(path)]
  BY DEF FoInit
<1>2. \A path \in FilePath : Initial(path) \in FoItem \cup {None}
  BY DEF Initial, FoItem, FoKind
<1>3. FoServerTyped
  BY <1>1, <1>2 DEF FoServerTyped
<1>4. FoPanel \in FoPanelRecord
  BY DEF FoPanel, FoPanelRecord, FileDir
<1>5. PICK entries \in SUBSET FoEntry : entries = EntriesOf("home")
  BY <1>3, EntriesFacts DEF FileDir
<1>6. foPanel = [FoPanel EXCEPT !.entries = entries]
  BY <1>5 DEF FoInit
<1>7. foPanel \in FoPanelRecord /\ foPanel.prompt = None
  <2>1. foPanel \in FoPanelRecord
    BY <1>4, <1>6 DEF FoPanelRecord
  <2>2. foPanel.prompt = FoPanel.prompt
    BY <1>4, <1>6 DEF FoPanelRecord
  <2> QED
    BY <2>1, <2>2 DEF FoPanel
<1>8. /\ foDone \in FoDoneRecord /\ foDone.deleted = {} /\ foDone.unasked = {}
  BY DEF FoInit, FoDoneRecord
<1>9. foLists \in Seq(FileDir) /\ foRuns \in Seq(FittingRuns(foDone.marked))
  <2>1. foLists = <<>> /\ foRuns = <<>>
    BY DEF FoInit
  <2> QED
    BY <2>1
<1>10. FoStillThere
  <2>1. ASSUME NEW path \in FilePath, Initial(path) # None
        PROVE  ItemAt(path) # None /\ ItemAt(path).of = path
    BY <1>1, <2>1 DEF ItemAt, Initial
  <2> QED
    BY <2>1 DEF FoStillThere
<1> QED
  BY <1>3, <1>7, <1>8, <1>9, <1>10 DEF FoInv, FoTyped, PromptFits

\* Whatever happens to the panel, the lists and what is left to do.
LEMMA FoKeeps ==
    ASSUME FoInv, foPanel' \in FoPanelRecord, PromptFits(foPanel)', foLists' \in Seq(FileDir),
           foRuns' \in Seq(FittingRuns(foDone.marked)), UNCHANGED <<foServer, foDone>>
    PROVE  FoInv'
<1>1. FoTyped'
  BY DEF FoInv, FoTyped, FoServerTyped
<1>2. FoStillThere'
  BY DEF FoInv, FoStillThere, ItemAt
<1> QED
  BY <1>1, <1>2 DEF FoInv

LEMMA FoPanelStep ==
    ASSUME FoInv, foPanel' \in FoPanelRecord, PromptFits(foPanel)', foLists' \in Seq(FileDir),
           UNCHANGED <<foServer, foRuns, foDone>>
    PROVE  FoInv'
<1>1. foRuns' \in Seq(FittingRuns(foDone.marked))
  BY DEF FoInv, FoTyped
<1> QED
  BY <1>1, FoKeeps

\* The gestures that change what is on screen, with no prompt there or with one opened.
LEMMA FoDoesInv ==
    ASSUME FoInv, NEW panel \in FoPanelRecord, NEW lists \in Seq(FileDir), FoDoes(panel, lists),
           PromptFits(panel)
    PROVE  FoInv'
<1>1. foPanel' = panel /\ foLists' = foLists \o lists /\ UNCHANGED <<foServer, foRuns, foDone>>
  BY DEF FoDoes
<1>2. foLists' \in Seq(FileDir)
  BY <1>1 DEF FoInv, FoTyped
<1>3. PromptFits(foPanel)'
  BY <1>1 DEF PromptFits
<1> QED
  BY <1>1, <1>2, <1>3, FoPanelStep

LEMMA FoLooksInv ==
    ASSUME FoInv,
           \/ \E dir \in FileDir, query \in {None, foPanel.query} : FoGoesTo(dir, query)
           \/ FoRefreshes
           \/ \E query \in FileName \cup {None} : FoSearches(query)
           \/ \E e \in DisplayedEntries, multi \in BOOLEAN : FoSelects(e, multi)
    PROVE  FoInv'
<1>1. foPanel \in FoPanelRecord
  BY DEF FoInv, FoTyped
<1>2. ASSUME NEW dir \in FileDir, NEW query \in {None, foPanel.query}, FoGoesTo(dir, query)
      PROVE  FoInv'
  <2>1. PICK panel \in FoPanelRecord :
            panel = [foPanel EXCEPT !.dir = dir, !.selected = {}, !.query = query]
    BY <1>1 DEF FoPanelRecord
  <2>2. panel.prompt = foPanel.prompt
    BY <1>1, <2>1 DEF FoPanelRecord
  <2>3. FoDoes(panel, <<dir>>) /\ foPanel.prompt = None
    BY <1>2, <2>1 DEF FoGoesTo, NoPrompt
  <2>4. PromptFits(panel)
    BY <2>2, <2>3 DEF PromptFits
  <2>5. <<dir>> \in Seq(FileDir)
    OBVIOUS
  <2> QED
    BY <2>3, <2>4, <2>5, FoDoesInv
<1>3. ASSUME FoRefreshes
      PROVE  FoInv'
  <2>1. FoDoes(foPanel, <<foPanel.dir>>)
    BY <1>3 DEF FoRefreshes
  <2>2. <<foPanel.dir>> \in Seq(FileDir)
    BY <1>1 DEF FoPanelRecord
  <2> QED
    BY <1>1, <2>1, <2>2, FoDoesInv DEF FoInv
<1>4. ASSUME NEW query \in FileName \cup {None}, FoSearches(query)
      PROVE  FoInv'
  <2>1. PICK panel \in FoPanelRecord : panel = [foPanel EXCEPT !.query = query]
    BY <1>1 DEF FoPanelRecord
  <2>2. panel.prompt = foPanel.prompt
    BY <1>1, <2>1 DEF FoPanelRecord
  <2>3. FoDoes(panel, <<>>) /\ foPanel.prompt = None
    BY <1>4, <2>1 DEF FoSearches, NoPrompt
  <2>4. PromptFits(panel)
    BY <2>2, <2>3 DEF PromptFits
  <2>5. <<>> \in Seq(FileDir)
    OBVIOUS
  <2> QED
    BY <2>3, <2>4, <2>5, FoDoesInv
<1>5. ASSUME NEW e \in DisplayedEntries, NEW multi \in BOOLEAN, FoSelects(e, multi)
      PROVE  FoInv'
  <2>1. e \in FoEntry
    BY <1>1 DEF DisplayedEntries, FoPanelRecord
  <2>2. PICK before \in SUBSET FilePath : before = IF multi THEN foPanel.selected ELSE {}
    BY <1>1 DEF FoPanelRecord
  <2>3. PICK after \in SUBSET FilePath :
            after = IF e.path \in before THEN before \ {e.path} ELSE before \cup {e.path}
    BY <2>1 DEF FoEntry
  <2>4. PICK panel \in FoPanelRecord : panel = [foPanel EXCEPT !.selected = after]
    BY <1>1, <2>3 DEF FoPanelRecord
  <2>5. panel.prompt = foPanel.prompt
    BY <1>1, <2>4 DEF FoPanelRecord
  <2>6. FoDoes(panel, <<>>) /\ foPanel.prompt = None
    BY <1>5, <2>2, <2>3, <2>4 DEF FoSelects, NoPrompt
  <2>7. PromptFits(panel)
    BY <2>5, <2>6 DEF PromptFits
  <2>8. <<>> \in Seq(FileDir)
    OBVIOUS
  <2> QED
    BY <2>6, <2>7, <2>8, FoDoesInv
<1> QED
  BY <1>2, <1>3, <1>4, <1>5

\* Marking, the prompts and leaving them.
LEMMA FoPromptsInv ==
    ASSUME FoInv,
           \/ \E mode \in {"copy", "move"} : FoMarks(mode)
           \/ \E mode \in FoMode : FoOpensPrompt(mode)
           \/ FoCancels
    PROVE  FoInv'
<1>1. foPanel \in FoPanelRecord
  BY DEF FoInv, FoTyped
<1>2. ASSUME NEW mode \in {"copy", "move"}, FoMarks(mode)
      PROVE  FoInv'
  <2>1. PICK clipboard \in FoClipboard : clipboard = [mode |-> mode, paths |-> foPanel.selected]
    BY <1>1 DEF FoClipboard, FoPanelRecord
  <2>2. foPanel' = [foPanel EXCEPT !.clipboard = clipboard] /\ foPanel.prompt = None
    BY <1>2, <2>1 DEF FoMarks, NoPrompt
  <2>3. foPanel' \in FoPanelRecord /\ foPanel'.prompt = foPanel.prompt
    BY <1>1, <2>2 DEF FoPanelRecord
  <2>4. PromptFits(foPanel)'
    BY <2>2, <2>3 DEF PromptFits
  <2>5. UNCHANGED <<foServer, foRuns, foDone>> /\ foLists' \in Seq(FileDir)
    BY <1>2 DEF FoMarks, FoInv, FoTyped
  <2> QED
    BY <2>3, <2>4, <2>5, FoPanelStep
<1>3. ASSUME NEW mode \in FoMode, FoOpensPrompt(mode)
      PROVE  FoInv'
  <2>1. Target \in SUBSET FoEntry
    BY <1>1 DEF Target, SelectedEntries, DisplayedEntries, FoPanelRecord
  <2>2. PICK target \in SUBSET FoEntry :
            target = IF mode \in {"delete", "rename"} THEN Target ELSE {}
    BY <2>1
  <2>3. PICK marked \in SUBSET FilePath : marked = Marked(target)
    BY <1>1 DEF Marked, FoPanelRecord, FoEntry
  <2>4. PICK prompt \in FoPromptRecord : prompt = [mode |-> mode, target |-> target, marked |-> marked]
    BY DEF FoPromptRecord
  <2>5. PICK panel \in FoPanelRecord : panel = [foPanel EXCEPT !.prompt = prompt]
    BY <1>1 DEF FoPanelRecord
  <2>6. panel.prompt = prompt /\ panel.selected = foPanel.selected
    BY <1>1, <2>5 DEF FoPanelRecord
  <2>7. FoDoes(panel, <<>>)
    BY <1>3, <2>2, <2>3, <2>4, <2>5 DEF FoOpensPrompt
  <2>8. prompt.target = target /\ prompt.marked = marked
    BY <2>4
  <2>9. PromptFits(panel)
    BY <2>3, <2>6, <2>8 DEF PromptFits, Marked
  <2>10. <<>> \in Seq(FileDir)
    OBVIOUS
  <2> QED
    BY <2>7, <2>9, <2>10, FoDoesInv
<1>4. ASSUME FoCancels
      PROVE  FoInv'
  <2>1. foPanel' = [foPanel EXCEPT !.prompt = None, !.asksToPaste = FALSE]
    BY <1>4 DEF FoCancels
  <2>2. foPanel' \in FoPanelRecord /\ foPanel'.prompt = None
    BY <1>1, <2>1 DEF FoPanelRecord
  <2>3. UNCHANGED <<foServer, foRuns, foDone>> /\ foLists' \in Seq(FileDir)
    BY <1>4 DEF FoCancels, FoInv, FoTyped
  <2> QED
    BY <2>2, <2>3, FoPanelStep DEF PromptFits
<1> QED
  BY <1>2, <1>3, <1>4

\* What is confirmed, or pasted, fits what was marked.
LEMMA FoBeginsInv ==
    ASSUME FoInv, NEW run \in FoRunRecord, RunFits(run, foDone'.marked), Begins(run),
           foPanel' \in FoPanelRecord, PromptFits(foPanel)', foLists' \in Seq(FileDir),
           UNCHANGED foServer, foDone' \in FoDoneRecord, foDone.marked \subseteq foDone'.marked,
           foDone'.deleted = foDone.deleted, foDone'.gone = foDone.gone,
           foDone'.unasked = foDone.unasked
    PROVE  FoInv'
<1>1. FittingRuns(foDone.marked) \subseteq FittingRuns(foDone'.marked)
  BY DEF FittingRuns, RunFits
<1>2. run \in FittingRuns(foDone'.marked)
  BY DEF FittingRuns
<1>3. PICK before, after : before = FittingRuns(foDone.marked) /\ after = FittingRuns(foDone'.marked)
  OBVIOUS
<1>4. foRuns \in Seq(before)
  BY <1>3 DEF FoInv, FoTyped
<1>5. foRuns \in Seq(after)
  BY <1>1, <1>3, <1>4
<1>6. foRuns' \in Seq(after)
  BY <1>2, <1>3, <1>5 DEF Begins
<1>7. FittingRuns(foDone.marked)' = after
  BY <1>3 DEF FittingRuns, RunFits
<1>8. FoTyped'
  BY <1>6, <1>7 DEF FoInv, FoTyped, FoServerTyped
<1>9. FoStillThere'
  BY DEF FoInv, FoStillThere, ItemAt
<1> QED
  BY <1>8, <1>9 DEF FoInv

LEMMA FoConfirmsInv ==
    ASSUME FoInv, NEW name \in FileName \cup {None}, NEW recursive \in BOOLEAN,
           NEW by \in {"button", "phrase", "enter"}, FoConfirms(name, recursive, by)
    PROVE  FoInv'
<1>1. foPanel \in FoPanelRecord /\ foDone \in FoDoneRecord
  BY DEF FoInv, FoTyped
<1>2. PICK prompt \in FoPromptRecord : prompt = foPanel.prompt
  BY <1>1 DEF FoPanelRecord, FoConfirms
<1>3. prompt # None /\ (name = None) = (prompt.mode = "delete")
  BY <1>2 DEF FoConfirms
<1>4. prompt.mode \in FoMode /\ prompt.target \in SUBSET FoEntry /\ prompt.marked \in SUBSET FilePath
  BY <1>2 DEF FoPromptRecord
<1>5. PICK marked \in SUBSET FilePath : marked = Marked(prompt.target)
  BY <1>1, <1>4 DEF Marked, FoPanelRecord, FoEntry
<1>6. PICK paths : paths = mutationPaths(prompt, name)
  OBVIOUS
<1>7. PICK needs \in BOOLEAN : needs = CriticalOf(paths)
  BY DEF CriticalOf
<1>8. PICK from \in SUBSET FilePath : from = {e.path : e \in prompt.target}
  BY <1>4 DEF FoEntry
<1>9. PICK folder \in BOOLEAN : folder = HasFolder({e \in DisplayedEntries : e.path \in marked})
  BY DEF HasFolder
<1>10. PICK todo \in SUBSET FilePath :
           /\ prompt.mode = "delete" => todo = marked
           /\ prompt.mode = "rename" => todo = {<<e.path[1], name>> : e \in prompt.target}
           /\ prompt.mode \notin {"delete", "rename"} => todo = {<<foPanel.dir, name>>}
  <2>1. CASE prompt.mode = "delete"
    BY <1>5, <2>1
  <2>2. CASE prompt.mode = "rename"
    <3>1. name \in FileName
      BY <1>3, <2>2
    <3>2. \A e \in prompt.target : <<e.path[1], name>> \in FilePath
      <4>1. \A e \in prompt.target : e.path \in FilePath
        BY <1>4 DEF FoEntry
      <4> QED
        BY <3>1, <4>1, PathFacts
    <3>3. {<<e.path[1], name>> : e \in prompt.target} \in SUBSET FilePath
      BY <3>2
    <3> QED
      BY <2>2, <3>3
  <2>3. CASE prompt.mode \notin {"delete", "rename"}
    <3>1. name \in FileName /\ foPanel.dir \in FileDir
      BY <1>1, <1>3, <2>3 DEF FoPanelRecord
    <3>2. {<<foPanel.dir, name>>} \in SUBSET FilePath
      BY <3>1, PathFacts
    <3> QED
      BY <2>3, <3>2
  <2> QED
    BY <2>1, <2>2, <2>3
<1>11. PICK phrase \in BOOLEAN : phrase = (by = "phrase")
  OBVIOUS
<1>12. PICK run : run = [kind |-> prompt.mode, dir |-> foPanel.dir, todo |-> todo, from |-> from,
                         confirmed |-> needs, phrase |-> needs /\ phrase,
                         recursive |-> folder /\ recursive]
  OBVIOUS
<1>13. todo = CASE prompt.mode = "delete" -> Marked(prompt.target)
                [] prompt.mode = "rename" -> {<<e.path[1], name>> : e \in prompt.target}
                [] OTHER -> {<<foPanel.dir, name>>}
  BY <1>5, <1>10
<1>14. Begins(run)
  BY <1>2, <1>5, <1>6, <1>7, <1>8, <1>9, <1>11, <1>12, <1>13 DEF FoConfirms
<1>15. run \in FoRunRecord
  <2>1. prompt.mode \in FoRunKind /\ foPanel.dir \in FileDir
    BY <1>1, <1>4 DEF FoRunKind, FoPanelRecord
  <2>2. (needs /\ phrase) \in BOOLEAN /\ (folder /\ recursive) \in BOOLEAN
    OBVIOUS
  <2> QED
    BY <1>12, <2>1, <2>2 DEF FoRunRecord
<1>16. /\ foDone' \in FoDoneRecord /\ foDone.marked \subseteq foDone'.marked
       /\ foDone'.deleted = foDone.deleted /\ foDone'.gone = foDone.gone
       /\ foDone'.unasked = foDone.unasked
       /\ prompt.mode = "delete" => prompt.marked \subseteq foDone'.marked
  <2>1. foDone' = IF prompt.mode = "delete"
                  THEN [foDone EXCEPT !.marked = foDone.marked \cup prompt.marked] ELSE foDone
    BY <1>2 DEF FoConfirms
  <2>2. CASE prompt.mode = "delete"
    <3>1. PICK all \in SUBSET FilePath : all = foDone.marked \cup prompt.marked
      BY <1>1, <1>4 DEF FoDoneRecord
    <3>2. foDone' = [foDone EXCEPT !.marked = all]
      BY <2>1, <2>2, <3>1
    <3> QED
      BY <1>1, <3>1, <3>2 DEF FoDoneRecord
  <2>3. CASE prompt.mode # "delete"
    BY <1>1, <2>1, <2>3
  <2> QED
    BY <2>2, <2>3
<1>17. RunFits(run, foDone'.marked)
  <2>1. /\ run.kind = prompt.mode /\ run.todo = todo /\ run.from = from /\ run.confirmed = needs
        /\ run.phrase = (needs /\ phrase)
    BY <1>12
  <2>2. ASSUME prompt.mode = "delete"
        PROVE  todo \subseteq foDone'.marked /\ (needs => phrase)
    <3>1. PromptFits(foPanel)
      BY DEF FoInv
    <3>2. marked \subseteq prompt.marked
      BY <1>2, <1>3, <1>5, <1>8, <2>2, <3>1 DEF PromptFits, Marked
    <3>3. criticalConfirmationReady(paths, phrase)
      BY <1>2, <1>6, <1>11, <2>2 DEF FoConfirms
    <3> QED
      BY <1>7, <1>10, <1>16, <2>2, <3>2, <3>3 DEF criticalConfirmationReady
  <2>3. ASSUME prompt.mode = "rename", todo # {}
        PROVE  from # {}
    BY <1>8, <1>10, <2>3
  <2>4. prompt.mode \notin {"copy", "move"}
    BY <1>4 DEF FoMode
  <2> QED
    BY <2>1, <2>2, <2>3, <2>4 DEF RunFits
<1>18. /\ foPanel' \in FoPanelRecord /\ PromptFits(foPanel)' /\ foLists' \in Seq(FileDir)
       /\ UNCHANGED foServer
  BY <1>1 DEF FoConfirms, FoInv, FoTyped, PromptFits
<1> QED
  BY <1>14, <1>15, <1>16, <1>17, <1>18, FoBeginsInv

LEMMA FoPastesInv ==
    ASSUME FoInv, FoPastes \/ FoConfirmsPaste
    PROVE  FoInv'
<1>1. foPanel \in FoPanelRecord /\ foDone \in FoDoneRecord /\ PromptFits(foPanel)
  BY DEF FoInv, FoTyped
<1>2. UNCHANGED <<foServer, foLists, foDone>> /\ foLists' \in Seq(FileDir)
  BY DEF FoPastes, FoConfirmsPaste, FoInv, FoTyped
<1>3. ASSUME NEW asks \in BOOLEAN, foPanel' = [foPanel EXCEPT !.asksToPaste = asks]
      PROVE  foPanel' \in FoPanelRecord /\ PromptFits(foPanel)'
  <2>1. foPanel' \in FoPanelRecord /\ foPanel'.prompt = foPanel.prompt
        /\ foPanel'.selected = foPanel.selected
    BY <1>1, <1>3 DEF FoPanelRecord
  <2> QED
    BY <1>1, <2>1 DEF PromptFits
<1>4. foPanel' \in FoPanelRecord /\ PromptFits(foPanel)'
  <2>1. CASE foPanel' = foPanel
    BY <1>1, <2>1 DEF PromptFits
  <2>2. CASE foPanel' # foPanel
    BY <1>3, <2>2 DEF FoPastes, FoConfirmsPaste
  <2> QED
    BY <2>1, <2>2
<1>5. CASE foRuns' = foRuns
  BY <1>2, <1>4, <1>5, FoPanelStep
<1>6. CASE foRuns' # foRuns
  <2>1. PICK confirmed \in BOOLEAN : Paste(confirmed)
    BY <1>6 DEF FoPastes, FoConfirmsPaste
  <2>2. foPanel.clipboard # None
    BY <1>6 DEF FoPastes, FoConfirmsPaste
  <2>3. PICK clipboard \in FoClipboard : clipboard = foPanel.clipboard
    BY <1>1, <2>2 DEF FoPanelRecord
  <2>4. PICK run : run = [kind |-> clipboard.mode, dir |-> foPanel.dir, todo |-> clipboard.paths,
                          from |-> {}, confirmed |-> confirmed, phrase |-> confirmed,
                          recursive |-> FALSE]
    OBVIOUS
  <2>5. run \in FoRunRecord /\ run.kind \in {"copy", "move"} /\ run.phrase = run.confirmed
    BY <1>1, <2>3, <2>4 DEF FoClipboard, FoRunRecord, FoRunKind, FoPanelRecord
  <2>6. Begins(run)
    BY <2>1, <2>3, <2>4 DEF Paste
  <2>7. RunFits(run, foDone'.marked)
    BY <2>5 DEF RunFits
  <2>8. /\ foDone' \in FoDoneRecord /\ foDone.marked \subseteq foDone'.marked
        /\ foDone'.deleted = foDone.deleted /\ foDone'.gone = foDone.gone
        /\ foDone'.unasked = foDone.unasked
    BY <1>1, <1>2
  <2> QED
    BY <1>2, <1>4, <2>5, <2>6, <2>7, <2>8, FoBeginsInv
<1> QED
  BY <1>5, <1>6

\* What a call reads and writes.
LEMMA CallFacts ==
    ASSUME FoInv, NEW run \in FittingRuns(foDone.marked), NEW path \in run.todo
    PROVE  /\ path \in FilePath /\ Destination(run, path) \in FilePath
           /\ Source(run, path) \in FilePath
           /\ run.kind \notin {"copy", "move"} => Destination(run, path) = path
           /\ run.kind \in FoRunKind
<1>1. run \in FoRunRecord /\ RunFits(run, foDone.marked)
  BY DEF FittingRuns
<1>2. /\ run.kind \in FoRunKind /\ run.dir \in FileDir /\ run.todo \in SUBSET FilePath
      /\ run.from \in SUBSET FilePath
  BY <1>1 DEF FoRunRecord
<1>3. path \in FilePath
  BY <1>2
<1>4. Destination(run, path) \in FilePath
  <2>1. <<run.dir, path[2]>> \in FilePath
    BY <1>2, <1>3, PathFacts
  <2> QED
    BY <1>3, <2>1 DEF Destination
<1>5. Source(run, path) \in FilePath
  <2>1. CASE run.kind = "rename"
    <3>1. run.from # {}
      BY <1>1, <2>1 DEF RunFits
    <3>2. (CHOOSE p \in run.from : TRUE) \in run.from
      BY <3>1
    <3> QED
      BY <1>2, <2>1, <3>2 DEF Source
  <2>2. CASE run.kind # "rename"
    BY <1>3, <2>2 DEF Source
  <2> QED
    BY <2>1, <2>2
<1> QED
  BY <1>2, <1>3, <1>4, <1>5 DEF Destination

\* What was there and is no longer at a path is where it was moved to, or is gone.
LEMMA FoServerStep ==
    ASSUME FoInv, NEW run \in FittingRuns(foDone.marked), NEW path \in run.todo,
           ~Refused(run, path), foServer' = Afterwards(run, path) \/ UNCHANGED foServer
    PROVE  /\ FoServerTyped'
           /\ \/ /\ Replaces(run) \/ ItemAt(Destination(run, path)) = None
                 /\ \A p \in FilePath : p # Destination(run, path) => ItemAt(p)' = ItemAt(p)
              \/ UNCHANGED foServer
              \/ /\ ~Replaces(run) /\ ItemAt(Destination(run, path)) = None
                 /\ ItemAt(Destination(run, path))' = ItemAt(Source(run, path))
                 /\ \A p \in FilePath \ Touches(run, path) : ItemAt(p)' = ItemAt(p)
<1> DEFINE kind == run.kind
<1>1. PICK to \in FilePath : to = Destination(run, path)
  BY CallFacts
<1>2. PICK from \in FilePath : from = Source(run, path)
  BY CallFacts
<1>3. path \in FilePath /\ kind \in FoRunKind /\ (kind \notin {"copy", "move"} => to = path)
  BY <1>1, CallFacts
<1>4. foServer \in [FilePath -> FoItem \cup {None}]
  BY DEF FoInv, FoTyped, FoServerTyped
<1>5. NewItem("file") \in FoItem /\ NewItem("folder") \in FoItem
  BY DEF NewItem, FoItem, FoKind
<1>6. ASSUME NEW item \in FoItem \cup {None}, foServer' = [foServer EXCEPT ![to] = item]
      PROVE  /\ FoServerTyped'
             /\ \A p \in FilePath : p # to => ItemAt(p)' = ItemAt(p)
  BY <1>4, <1>6 DEF FoServerTyped, ItemAt
<1>7. foServer[from] \in FoItem \cup {None}
  BY <1>4
<1>8. CASE UNCHANGED foServer
  BY <1>4, <1>8 DEF FoServerTyped, ItemAt
<1>9. CASE foServer' = Afterwards(run, path) /\ kind = "delete"
  <2>1. foServer' = [foServer EXCEPT ![to] = None]
    BY <1>3, <1>9 DEF Afterwards
  <2> QED
    BY <1>1, <1>6, <1>9, <2>1 DEF Replaces
<1>10. CASE foServer' = Afterwards(run, path) /\ kind = "create-file"
  <2>1. foServer' = [foServer EXCEPT ![to] = NewItem("file")]
    BY <1>1, <1>10 DEF Afterwards
  <2> QED
    BY <1>1, <1>5, <1>6, <1>10, <2>1 DEF Replaces
<1>11. CASE foServer' = Afterwards(run, path) /\ kind = "create-folder"
  <2>1. foServer' = [foServer EXCEPT ![to] = NewItem("folder")]
    BY <1>1, <1>11 DEF Afterwards
  <2>2. ItemAt(to) = None
    BY <1>1, <1>11 DEF Refused
  <2> QED
    BY <1>1, <1>5, <1>6, <2>1, <2>2
<1>12. CASE foServer' = Afterwards(run, path) /\ kind = "copy"
  <2>1. foServer' = foServer \/ foServer' = [foServer EXCEPT ![to] = foServer[from]]
    BY <1>1, <1>2, <1>12 DEF Afterwards, ItemAt
  <2> QED
    BY <1>1, <1>6, <1>7, <1>8, <1>12, <2>1 DEF Replaces
<1>13. CASE foServer' = Afterwards(run, path) /\ kind \in {"move", "rename"}
  <2>1. foServer' = [foServer EXCEPT ![from] = None, ![to] = foServer[from]]
    BY <1>1, <1>2, <1>13 DEF Afterwards, ItemAt
  <2>2. foServer[from] # None /\ foServer[to] = None
    BY <1>1, <1>2, <1>13 DEF Refused, ItemAt
  <2>3. from # to
    BY <2>2
  <2>4. foServer' \in [FilePath -> FoItem \cup {None}] /\ foServer'[to] = foServer[from]
        /\ \A p \in FilePath \ {from, to} : foServer'[p] = foServer[p]
    BY <1>4, <1>7, <2>1, <2>3
  <2>5. FoServerTyped'
    BY <2>4 DEF FoServerTyped
  <2>6. ItemAt(Destination(run, path))' = foServer[from]
    BY <1>1, <2>4 DEF ItemAt
  <2>7. ~Replaces(run)
    BY <1>13 DEF Replaces
  <2> QED
    BY <1>1, <1>2, <2>2, <2>4, <2>5, <2>6, <2>7 DEF ItemAt, Touches
<1>14. kind \in {"delete", "create-file", "create-folder", "copy", "move", "rename"}
  BY <1>3 DEF FoRunKind, FoMode
<1> QED
  BY <1>8, <1>9, <1>10, <1>11, <1>12, <1>13, <1>14

LEMMA FoRunStepsInv ==
    ASSUME FoInv, NEW i \in DOMAIN foRuns, NEW path \in foRuns[i].todo, FoRunSteps(i, path)
    PROVE  FoInv'
<1>1. PICK fitting : fitting = FittingRuns(foDone.marked)
  OBVIOUS
<1>2. foRuns \in Seq(fitting) /\ foDone \in FoDoneRecord
  BY <1>1 DEF FoInv, FoTyped
<1>3. PICK run \in FittingRuns(foDone.marked) : run = foRuns[i]
  BY <1>1, <1>2
<1>4. path \in run.todo /\ ~Refused(run, path)
  BY <1>3 DEF FoRunSteps
<1>5. run \in FoRunRecord /\ RunFits(run, foDone.marked) /\ run.todo \in SUBSET FilePath
  BY DEF FittingRuns, FoRunRecord
<1>6. PICK to \in FilePath, from \in FilePath : to = Destination(run, path) /\ from = Source(run, path)
  BY <1>4, CallFacts
<1>7. foServer' = Afterwards(run, path) \/ UNCHANGED foServer
  BY <1>3 DEF FoRunSteps
<1>8. /\ FoServerTyped'
      /\ \/ /\ Replaces(run) \/ ItemAt(to) = None
            /\ \A p \in FilePath : p # to => ItemAt(p)' = ItemAt(p)
         \/ UNCHANGED foServer
         \/ /\ ~Replaces(run) /\ ItemAt(to) = None /\ ItemAt(to)' = ItemAt(from)
            /\ \A p \in FilePath \ {from, to} : ItemAt(p)' = ItemAt(p)
  <2>1. Touches(run, path) = {from, to}
    BY <1>6 DEF Touches
  <2>2. ItemAt(Destination(run, path))' = ItemAt(to)'
    BY <1>6 DEF ItemAt
  <2> QED
    BY <1>4, <1>6, <1>7, <2>1, <2>2, FoServerStep
<1>9. PICK deleted \in SUBSET FilePath, gone \in SUBSET (FilePath \cup {None}), unasked \in SUBSET FoRunKind :
        /\ deleted = IF run.kind = "delete" THEN {path} ELSE {}
        /\ gone = IF /\ Replaces(run) /\ ItemAt(to) # None /\ foServer'[to] # ItemAt(to)
                  THEN {ItemAt(to).of} ELSE {}
        /\ unasked = IF CriticalOf(Touches(run, path)) /\ ~run.phrase THEN {run.kind} ELSE {}
        /\ foDone' = [marked |-> foDone.marked, deleted |-> foDone.deleted \cup deleted,
                      gone |-> foDone.gone \cup gone, unasked |-> foDone.unasked \cup unasked]
  <2>1. ItemAt(to) # None => ItemAt(to).of \in FilePath \cup {None}
    BY DEF FoInv, FoTyped, FoServerTyped, ItemAt, FoItem
  <2>2. run.kind \in FoRunKind
    BY <1>5 DEF FoRunRecord
  <2>3. PICK deleted \in SUBSET FilePath : deleted = IF run.kind = "delete" THEN {path} ELSE {}
    BY <1>4, <1>5
  <2>4. PICK gone \in SUBSET (FilePath \cup {None}) :
            gone = IF /\ Replaces(run) /\ ItemAt(to) # None /\ foServer'[to] # ItemAt(to)
                   THEN {ItemAt(to).of} ELSE {}
    BY <2>1
  <2>5. PICK unasked \in SUBSET FoRunKind :
            unasked = IF CriticalOf(Touches(run, path)) /\ ~run.phrase THEN {run.kind} ELSE {}
    BY <2>2
  <2>6. foDone' = [marked |-> foDone.marked, deleted |-> foDone.deleted \cup deleted,
                   gone |-> foDone.gone \cup gone, unasked |-> foDone.unasked \cup unasked]
    BY <1>3, <1>6, <2>3, <2>4, <2>5 DEF FoRunSteps
  <2> QED
    BY <2>3, <2>4, <2>5, <2>6
<1>10. foDone' \in FoDoneRecord /\ foDone'.marked = foDone.marked
  BY <1>2, <1>9 DEF FoDoneRecord
<1>11. foRuns' \in Seq(fitting)
  <2>1. PICK todo \in SUBSET FilePath : todo = run.todo \ {path}
    BY <1>5
  <2>2. PICK next \in FoRunRecord : next = [run EXCEPT !.todo = todo]
    BY <1>5 DEF FoRunRecord
  <2>3. /\ next.kind = run.kind /\ next.todo = todo /\ next.from = run.from
        /\ next.confirmed = run.confirmed /\ next.phrase = run.phrase
    BY <1>5, <2>2 DEF FoRunRecord
  <2>4. RunFits(next, foDone.marked)
    BY <1>5, <2>1, <2>3 DEF RunFits
  <2>5. next \in fitting
    BY <1>1, <2>4 DEF FittingRuns
  <2>6. foRuns' = [foRuns EXCEPT ![i] = next]
    BY <1>3, <2>1, <2>2 DEF FoRunSteps
  <2> QED
    BY <1>2, <2>5, <2>6
<1>12. FoTyped'
  <2>1. FittingRuns(foDone.marked)' = fitting
    BY <1>1, <1>10 DEF FittingRuns, RunFits
  <2>2. UNCHANGED <<foPanel, foLists>>
    BY DEF FoRunSteps
  <2> QED
    BY <1>8, <1>10, <1>11, <2>1, <2>2 DEF FoTyped, FoInv
<1>13. foDone'.deleted \subseteq foDone'.marked
  <2>1. foDone.deleted \subseteq foDone.marked
    BY DEF FoInv
  <2>2. deleted \subseteq foDone.marked
    BY <1>4, <1>5, <1>9 DEF RunFits
  <2>3. foDone'.deleted = foDone.deleted \cup deleted
    BY <1>9
  <2> QED
    BY <1>10, <2>1, <2>2, <2>3
<1>14. FoStillThere'
  <2> SUFFICES ASSUME NEW q \in FilePath, Initial(q) # None, q \notin foDone'.gone
               PROVE  \E p \in FilePath : ItemAt(p)' # None /\ ItemAt(p)'.of = q
    BY DEF FoStillThere
  <2>1. foDone'.gone = foDone.gone \cup gone
    BY <1>9
  <2>2. PICK p \in FilePath : ItemAt(p) # None /\ ItemAt(p).of = q
    BY <2>1 DEF FoInv, FoStillThere
  <2>3. CASE ItemAt(p)' = ItemAt(p)
    BY <2>2, <2>3
  <2>4. CASE ItemAt(p)' # ItemAt(p) /\ p = to
    <3>1. Replaces(run)
      BY <1>8, <2>2, <2>4 DEF ItemAt
    <3>2. foServer'[to] # ItemAt(to) /\ ItemAt(to) # None
      BY <2>2, <2>4 DEF ItemAt
    <3>3. q \in gone
      BY <1>9, <2>2, <2>4, <3>1, <3>2
    <3> QED
      BY <2>1, <3>3
  <2>5. CASE ItemAt(p)' # ItemAt(p) /\ p # to
    <3>1. ItemAt(to)' = ItemAt(from) /\ p = from
      BY <1>8, <2>2, <2>5 DEF ItemAt
    <3>2. ItemAt(to)' # None /\ ItemAt(to)'.of = q
      BY <2>2, <3>1
    <3> QED
      BY <3>2
  <2> QED
    BY <2>3, <2>4, <2>5
<1>15. foDone'.unasked \cap {"delete", "copy", "move"} = {}
  <2>1. unasked \cap {"delete", "copy", "move"} = {}
    <3>1. SUFFICES ASSUME run.kind \in {"delete", "copy", "move"}, CriticalOf(Touches(run, path))
                   PROVE  run.phrase
      BY <1>9
    <3>2. assertCriticalPathMutationAllowed(NeedsConfirmation(run, path), run.confirmed)
      BY <1>3 DEF FoRunSteps
    <3>3. run.confirmed
      BY <3>1, <3>2 DEF assertCriticalPathMutationAllowed, NeedsConfirmation
    <3> QED
      BY <1>5, <3>1, <3>3 DEF RunFits
  <2>2. foDone'.unasked = foDone.unasked \cup unasked
    BY <1>9
  <2> QED
    BY <2>1, <2>2 DEF FoInv
<1>16. PromptFits(foPanel)'
  BY DEF FoRunSteps, FoInv, PromptFits
<1> QED
  BY <1>12, <1>13, <1>14, <1>15, <1>16 DEF FoInv

LEMMA FoAnswersInv ==
    ASSUME FoInv,
           \/ \E i \in DOMAIN foRuns : FoRunFails(i) \/ FoRunEnds(i)
           \/ \E i \in DOMAIN foLists : FoListed(i) \/ FoListFails(i)
    PROVE  FoInv'
<1>1. foPanel \in FoPanelRecord /\ foLists \in Seq(FileDir) /\ PromptFits(foPanel)
  BY DEF FoInv, FoTyped
<1>2. PICK fitting : fitting = FittingRuns(foDone.marked)
  OBVIOUS
<1>3. foRuns \in Seq(fitting)
  BY <1>2 DEF FoInv, FoTyped
<1>4. UNCHANGED <<foServer, foDone>>
  BY DEF FoRunFails, FoRunEnds, FoListed, FoListFails
<1>5. ASSUME foPanel' = [foPanel EXCEPT !.off = TRUE]
      PROVE  foPanel' \in FoPanelRecord /\ PromptFits(foPanel)'
  <2>1. foPanel' \in FoPanelRecord /\ foPanel'.prompt = foPanel.prompt
        /\ foPanel'.selected = foPanel.selected
    BY <1>1, <1>5 DEF FoPanelRecord
  <2> QED
    BY <1>1, <2>1 DEF PromptFits
<1>6. ASSUME NEW i \in DOMAIN foRuns, FoRunFails(i)
      PROVE  FoInv'
  <2>1. foRuns' = RemoveAt(foRuns, i) /\ foPanel' = [foPanel EXCEPT !.off = TRUE]
        /\ UNCHANGED foLists
    BY <1>6 DEF FoRunFails
  <2>2. foRuns' \in Seq(fitting)
    BY <1>3, <2>1, OneLessFacts
  <2> QED
    BY <1>1, <1>2, <1>4, <1>5, <2>1, <2>2, FoKeeps
<1>7. ASSUME NEW i \in DOMAIN foRuns, FoRunEnds(i)
      PROVE  FoInv'
  <2>1. PICK run \in FittingRuns(foDone.marked) : run = foRuns[i]
    BY <1>2, <1>3
  <2>2. run.kind \in FoRunKind /\ run.dir \in FileDir
    BY DEF FittingRuns, FoRunRecord
  <2>3. /\ foRuns' = RemoveAt(foRuns, i) /\ foLists' = Append(foLists, run.dir)
        /\ foPanel' = CASE run.kind = "copy" -> foPanel
                         [] run.kind = "move" -> [foPanel EXCEPT !.clipboard = None]
                         [] run.kind = "delete" -> [foPanel EXCEPT !.prompt = None, !.selected = {}]
                         [] OTHER -> [foPanel EXCEPT !.prompt = None]
    BY <1>7, <2>1 DEF FoRunEnds
  <2>4. foRuns' \in Seq(fitting)
    BY <1>3, <2>3, OneLessFacts
  <2>5. foLists' \in Seq(FileDir)
    BY <1>1, <2>2, <2>3
  <2>6. CASE run.kind = "copy"
    BY <1>1, <1>2, <1>4, <2>3, <2>4, <2>5, <2>6, FoKeeps DEF PromptFits
  <2>7. CASE run.kind = "move"
    <3>1. foPanel' = [foPanel EXCEPT !.clipboard = None]
      BY <2>3, <2>7
    <3>2. foPanel' \in FoPanelRecord /\ foPanel'.prompt = foPanel.prompt
          /\ foPanel'.selected = foPanel.selected
      BY <1>1, <3>1 DEF FoPanelRecord
    <3>3. PromptFits(foPanel)'
      BY <1>1, <3>2 DEF PromptFits
    <3> QED
      BY <1>2, <1>4, <2>4, <2>5, <3>2, <3>3, FoKeeps
  <2>8. CASE run.kind \notin {"copy", "move"}
    <3>1. \/ foPanel' = [foPanel EXCEPT !.prompt = None, !.selected = {}]
          \/ foPanel' = [foPanel EXCEPT !.prompt = None]
      BY <2>3, <2>8
    <3>2. foPanel' \in FoPanelRecord /\ foPanel'.prompt = None
      BY <1>1, <3>1 DEF FoPanelRecord
    <3>3. PromptFits(foPanel)'
      BY <3>2 DEF PromptFits
    <3> QED
      BY <1>2, <1>4, <2>4, <2>5, <3>2, <3>3, FoKeeps
  <2> QED
    BY <2>6, <2>7, <2>8
<1>8. ASSUME NEW i \in DOMAIN foLists, FoListed(i)
      PROVE  FoInv'
  <2>1. PICK dir \in FileDir : dir = foLists[i]
    BY <1>1
  <2>2. foPanel' = ListShown(foPanel, dir) /\ foLists' = RemoveAt(foLists, i) /\ UNCHANGED foRuns
    BY <1>8, <2>1 DEF FoListed
  <2>3. PICK entries \in SUBSET FoEntry : entries = EntriesOf(dir)
    BY EntriesFacts DEF FoInv, FoTyped
  <2>4. PICK off \in BOOLEAN : off = (dir # foPanel.dir)
    OBVIOUS
  <2>5. foPanel' = [foPanel EXCEPT !.entries = entries, !.selected = {}, !.off = off]
    BY <2>2, <2>3, <2>4 DEF ListShown
  <2>6. foPanel' \in FoPanelRecord /\ foPanel'.prompt = foPanel.prompt /\ foPanel'.selected = {}
    BY <1>1, <2>5 DEF FoPanelRecord
  <2>7. PromptFits(foPanel)'
    BY <1>1, <2>6 DEF PromptFits
  <2>8. foLists' \in Seq(FileDir)
    BY <1>1, <2>2, OneLessFacts
  <2> QED
    BY <1>4, <2>2, <2>6, <2>7, <2>8, FoPanelStep
<1>9. ASSUME NEW i \in DOMAIN foLists, FoListFails(i)
      PROVE  FoInv'
  <2>1. foPanel' = [foPanel EXCEPT !.off = TRUE] /\ foLists' = RemoveAt(foLists, i)
        /\ UNCHANGED foRuns
    BY <1>9 DEF FoListFails
  <2>2. foLists' \in Seq(FileDir)
    BY <1>1, <2>1, OneLessFacts
  <2> QED
    BY <1>4, <1>5, <2>1, <2>2, FoPanelStep
<1> QED
  BY <1>6, <1>7, <1>8, <1>9

LEMMA FoStepInv ==
    ASSUME FoInv, [FoNext]_foVars
    PROVE  FoInv'
<1>1. CASE UNCHANGED foVars
  <2>1. foPanel' \in FoPanelRecord /\ PromptFits(foPanel)' /\ foLists' \in Seq(FileDir)
        /\ UNCHANGED <<foServer, foRuns, foDone>>
    BY <1>1 DEF foVars, FoInv, FoTyped, PromptFits
  <2> QED
    BY <2>1, FoPanelStep
<1>2. CASE \/ \E dir \in FileDir, query \in {None, foPanel.query} : FoGoesTo(dir, query)
           \/ FoRefreshes
           \/ \E query \in FileName \cup {None} : FoSearches(query)
           \/ \E e \in DisplayedEntries, multi \in BOOLEAN : FoSelects(e, multi)
  BY <1>2, FoLooksInv
<1>3. CASE \/ \E mode \in {"copy", "move"} : FoMarks(mode)
           \/ \E mode \in FoMode : FoOpensPrompt(mode)
           \/ FoCancels
  BY <1>3, FoPromptsInv
<1>4. CASE FoPastes \/ FoConfirmsPaste
  BY <1>4, FoPastesInv
<1>5. CASE \E name \in FileName \cup {None}, recursive \in BOOLEAN,
           by \in {"button", "phrase", "enter"} : FoConfirms(name, recursive, by)
  BY <1>5, FoConfirmsInv
<1>6. CASE \E i \in DOMAIN foRuns : \E path \in foRuns[i].todo : FoRunSteps(i, path)
  BY <1>6, FoRunStepsInv
<1>7. CASE \/ \E i \in DOMAIN foRuns : FoRunFails(i) \/ FoRunEnds(i)
           \/ \E i \in DOMAIN foLists : FoListed(i) \/ FoListFails(i)
  BY <1>7, FoAnswersInv
<1> QED
  BY <1>1, <1>2, <1>3, <1>4, <1>5, <1>6, <1>7 DEF FoNext, FoMode

\* Of the panel only what the list is told by has to stay, and of the server nothing when
\* nothing is listed afterwards.
FoListStays ==
    /\ foPanel'.entries = foPanel.entries /\ foPanel'.selected \in {{}, foPanel.selected}
    /\ foLists' = <<>> /\ foRuns' = <<>> /\ ~foPanel'.off =>
           /\ foLists = <<>> /\ foRuns = <<>> /\ ~foPanel.off
           /\ foPanel'.dir = foPanel.dir /\ foServer' = foServer

LEMMA FoListKept ==
    ASSUME FoListIsTrue, FoListStays
    PROVE  FoListIsTrue'
<1>1. foPanel'.selected \subseteq {e.path : e \in foPanel'.entries}
  BY DEF FoListIsTrue, FoListStays
<1>2. ASSUME foLists' = <<>>, foRuns' = <<>>, ~foPanel'.off
      PROVE  foPanel'.entries = EntriesOf(foPanel.dir)'
  <2>1. foPanel.entries = EntriesOf(foPanel.dir)
    BY <1>2 DEF FoListIsTrue, FoListStays
  <2>2. EntriesOf(foPanel.dir)' = EntriesOf(foPanel.dir)
    BY <1>2 DEF FoListStays, EntriesOf, ItemAt
  <2> QED
    BY <2>1, <2>2 DEF FoListStays
<1> QED
  BY <1>1, <1>2 DEF FoListIsTrue

LEMMA FoStepList ==
    ASSUME FoInv, FoListIsTrue, [FoNext]_foVars
    PROVE  FoListIsTrue'
<1>1. foPanel \in FoPanelRecord /\ foLists \in Seq(FileDir)
  BY DEF FoInv, FoTyped
<1>2. PICK fitting : foRuns \in Seq(fitting)
  BY DEF FoInv, FoTyped
<1>3. CASE UNCHANGED foVars
  BY <1>3, FoListKept DEF foVars, FoListStays
<1>4. ASSUME NEW dir \in FileDir, NEW query \in {None, foPanel.query}, FoGoesTo(dir, query)
      PROVE  FoListIsTrue'
  <2>1. foPanel' = [foPanel EXCEPT !.dir = dir, !.selected = {}, !.query = query]
        /\ foLists' = foLists \o <<dir>>
    BY <1>4 DEF FoGoesTo, FoDoes
  <2>2. foPanel'.entries = foPanel.entries /\ foPanel'.selected = {}
    BY <1>1, <2>1 DEF FoPanelRecord
  <2>3. foLists' # <<>>
    BY <1>1, <2>1
  <2> QED
    BY <2>2, <2>3, FoListKept DEF FoListStays
<1>5. CASE FoRefreshes
  <2>1. foPanel' = foPanel /\ foLists' = foLists \o <<foPanel.dir>>
    BY <1>5 DEF FoRefreshes, FoDoes
  <2>2. foLists' # <<>>
    BY <1>1, <2>1
  <2> QED
    BY <2>1, <2>2, FoListKept DEF FoListStays
<1>6. ASSUME NEW query \in FileName \cup {None}, FoSearches(query)
      PROVE  FoListIsTrue'
  <2>1. foPanel' = [foPanel EXCEPT !.query = query] /\ foLists' = foLists \o <<>>
        /\ UNCHANGED <<foServer, foRuns>>
    BY <1>6 DEF FoSearches, FoDoes
  <2>2. foLists' = foLists
    BY <1>1, <2>1
  <2>3. /\ foPanel'.entries = foPanel.entries /\ foPanel'.selected = foPanel.selected
        /\ foPanel'.dir = foPanel.dir /\ foPanel'.off = foPanel.off
    BY <1>1, <2>1 DEF FoPanelRecord
  <2> QED
    BY <2>1, <2>2, <2>3, FoListKept DEF FoListStays
<1>7. ASSUME NEW e \in DisplayedEntries, NEW multi \in BOOLEAN, FoSelects(e, multi)
      PROVE  FoListIsTrue'
  <2>1. PICK before : before = IF multi THEN foPanel.selected ELSE {}
    OBVIOUS
  <2>2. PICK after : after = IF e.path \in before THEN before \ {e.path} ELSE before \cup {e.path}
    OBVIOUS
  <2>3. foPanel' = [foPanel EXCEPT !.selected = after] /\ foLists' = foLists \o <<>>
        /\ UNCHANGED <<foServer, foRuns>>
    BY <1>7, <2>1, <2>2 DEF FoSelects, FoDoes
  <2>4. foLists' = foLists
    BY <1>1, <2>3
  <2>5. /\ foPanel'.entries = foPanel.entries /\ foPanel'.selected = after
        /\ foPanel'.dir = foPanel.dir /\ foPanel'.off = foPanel.off
    BY <1>1, <2>3 DEF FoPanelRecord
  <2>6. after \subseteq {f.path : f \in foPanel.entries}
    BY <2>1, <2>2 DEF FoListIsTrue, DisplayedEntries
  <2>7. EntriesOf(foPanel.dir)' = EntriesOf(foPanel.dir)
    BY <2>3, <2>5 DEF EntriesOf, ItemAt
  <2> QED
    BY <2>3, <2>4, <2>5, <2>6, <2>7 DEF FoListIsTrue
<1>8. CASE \/ \E mode \in {"copy", "move"} : FoMarks(mode)
           \/ FoCancels \/ FoPastes \/ FoConfirmsPaste
           \/ \E name \in FileName \cup {None}, recursive \in BOOLEAN,
                 by \in {"button", "phrase", "enter"} : FoConfirms(name, recursive, by)
  <2>1. UNCHANGED <<foServer, foLists>>
    BY <1>8 DEF FoMarks, FoCancels, FoPastes, FoConfirmsPaste, FoConfirms
  <2>2. foRuns' = foRuns \/ foRuns' # <<>>
    <3>1. ASSUME NEW run, foRuns' = Append(foRuns, run)
          PROVE  foRuns' # <<>>
      BY <1>2, <3>1
    <3> QED
      BY <1>8, <3>1 DEF FoMarks, FoCancels, FoPastes, FoConfirmsPaste, FoConfirms, Paste, Begins
  <2>3. /\ foPanel'.entries = foPanel.entries /\ foPanel'.selected = foPanel.selected
        /\ foPanel'.dir = foPanel.dir /\ foPanel'.off = foPanel.off
    <3>1. ASSUME NEW clipboard, foPanel' = [foPanel EXCEPT !.clipboard = clipboard]
          PROVE  /\ foPanel'.entries = foPanel.entries /\ foPanel'.selected = foPanel.selected
                 /\ foPanel'.dir = foPanel.dir /\ foPanel'.off = foPanel.off
      BY <1>1, <3>1 DEF FoPanelRecord
    <3>2. ASSUME NEW asks, foPanel' = [foPanel EXCEPT !.asksToPaste = asks]
          PROVE  /\ foPanel'.entries = foPanel.entries /\ foPanel'.selected = foPanel.selected
                 /\ foPanel'.dir = foPanel.dir /\ foPanel'.off = foPanel.off
      BY <1>1, <3>2 DEF FoPanelRecord
    <3>3. ASSUME foPanel' = [foPanel EXCEPT !.prompt = None, !.asksToPaste = FALSE]
          PROVE  /\ foPanel'.entries = foPanel.entries /\ foPanel'.selected = foPanel.selected
                 /\ foPanel'.dir = foPanel.dir /\ foPanel'.off = foPanel.off
      BY <1>1, <3>3 DEF FoPanelRecord
    <3> QED
      BY <1>8, <3>1, <3>2, <3>3 DEF FoMarks, FoCancels, FoPastes, FoConfirmsPaste, FoConfirms
  <2> QED
    BY <2>1, <2>2, <2>3, FoListKept DEF FoListStays
<1>9. ASSUME NEW mode \in FoMode, FoOpensPrompt(mode)
      PROVE  FoListIsTrue'
  <2>1. PICK prompt : foPanel' = [foPanel EXCEPT !.prompt = prompt]
    BY <1>9 DEF FoOpensPrompt, FoDoes
  <2>2. foLists' = foLists \o <<>> /\ UNCHANGED <<foServer, foRuns>>
    BY <1>9 DEF FoOpensPrompt, FoDoes
  <2>3. foLists' = foLists
    BY <1>1, <2>2
  <2>4. /\ foPanel'.entries = foPanel.entries /\ foPanel'.selected = foPanel.selected
        /\ foPanel'.dir = foPanel.dir /\ foPanel'.off = foPanel.off
    BY <1>1, <2>1 DEF FoPanelRecord
  <2> QED
    BY <2>2, <2>3, <2>4, FoListKept DEF FoListStays
<1>10. ASSUME NEW i \in DOMAIN foRuns, NEW path \in foRuns[i].todo, FoRunSteps(i, path)
       PROVE  FoListIsTrue'
  <2>1. foPanel' = foPanel
    BY <1>10 DEF FoRunSteps
  <2>2. PICK next : foRuns' = [foRuns EXCEPT ![i] = next]
    BY <1>10 DEF FoRunSteps
  <2>3. i \in DOMAIN foRuns'
    BY <1>2, <2>2
  <2>4. foRuns' # <<>>
    BY <2>3
  <2> QED
    BY <2>1, <2>4, FoListKept DEF FoListStays
<1>11. ASSUME NEW i, FoRunFails(i) \/ FoListFails(i)
       PROVE  FoListIsTrue'
  <2>1. foPanel' = [foPanel EXCEPT !.off = TRUE]
    BY <1>11 DEF FoRunFails, FoListFails
  <2>2. /\ foPanel'.entries = foPanel.entries /\ foPanel'.selected = foPanel.selected
        /\ foPanel'.off
    BY <1>1, <2>1 DEF FoPanelRecord
  <2> QED
    BY <2>2, FoListKept DEF FoListStays
<1>12. ASSUME NEW i \in DOMAIN foRuns, FoRunEnds(i)
       PROVE  FoListIsTrue'
  <2>1. PICK kind, dir : /\ foLists' = Append(foLists, dir)
                        /\ foPanel' = CASE kind = "copy" -> foPanel
                             [] kind = "move" -> [foPanel EXCEPT !.clipboard = None]
                             [] kind = "delete" -> [foPanel EXCEPT !.prompt = None, !.selected = {}]
                             [] OTHER -> [foPanel EXCEPT !.prompt = None]
    BY <1>12 DEF FoRunEnds
  <2>2. foLists' # <<>>
    BY <1>1, <2>1
  <2>3. foPanel'.entries = foPanel.entries /\ foPanel'.selected \in {{}, foPanel.selected}
    <3>1. CASE foPanel' = foPanel
      BY <3>1
    <3>2. CASE foPanel' = [foPanel EXCEPT !.clipboard = None]
      BY <1>1, <3>2 DEF FoPanelRecord
    <3>3. CASE foPanel' = [foPanel EXCEPT !.prompt = None, !.selected = {}]
      BY <1>1, <3>3 DEF FoPanelRecord
    <3>4. CASE foPanel' = [foPanel EXCEPT !.prompt = None]
      BY <1>1, <3>4 DEF FoPanelRecord
    <3> QED
      BY <2>1, <3>1, <3>2, <3>3, <3>4
  <2> QED
    BY <2>2, <2>3, FoListKept DEF FoListStays
<1>13. ASSUME NEW i \in DOMAIN foLists, FoListed(i)
       PROVE  FoListIsTrue'
  <2>1. PICK dir : dir = foLists[i]
    OBVIOUS
  <2>2. PICK entries : entries = EntriesOf(dir)
    OBVIOUS
  <2>3. PICK off : off = (dir # foPanel.dir)
    OBVIOUS
  <2>4. foPanel' = [foPanel EXCEPT !.entries = entries, !.selected = {}, !.off = off]
        /\ UNCHANGED foServer
    BY <1>13, <2>1, <2>2, <2>3 DEF FoListed, ListShown
  <2>5. /\ foPanel'.entries = entries /\ foPanel'.selected = {} /\ foPanel'.off = off
        /\ foPanel'.dir = foPanel.dir
    BY <1>1, <2>4 DEF FoPanelRecord
  <2>6. EntriesOf(foPanel.dir)' = EntriesOf(foPanel.dir)
    BY <2>4, <2>5 DEF EntriesOf, ItemAt
  <2>7. ~off => dir = foPanel.dir
    BY <2>3
  <2> QED
    BY <2>2, <2>5, <2>6, <2>7 DEF FoListIsTrue
<1> QED
  BY <1>3, <1>4, <1>5, <1>6, <1>7, <1>8, <1>9, <1>10, <1>11, <1>12, <1>13 DEF FoNext, FoMode

LEMMA FoInitList ==
    ASSUME FoInit
    PROVE  FoListIsTrue
<1>1. FoPanel \in FoPanelRecord
  BY DEF FoPanel, FoPanelRecord, FileDir
<1>2. PICK entries : entries = EntriesOf("home")
  OBVIOUS
<1>3. foPanel = [FoPanel EXCEPT !.entries = entries]
  BY <1>2 DEF FoInit
<1>4. foPanel.entries = entries /\ foPanel.selected = {} /\ foPanel.dir = "home"
  BY <1>3 DEF FoPanel
<1> QED
  BY <1>2, <1>4 DEF FoListIsTrue

(***************************************************************************)
(* The workspace.  Paths are compared element by element.                  *)
(***************************************************************************)
Side == {1, 2}
Below(s, t) == Len(s) <= Len(t) /\ \A k \in 1..Len(s) : s[k] = t[k]
Forks(s, t, i) == i <= Len(t) /\ t[i] # s[i] /\ \A k \in 1..(i - 1) : t[k] = s[k]

\* A tree of panes: none lies below another one, and beside every turn of a path there is
\* a pane on the other side.
IsTree(leaf) ==
    /\ \A p, q \in DOMAIN leaf : p # q => ~Below(leaf[p], leaf[q])
    /\ \A p \in DOMAIN leaf : \A i \in 1..Len(leaf[p]) :
           \E q \in DOMAIN leaf : Forks(leaf[p], leaf[q], i)

LEMMA PrefixIsBelow ==
    ASSUME NEW S, NEW s \in Seq(S), NEW t \in Seq(S)
    PROVE  IsPrefix(s, t) <=> Below(s, t)
<1>1. CASE Len(s) <= Len(t)
  <2> DEFINE a == SubSeq(s, 1, Len(s))
             b == SubSeq(t, 1, Len(s))
  <2>1. /\ a \in Seq(S) /\ Len(a) = Len(s) /\ \A k \in 1..Len(s) : a[k] = s[k]
        /\ b \in Seq(S) /\ Len(b) = Len(s) /\ \A k \in 1..Len(s) : b[k] = t[k]
    BY <1>1
  <2>2. a = b <=> \A k \in 1..Len(s) : a[k] = b[k]
    <3> HIDE DEF a, b
    <3> QED
      BY <2>1, SeqEqual
  <2> QED
    BY <1>1, <2>1, <2>2 DEF IsPrefix, Below
<1>2. CASE ~(Len(s) <= Len(t))
  BY <1>2 DEF IsPrefix, Below
<1> QED
  BY <1>1, <1>2

\* The other side of a turn.
LEMMA ForkIs ==
    ASSUME NEW s \in Seq(Side), NEW t \in Seq(Side), NEW i \in 1..Len(s)
    PROVE  IsPrefix(Append(SubSeq(s, 1, i - 1), 3 - s[i]), t) <=> Forks(s, t, i)
<1> DEFINE a == Append(SubSeq(s, 1, i - 1), 3 - s[i])
<1>1. s[i] \in Side /\ 3 - s[i] \in Side
  BY DEF Side
<1>2. SubSeq(s, 1, i - 1) \in Seq(Side) /\ Len(SubSeq(s, 1, i - 1)) = i - 1
  OBVIOUS
<1>3. \A k \in 1..(i - 1) : SubSeq(s, 1, i - 1)[k] = s[k]
  OBVIOUS
<1>4. /\ a \in Seq(Side) /\ Len(a) = i /\ a[i] = 3 - s[i]
      /\ \A k \in 1..(i - 1) : a[k] = s[k]
  BY <1>1, <1>2, <1>3
<1>5. IsPrefix(a, t) <=> Below(a, t)
  <2> HIDE DEF a
  <2> QED
    BY <1>4, PrefixIsBelow
<1> HIDE DEF a
<1>6. ASSUME i <= Len(t)
      PROVE  t[i] = 3 - s[i] <=> t[i] # s[i]
  <2>1. t[i] \in Side
    BY <1>6
  <2> QED
    BY <2>1, <1>1 DEF Side
<1>7. Below(a, t) <=> Forks(s, t, i)
  <2>1. ASSUME Below(a, t)
        PROVE  Forks(s, t, i)
    <3>1. i <= Len(t) /\ \A k \in 1..i : a[k] = t[k]
      BY <2>1, <1>4 DEF Below
    <3> QED
      BY <3>1, <1>4, <1>6 DEF Forks
  <2>2. ASSUME Forks(s, t, i)
        PROVE  Below(a, t)
    <3>1. i <= Len(t) /\ t[i] # s[i] /\ \A k \in 1..(i - 1) : t[k] = s[k]
      BY <2>2 DEF Forks
    <3>2. t[i] = 3 - s[i]
      BY <3>1, <1>6
    <3>3. ASSUME NEW k \in 1..i
          PROVE  a[k] = t[k]
      BY <3>1, <3>2, <1>4
    <3> QED
      BY <3>1, <3>3, <1>4 DEF Below
  <2> QED
    BY <2>1, <2>2
<1> QED
  BY <1>5, <1>7 DEF a

LEMMA TreeIsWhole ==
    ASSUME NEW leaf, \A p \in DOMAIN leaf : leaf[p] \in Seq(Side)
    PROVE  IsTree(leaf) <=>
             /\ \A p, q \in DOMAIN leaf : p # q => ~IsPrefix(leaf[p], leaf[q])
             /\ \A p \in DOMAIN leaf : \A i \in DOMAIN leaf[p] :
                    \E q \in DOMAIN leaf :
                        IsPrefix(Append(SubSeq(leaf[p], 1, i - 1), 3 - leaf[p][i]), leaf[q])
<1>1. \A p, q \in DOMAIN leaf : IsPrefix(leaf[p], leaf[q]) <=> Below(leaf[p], leaf[q])
  BY PrefixIsBelow
<1>2. \A p, q \in DOMAIN leaf : \A i \in 1..Len(leaf[p]) :
          IsPrefix(Append(SubSeq(leaf[p], 1, i - 1), 3 - leaf[p][i]), leaf[q])
              <=> Forks(leaf[p], leaf[q], i)
  BY ForkIs
<1>3. \A p \in DOMAIN leaf : DOMAIN leaf[p] = 1..Len(leaf[p])
  OBVIOUS
<1> QED
  BY <1>1, <1>2, <1>3 DEF IsTree

\* One pane alone is a tree.
LEMMA RootIsTree ==
    ASSUME NEW p
    PROVE  /\ DOMAIN RootIs(p) = {p} /\ RootIs(p)[p] = <<>>
           /\ IsTree(RootIs(p))
<1>1. DOMAIN RootIs(p) = {p} /\ RootIs(p)[p] = <<>>
  BY DEF RootIs
<1>2. Len(RootIs(p)[p]) = 0
  BY <1>1
<1> QED
  BY <1>1, <1>2 DEF IsTree

\* A pane makes room for a new one: both go one turn further down.
LEMMA SplitIsTree ==
    ASSUME NEW leaf, \A q \in DOMAIN leaf : leaf[q] \in Seq(Side), IsTree(leaf),
           NEW p \in DOMAIN leaf, NEW new, new \notin DOMAIN leaf, NEW leaf1,
           DOMAIN leaf1 = DOMAIN leaf \cup {new},
           leaf1[new] = Append(leaf[p], 2), leaf1[p] = Append(leaf[p], 1),
           \A q \in DOMAIN leaf \ {p} : leaf1[q] = leaf[q]
    PROVE  (\A q \in DOMAIN leaf1 : leaf1[q] \in Seq(Side)) /\ IsTree(leaf1)
<1>1. /\ DOMAIN leaf1 = DOMAIN leaf \cup {new} /\ leaf1[new] = Append(leaf[p], 2)
      /\ leaf1[p] = Append(leaf[p], 1)
      /\ \A q \in DOMAIN leaf \ {p} : leaf1[q] = leaf[q]
  OBVIOUS
<1>2. PICK path \in Seq(Side) : path = leaf[p]
  OBVIOUS
<1>3. PICK n \in Nat : n = Len(path)
  OBVIOUS
<1>4. 1 \in Side /\ 2 \in Side
  BY DEF Side
<1>5. /\ leaf1[new] \in Seq(Side) /\ Len(leaf1[new]) = n + 1 /\ leaf1[new][n + 1] = 2
      /\ \A k \in 1..n : leaf1[new][k] = path[k]
  BY <1>1, <1>2, <1>3, <1>4
<1>6. /\ leaf1[p] \in Seq(Side) /\ Len(leaf1[p]) = n + 1 /\ leaf1[p][n + 1] = 1
      /\ \A k \in 1..n : leaf1[p][k] = path[k]
  BY <1>1, <1>2, <1>3, <1>4
<1>7. \A q \in DOMAIN leaf1 : leaf1[q] \in Seq(Side)
  BY <1>1, <1>5, <1>6
<1>8. ASSUME NEW q \in DOMAIN leaf \ {p}, NEW r \in {p, new}
      PROVE  ~Below(leaf1[q], leaf1[r]) /\ ~Below(leaf1[r], leaf1[q])
  <2>1. PICK s \in Seq(Side) : s = leaf[q] /\ s = leaf1[q]
    BY <1>1
  <2>2. PICK m \in Nat : m = Len(s)
    OBVIOUS
  <2>3. ~Below(s, path) /\ ~Below(path, s)
    BY <1>2, <2>1 DEF IsTree
  <2>4. PICK t \in Seq(Side) :
          /\ t = leaf1[r] /\ Len(t) = n + 1 /\ \A k \in 1..n : t[k] = path[k]
    BY <1>5, <1>6
  <2>5. ASSUME Below(s, t)
        PROVE  FALSE
    <3>1. m <= n + 1 /\ \A k \in 1..m : s[k] = t[k]
      BY <2>2, <2>4, <2>5 DEF Below
    <3>2. CASE m <= n
      <4>0. \A k \in 1..m : k \in 1..n
        BY ONLY <3>2, m \in Nat, n \in Nat
      <4>1. \A k \in 1..m : s[k] = path[k]
        BY <3>1, <4>0, <2>4
      <4> QED
        BY <4>1, <3>2, <2>2, <2>3, <1>3 DEF Below
    <3>3. CASE m = n + 1
      <4>0. \A k \in 1..n : k \in 1..m
        BY ONLY <3>3, m \in Nat, n \in Nat
      <4>1. \A k \in 1..n : path[k] = s[k]
        BY <3>1, <4>0, <2>4
      <4>2. n <= m
        BY <3>3
      <4> QED
        BY <4>1, <4>2, <2>2, <2>3, <1>3 DEF Below
    <3> QED
      BY <3>1, <3>2, <3>3
  <2>6. ASSUME Below(t, s)
        PROVE  FALSE
    <3>1. n + 1 <= m /\ \A k \in 1..(n + 1) : t[k] = s[k]
      BY <2>2, <2>4, <2>6 DEF Below
    <3>0. n <= m /\ \A k \in 1..n : k \in 1..(n + 1)
      BY ONLY <3>1, m \in Nat, n \in Nat
    <3>2. n <= m /\ \A k \in 1..n : path[k] = s[k]
      BY <3>0, <3>1, <2>4
    <3> QED
      BY <3>2, <2>2, <2>3, <1>3 DEF Below
  <2> QED
    BY <2>1, <2>4, <2>5, <2>6
<1>9. ~Below(leaf1[p], leaf1[new]) /\ ~Below(leaf1[new], leaf1[p])
  <2>1. n + 1 \in 1..(n + 1)
    OBVIOUS
  <2> QED
    BY <2>1, <1>5, <1>6 DEF Below
<1>10. \A q, r \in DOMAIN leaf1 : q # r => ~Below(leaf1[q], leaf1[r])
  <2> TAKE q, r \in DOMAIN leaf1
  <2> HAVE q # r
  <2>1. CASE q \in {p, new} /\ r \in {p, new}
    <3>1. (q = p /\ r = new) \/ (q = new /\ r = p)
      BY <2>1
    <3> QED
      BY <3>1, <1>9, Zenon
  <2>2. CASE q \in {p, new} /\ r \notin {p, new}
    BY <2>2, <1>1, <1>8
  <2>3. CASE q \notin {p, new} /\ r \in {p, new}
    BY <2>3, <1>1, <1>8
  <2>4. CASE q \notin {p, new} /\ r \notin {p, new}
    <3>1. leaf1[q] = leaf[q] /\ leaf1[r] = leaf[r] /\ q \in DOMAIN leaf /\ r \in DOMAIN leaf
      BY <2>4, <1>1
    <3>2. ~Below(leaf[q], leaf[r])
      BY <3>1 DEF IsTree
    <3> QED
      BY <3>1, <3>2
  <2> QED
    BY <2>1, <2>2, <2>3, <2>4
<1>11. ASSUME NEW s, NEW r \in DOMAIN leaf, NEW i \in Nat \ {0}, Forks(s, leaf[r], i)
       PROVE  Forks(s, leaf1[r], i)
  <2>1. CASE r # p
    BY <2>1, <1>1, <1>11
  <2>2. CASE r = p
    <3>1. i <= n /\ path[i] # s[i] /\ \A k \in 1..(i - 1) : path[k] = s[k]
      BY <2>2, <1>2, <1>3, <1>11 DEF Forks
    <3>2. i \in 1..n /\ i <= n + 1 /\ \A k \in 1..(i - 1) : k \in 1..n
      BY <3>1
    <3>3. leaf1[p][i] # s[i] /\ \A k \in 1..(i - 1) : leaf1[p][k] = s[k]
      BY <3>1, <3>2, <1>6
    <3> QED
      BY <3>2, <3>3, <2>2, <1>6 DEF Forks
  <2> QED
    BY <2>1, <2>2
<1>12. ASSUME NEW q \in DOMAIN leaf1, NEW i \in 1..Len(leaf1[q])
       PROVE  \E r \in DOMAIN leaf1 : Forks(leaf1[q], leaf1[r], i)
  <2>1. CASE q \in DOMAIN leaf \ {p}
    <3>1. leaf1[q] = leaf[q] /\ i \in Nat \ {0}
      BY <2>1, <1>1
    <3>2. PICK r \in DOMAIN leaf : Forks(leaf[q], leaf[r], i)
      BY <2>1, <3>1 DEF IsTree
    <3> QED
      BY <3>1, <3>2, <1>1, <1>11
  <2>2. CASE q \in {p, new} /\ i = n + 1
    <3>2. \A k \in 1..((n + 1) - 1) : k \in 1..n
      BY <1>3
    <3>3. Forks(leaf1[p], leaf1[new], n + 1) /\ Forks(leaf1[new], leaf1[p], n + 1)
      BY <3>2, <1>5, <1>6 DEF Forks
    <3> QED
      BY <2>2, <3>3, <1>1
  <2>3. CASE q \in {p, new} /\ i # n + 1
    <3>1. Len(leaf1[q]) = n + 1 /\ \A k \in 1..n : leaf1[q][k] = path[k]
      BY <2>3, <1>5, <1>6
    <3>2. i \in 1..n /\ i \in Nat \ {0} /\ \A k \in 1..(i - 1) : k \in 1..n
      BY <2>3, <3>1
    <3>3. PICK r \in DOMAIN leaf : Forks(path, leaf[r], i)
      BY <3>2, <1>2, <1>3 DEF IsTree
    <3>4. Forks(path, leaf1[r], i)
      BY <3>2, <3>3, <1>11
    <3>5. Forks(leaf1[q], leaf1[r], i)
      BY <3>1, <3>2, <3>4 DEF Forks
    <3> QED
      BY <3>5, <1>1
  <2> QED
    BY <2>1, <2>2, <2>3, <1>1
<1> QED
  BY <1>7, <1>10, <1>12 DEF IsTree

\* A pane is taken out: the panes on the other side of its last turn come one turn up.
Beside(s, path, n) == n - 1 <= Len(s) /\ \A k \in 1..(n - 1) : s[k] = path[k]

ComesUp(s, s1, n) ==
    /\ Len(s1) = Len(s) - 1
    /\ \A k \in 1..(n - 1) : s1[k] = s[k]
    /\ \A k \in n..Len(s1) : s1[k] = s[k + 1]

CameUp(s, s1, path, n) ==
    /\ n <= Len(s) /\ \A k \in 1..(n - 1) : s[k] = path[k]
    /\ s[n] \in Side /\ s[n] # path[n] /\ path[n] \in Side
    /\ Len(s1) = Len(s) - 1
    /\ \A k \in 1..(n - 1) : s1[k] = path[k]
    /\ \A k \in n..Len(s1) : s1[k] = s[k + 1]

LEMMA RemovalIsTree ==
    ASSUME NEW leaf, \A q \in DOMAIN leaf : leaf[q] \in Seq(Side), IsTree(leaf),
           NEW p \in DOMAIN leaf, NEW path \in Seq(Side), path = leaf[p],
           NEW n \in Nat \ {0}, n = Len(path),
           NEW leaf1, DOMAIN leaf1 = DOMAIN leaf \ {p},
           \A q \in DOMAIN leaf1 : leaf1[q] \in Seq(Side),
           \A q \in DOMAIN leaf1 :
               Beside(leaf[q], path, n) /\ n <= Len(leaf[q]) => ComesUp(leaf[q], leaf1[q], n),
           \A q \in DOMAIN leaf1 : ~Beside(leaf[q], path, n) => leaf1[q] = leaf[q]
    PROVE  IsTree(leaf1)
<1>1. ASSUME NEW q \in DOMAIN leaf1, Beside(leaf[q], path, n)
      PROVE  CameUp(leaf[q], leaf1[q], path, n)
  <2>1. PICK s \in Seq(Side) : s = leaf[q] /\ q # p
    OBVIOUS
  <2>2. PICK m \in Nat : m = Len(s)
    OBVIOUS
  <2>3. n - 1 <= m /\ \A k \in 1..(n - 1) : s[k] = path[k]
    BY <1>1, <2>1, <2>2 DEF Beside
  <2>4. ~Below(s, path) /\ ~Below(path, s)
    BY <2>1 DEF IsTree
  <2>5. m # n - 1
    BY <2>2, <2>3, <2>4 DEF Below
  <2>6. n <= m
    BY <2>3, <2>5
  <2>7. s[n] # path[n]
    <3>1. SUFFICES ASSUME s[n] = path[n]
                   PROVE  FALSE
      OBVIOUS
    <3>2. \A k \in 1..n : k \in 1..(n - 1) \/ k = n
      OBVIOUS
    <3>3. \A k \in 1..n : path[k] = s[k]
      BY <2>3, <3>1, <3>2
    <3> QED
      BY <3>3, <2>2, <2>4, <2>6 DEF Below
  <2>8. n \in 1..n /\ n \in 1..m
    BY <2>6
  <2>9. s[n] \in Side /\ path[n] \in Side
    BY <2>2, <2>8
  <2> QED
    BY <1>1, <2>1, <2>2, <2>3, <2>6, <2>7, <2>9 DEF ComesUp, CameUp
<1>2. ASSUME NEW q \in DOMAIN leaf1, ~Beside(leaf[q], path, n)
      PROVE  /\ leaf1[q] = leaf[q]
             /\ \E k \in 1..(n - 1) : k <= Len(leaf[q]) /\ leaf[q][k] # path[k]
  <2>1. PICK s \in Seq(Side) : s = leaf[q] /\ q # p
    OBVIOUS
  <2>2. PICK m \in Nat : m = Len(s)
    OBVIOUS
  <2>3. ~Below(s, path)
    BY <2>1 DEF IsTree
  <2>4. CASE n - 1 <= m
    <3>1. PICK k \in 1..(n - 1) : s[k] # path[k]
      BY <1>2, <2>1, <2>2, <2>4 DEF Beside
    <3>2. k <= m
      BY <2>4
    <3> QED
      BY <1>2, <3>1, <3>2, <2>1, <2>2
  <2>5. CASE m < n - 1
    <3>0. m <= n
      BY <2>5
    <3>1. PICK k \in 1..m : s[k] # path[k]
      BY <3>0, <2>2, <2>3 DEF Below
    <3>2. k \in 1..(n - 1) /\ k <= m
      BY <2>5
    <3> QED
      BY <1>2, <3>1, <3>2, <2>1, <2>2
  <2> QED
    BY <2>4, <2>5
<1>3. ASSUME NEW q \in DOMAIN leaf1, NEW r \in DOMAIN leaf1, q # r, Below(leaf1[q], leaf1[r])
      PROVE  FALSE
  <2>0. ~Below(leaf[q], leaf[r])
    BY <1>3 DEF IsTree
  <2>1. CASE Beside(leaf[q], path, n) /\ Beside(leaf[r], path, n)
    <3>1. PICK s \in Seq(Side), t \in Seq(Side), s1 \in Seq(Side), t1 \in Seq(Side) :
            s = leaf[q] /\ t = leaf[r] /\ s1 = leaf1[q] /\ t1 = leaf1[r]
      OBVIOUS
    <3>2. PICK a \in Nat, b \in Nat : a = Len(s) /\ b = Len(t)
      OBVIOUS
    <3>3. /\ n <= a /\ \A k \in 1..(n - 1) : s[k] = path[k]
          /\ s[n] \in Side /\ s[n] # path[n] /\ path[n] \in Side
          /\ Len(s1) = a - 1 /\ \A k \in n..(a - 1) : s1[k] = s[k + 1]
      <4>1. CameUp(s, s1, path, n)
        BY <1>1, <2>1, <3>1
      <4> QED
        BY <4>1, <3>2 DEF CameUp
    <3>4. /\ n <= b /\ \A k \in 1..(n - 1) : t[k] = path[k]
          /\ t[n] \in Side /\ t[n] # path[n]
          /\ Len(t1) = b - 1 /\ \A k \in n..(b - 1) : t1[k] = t[k + 1]
      <4>1. CameUp(t, t1, path, n)
        BY <1>1, <2>1, <3>1
      <4> QED
        BY <4>1, <3>2 DEF CameUp
    <3>5. a - 1 <= b - 1 /\ \A k \in 1..(a - 1) : s1[k] = t1[k]
      BY <1>3, <3>1, <3>3, <3>4 DEF Below
    <3>6. s[n] = t[n]
      BY <3>3, <3>4 DEF Side
    <3>7. ASSUME NEW k \in 1..a
          PROVE  s[k] = t[k]
      <4>1. CASE k \in 1..(n - 1)
        BY <4>1, <3>3, <3>4
      <4>2. CASE k = n
        BY <4>2, <3>6
      <4>3. CASE k > n
        <5>1. k - 1 \in n..(a - 1) /\ k - 1 \in n..(b - 1) /\ k - 1 \in 1..(a - 1)
          BY <4>3, <3>5
        <5>2. s1[k - 1] = s[(k - 1) + 1] /\ t1[k - 1] = t[(k - 1) + 1] /\ s1[k - 1] = t1[k - 1]
          BY <5>1, <3>3, <3>4, <3>5
        <5>3. (k - 1) + 1 = k
          OBVIOUS
        <5> QED
          BY <5>2, <5>3
      <4> QED
        BY <4>1, <4>2, <4>3
    <3> QED
      BY <2>0, <3>1, <3>2, <3>5, <3>7 DEF Below
  <2>2. CASE Beside(leaf[q], path, n) /\ ~Beside(leaf[r], path, n)
    <3>1. PICK k \in 1..(n - 1) : leaf1[r][k] # path[k]
      BY <1>2, <2>2
    <3>2. leaf1[q][k] = path[k] /\ n <= Len(leaf[q]) /\ Len(leaf1[q]) = Len(leaf[q]) - 1
      BY <1>1, <2>2 DEF CameUp
    <3>3. Len(leaf[q]) \in Nat
      OBVIOUS
    <3>4. k \in 1..Len(leaf1[q])
      BY <3>2, <3>3
    <3> QED
      BY <1>3, <3>1, <3>2, <3>4 DEF Below
  <2>3. CASE ~Beside(leaf[q], path, n) /\ Beside(leaf[r], path, n)
    <3>1. PICK k \in 1..(n - 1) : k <= Len(leaf1[q]) /\ leaf1[q][k] # path[k]
      BY <1>2, <2>3
    <3>2. leaf1[r][k] = path[k]
      BY <1>1, <2>3 DEF CameUp
    <3>3. k \in 1..Len(leaf1[q])
      BY <3>1
    <3> QED
      BY <1>3, <3>1, <3>2, <3>3 DEF Below
  <2>4. CASE ~Beside(leaf[q], path, n) /\ ~Beside(leaf[r], path, n)
    BY <1>2, <1>3, <2>0, <2>4
  <2> QED
    BY <2>1, <2>2, <2>3, <2>4
<1>4. ASSUME NEW q \in DOMAIN leaf1, NEW i \in 1..Len(leaf1[q]), Beside(leaf[q], path, n)
      PROVE  \E r \in DOMAIN leaf1 : Forks(leaf1[q], leaf1[r], i)
  <2>1. PICK s \in Seq(Side), s1 \in Seq(Side) : s = leaf[q] /\ s1 = leaf1[q]
    OBVIOUS
  <2>2. PICK a \in Nat : a = Len(s)
    OBVIOUS
  <2>3. /\ n <= a /\ \A k \in 1..(n - 1) : s[k] = path[k]
        /\ s[n] \in Side /\ s[n] # path[n] /\ path[n] \in Side
        /\ Len(s1) = a - 1 /\ \A k \in 1..(n - 1) : s1[k] = path[k]
        /\ \A k \in n..(a - 1) : s1[k] = s[k + 1]
    <3>1. CameUp(s, s1, path, n)
      BY <1>1, <1>4, <2>1
    <3> QED
      BY <3>1, <2>2 DEF CameUp
  <2>4. i \in Nat \ {0} /\ i <= a - 1
    BY <2>1, <2>3
  <2>5. CASE i < n
    <3>1. i \in 1..a /\ i \in 1..(n - 1) /\ i \in 1..n /\ \A k \in 1..(i - 1) : k \in 1..(n - 1)
      BY <2>4, <2>5
    <3>2. PICK r \in DOMAIN leaf : Forks(s, leaf[r], i)
      BY <3>1, <2>1, <2>2 DEF IsTree
    <3>3. i <= Len(leaf[r]) /\ leaf[r][i] # s[i] /\ \A k \in 1..(i - 1) : leaf[r][k] = s[k]
      BY <3>2 DEF Forks
    <3>4. leaf[r][i] # path[i]
      BY <3>1, <3>3, <2>3
    <3>5. r # p /\ r \in DOMAIN leaf1
      BY <3>4
    <3>6. leaf1[r] = leaf[r]
      BY <3>1, <3>4, <3>5, <1>2 DEF Beside
    <3>7. s1[i] = s[i] /\ \A k \in 1..(i - 1) : s1[k] = s[k]
      BY <3>1, <2>3
    <3>8. Forks(s1, leaf1[r], i)
      BY <3>3, <3>6, <3>7 DEF Forks
    <3> QED
      BY <3>5, <3>8, <2>1
  <2>6. CASE ~(i < n)
    <3>1. /\ i + 1 \in 1..a /\ n \in 1..i /\ i \in n..(a - 1) /\ (i + 1) - 1 = i
          /\ \A k \in 1..(n - 1) : k \in 1..i
      BY <2>4, <2>6
    <3>2. PICK r \in DOMAIN leaf : Forks(s, leaf[r], i + 1)
      BY <3>1, <2>1, <2>2 DEF IsTree
    <3>3. PICK t \in Seq(Side) : t = leaf[r]
      OBVIOUS
    <3>4. PICK b \in Nat : b = Len(t)
      OBVIOUS
    <3>5. i + 1 <= b /\ t[i + 1] # s[i + 1] /\ \A k \in 1..i : t[k] = s[k]
      BY <3>1, <3>2, <3>3, <3>4 DEF Forks
    <3>6. t[n] # path[n]
      BY <3>1, <3>5, <2>3
    <3>7. r \in DOMAIN leaf1
      BY <3>3, <3>6
    <3>8. n - 1 <= b /\ \A k \in 1..(n - 1) : t[k] = path[k]
      BY <3>1, <3>5, <2>3, <2>6
    <3>9. Beside(leaf[r], path, n)
      BY <3>8, <3>3, <3>4 DEF Beside
    <3>10. PICK t1 \in Seq(Side) :
             /\ t1 = leaf1[r] /\ Len(t1) = b - 1 /\ \A k \in 1..(n - 1) : t1[k] = path[k]
             /\ \A k \in n..(b - 1) : t1[k] = t[k + 1]
      <4>1. PICK t1 \in Seq(Side) : t1 = leaf1[r]
        BY <3>7
      <4>2. CameUp(t, t1, path, n)
        BY <1>1, <3>3, <3>7, <3>9, <4>1
      <4>3. /\ Len(t1) = b - 1 /\ \A k \in 1..(n - 1) : t1[k] = path[k]
            /\ \A k \in n..(b - 1) : t1[k] = t[k + 1]
        BY <4>2, <3>4 DEF CameUp
      <4> QED
        BY <4>1, <4>3
    <3>11. i <= b - 1 /\ i \in n..(b - 1)
      BY <3>1, <3>5
    <3>12. t1[i] # s1[i]
      BY <3>1, <3>5, <3>10, <3>11, <2>3
    <3>13. ASSUME NEW k \in 1..(i - 1)
           PROVE  t1[k] = s1[k]
      <4>1. CASE k \in 1..(n - 1)
        BY <4>1, <3>10, <2>3
      <4>2. CASE k \notin 1..(n - 1)
        <5>1. k \in n..(a - 1) /\ k \in n..(b - 1) /\ k + 1 \in 1..i
          BY <4>2, <2>4, <3>11, SMTT(30)
        <5> QED
          BY <5>1, <3>5, <3>10, <2>3
      <4> QED
        BY <4>1, <4>2
    <3>14. Forks(s1, t1, i)
      BY <3>10, <3>11, <3>12, <3>13 DEF Forks
    <3> QED
      BY <3>7, <3>10, <3>14, <2>1
  <2> QED
    BY <2>5, <2>6
<1>5. ASSUME NEW q \in DOMAIN leaf1, NEW i \in 1..Len(leaf1[q]), ~Beside(leaf[q], path, n)
      PROVE  \E r \in DOMAIN leaf1 : Forks(leaf1[q], leaf1[r], i)
  <2>1. PICK s \in Seq(Side) : s = leaf[q] /\ s = leaf1[q]
    BY <1>2, <1>5
  <2>2. PICK a \in Nat : a = Len(s)
    OBVIOUS
  <2>3. i \in 1..a
    BY <2>1, <2>2
  <2>4. PICK r \in DOMAIN leaf : Forks(s, leaf[r], i)
    <3>1. q \in DOMAIN leaf /\ i \in 1..Len(leaf[q])
      BY <2>1, <2>2, <2>3
    <3>2. \E r \in DOMAIN leaf : Forks(leaf[q], leaf[r], i)
      BY <3>1 DEF IsTree
    <3> QED
      BY <3>2, <2>1
  <2>5. i <= Len(leaf[r]) /\ leaf[r][i] # s[i] /\ \A k \in 1..(i - 1) : leaf[r][k] = s[k]
    BY <2>4 DEF Forks
  <2>6. ASSUME \A k \in 1..(i - 1) : path[k] = s[k], n <= i
        PROVE  FALSE
    <3>1. n - 1 <= a /\ \A k \in 1..(n - 1) : k \in 1..(i - 1)
      BY <2>3, <2>6
    <3> QED
      BY <3>1, <2>1, <2>2, <2>6, <1>5 DEF Beside
  <2>7. CASE r = p
    <3>1. i < n
      BY <2>3, <2>5, <2>6, <2>7
    <3>2. n \in 1..n /\ i \in 1..(n - 1) /\ \A k \in 1..(i - 1) : k \in 1..(n - 1)
      BY <2>3, <3>1
    <3>3. PICK u \in DOMAIN leaf : Forks(path, leaf[u], n)
      BY <3>2 DEF IsTree
    <3>4. n <= Len(leaf[u]) /\ leaf[u][n] # path[n] /\ \A k \in 1..(n - 1) : leaf[u][k] = path[k]
      BY <3>3 DEF Forks
    <3>5. u \in DOMAIN leaf1 /\ Len(leaf[u]) \in Nat
      BY <3>4
    <3>6. Beside(leaf[u], path, n)
      BY <3>4, <3>5 DEF Beside
    <3>7. Len(leaf1[u]) = Len(leaf[u]) - 1 /\ \A k \in 1..(n - 1) : leaf1[u][k] = path[k]
      BY <1>1, <3>5, <3>6 DEF CameUp
    <3>8. i <= Len(leaf1[u])
      BY <3>1, <3>4, <3>5, <3>7, <2>3
    <3>9. path[i] # s[i] /\ \A k \in 1..(i - 1) : path[k] = s[k]
      BY <2>5, <2>7
    <3>10. Forks(s, leaf1[u], i)
      BY <3>2, <3>7, <3>8, <3>9 DEF Forks
    <3> QED
      BY <3>5, <3>10, <2>1
  <2>8. CASE r # p /\ Beside(leaf[r], path, n)
    <3>0. r \in DOMAIN leaf1 /\ Len(leaf[r]) \in Nat
      BY <2>8
    <3>1. /\ n <= Len(leaf[r]) /\ Len(leaf1[r]) = Len(leaf[r]) - 1
          /\ \A k \in 1..(n - 1) : leaf[r][k] = path[k]
          /\ \A k \in 1..(n - 1) : leaf1[r][k] = path[k]
      BY <1>1, <2>8, <3>0 DEF CameUp
    <3>2. i < n
      <4>1. SUFFICES ASSUME n <= i
                     PROVE  FALSE
        BY <2>3
      <4>2. n - 1 <= a /\ \A k \in 1..(n - 1) : k \in 1..(i - 1)
        BY <2>3, <4>1
      <4>3. \A k \in 1..(n - 1) : s[k] = path[k]
        BY <4>2, <2>5, <3>1
      <4> QED
        BY <4>2, <4>3, <2>1, <2>2, <1>5 DEF Beside
    <3>3. i \in 1..(n - 1) /\ \A k \in 1..(i - 1) : k \in 1..(n - 1)
      BY <2>3, <3>2
    <3>4. i <= Len(leaf1[r])
      BY <2>3, <3>0, <3>1, <3>2
    <3>5. Forks(s, leaf1[r], i)
      BY <2>5, <3>1, <3>3, <3>4 DEF Forks
    <3> QED
      BY <3>0, <3>5, <2>1
  <2>9. CASE r # p /\ ~Beside(leaf[r], path, n)
    BY <1>2, <2>1, <2>4, <2>9
  <2> QED
    BY <2>7, <2>8, <2>9
<1> QED
  BY <1>3, <1>4, <1>5 DEF IsTree

\* Two paths of which one ends where the other turns last.
LEMMA ComingUp ==
    ASSUME NEW path \in Seq(Side), NEW n \in Nat \ {0}, n = Len(path), NEW s \in Seq(Side), NEW s1,
           s1 = Front(path) \o SubSeq(s, Len(path) + 1, Len(s))
    PROVE  /\ IsPrefix(Front(path), s) <=> Beside(s, path, n)
           /\ s1 \in Seq(Side)
           /\ Beside(s, path, n) /\ n <= Len(s) => ComesUp(s, s1, n)
<1>1. PICK f \in Seq(Side) :
        f = Front(path) /\ Len(f) = n - 1 /\ \A k \in 1..(n - 1) : f[k] = path[k]
  <2>1. /\ SubSeq(path, 1, n - 1) \in Seq(Side) /\ Len(SubSeq(path, 1, n - 1)) = n - 1
        /\ \A k \in 1..(n - 1) : SubSeq(path, 1, n - 1)[k] = path[k]
    OBVIOUS
  <2>2. Front(path) = SubSeq(path, 1, n - 1)
    BY DEF Front
  <2> QED
    BY <2>1, <2>2
<1>2. PICK m \in Nat : m = Len(s)
  OBVIOUS
<1>3. IsPrefix(f, s) <=> Below(f, s)
  BY PrefixIsBelow
<1>4. Below(f, s) <=> Beside(s, path, n)
  BY <1>1 DEF Below, Beside
<1>5. PICK t \in Seq(Side) : t = SubSeq(s, n + 1, m)
  <2>1. \A i \in (n + 1)..m : s[i] \in Side
    BY <1>2
  <2>2. n + 1 \in Int /\ m \in Int
    OBVIOUS
  <2>3. SubSeq(s, n + 1, m) \in Seq(Side)
    BY <2>1, <2>2, SubSeqProperties
  <2> QED
    BY <2>3
<1>6. s1 = f \o t
  BY <1>1, <1>2, <1>5
<1>7. s1 \in Seq(Side)
  BY <1>6, ConcatProperties, ZenonT(30)
<1>8. ASSUME Beside(s, path, n), n <= m
      PROVE  ComesUp(s, s1, n)
  <2>1. Len(t) = m - n /\ \A k \in 1..(m - n) : t[k] = s[n + k]
    <3>1. m - n \in Nat /\ n + 1 \in 1..(m + 1) /\ m \in n..m
      BY <1>8
    <3>2. Len(t) = m - n
      BY <1>2, <1>5, <3>1
    <3>3. ASSUME NEW k \in 1..(m - n)
          PROVE  t[k] = s[n + k]
      <4>1. t[k] = s[(n + 1) + k - 1]
        BY <1>2, <1>5, <3>1, <3>2
      <4>2. (n + 1) + k - 1 = n + k
        OBVIOUS
      <4> QED
        BY <4>1, <4>2
    <3> QED
      BY <3>2, <3>3
  <2>2. Len(s1) = m - 1
    <3>1. Len(s1) = Len(f) + Len(t)
      BY <1>6, ConcatProperties
    <3> QED
      BY <3>1, <2>1, <1>1
  <2>3. ASSUME NEW k \in 1..(n - 1)
        PROVE  s1[k] = s[k]
    <3>1. s1[k] = f[k]
      BY <1>1, <1>6, ConcatProperties
    <3> QED
      BY <3>1, <1>1, <1>8 DEF Beside
  <2>4. ASSUME NEW k \in n..(m - 1)
        PROVE  s1[k] = s[k + 1]
    <3>1. k - (n - 1) \in 1..(m - n) /\ k > n - 1 /\ k \in 1..((n - 1) + (m - n))
      OBVIOUS
    <3>2. s1[k] = t[k - (n - 1)]
      <4>1. PICK a \in Nat, b \in Nat : a = n - 1 /\ b = m - n
        <5>1. n - 1 \in Nat /\ m - n \in Nat
          BY ONLY <1>8, n \in Nat \ {0}, m \in Nat
        <5> QED
          BY <5>1
      <4>2. Len(f) = a /\ Len(t) = b /\ k \in 1..(a + b) /\ ~(k <= a)
        BY <4>1, <3>1, <1>1, <2>1
      <4>3. s1[k] = IF k <= Len(f) THEN f[k] ELSE t[k - Len(f)]
        BY <4>2, <1>6, ConcatProperties
      <4> QED
        BY <4>1, <4>2, <4>3
    <3>3. n + (k - (n - 1)) = k + 1
      OBVIOUS
    <3> QED
      BY <3>1, <3>2, <3>3, <2>1
  <2> QED
    BY <2>2, <2>3, <2>4, <1>2 DEF ComesUp
<1> QED
  BY <1>1, <1>2, <1>3, <1>4, <1>7, <1>8

LEMMA WithoutLeafIs ==
    ASSUME \A q \in DOMAIN wsLeaf : wsLeaf[q] \in Seq(Side), IsTree(wsLeaf), NEW p
    PROVE  /\ DOMAIN WithoutLeaf(p) = DOMAIN wsLeaf \ {p}
           /\ \A q \in DOMAIN WithoutLeaf(p) : WithoutLeaf(p)[q] \in Seq(Side)
           /\ IsTree(WithoutLeaf(p))
<1>1. CASE p \notin DOMAIN wsLeaf
  BY <1>1 DEF WithoutLeaf
<1>2. CASE p \in DOMAIN wsLeaf /\ wsLeaf[p] = <<>>
  <2>1. \A q \in DOMAIN wsLeaf : Below(wsLeaf[p], wsLeaf[q])
    BY <1>2 DEF Below
  <2>2. DOMAIN wsLeaf = {p}
    BY <1>2, <2>1 DEF IsTree
  <2>3. DOMAIN WithoutLeaf(p) = {}
    BY <1>2, <2>2 DEF WithoutLeaf
  <2> QED
    BY <2>2, <2>3 DEF IsTree
<1>3. CASE p \in DOMAIN wsLeaf /\ wsLeaf[p] # <<>>
  <2>1. PICK path \in Seq(Side) : path = wsLeaf[p]
    BY <1>3
  <2>2. PICK n \in Nat \ {0} : n = Len(path)
    BY <1>3, <2>1, EmptySeq
  <2>3. PICK leaf1 : leaf1 = WithoutLeaf(p)
    OBVIOUS
  <2>4. leaf1 = [q \in DOMAIN wsLeaf \ {p} |->
                    IF IsPrefix(Front(path), wsLeaf[q])
                    THEN Front(path) \o SubSeq(wsLeaf[q], Len(path) + 1, Len(wsLeaf[q]))
                    ELSE wsLeaf[q]]
    BY <1>3, <2>1, <2>3 DEF WithoutLeaf
  <2>5. DOMAIN leaf1 = DOMAIN wsLeaf \ {p}
    BY <2>4
  <2>6. ASSUME NEW q \in DOMAIN leaf1
        PROVE  /\ leaf1[q] \in Seq(Side)
               /\ Beside(wsLeaf[q], path, n) /\ n <= Len(wsLeaf[q])
                      => ComesUp(wsLeaf[q], leaf1[q], n)
               /\ ~Beside(wsLeaf[q], path, n) => leaf1[q] = wsLeaf[q]
    <3>1. PICK s \in Seq(Side) : s = wsLeaf[q]
      BY <2>5
    <3>2. PICK s1 : s1 = Front(path) \o SubSeq(s, Len(path) + 1, Len(s))
      OBVIOUS
    <3>3. leaf1[q] = IF IsPrefix(Front(path), s) THEN s1 ELSE s
      BY <2>4, <2>5, <3>1, <3>2
    <3>4. /\ IsPrefix(Front(path), s) <=> Beside(s, path, n)
          /\ s1 \in Seq(Side)
          /\ Beside(s, path, n) /\ n <= Len(s) => ComesUp(s, s1, n)
      BY <2>2, <3>2, ComingUp
    <3> QED
      BY <3>1, <3>3, <3>4
  <2>7. IsTree(leaf1)
    BY <1>3, <2>1, <2>2, <2>5, <2>6, RemovalIsTree
  <2> QED
    BY <2>3, <2>5, <2>6, <2>7
<1> QED
  BY <1>1, <1>2, <1>3

\* The tabs: each panel once.
Distinct(tabs) == \A i, j \in 1..Len(tabs) : tabs[i] = tabs[j] => i = j

LEMMA TheTabs ==
    ASSUME NEW S, NEW tabs \in Seq(S)
    PROVE  ToSet(tabs) = {tabs[i] : i \in 1..Len(tabs)}
BY DEF ToSet

LEMMA FirstPart ==
    ASSUME NEW S, NEW s \in Seq(S), NEW j \in Nat, j <= Len(s)
    PROVE  /\ SubSeq(s, 1, j) \in Seq(S) /\ Len(SubSeq(s, 1, j)) = j
           /\ \A k \in 1..j : SubSeq(s, 1, j)[k] = s[k]
OBVIOUS

LEMMA RemoveAtIs ==
    ASSUME NEW S, NEW s \in Seq(S), NEW i \in 1..Len(s)
    PROVE  /\ RemoveAt(s, i) \in Seq(S) /\ Len(RemoveAt(s, i)) = Len(s) - 1
           /\ \A k \in 1..(i - 1) : RemoveAt(s, i)[k] = s[k]
           /\ \A k \in i..(Len(s) - 1) : RemoveAt(s, i)[k] = s[k + 1]
<1>1. PICK m \in Nat : m = Len(s)
  OBVIOUS
<1>2. i \in Nat /\ i - 1 \in Nat /\ m - i \in Nat
  BY <1>1
<1>3. PICK u \in Seq(S) :
        u = SubSeq(s, 1, i - 1) /\ Len(u) = i - 1 /\ \A k \in 1..(i - 1) : u[k] = s[k]
  <2>1. PICK j \in Nat : j = i - 1
    BY <1>2
  <2>2. j <= Len(s)
    BY <1>1, <2>1
  <2>3. /\ SubSeq(s, 1, j) \in Seq(S) /\ Len(SubSeq(s, 1, j)) = j
        /\ \A k \in 1..j : SubSeq(s, 1, j)[k] = s[k]
    BY <2>2, FirstPart
  <2> QED
    BY <2>1, <2>3, Zenon
<1>4. PICK t \in Seq(S) : t = SubSeq(s, i + 1, m)
  <2>1. \A k \in (i + 1)..m : s[k] \in S
    BY <1>1
  <2>2. i + 1 \in Int /\ m \in Int
    OBVIOUS
  <2>3. SubSeq(s, i + 1, m) \in Seq(S)
    BY <2>1, <2>2, SubSeqProperties
  <2> QED
    BY <2>3
<1>5. Len(t) = m - i /\ \A k \in 1..(m - i) : t[k] = s[i + k]
  <2>1. i + 1 \in 1..(m + 1) /\ m \in i..m
    BY <1>1
  <2>2. Len(t) = m - i
    BY <1>1, <1>4, <2>1
  <2>3. ASSUME NEW k \in 1..(m - i)
        PROVE  t[k] = s[i + k]
    <3>1. t[k] = s[(i + 1) + k - 1]
      BY <1>1, <1>4, <2>1, <2>2
    <3>2. (i + 1) + k - 1 = i + k
      BY <1>2
    <3> QED
      BY <3>1, <3>2
  <2> QED
    BY <2>2, <2>3
<1>6. PICK r : r = RemoveAt(s, i)
  OBVIOUS
<1>7. r = u \o t
  BY <1>1, <1>3, <1>4, <1>6 DEF RemoveAt
<1>8. PICK a \in Nat, b \in Nat : a = i - 1 /\ b = m - i
  BY <1>2
<1>9. /\ r \in Seq(S) /\ Len(r) = a + b
      /\ \A k \in 1..(a + b) : r[k] = IF k <= a THEN u[k] ELSE t[k - a]
  <2>1. Len(u) = a /\ Len(t) = b
    BY <1>3, <1>5, <1>8
  <2> QED
    BY <1>7, <2>1, ConcatProperties
<1>10. a + b = m - 1
  BY <1>2, <1>8
<1>11. ASSUME NEW k \in 1..(i - 1)
       PROVE  r[k] = s[k]
  <2>1. k \in 1..(a + b) /\ k <= a
    BY <1>2, <1>8
  <2> QED
    BY <2>1, <1>3, <1>9
<1>12. ASSUME NEW k \in i..(m - 1)
       PROVE  r[k] = s[k + 1]
  <2>1. k \in 1..(a + b) /\ ~(k <= a) /\ k - a \in 1..(m - i) /\ i + (k - a) = k + 1
    BY <1>2, <1>8
  <2>2. r[k] = t[k - a]
    BY <2>1, <1>9
  <2>3. t[k - a] = s[i + (k - a)]
    BY <2>1, <1>5
  <2> QED
    BY <2>1, <2>2, <2>3
<1> QED
  BY <1>1, <1>6, <1>9, <1>10, <1>11, <1>12

LEMMA InsertAtIs ==
    ASSUME NEW S, NEW s \in Seq(S), NEW i \in 1..(Len(s) + 1), NEW e \in S
    PROVE  /\ InsertAt(s, i, e) \in Seq(S) /\ Len(InsertAt(s, i, e)) = Len(s) + 1
           /\ \A k \in 1..(i - 1) : InsertAt(s, i, e)[k] = s[k]
           /\ InsertAt(s, i, e)[i] = e
           /\ \A k \in i..Len(s) : InsertAt(s, i, e)[k + 1] = s[k]
<1>1. PICK m \in Nat : m = Len(s)
  OBVIOUS
<1>2. i \in Nat /\ i - 1 \in Nat /\ m - (i - 1) \in Nat
  BY <1>1
<1>3. PICK u \in Seq(S) :
        u = SubSeq(s, 1, i - 1) /\ Len(u) = i - 1 /\ \A k \in 1..(i - 1) : u[k] = s[k]
  <2>1. PICK j \in Nat : j = i - 1
    BY <1>2
  <2>2. j <= Len(s)
    BY <1>1, <2>1
  <2>3. /\ SubSeq(s, 1, j) \in Seq(S) /\ Len(SubSeq(s, 1, j)) = j
        /\ \A k \in 1..j : SubSeq(s, 1, j)[k] = s[k]
    BY <2>2, FirstPart
  <2> QED
    BY <2>1, <2>3, Zenon
<1>4. PICK t \in Seq(S) : t = SubSeq(s, i, m)
  <2>1. \A k \in i..m : s[k] \in S
    BY <1>1
  <2>2. i \in Int /\ m \in Int
    OBVIOUS
  <2>3. SubSeq(s, i, m) \in Seq(S)
    BY <2>1, <2>2, SubSeqProperties
  <2> QED
    BY <2>3
<1>5. Len(t) = m - (i - 1) /\ \A k \in 1..(m - (i - 1)) : t[k] = s[(i - 1) + k]
  <2>1. i \in 1..(m + 1) /\ m \in (i - 1)..m
    BY <1>1
  <2>2. Len(t) = m - (i - 1)
    BY <1>1, <1>4, <2>1
  <2>3. ASSUME NEW k \in 1..(m - (i - 1))
        PROVE  t[k] = s[(i - 1) + k]
    <3>1. t[k] = s[i + k - 1]
      BY <1>1, <1>4, <2>1, <2>2
    <3>2. (i - 1) + k = i + k - 1
      BY <1>2
    <3> QED
      BY <3>1, <3>2
  <2> QED
    BY <2>2, <2>3
<1>6. PICK r : r = InsertAt(s, i, e)
  OBVIOUS
<1>7. PICK ue \in Seq(S) : ue = Append(u, e)
  <2>1. Append(u, e) \in Seq(S)
    BY AppendProperties
  <2> QED
    BY <2>1
<1>8. r = ue \o t
  <2>1. Append(u, e) = u \o <<e>>
    OBVIOUS
  <2> QED
    BY <2>1, <1>1, <1>3, <1>4, <1>6, <1>7 DEF InsertAt
<1>9. PICK b \in Nat : b = m - (i - 1)
  BY <1>2
<1>10. Len(ue) = i /\ ue[i] = e /\ \A k \in 1..(i - 1) : ue[k] = s[k]
  <2>1. Len(u) = i - 1 /\ (i - 1) + 1 = i
    BY <1>2, <1>3
  <2> QED
    BY <2>1, <1>3, <1>7, AppendProperties
<1>11. /\ r \in Seq(S) /\ Len(r) = i + b
       /\ \A k \in 1..(i + b) : r[k] = IF k <= i THEN ue[k] ELSE t[k - i]
  <2>1. Len(ue) = i /\ Len(t) = b
    BY <1>5, <1>9, <1>10
  <2> QED
    BY <1>8, <2>1, ConcatProperties
<1>12. i + b = m + 1
  BY <1>2, <1>9
<1>13. ASSUME NEW k \in 1..(i - 1)
       PROVE  r[k] = s[k]
  <2>1. k \in 1..(i + b) /\ k <= i
    BY <1>2, <1>9
  <2> QED
    BY <2>1, <1>10, <1>11
<1>14. r[i] = e
  <2>1. i \in 1..(i + b)
    BY <1>2, <1>9
  <2> QED
    BY <2>1, <1>2, <1>10, <1>11
<1>15. ASSUME NEW k \in i..m
       PROVE  r[k + 1] = s[k]
  <2>1. /\ k + 1 \in 1..(i + b) /\ ~(k + 1 <= i) /\ (k + 1) - i \in 1..(m - (i - 1))
        /\ (i - 1) + ((k + 1) - i) = k
    BY <1>2, <1>9
  <2>2. r[k + 1] = t[(k + 1) - i]
    BY <2>1, <1>11
  <2>3. t[(k + 1) - i] = s[(i - 1) + ((k + 1) - i)]
    BY <2>1, <1>5
  <2> QED
    BY <2>1, <2>2, <2>3
<1> QED
  BY <1>1, <1>6, <1>11, <1>12, <1>13, <1>14, <1>15

LEMMA TabAppended ==
    ASSUME NEW S, NEW tabs \in Seq(S), Distinct(tabs), NEW e \in S, e \notin ToSet(tabs),
           NEW r \in Seq(S), Len(r) = Len(tabs) + 1, r[Len(tabs) + 1] = e,
           \A k \in 1..Len(tabs) : r[k] = tabs[k]
    PROVE  Distinct(r) /\ ToSet(r) = ToSet(tabs) \cup {e}
<1>1. PICK m \in Nat : m = Len(tabs)
  OBVIOUS
<1>2. /\ r \in Seq(S) /\ Len(r) = m + 1 /\ r[m + 1] = e
      /\ \A k \in 1..m : r[k] = tabs[k]
  BY <1>1
<1>3. \A k \in 1..(m + 1) : k \in 1..m \/ k = m + 1
  OBVIOUS
<1>4. \A k \in 1..m : k \in 1..(m + 1) /\ m + 1 \in 1..(m + 1)
  OBVIOUS
<1>5. \A k \in 1..m : tabs[k] # e
  BY <1>1, TheTabs
<1>6. Distinct(r)
  BY <1>1, <1>2, <1>3, <1>5 DEF Distinct
<1>7. ToSet(r) = {r[k] : k \in 1..(m + 1)} /\ ToSet(tabs) = {tabs[k] : k \in 1..m}
  <2>1. DOMAIN r = 1..(m + 1) /\ DOMAIN tabs = 1..m
    BY <1>1, <1>2
  <2> QED
    BY <2>1 DEF ToSet
<1>8. m + 1 \in 1..(m + 1)
  OBVIOUS
<1>9. ToSet(r) = ToSet(tabs) \cup {e}
  BY <1>2, <1>3, <1>4, <1>7, <1>8
<1> QED
  BY <1>6, <1>9

LEMMA TabRemoved ==
    ASSUME NEW S, NEW tabs \in Seq(S), Distinct(tabs), NEW i \in 1..Len(tabs),
           NEW r, r = RemoveAt(tabs, i)
    PROVE  /\ r \in Seq(S) /\ Distinct(r) /\ ToSet(r) = ToSet(tabs) \ {tabs[i]}
           /\ Len(r) = Len(tabs) - 1
<1>1. PICK m \in Nat : m = Len(tabs)
  OBVIOUS
<1>2. /\ r \in Seq(S) /\ Len(r) = m - 1
      /\ \A k \in 1..(i - 1) : r[k] = tabs[k]
      /\ \A k \in i..(m - 1) : r[k] = tabs[k + 1]
  BY <1>1, RemoveAtIs
<1>3. \A k \in 1..(m - 1) : r[k] = IF k < i THEN tabs[k] ELSE tabs[k + 1]
  <2>1. \A k \in 1..(m - 1) : k < i => k \in 1..(i - 1)
    OBVIOUS
  <2>2. \A k \in 1..(m - 1) : ~(k < i) => k \in i..(m - 1)
    OBVIOUS
  <2> QED
    BY <2>1, <2>2, <1>2
<1>4. ASSUME NEW k \in 1..(m - 1), NEW j \in 1..(m - 1), r[k] = r[j]
      PROVE  k = j
  <2>1. k \in 1..m /\ k + 1 \in 1..m /\ j \in 1..m /\ j + 1 \in 1..m
    OBVIOUS
  <2>2. CASE k < i /\ j < i
    BY <2>1, <2>2, <1>1, <1>3, <1>4 DEF Distinct
  <2>3. CASE k < i /\ ~(j < i)
    <3>1. k = j + 1
      BY <2>1, <2>3, <1>1, <1>3, <1>4 DEF Distinct
    <3> QED
      BY <3>1, <2>3
  <2>4. CASE ~(k < i) /\ j < i
    <3>1. k + 1 = j
      BY <2>1, <2>4, <1>1, <1>3, <1>4 DEF Distinct
    <3> QED
      BY <3>1, <2>4
  <2>5. CASE ~(k < i) /\ ~(j < i)
    <3>1. k + 1 = j + 1
      BY <2>1, <2>5, <1>1, <1>3, <1>4 DEF Distinct
    <3> QED
      BY <3>1
  <2> QED
    BY <2>2, <2>3, <2>4, <2>5
<1>5. Distinct(r)
  BY <1>2, <1>4 DEF Distinct
<1>6. ToSet(r) = {r[k] : k \in 1..(m - 1)} /\ ToSet(tabs) = {tabs[k] : k \in 1..m}
  BY <1>1, <1>2, TheTabs
<1>7. ASSUME NEW k \in 1..(m - 1)
      PROVE  r[k] \in ToSet(tabs) \ {tabs[i]}
  <2>1. PICK j \in 1..m : j = IF k < i THEN k ELSE k + 1
    <3>1. k \in 1..m /\ k + 1 \in 1..m
      OBVIOUS
    <3> QED
      BY <3>1
  <2>2. j # i
    BY <2>1
  <2>3. r[k] = tabs[j]
    BY <2>1, <1>3
  <2>4. tabs[j] # tabs[i]
    BY <2>2, <1>1 DEF Distinct
  <2> QED
    BY <2>3, <2>4, <1>6
<1>8. ASSUME NEW j \in 1..m, tabs[j] # tabs[i]
      PROVE  \E k \in 1..(m - 1) : r[k] = tabs[j]
  <2>1. j # i
    BY <1>8
  <2>2. CASE j < i
    <3>1. j \in 1..(m - 1)
      BY <2>2, <1>1
    <3> QED
      BY <3>1, <2>2, <1>3
  <2>3. CASE j > i
    <3>1. j - 1 \in 1..(m - 1) /\ ~(j - 1 < i) /\ (j - 1) + 1 = j
      BY <2>3, <1>1
    <3>2. r[j - 1] = tabs[j]
      BY <3>1, <1>3
    <3> QED
      BY <3>1, <3>2
  <2> QED
    BY <2>1, <2>2, <2>3
<1>9. ToSet(r) = ToSet(tabs) \ {tabs[i]}
  BY <1>6, <1>7, <1>8, SMTT(30)
<1> QED
  BY <1>1, <1>2, <1>5, <1>9

LEMMA TabInserted ==
    ASSUME NEW S, NEW tabs \in Seq(S), Distinct(tabs), NEW i \in 1..(Len(tabs) + 1),
           NEW e \in S, e \notin ToSet(tabs), NEW r, r = InsertAt(tabs, i, e)
    PROVE  r \in Seq(S) /\ Distinct(r) /\ ToSet(r) = ToSet(tabs) \cup {e}
<1>1. PICK m \in Nat : m = Len(tabs)
  OBVIOUS
<1>2. /\ r \in Seq(S) /\ Len(r) = m + 1
      /\ \A k \in 1..(i - 1) : r[k] = tabs[k]
      /\ r[i] = e
      /\ \A k \in i..m : r[k + 1] = tabs[k]
  BY <1>1, InsertAtIs
<1>3. \A k \in 1..(m + 1) : k # i => r[k] = IF k < i THEN tabs[k] ELSE tabs[k - 1]
  <2> TAKE k \in 1..(m + 1)
  <2> HAVE k # i
  <2>1. CASE k < i
    <3>1. k \in 1..(i - 1)
      BY <2>1
    <3> QED
      BY <3>1, <2>1, <1>2
  <2>2. CASE ~(k < i)
    <3>1. k - 1 \in i..m /\ (k - 1) + 1 = k
      BY <2>2, <1>1
    <3>2. r[(k - 1) + 1] = tabs[k - 1]
      BY <3>1, <1>2
    <3> QED
      BY <3>1, <3>2, <2>2
  <2> QED
    BY <2>1, <2>2
<1>4. \A k \in 1..m : tabs[k] # e
  BY <1>1, TheTabs
<1>5. \A k \in 1..(m + 1) : k # i => r[k] # e
  <2> TAKE k \in 1..(m + 1)
  <2> HAVE k # i
  <2>1. k < i => k \in 1..m
    BY <1>1
  <2>2. ~(k < i) => k - 1 \in 1..m
    BY <1>1
  <2> QED
    BY <2>1, <2>2, <1>3, <1>4
<1>6. ASSUME NEW k \in 1..(m + 1), NEW j \in 1..(m + 1), r[k] = r[j]
      PROVE  k = j
  <2>1. CASE k = i \/ j = i
    BY <2>1, <1>2, <1>5, <1>6
  <2>2. CASE k < i /\ j < i
    <3>1. k \in 1..m /\ j \in 1..m /\ k # i /\ j # i
      BY <2>2, <1>1
    <3> QED
      BY <3>1, <2>2, <1>1, <1>3, <1>6 DEF Distinct
  <2>3. CASE k < i /\ j > i
    <3>1. k \in 1..m /\ j - 1 \in 1..m /\ k # i /\ j # i /\ ~(j < i) /\ k # j - 1
      BY <2>3, <1>1
    <3>2. r[k] = tabs[k] /\ r[j] = tabs[j - 1]
      BY <3>1, <2>3, <1>3
    <3> QED
      BY <3>1, <3>2, <1>1, <1>6 DEF Distinct
  <2>4. CASE k > i /\ j < i
    <3>1. j \in 1..m /\ k - 1 \in 1..m /\ k # i /\ j # i /\ ~(k < i) /\ j # k - 1
      BY <2>4, <1>1
    <3>2. r[j] = tabs[j] /\ r[k] = tabs[k - 1]
      BY <3>1, <2>4, <1>3
    <3> QED
      BY <3>1, <3>2, <1>1, <1>6 DEF Distinct
  <2>5. CASE k > i /\ j > i
    <3>1. k - 1 \in 1..m /\ j - 1 \in 1..m /\ k # i /\ j # i /\ ~(k < i) /\ ~(j < i)
      BY <2>5, <1>1
    <3>2. r[j] = tabs[j - 1] /\ r[k] = tabs[k - 1]
      BY <3>1, <1>3
    <3>3. k - 1 = j - 1
      BY <3>1, <3>2, <1>1, <1>6 DEF Distinct
    <3> QED
      BY <3>3
  <2> QED
    BY <2>1, <2>2, <2>3, <2>4, <2>5
<1>7. Distinct(r)
  BY <1>2, <1>6 DEF Distinct
<1>8. ToSet(r) = {r[k] : k \in 1..(m + 1)} /\ ToSet(tabs) = {tabs[k] : k \in 1..m}
  BY <1>1, <1>2, TheTabs
<1>9. ASSUME NEW k \in 1..(m + 1)
      PROVE  r[k] \in ToSet(tabs) \cup {e}
  <2>1. CASE k = i
    BY <2>1, <1>2
  <2>2. CASE k # i
    <3>1. k < i => k \in 1..m
      BY <1>1
    <3>2. ~(k < i) => k - 1 \in 1..m
      BY <2>2, <1>1
    <3> QED
      BY <3>1, <3>2, <2>2, <1>3, <1>8
  <2> QED
    BY <2>1, <2>2
<1>10. ASSUME NEW j \in 1..m
       PROVE  tabs[j] \in ToSet(r)
  <2>1. CASE j < i
    <3>1. j \in 1..(m + 1) /\ j # i
      BY <2>1
    <3> QED
      BY <3>1, <2>1, <1>3, <1>8
  <2>2. CASE ~(j < i)
    <3>1. j + 1 \in 1..(m + 1) /\ j \in i..m
      BY <2>2
    <3> QED
      BY <3>1, <1>2, <1>8
  <2> QED
    BY <2>1, <2>2
<1>11. e \in ToSet(r)
  BY <1>1, <1>2, <1>8
<1>12. ToSet(r) = ToSet(tabs) \cup {e}
  BY <1>8, <1>9, <1>10, <1>11
<1> QED
  BY <1>2, <1>7, <1>12

WsPanes(leaf, open) ==
    /\ DOMAIN leaf \subseteq open /\ (DOMAIN leaf = {} <=> open = {})
    /\ \A p \in DOMAIN leaf : leaf[p] \in Seq(Side)
    /\ IsTree(leaf)

\* The focused panel has a pane, or was split off a hidden tab.
WsInv ==
    /\ WsTypeOK
    /\ Distinct(wsTabs) /\ ToSet(wsTabs) = Open
    /\ WsPanes(wsLeaf, Open)
    /\ wsFocus \in Open \cup {None} /\ (wsFocus = None <=> Open = {})
    /\ wsFocus # None => wsFocus \in DOMAIN wsLeaf \cup wsBlind
    /\ WsIntentArrives /\ WsQuestionStands

LEMMA RootPanes ==
    ASSUME NEW open, NEW p \in open
    PROVE  WsPanes(RootIs(p), open)
<1>1. <<>> \in Seq(Side)
  OBVIOUS
<1>2. DOMAIN RootIs(p) = {p} /\ RootIs(p)[p] \in Seq(Side)
  BY <1>1, RootIsTree
<1>3. \A q \in DOMAIN RootIs(p) : RootIs(p)[q] \in Seq(Side)
  BY <1>2
<1> QED
  BY <1>2, <1>3, RootIsTree DEF WsPanes

LEMMA WsInvInit == WsInit => WsInv
<1>1. SUFFICES ASSUME WsInit
               PROVE  WsInv
  OBVIOUS
<1>2. WsTypeOK
  <2>1. <<>> \in Seq(Panel) /\ DOMAIN NoLeaf = {}
    BY DEF NoLeaf
  <2>2. wsTool \in [Panel -> Tool \cup {None}]
    BY <1>1 DEF WsInit
  <2> QED
    BY <1>1, <2>1, <2>2 DEF WsInit, WsTypeOK
<1>3. Open = {}
  BY <1>1 DEF WsInit, Open
<1>4. Len(wsTabs) = 0 /\ DOMAIN wsTabs = {}
  BY <1>1 DEF WsInit
<1>5. Distinct(wsTabs) /\ ToSet(wsTabs) = {}
  BY <1>4 DEF Distinct, ToSet
<1>6. DOMAIN wsLeaf = {}
  BY <1>1 DEF WsInit, NoLeaf
<1>7. WsPanes(wsLeaf, {})
  BY <1>6 DEF WsPanes, IsTree
<1> QED
  BY <1>1, <1>2, <1>3, <1>5, <1>7 DEF WsInit, WsInv, WsIntentArrives, WsQuestionStands

\* What an action that leaves panels, tabs, panes and focus alone has to keep.
LEMMA WsQuietKeeps ==
    ASSUME WsInv, UNCHANGED <<wsTool, wsTabs, wsLeaf, wsFocus, wsBlind>>,
           wsDirty' \subseteq Panel, wsClosing' \in Open \cup {None},
           wsTaken' \in {wsTaken, None}, wsAway' \in BOOLEAN
    PROVE  WsInv'
<1>1. Open' = Open /\ Open \subseteq Panel
  BY DEF Open
<1>2. WsTypeOK'
  BY <1>1 DEF WsInv, WsTypeOK
<1>3. WsIntentArrives'
  BY <1>1 DEF WsInv, WsIntentArrives
<1> QED
  BY <1>1, <1>2, <1>3 DEF WsInv, WsQuestionStands

LEMMA WsFlagsKeep ==
    ASSUME WsInv
    PROVE  /\ WsCancels \/ WsLeaves \/ WsReturns => WsInv'
           /\ \A p \in Panel : WsAsksToClose(p) \/ WsTypes(p) \/ WsSaves(p) => WsInv'
<1>1. WsCancels => WsInv'
  BY WsQuietKeeps DEF WsCancels, WsInv, WsTypeOK
<1>2. WsLeaves => WsInv'
  BY WsQuietKeeps DEF WsLeaves, WsInv, WsTypeOK, WsQuestionStands
<1>3. WsReturns => WsInv'
  BY WsQuietKeeps DEF WsReturns, WsInv, WsTypeOK, WsQuestionStands
<1>4. ASSUME NEW p \in Panel, WsAsksToClose(p)
      PROVE  WsInv'
  BY <1>4, WsQuietKeeps DEF WsAsksToClose, WsInv, WsTypeOK
<1>5. ASSUME NEW p \in Panel, WsTypes(p)
      PROVE  WsInv'
  BY <1>5, WsQuietKeeps DEF WsTypes, WsInv, WsTypeOK, WsQuestionStands
<1>6. ASSUME NEW p \in Panel, WsSaves(p)
      PROVE  WsInv'
  BY <1>6, WsQuietKeeps DEF WsSaves, WsInv, WsTypeOK, WsQuestionStands
<1> QED
  BY <1>1, <1>2, <1>3, <1>4, <1>5, <1>6

\* Panels as they are: a pane for the focus, no question.
LEMMA FocusesKeeps ==
    ASSUME WsInv, NEW p \in Open, Focuses(p), UNCHANGED <<wsTool, wsTabs>>
    PROVE  /\ Open' = Open /\ WsPanes(wsLeaf', Open)
           /\ wsFocus' = p /\ p \in DOMAIN wsLeaf'
<1>1. Open' = Open
  BY DEF Open
<1>2. CASE p \in DOMAIN wsLeaf
  BY <1>1, <1>2 DEF Focuses, WsInv
<1>3. CASE p \notin DOMAIN wsLeaf
  <2>1. wsLeaf' = RootIs(p)
    BY <1>3 DEF Focuses
  <2>3. WsPanes(RootIs(p), Open)
    BY RootPanes
  <2> QED
    BY <1>1, <2>1, <2>3, RootIsTree DEF Focuses
<1> QED
  BY <1>2, <1>3

\* What an action that shows one panel leaves.
LEMMA WsShowsKeeps ==
    ASSUME WsInv, wsTool' \in [Panel -> Tool \cup {None}], wsTabs' \in Seq(Panel),
           Distinct(wsTabs)', ToSet(wsTabs)' = Open', WsPanes(wsLeaf, Open)',
           wsFocus' \in Open' \cup {None}, wsFocus' = None <=> Open' = {},
           wsFocus' # None => wsFocus' \in (DOMAIN wsLeaf)' \cup wsBlind',
           wsBlind' \subseteq Panel, StillMounted, wsClosing' = None,
           wsTaken' \in Panel \cup {None}, WsIntentArrives', UNCHANGED wsAway
    PROVE  WsInv'
<1>1. Open' \subseteq Panel
  BY DEF Open
<1>2. wsDirty' \subseteq Panel
  BY DEF StillMounted, WsInv, WsTypeOK
<1>3. WsTypeOK'
  BY <1>1, <1>2 DEF WsTypeOK, WsInv, WsPanes
<1> QED
  BY <1>3 DEF WsInv, WsQuestionStands

LEMMA TabOpened ==
    ASSUME WsInv, NEW p \in Panel \ Open, wsTabs' = Append(wsTabs, p)
    PROVE  wsTabs' \in Seq(Panel) /\ Distinct(wsTabs)' /\ ToSet(wsTabs)' = Open \cup {p}
<1>1. PICK tabs \in Seq(Panel) : tabs = wsTabs /\ Distinct(tabs) /\ ToSet(tabs) = Open
  BY DEF WsInv, WsTypeOK
<1>2. PICK r \in Seq(Panel) :
        /\ r = wsTabs' /\ Len(r) = Len(tabs) + 1 /\ r[Len(tabs) + 1] = p
        /\ \A k \in 1..Len(tabs) : r[k] = tabs[k]
  BY <1>1, AppendProperties
<1>3. Distinct(r) /\ ToSet(r) = Open \cup {p}
  <2>1. p \in Panel /\ p \notin ToSet(tabs)
    BY <1>1
  <2>2. Distinct(tabs) /\ Len(r) = Len(tabs) + 1 /\ r[Len(tabs) + 1] = p
    BY <1>1, <1>2
  <2>3. \A k \in 1..Len(tabs) : r[k] = tabs[k]
    BY <1>2
  <2>4. Distinct(r) /\ ToSet(r) = ToSet(tabs) \cup {p}
    BY ONLY <2>1, <2>2, <2>3, tabs \in Seq(Panel), r \in Seq(Panel), TabAppended
  <2> QED
    BY <1>1, <2>4
<1>4. Distinct(wsTabs') /\ ToSet(wsTabs') = Open \cup {p}
  BY <1>2, <1>3
<1> QED
  BY <1>2, <1>3, <1>4

LEMMA OpensToolKeeps ==
    ASSUME WsInv, NEW t \in Tool, OpensTool(t)
    PROVE  /\ wsTool' \in [Panel -> Tool \cup {None}] /\ wsTabs' \in Seq(Panel)
           /\ Distinct(wsTabs)' /\ ToSet(wsTabs)' = Open' /\ WsPanes(wsLeaf, Open)'
           /\ wsFocus' \in Open' /\ wsTool'[wsFocus'] = t /\ wsFocus' \in (DOMAIN wsLeaf)'
<1>1. CASE \E p \in Open : wsTool[p] = t
  <2>1. PICK p \in Open : wsTool[p] = t /\ Focuses(p) /\ UNCHANGED <<wsTool, wsTabs>>
    BY <1>1 DEF OpensTool
  <2>2. /\ Open' = Open /\ WsPanes(wsLeaf', Open)
        /\ wsFocus' = p /\ p \in DOMAIN wsLeaf'
    BY <2>1, FocusesKeeps
  <2> QED
    BY <2>1, <2>2 DEF WsInv, WsTypeOK, Distinct
<1>2. CASE OpensNew(t)
  <2>1. PICK p \in Panel \ Open :
          /\ wsTool' = [wsTool EXCEPT ![p] = t]
          /\ wsTabs' = Append(wsTabs, p)
          /\ wsFocus' = p /\ wsLeaf' = RootIs(p)
    BY <1>2 DEF OpensNew
  <2>2. t # None
    BY WsNoneAssumption
  <2>3. wsTool' \in [Panel -> Tool \cup {None}] /\ wsTool'[p] = t
    BY <2>1 DEF WsInv, WsTypeOK
  <2>4. Open' = Open \cup {p}
    BY <2>1, <2>2, <2>3 DEF Open, WsInv, WsTypeOK
  <2>5. wsTabs' \in Seq(Panel) /\ Distinct(wsTabs)' /\ ToSet(wsTabs)' = Open \cup {p}
    BY <2>1, TabOpened
  <2>7. WsPanes(RootIs(p), Open \cup {p})
    BY RootPanes
  <2> QED
    BY <2>1, <2>3, <2>4, <2>5, <2>7, RootIsTree
<1> QED
  BY <1>1, <1>2 DEF OpensTool

LEMMA WsOpensKeep ==
    ASSUME WsInv, NEW t \in Tool
    PROVE  WsOpens(t) \/ WsOpensWithIntent(t) => WsInv'
<1>1. ASSUME WsOpens(t)
      PROVE  WsInv'
  <2>1. OpensTool(t) /\ wsBlind' \subseteq Panel /\ StillMounted /\ wsClosing' = None
    BY <1>1 DEF WsOpens, WsInv, WsTypeOK
  <2>2. WsIntentArrives' /\ wsTaken' = None /\ UNCHANGED wsAway
    BY <1>1 DEF WsOpens, WsIntentArrives
  <2>3. wsFocus' # None
    BY <2>1, OpensToolKeeps, WsNoneAssumption DEF Open
  <2> QED
    BY <2>1, <2>2, <2>3, OpensToolKeeps, WsShowsKeeps
<1>2. ASSUME WsOpensWithIntent(t)
      PROVE  WsInv'
  <2>1. OpensTool(t) /\ wsBlind' \subseteq Panel /\ StillMounted /\ wsClosing' = None
    BY <1>2 DEF WsOpensWithIntent, WsInv, WsTypeOK
  <2>2. PICK p \in Panel : wsTool'[p] = t /\ wsTaken' = p
    BY <1>2 DEF WsOpensWithIntent
  <2>3. wsFocus' # None
    BY <2>1, OpensToolKeeps, WsNoneAssumption DEF Open
  <2>4. WsIntentArrives'
    BY <2>1, <2>2, OpensToolKeeps DEF WsIntentArrives
  <2> QED
    BY <1>2, <2>1, <2>2, <2>3, <2>4, OpensToolKeeps, WsShowsKeeps DEF WsOpensWithIntent
<1> QED
  BY <1>1, <1>2

LEMMA WsFocusesKeeps ==
    ASSUME WsInv, NEW p \in Panel, WsFocuses(p)
    PROVE  WsInv'
<1>1. /\ p \in Open /\ Focuses(p) /\ UNCHANGED <<wsTool, wsTabs>> /\ StillMounted
      /\ wsClosing' = None /\ wsTaken' = None /\ UNCHANGED <<wsAway, wsBlind>>
  BY DEF WsFocuses
<1>2. WsIntentArrives'
  BY <1>1 DEF WsIntentArrives
<1>3. /\ Open' = Open /\ WsPanes(wsLeaf', Open) /\ wsFocus' = p /\ p \in DOMAIN wsLeaf'
  BY <1>1, FocusesKeeps
<1>4. wsFocus' # None
  BY <1>1, <1>3, WsNoneAssumption
<1>5. /\ wsTool' \in [Panel -> Tool \cup {None}] /\ wsTabs' \in Seq(Panel)
      /\ Distinct(wsTabs)' /\ ToSet(wsTabs)' = Open'
  BY <1>1, <1>3 DEF WsInv, WsTypeOK
<1> QED
  BY <1>1, <1>2, <1>3, <1>4, <1>5, WsShowsKeeps DEF WsInv, WsTypeOK

LEMMA WsSplitsKeeps ==
    ASSUME WsInv, NEW p \in Panel, WsSplits(p)
    PROVE  WsInv'
<1>1. PICK new \in Panel \ Open :
        /\ wsTool' = [wsTool EXCEPT ![new] = wsTool[p]]
        /\ wsTabs' = Append(wsTabs, new)
        /\ wsFocus' = new
        /\ IF p \in DOMAIN wsLeaf
           THEN /\ wsLeaf' = [q \in DOMAIN wsLeaf \cup {new} |->
                                  IF q = new THEN Append(wsLeaf[p], 2)
                                  ELSE IF q = p THEN Append(wsLeaf[p], 1) ELSE wsLeaf[q]]
                /\ UNCHANGED wsBlind
           ELSE wsBlind' = wsBlind \cup {new} /\ UNCHANGED wsLeaf
  BY DEF WsSplits
<1>2. /\ p \in Open /\ DOMAIN wsLeaf # {} /\ StillMounted
      /\ wsClosing' = None /\ wsTaken' = None /\ UNCHANGED wsAway
  BY DEF WsSplits
<1>3. wsTool[p] \in Tool \cup {None} /\ wsTool[p] # None
  BY <1>2 DEF WsInv, WsTypeOK, Open
<1>4. wsTool' \in [Panel -> Tool \cup {None}]
  BY <1>1, <1>3 DEF WsInv, WsTypeOK
<1>5. Open' = Open \cup {new}
  BY <1>1, <1>3, <1>4 DEF Open, WsInv, WsTypeOK
<1>6. wsTabs' \in Seq(Panel) /\ Distinct(wsTabs)' /\ ToSet(wsTabs)' = Open \cup {new}
  BY <1>1, TabOpened
<1>7. WsPanes(wsLeaf, Open)
  BY DEF WsInv
<1>8. WsPanes(wsLeaf', Open \cup {new}) /\ new \in DOMAIN wsLeaf' \cup wsBlind'
  <2>1. CASE p \in DOMAIN wsLeaf
    <3>1. new \notin DOMAIN wsLeaf
      BY <1>7 DEF WsPanes
    <3>2. PICK leaf1 : leaf1 = wsLeaf'
      OBVIOUS
    <3>3. leaf1 = [q \in DOMAIN wsLeaf \cup {new} |->
                      IF q = new THEN Append(wsLeaf[p], 2)
                      ELSE IF q = p THEN Append(wsLeaf[p], 1) ELSE wsLeaf[q]]
      BY <2>1, <3>2, <1>1
    <3>4. DOMAIN leaf1 = DOMAIN wsLeaf \cup {new}
      BY <3>3
    <3>5. (\A q \in DOMAIN leaf1 : leaf1[q] \in Seq(Side)) /\ IsTree(leaf1)
      <4>1. (\A q \in DOMAIN wsLeaf : wsLeaf[q] \in Seq(Side)) /\ IsTree(wsLeaf)
        BY <1>7 DEF WsPanes
      <4>2. /\ leaf1[new] = Append(wsLeaf[p], 2) /\ leaf1[p] = Append(wsLeaf[p], 1)
            /\ \A q \in DOMAIN wsLeaf \ {p} : leaf1[q] = wsLeaf[q]
        BY <2>1, <3>1, <3>3
      <4> QED
        BY <2>1, <3>1, <3>4, <4>1, <4>2, SplitIsTree
    <3>6. WsPanes(leaf1, Open \cup {new})
      BY <3>4, <3>5, <1>7 DEF WsPanes
    <3> QED
      BY <3>2, <3>4, <3>6
  <2>2. CASE p \notin DOMAIN wsLeaf
    BY <2>2, <1>1, <1>2, <1>7 DEF WsPanes
  <2> QED
    BY <2>1, <2>2
<1>9. wsFocus' # None
  BY <1>1, WsNoneAssumption
<1>10. WsIntentArrives' /\ wsBlind' \subseteq Panel
  BY <1>1, <1>2 DEF WsIntentArrives, WsInv, WsTypeOK
<1> QED
  BY <1>1, <1>2, <1>4, <1>5, <1>6, <1>8, <1>9, <1>10, WsShowsKeeps

LEMMA IndexInIs ==
    ASSUME NEW S, NEW seq \in Seq(S), NEW x \in ToSet(seq)
    PROVE  IndexIn(seq, x) \in 1..Len(seq) /\ seq[IndexIn(seq, x)] = x
<1>1. DOMAIN seq = 1..Len(seq)
  OBVIOUS
<1>2. \E i \in 1..Len(seq) : seq[i] = x
  BY TheTabs
<1> QED
  BY <1>1, <1>2 DEF IndexIn

LEMMA TabsWithoutIs ==
    ASSUME WsInv, NEW p \in Open
    PROVE  /\ TabsWithout(p) \in Seq(Panel) /\ Distinct(TabsWithout(p))
           /\ ToSet(TabsWithout(p)) = Open \ {p}
           /\ Len(TabsWithout(p)) = Len(wsTabs) - 1
<1>1. wsTabs \in Seq(Panel) /\ Distinct(wsTabs) /\ ToSet(wsTabs) = Open
  BY DEF WsInv, WsTypeOK
<1>2. IndexIn(wsTabs, p) \in 1..Len(wsTabs) /\ wsTabs[IndexIn(wsTabs, p)] = p
  BY <1>1, IndexInIs
<1>3. TabsWithout(p) = RemoveAt(wsTabs, IndexIn(wsTabs, p))
  BY <1>1 DEF TabsWithout
<1> QED
  BY <1>1, <1>2, <1>3, TabRemoved

LEMMA WsReordersKeeps ==
    ASSUME WsInv, NEW p \in Panel, NEW target \in Panel, WsReorders(p, target)
    PROVE  WsInv'
<1>1. /\ p \in Open /\ target \in Open
      /\ wsTabs' = InsertAt(TabsWithout(p), IndexIn(wsTabs, target), p)
      /\ UNCHANGED <<wsTool, wsLeaf, wsFocus, wsDirty, wsClosing, wsTaken, wsAway, wsBlind>>
  BY DEF WsReorders
<1>2. PICK without \in Seq(Panel) :
        /\ without = TabsWithout(p) /\ Distinct(without) /\ ToSet(without) = Open \ {p}
        /\ Len(without) = Len(wsTabs) - 1
  BY <1>1, TabsWithoutIs
<1>3. wsTabs \in Seq(Panel) /\ ToSet(wsTabs) = Open
  BY DEF WsInv, WsTypeOK
<1>4. PICK i \in 1..Len(wsTabs) : i = IndexIn(wsTabs, target)
  BY <1>1, <1>3, IndexInIs
<1>5. i \in 1..(Len(without) + 1)
  BY <1>2, <1>3
<1>6. PICK tabs : tabs = wsTabs' /\ tabs = InsertAt(without, i, p)
  BY <1>1, <1>2, <1>4
<1>7. tabs \in Seq(Panel) /\ Distinct(tabs) /\ ToSet(tabs) = (Open \ {p}) \cup {p}
  BY <1>2, <1>5, <1>6, TabInserted
<1>8. Open' = Open
  BY <1>1 DEF Open
<1>9. /\ wsTabs' \in Seq(Panel) /\ Distinct(wsTabs') /\ ToSet(wsTabs') = Open
  BY <1>1, <1>6, <1>7
<1>10. WsTypeOK'
  BY <1>1, <1>9 DEF WsInv, WsTypeOK
<1>11. WsIntentArrives' /\ WsQuestionStands'
  BY <1>1, <1>8 DEF WsInv, WsIntentArrives, WsQuestionStands
<1> QED
  BY <1>1, <1>8, <1>9, <1>10, <1>11 DEF WsInv

LEMMA ClosesKeeps ==
    ASSUME WsInv, NEW p \in Open, Closes(p)
    PROVE  /\ wsTool' \in [Panel -> Tool \cup {None}] /\ wsTabs' \in Seq(Panel)
           /\ Distinct(wsTabs)' /\ ToSet(wsTabs)' = Open' /\ WsPanes(wsLeaf, Open)'
           /\ wsFocus' \in Open' \cup {None} /\ (wsFocus' = None <=> Open' = {})
           /\ wsFocus' # None => wsFocus' \in (DOMAIN wsLeaf)'
<1>1. PICK tabs \in Seq(Panel) :
        tabs = TabsWithout(p) /\ Distinct(tabs) /\ ToSet(tabs) = Open \ {p}
  BY TabsWithoutIs
<1>2. PICK focus : focus = IF wsFocus # p THEN wsFocus ELSE IF tabs = <<>> THEN None ELSE Last(tabs)
  OBVIOUS
<1>3. PICK leaf : leaf = WithoutLeaf(p)
  OBVIOUS
<1>4. /\ wsTool' = [wsTool EXCEPT ![p] = None]
      /\ wsTabs' = tabs /\ wsFocus' = focus
      /\ wsLeaf' = IF focus = None THEN NoLeaf
                   ELSE IF focus \in DOMAIN leaf THEN leaf ELSE RootIs(focus)
  BY <1>1, <1>2, <1>3 DEF Closes
<1>5. p \in Panel
  BY DEF Open
<1>6. wsTool' \in [Panel -> Tool \cup {None}] /\ Open' = Open \ {p}
  BY <1>4, <1>5 DEF WsInv, WsTypeOK, Open
<1>7. focus \in (Open \ {p}) \cup {None} /\ (focus = None <=> Open \ {p} = {})
  <2>0. None \notin Open
    BY WsNoneAssumption DEF Open
  <2>1. CASE wsFocus # p
    <3>1. wsFocus \in Open
      BY DEF WsInv
    <3> QED
      BY <2>0, <2>1, <3>1, <1>2
  <2>2. CASE wsFocus = p /\ tabs = <<>>
    <3>1. ToSet(tabs) = {}
      BY <2>2 DEF ToSet
    <3> QED
      BY <2>2, <3>1, <1>1, <1>2
  <2>3. CASE wsFocus = p /\ tabs # <<>>
    <3>1. Len(tabs) \in 1..Len(tabs)
      BY <2>3, EmptySeq
    <3>2. tabs[Len(tabs)] \in ToSet(tabs)
      BY <3>1, TheTabs
    <3>3. Last(tabs) \in Open \ {p}
      BY <3>2, <1>1 DEF Last
    <3> QED
      BY <2>0, <2>3, <3>3, <1>2
  <2> QED
    BY <2>1, <2>2, <2>3
<1>8. WsPanes(wsLeaf', Open \ {p}) /\ (focus # None => focus \in DOMAIN wsLeaf')
  <2>0. WsPanes(wsLeaf, Open)
    BY DEF WsInv
  <2>1. CASE focus = None
    <3>1. DOMAIN wsLeaf' = {}
      BY <2>1, <1>4 DEF NoLeaf
    <3> QED
      BY <2>1, <3>1, <1>7 DEF WsPanes, IsTree
  <2>2. CASE focus # None /\ focus \in DOMAIN leaf
    <3>1. /\ DOMAIN leaf = DOMAIN wsLeaf \ {p} /\ IsTree(leaf)
          /\ \A q \in DOMAIN leaf : leaf[q] \in Seq(Side)
      BY <2>0, <1>3, WithoutLeafIs DEF WsPanes
    <3>2. WsPanes(leaf, Open \ {p})
      BY <2>0, <2>2, <3>1 DEF WsPanes
    <3> QED
      BY <2>2, <3>2, <1>4
  <2>3. CASE focus # None /\ focus \notin DOMAIN leaf
    <3>2. WsPanes(RootIs(focus), Open \ {p})
      BY <2>3, <1>7, RootPanes
    <3> QED
      BY <2>3, <3>2, <1>4, RootIsTree
  <2> QED
    BY <2>1, <2>2, <2>3
<1> QED
  BY <1>1, <1>4, <1>6, <1>7, <1>8

LEMMA WsClosesKeep ==
    ASSUME WsInv
    PROVE  /\ WsConfirms => WsInv'
           /\ \A p \in Panel : WsCloses(p) => WsInv'
<1>1. ASSUME NEW p \in Open, Closes(p), StillMounted, wsTaken' = None, wsBlind' = wsBlind \ {p},
             wsClosing' = None, UNCHANGED wsAway
      PROVE  WsInv'
  <2>1. WsIntentArrives' /\ wsBlind' \subseteq Panel
    BY <1>1 DEF WsIntentArrives, WsInv, WsTypeOK
  <2> QED
    BY <1>1, <2>1, ClosesKeeps, WsShowsKeeps
<1>2. WsConfirms => WsInv'
  BY <1>1 DEF WsConfirms, WsInv, WsQuestionStands
<1>3. ASSUME NEW p \in Panel, WsCloses(p)
      PROVE  WsInv'
  BY <1>1, <1>3 DEF WsCloses
<1> QED
  BY <1>2, <1>3

LEMMA WsInvNext == WsInv /\ [WsNext]_wsVars => WsInv'
<1>1. SUFFICES ASSUME WsInv, [WsNext]_wsVars
               PROVE  WsInv'
  OBVIOUS
<1>2. CASE UNCHANGED wsVars
  BY <1>1, <1>2, WsQuietKeeps DEF wsVars, WsInv, WsTypeOK, WsQuestionStands
<1>3. CASE WsNext
  <2>1. CASE WsConfirms \/ WsCancels \/ WsLeaves \/ WsReturns
    BY <1>1, <2>1, WsClosesKeep, WsFlagsKeep
  <2>2. ASSUME NEW t \in Tool, WsOpens(t) \/ WsOpensWithIntent(t)
        PROVE  WsInv'
    BY <1>1, <2>2, WsOpensKeep
  <2>3. ASSUME NEW p \in Panel,
               \/ WsFocuses(p) \/ WsSplits(p) \/ WsCloses(p) \/ WsAsksToClose(p)
               \/ WsTypes(p) \/ WsSaves(p)
        PROVE  WsInv'
    BY <1>1, <2>3, WsFocusesKeeps, WsSplitsKeeps, WsClosesKeep, WsFlagsKeep
  <2>4. ASSUME NEW p \in Panel, NEW target \in Panel, WsReorders(p, target)
        PROVE  WsInv'
    BY <1>1, <2>4, WsReordersKeeps
  <2> QED
    BY <1>3, <2>1, <2>2, <2>3, <2>4 DEF WsNext
<1> QED
  BY <1>1, <1>2, <1>3

\* As many tabs as panels.
LEMMA TabsCount ==
    ASSUME NEW S, NEW tabs \in Seq(S), Distinct(tabs)
    PROVE  Len(tabs) = Cardinality(ToSet(tabs))
<1>1. PICK m \in Nat : m = Len(tabs)
  OBVIOUS
<1>2. ToSet(tabs) = {tabs[i] : i \in 1..m}
  BY <1>1, TheTabs
<1>3. tabs \in [1..m -> ToSet(tabs)]
  BY <1>1, <1>2
<1>4. tabs \in Bijection(1..m, ToSet(tabs))
  BY <1>1, <1>2, <1>3, Fun_IsBij DEF Distinct
<1> QED
  BY <1>1, <1>4, FS_CountingElements DEF ExistsBijection

LEMMA WsInvHolds ==
    WsInv => WsLayoutIsWhole /\ WsFocusIsShown /\ WsIntentArrives /\ WsQuestionStands
<1>1. SUFFICES ASSUME WsInv
               PROVE  WsLayoutIsWhole /\ WsFocusIsShown
  BY DEF WsInv
<1>2. Len(wsTabs) = Cardinality(Open) /\ ToSet(wsTabs) = Open
  BY <1>1, TabsCount DEF WsInv, WsTypeOK
<1>3. WsLayoutIsWhole
  BY <1>1, <1>2, TreeIsWhole DEF WsInv, WsPanes, WsLayoutIsWhole
<1>4. WsFocusIsShown
  BY <1>1 DEF WsInv, WsFocusIsShown, Shown
<1> QED
  BY <1>3, <1>4

(***************************************************************************)
(* The deployment views.                                                   *)
(***************************************************************************)
PanelFields == {"snapshot", "selected", "snapsOf", "diffOf", "request", "intent", "history",
                "loaded", "entries", "entriesOf", "result", "change"}
DvPanelOK(p) ==
    /\ DOMAIN p = PanelFields
    /\ p.snapsOf \in Site \cup {None} /\ p.entriesOf \in Site \cup {None}
    /\ p.entriesOf = None => p.entries = {}
    /\ p.intent # None => p.intent.site \in Site

\* What came with answers is the same.
SameData(p, q) ==
    /\ q.history = p.history /\ q.entries = p.entries /\ q.entriesOf = p.entriesOf
    /\ q.result = p.result

LEMMA DvPanelMoves ==
    ASSUME NEW p, DvPanelOK(p), NEW v
    PROVE  /\ LET q == [p EXCEPT !.selected = v] IN DvPanelOK(q) /\ SameData(p, q)
           /\ LET q == [p EXCEPT !.diffOf = None, !.request = None] IN DvPanelOK(q) /\ SameData(p, q)
           /\ LET q == [p EXCEPT !.change = v] IN DvPanelOK(q) /\ SameData(p, q)
           /\ LET q == [p EXCEPT !.snapshot = v] IN DvPanelOK(q) /\ SameData(p, q)
           /\ v \in Site \cup {None} =>
                LET q == [p EXCEPT !.snapsOf = v] IN DvPanelOK(q) /\ SameData(p, q)
BY DEF DvPanelOK, SameData, PanelFields

LEMMA DvPanelRequests ==
    ASSUME NEW p, DvPanelOK(p), NEW v, NEW w
    PROVE  /\ LET q == [p EXCEPT !.diffOf = v, !.request = w] IN DvPanelOK(q) /\ SameData(p, q)
           /\ v.site \in Site =>
              LET q == [p EXCEPT !.intent = v] IN DvPanelOK(q) /\ SameData(p, q)
           /\ LET q == [p EXCEPT !.selected = None, !.snapsOf = None, !.diffOf = v, !.request = w]
              IN DvPanelOK(q) /\ SameData(p, q)
           /\ v \in Site =>
              LET q == [p EXCEPT !.selected = None, !.diffOf = None, !.request = None, !.snapsOf = v]
              IN DvPanelOK(q) /\ SameData(p, q)
BY DEF DvPanelOK, SameData, PanelFields

LEMMA FollowIs ==
    ASSUME NEW p, DvPanelOK(p)
    PROVE  DvPanelOK(Follow(p)) /\ SameData(p, Follow(p))
<1>1. CASE p.snapshot = None \/ p.intent = None
  BY <1>1 DEF Follow, SameData
<1>2. CASE ~(p.snapshot = None \/ p.intent = None)
  <2>1. PICK site \in Site : site = p.intent.site
    BY <1>2 DEF DvPanelOK
  <2>2. CASE p.intent.view = "snapshots"
    BY <1>2, <2>1, <2>2, DvPanelRequests DEF Follow
  <2>3. CASE p.intent.view = "diff"
    BY <1>2, <2>1, <2>3, DvPanelRequests, ZenonT(30) DEF Follow
  <2>4. CASE p.intent.view \notin {"snapshots", "diff"}
    BY <1>2, <2>1, <2>4, DvPanelMoves, ZenonT(30) DEF Follow, SameData
  <2> QED
    BY <2>2, <2>3, <2>4
<1> QED
  BY <1>1, <1>2

LEMMA RendersIs ==
    ASSUME NEW panel, DvPanelOK(panel), NEW calls, Renders(panel, calls)
    PROVE  /\ DvPanelOK(dvPanel') /\ SameData(panel, dvPanel')
           /\ DvView(dvPanel') = DvView(panel)
           /\ dvPanel'.snapsOf = panel.snapsOf /\ dvPanel'.diffOf = panel.diffOf
           /\ dvPanel'.request = panel.request
           /\ calls \subseteq dvCalls'
           /\ dvCalls' = calls \cup EntriesFor(panel) \cup DiffFor(panel) \cup HistoryFor(panel)
<1>1. PICK q : q = dvPanel'
  OBVIOUS
<1>2. PICK v : q = [panel EXCEPT !.change = v]
  BY <1>1 DEF Renders
<1>3. DvPanelOK(q) /\ SameData(panel, q)
  BY <1>2, DvPanelMoves
<1>4. /\ q.snapshot = panel.snapshot /\ q.selected = panel.selected /\ q.snapsOf = panel.snapsOf
      /\ q.diffOf = panel.diffOf /\ q.request = panel.request
  BY <1>2 DEF DvPanelOK, PanelFields
<1>5. DvView(q) = DvView(panel)
  BY <1>4 DEF DvView, Known
<1> QED
  BY <1>1, <1>3, <1>4, <1>5 DEF Renders

(***************************************************************************)
(* What is recorded, what is shown, and the calls between them.            *)
(***************************************************************************)
DvMainIs(m) ==
    /\ DOMAIN m = {"live", "scans", "cached", "recorded"}
    /\ m.scans \in Nat /\ m.scans <= MaxScans
    /\ m.cached # None => m.cached.at \in 1..m.scans
    /\ DOMAIN m.recorded \subseteq 1..m.scans
    /\ \A i \in DOMAIN m.recorded :
           DOMAIN m.recorded[i] = {"sites", "tags"} /\ DOMAIN m.recorded[i].tags = Site

\* Nothing recorded is lost or changed.
DvGrows(m, n) ==
    /\ DvMainIs(n)
    /\ \A i \in DOMAIN m.recorded : i \in DOMAIN n.recorded /\ n.recorded[i] = m.recorded[i]

DvListed(e, ids) == DOMAIN e = {"id", "tags"} /\ e.id \in ids /\ DOMAIN e.tags = Site

DvDataOK ==
    /\ \A e \in dvPanel.history : DvListed(e, Snapshots)
    /\ \A e \in dvPanel.entries : e.id \in Snapshots

\* What a call carries, and its answer.
DvCallIs(c, ids) ==
    /\ DOMAIN c = {"op", "site", "id", "what", "answer"}
    /\ c.op \in {"tag", "untag"} => c.id \in ids
    /\ c.op \in {"tag", "untag", "tagCurrent", "entries"} => c.site \in Site
    /\ c.op = "history" => c.what \in Site \cup {None}
    /\ c.op = "history" /\ c.answer # <<>> => \A e \in c.answer[1] : DvListed(e, ids)
    /\ c.op = "entries" /\ c.answer # <<>> => \A e \in c.answer[1] : e.id \in ids
    /\ c.op = "diff" /\ c.answer # <<>> =>
           c.answer[1].of = c.site /\ c.answer[1].request = c.what

DvCallsOK == \A c \in dvCalls : DvCallIs(c, Snapshots)

\* Tags differ from those shown only by what a call under way has done.
Differ(s, t) == (s \ t) \cup (t \ s)
DvTagsHistory(c) == c.op = "history" \/ (c.op = "tagCurrent" /\ c.answer # <<>>)
DvTagsOne(c, id, site) == c.op \in {"tag", "untag"} /\ c.id = id /\ c.site = site /\ c.answer # <<>>
DvTagsEntries(c) ==
    \/ c.op = "entries" \/ (c.op = "history" /\ c.what # None)
    \/ (c.op \in {"tag", "untag", "tagCurrent"} /\ c.answer # <<>>)

DvHistoryFollows ==
    "history" \notin dvOff =>
        \/ \E c \in dvCalls : DvTagsHistory(c)
        \/ \A e \in dvPanel.history : \A d \in Site :
               Differ(e.tags[d], Tags(e.id, d)) \subseteq
                   {c.what[1] : c \in {x \in dvCalls : DvTagsOne(x, e.id, d)}}
DvEntriesFollow ==
    "entries" \notin dvOff =>
        \/ \E c \in dvCalls : DvTagsEntries(c)
        \/ \A e \in dvPanel.entries : e.tags = Tags(e.id, dvPanel.entriesOf)

\* Rows and results of another deployment or request show only until the answer.
DvRowsFollow ==
    DvView(dvPanel) = "snapshots" /\ "entries" \notin dvOff =>
        \/ \E c \in dvCalls : c.op = "entries"
        \/ dvPanel.entriesOf = dvPanel.snapsOf
DvResultFollows ==
    DvView(dvPanel) = "diff" /\ "diff" \notin dvOff =>
        \/ \E c \in dvCalls : c.op = "diff"
        \/ /\ dvPanel.result # <<>>
           /\ dvPanel.result[1].of = dvPanel.diffOf
           /\ dvPanel.result[1].request = dvPanel.request

DvInv ==
    /\ DvMainIs(dvMain) /\ dvUp \in BOOLEAN /\ DvPanelOK(dvPanel) /\ DvDataOK /\ DvCallsOK
    /\ DvHistoryFollows /\ DvEntriesFollow /\ DvRowsFollow /\ DvResultFollows

LEMMA DvInvInit == DvInit => DvInv
<1>1. SUFFICES ASSUME DvInit
               PROVE  DvInv
  OBVIOUS
<1>2. dvOff = {} /\ dvCalls = {}
  BY <1>1 DEF DvInit
<1>3. DvCallsOK
  BY <1>2 DEF DvCallsOK
<1>4. CASE AtRest
  <2>1. /\ dvPanel.history = {} /\ dvPanel.entries = {} /\ dvPanel.snapshot = None
        /\ DvPanelOK(dvPanel)
    BY <1>4 DEF AtRest, DvPanel, DvPanelOK, PanelFields
  <2>2. DvMainIs(dvMain)
    <3>1. DOMAIN <<>> = {} /\ 0 <= MaxScans
      BY DvScansAssumption
    <3> QED
      BY <3>1, <1>4 DEF AtRest, DvMainIs
  <2>3. DvView(dvPanel) \notin {"snapshots", "diff"}
    BY <2>1 DEF DvView
  <2>4. DvDataOK /\ DvHistoryFollows /\ DvEntriesFollow /\ DvRowsFollow /\ DvResultFollows
    BY <2>1, <2>3 DEF DvDataOK, DvHistoryFollows, DvEntriesFollow, DvRowsFollow, DvResultFollows
  <2> QED
    BY <1>3, <1>4, <2>1, <2>2, <2>4 DEF DvInv, AtRest
<1>5. CASE OpenForAWhile
  <2>1. PICK changed \in Site, open \in Site \cup {None}, tags \in {{}, Label} :
           LET first == [d \in Site |-> 1]
               second == [first EXCEPT ![changed] = 2]
               untagged == [d \in Site |-> {}]
               tagged == [untagged EXCEPT ![changed] = tags]
               scan == [at |-> 2, sites |-> second]
           IN /\ dvMain = [live |-> second, scans |-> 2, cached |-> scan,
                           recorded |-> <<[sites |-> first, tags |-> untagged],
                                          [sites |-> second, tags |-> tagged]>>]
              /\ dvPanel = [DvPanel(None) EXCEPT !.snapshot = scan, !.loaded = TRUE,
                                !.history = {[id |-> 1, tags |-> untagged],
                                             [id |-> 2, tags |-> tagged]},
                                !.snapsOf = open, !.entriesOf = open,
                                !.entries = IF open # changed THEN {}
                                            ELSE {[id |-> 2, tags |-> tags,
                                                   changes |-> Cardinality(ChangesAt(2, open))]}]
    BY <1>5 DEF OpenForAWhile
  <2>2. PICK first : first = [d \in Site |-> 1]
    OBVIOUS
  <2>3. PICK second : second = [first EXCEPT ![changed] = 2]
    OBVIOUS
  <2>4. PICK untagged : untagged = [d \in Site |-> {}]
    OBVIOUS
  <2>5. PICK tagged : tagged = [untagged EXCEPT ![changed] = tags]
    OBVIOUS
  <2>6. PICK scan : scan = [at |-> 2, sites |-> second]
    OBVIOUS
  <2>7. /\ dvMain = [live |-> second, scans |-> 2, cached |-> scan,
                     recorded |-> <<[sites |-> first, tags |-> untagged],
                                    [sites |-> second, tags |-> tagged]>>]
        /\ dvPanel = [DvPanel(None) EXCEPT !.snapshot = scan, !.loaded = TRUE,
                          !.history = {[id |-> 1, tags |-> untagged], [id |-> 2, tags |-> tagged]},
                          !.snapsOf = open, !.entriesOf = open,
                          !.entries = IF open # changed THEN {}
                                      ELSE {[id |-> 2, tags |-> tags,
                                             changes |-> Cardinality(ChangesAt(2, open))]}]
    BY <2>1, <2>2, <2>3, <2>4, <2>5, <2>6, Zenon
  <2>8. /\ dvMain.scans = 2 /\ dvMain.cached.at = 2
        /\ DOMAIN dvMain = {"live", "scans", "cached", "recorded"}
        /\ DOMAIN dvMain.recorded = {1, 2}
        /\ dvMain.recorded[1] = [sites |-> first, tags |-> untagged]
        /\ dvMain.recorded[2] = [sites |-> second, tags |-> tagged]
    BY <2>7, <2>6
  <2>9. DOMAIN untagged = Site /\ DOMAIN tagged = Site /\ tagged[changed] = tags
    BY <2>4, <2>5
  <2>10. DvMainIs(dvMain)
    BY <2>8, <2>9, DvScansAssumption DEF DvMainIs
  <2>11. /\ dvPanel.history = {[id |-> 1, tags |-> untagged], [id |-> 2, tags |-> tagged]}
         /\ dvPanel.snapsOf = open /\ dvPanel.entriesOf = open
         /\ dvPanel.diffOf = None /\ dvPanel.request = None /\ dvPanel.intent = None
         /\ DOMAIN dvPanel = PanelFields
    BY <2>7 DEF DvPanel, PanelFields
  <2>12. \/ open # changed /\ dvPanel.entries = {}
         \/ open = changed /\ \A e \in dvPanel.entries : e.id = 2 /\ e.tags = tags
    BY <2>7 DEF DvPanel
  <2>13. DvPanelOK(dvPanel)
    BY <2>11, <2>12, DvNoneAssumption DEF DvPanelOK
  <2>14. Snapshots = {1, 2}
    BY <2>8 DEF Snapshots
  <2>15. ASSUME NEW e \in dvPanel.history
         PROVE  DvListed(e, Snapshots) /\ e.tags = dvMain.recorded[e.id].tags
    <3>1. e = [id |-> 1, tags |-> untagged] \/ e = [id |-> 2, tags |-> tagged]
      BY <2>11
    <3> QED
      BY <3>1, <2>8, <2>9, <2>14 DEF DvListed
  <2>16. ASSUME NEW e \in dvPanel.entries
         PROVE  e.id \in Snapshots /\ e.tags = Tags(e.id, dvPanel.entriesOf)
    <3>1. e.id = 2 /\ e.tags = tags /\ open = changed
      BY <2>12
    <3>2. Tags(2, changed) = tagged[changed]
      BY <2>8 DEF Tags
    <3> QED
      BY <3>1, <3>2, <2>11, <2>9, <2>14
  <2>17. /\ \A e \in dvPanel.history : DvListed(e, Snapshots) /\ e.tags = dvMain.recorded[e.id].tags
         /\ \A e \in dvPanel.entries : e.id \in Snapshots /\ e.tags = Tags(e.id, dvPanel.entriesOf)
    BY <2>15, <2>16
  <2>18. DvView(dvPanel) # "diff"
    BY <2>11 DEF DvView
  <2>19. DvDataOK /\ DvHistoryFollows /\ DvEntriesFollow /\ DvRowsFollow /\ DvResultFollows
    BY <2>11, <2>17, <2>18
       DEF DvDataOK, DvHistoryFollows, DvEntriesFollow, DvRowsFollow, DvResultFollows, Differ, Tags
  <2> QED
    BY <1>3, <1>5, <2>10, <2>13, <2>19 DEF DvInv, OpenForAWhile
<1> QED
  BY <1>1, <1>4, <1>5 DEF DvInit

(***************************************************************************)
(* Each part of the invariant, kept by what an action keeps.               *)
(***************************************************************************)
LEMMA DvCallsGrow ==
    ASSUME NEW c, NEW ids, DvCallIs(c, ids), NEW more, ids \subseteq more
    PROVE  DvCallIs(c, more)
BY DEF DvCallIs, DvListed

LEMMA DvHistoryKept ==
    ASSUME DvHistoryFollows, "history" \in dvOff => "history" \in dvOff',
           dvPanel'.history = dvPanel.history,
           \A e \in dvPanel.history : dvMain'.recorded[e.id].tags = dvMain.recorded[e.id].tags,
           \A c \in dvCalls : DvTagsHistory(c) => \E x \in dvCalls' : DvTagsHistory(x),
           \A c \in dvCalls : c.op \in {"tag", "untag"} /\ c.answer # <<>> => c \in dvCalls'
    PROVE  DvHistoryFollows'
<1>1. SUFFICES ASSUME "history" \notin dvOff', ~\E x \in dvCalls' : DvTagsHistory(x),
                      NEW e \in dvPanel.history, NEW d \in Site
               PROVE  Differ(e.tags[d], dvMain'.recorded[e.id].tags[d]) \subseteq
                          {c.what[1] : c \in {x \in dvCalls' : DvTagsOne(x, e.id, d)}}
  BY DEF DvHistoryFollows, Tags
<1>2. Differ(e.tags[d], dvMain.recorded[e.id].tags[d]) \subseteq
          {c.what[1] : c \in {x \in dvCalls : DvTagsOne(x, e.id, d)}}
  BY <1>1 DEF DvHistoryFollows, Tags
<1>3. \A x \in dvCalls : DvTagsOne(x, e.id, d) => x \in dvCalls'
  BY DEF DvTagsOne
<1> QED
  BY <1>2, <1>3

LEMMA DvEntriesKept ==
    ASSUME DvEntriesFollow, "entries" \in dvOff => "entries" \in dvOff',
           dvPanel'.entries = dvPanel.entries, dvPanel'.entriesOf = dvPanel.entriesOf,
           \A e \in dvPanel.entries : dvMain'.recorded[e.id].tags = dvMain.recorded[e.id].tags,
           \A c \in dvCalls : DvTagsEntries(c) => \E x \in dvCalls' : DvTagsEntries(x)
    PROVE  DvEntriesFollow'
<1>1. SUFFICES ASSUME "entries" \notin dvOff', ~\E x \in dvCalls' : DvTagsEntries(x),
                      NEW e \in dvPanel.entries
               PROVE  e.tags = dvMain'.recorded[e.id].tags[dvPanel.entriesOf]
  BY DEF DvEntriesFollow, Tags
<1> QED
  BY <1>1 DEF DvEntriesFollow, Tags

\* A view that comes on screen, or turns to something else, asks.
LEMMA DvRowsKept ==
    ASSUME NEW panel, DvPanelOK(panel), NEW calls, Renders(panel, calls),
           DvView(panel) = "snapshots" /\ DvView(dvPanel) = "snapshots" /\
               panel.snapsOf = dvPanel.snapsOf /\ "entries" \notin dvOff' =>
                   (\E c \in calls : c.op = "entries") \/ panel.entriesOf = panel.snapsOf
    PROVE  DvRowsFollow'
<1>1. SUFFICES ASSUME DvView(panel) = "snapshots", "entries" \notin dvOff',
                      ~\E c \in dvCalls' : c.op = "entries"
               PROVE  panel.entriesOf = panel.snapsOf
  BY RendersIs DEF DvRowsFollow, SameData
<1>2. Entries(panel.snapsOf).op = "entries"
  BY DEF Entries, Ask
<1>3. DvView(dvPanel) = "snapshots" /\ panel.snapsOf = dvPanel.snapsOf
  BY <1>1, <1>2, RendersIs DEF EntriesFor
<1>4. calls \subseteq dvCalls'
  BY RendersIs
<1> QED
  BY <1>1, <1>3, <1>4

LEMMA DvResultKept ==
    ASSUME NEW panel, DvPanelOK(panel), NEW calls, Renders(panel, calls),
           DvView(panel) = "diff" /\ DvView(dvPanel) = "diff" /\ panel.diffOf = dvPanel.diffOf /\
               panel.request = dvPanel.request /\ "diff" \notin dvOff' =>
                   \/ \E c \in calls : c.op = "diff"
                   \/ /\ panel.result # <<>> /\ panel.result[1].of = panel.diffOf
                      /\ panel.result[1].request = panel.request
    PROVE  DvResultFollows'
<1>1. SUFFICES ASSUME DvView(panel) = "diff", "diff" \notin dvOff',
                      ~\E c \in dvCalls' : c.op = "diff"
               PROVE  /\ panel.result # <<>> /\ panel.result[1].of = panel.diffOf
                      /\ panel.result[1].request = panel.request
  BY RendersIs DEF DvResultFollows, SameData
<1>2. Compare(panel.diffOf, panel.request).op = "diff"
  BY DEF Compare, Ask
<1>3. DvView(dvPanel) = "diff" /\ panel.diffOf = dvPanel.diffOf /\ panel.request = dvPanel.request
  BY <1>1, <1>2, RendersIs DEF DiffFor
<1>4. calls \subseteq dvCalls'
  BY RendersIs
<1> QED
  BY <1>1, <1>3, <1>4

LEMMA DvViewsAsk ==
    ASSUME NEW panel, DvPanelOK(panel), NEW c \in EntriesFor(panel) \cup DiffFor(panel) \cup HistoryFor(panel),
           NEW ids
    PROVE  DvCallIs(c, ids)
<1>1. CASE c \in EntriesFor(panel)
  <2>1. c = Entries(panel.snapsOf) /\ DvView(panel) = "snapshots"
    BY <1>1 DEF EntriesFor
  <2>2. panel.snapsOf \in Site
    BY <2>1 DEF DvView, Known, DvPanelOK
  <2> QED
    BY <2>1, <2>2 DEF Entries, Ask, DvCallIs
<1>2. CASE c \in DiffFor(panel)
  BY <1>2 DEF DiffFor, Compare, Ask, DvCallIs
<1>3. CASE c \in HistoryFor(panel)
  BY <1>3 DEF HistoryFor, History, Ask, DvCallIs
<1> QED
  BY <1>1, <1>2, <1>3

LEMMA DvCallsKept ==
    ASSUME NEW panel, DvPanelOK(panel), NEW calls, Renders(panel, calls), UNCHANGED dvMain,
           \A c \in calls : DvCallIs(c, Snapshots)
    PROVE  DvCallsOK'
<1>1. Snapshots' = Snapshots
  BY DEF Snapshots
<1> QED
  BY <1>1, RendersIs, DvViewsAsk DEF DvCallsOK

(***************************************************************************)
(* The user, and what is only sent.                                        *)
(***************************************************************************)
LEMMA DvShownKeeps ==
    ASSUME DvInv, NEW panel, DvPanelOK(panel), SameData(dvPanel, panel), NEW calls,
           Renders(panel, calls), UNCHANGED <<dvMain, dvUp, dvOff>>,
           \A c \in calls : DvCallIs(c, Snapshots),
           \A c \in dvCalls : c \in calls \/ c.op \in {"snapshot", "scan"}
    PROVE  DvInv'
<1>1. /\ dvPanel'.history = dvPanel.history /\ dvPanel'.entries = dvPanel.entries
      /\ dvPanel'.entriesOf = dvPanel.entriesOf
  BY RendersIs DEF SameData
<1>2. \A c \in dvCalls : c.op \notin {"snapshot", "scan"} => c \in calls /\ c \in dvCalls'
  BY RendersIs
<1>3. DvPanelOK(dvPanel')
  BY RendersIs
<1>4. DvCallsOK'
  BY DvCallsKept
<1>5. Snapshots' = Snapshots
  BY DEF Snapshots
<1>6. DvHistoryFollows'
  BY <1>1, <1>2, DvHistoryKept DEF DvInv, DvTagsHistory
<1>7. DvEntriesFollow'
  BY <1>1, <1>2, DvEntriesKept DEF DvInv, DvTagsEntries
<1>8. DvRowsFollow'
  <2>1. DvView(panel) = "snapshots" /\ DvView(dvPanel) = "snapshots" /\
            panel.snapsOf = dvPanel.snapsOf /\ "entries" \notin dvOff' =>
                (\E c \in calls : c.op = "entries") \/ panel.entriesOf = panel.snapsOf
    BY <1>2 DEF DvInv, DvRowsFollow, SameData
  <2> QED
    BY <2>1, DvRowsKept
<1>9. DvResultFollows'
  <2>1. DvView(panel) = "diff" /\ DvView(dvPanel) = "diff" /\ panel.diffOf = dvPanel.diffOf /\
            panel.request = dvPanel.request /\ "diff" \notin dvOff' =>
                \/ \E c \in calls : c.op = "diff"
                \/ /\ panel.result # <<>> /\ panel.result[1].of = panel.diffOf
                   /\ panel.result[1].request = panel.request
    BY <1>2 DEF DvInv, DvResultFollows, SameData
  <2> QED
    BY <2>1, DvResultKept
<1>10. DvDataOK'
  BY <1>1, <1>5 DEF DvInv, DvDataOK
<1> QED
  BY <1>3, <1>4, <1>6, <1>7, <1>8, <1>9, <1>10 DEF DvInv

LEMMA DvMovesKeep ==
    ASSUME DvInv, NEW panel, DvPanelOK(panel), SameData(dvPanel, panel), DvShows(panel)
    PROVE  DvInv'
<1>1. \A c \in dvCalls : DvCallIs(c, Snapshots)
  BY DEF DvInv, DvCallsOK
<1> QED
  BY <1>1, DvShownKeeps DEF DvShows, AfterMove

LEMMA DvUserKeeps ==
    ASSUME DvInv
    PROVE  /\ \A site \in Site : DvSelects(site) \/ DvOpensSnapshots(site) \/ DvOpensTagDiff(site) => DvInv'
           /\ \A from, to : DvCompares(from, to) => DvInv'
           /\ \A view, base : \A site \in Site : DvIntents(view, site, base) => DvInv'
           /\ \A change : DvPicks(change) => DvInv'
           /\ DvGoesBack => DvInv'
<1>0. DvPanelOK(dvPanel)
  BY DEF DvInv
<1>1. ASSUME NEW site \in Site, DvSelects(site)
      PROVE  DvInv'
  BY <1>0, <1>1, DvPanelMoves, DvMovesKeep DEF DvSelects
<1>2. ASSUME NEW site \in Site, DvOpensSnapshots(site)
      PROVE  DvInv'
  BY <1>0, <1>2, DvPanelMoves, DvMovesKeep DEF DvOpensSnapshots
<1>3. ASSUME NEW site \in Site, DvOpensTagDiff(site)
      PROVE  DvInv'
  BY <1>0, <1>3, DvPanelRequests, DvMovesKeep DEF DvOpensTagDiff
<1>4. ASSUME NEW from, NEW to, DvCompares(from, to)
      PROVE  DvInv'
  BY <1>0, <1>4, DvPanelRequests, DvMovesKeep DEF DvCompares
<1>5. ASSUME NEW view, NEW base, NEW site \in Site, DvIntents(view, site, base)
      PROVE  DvInv'
  <2>1. PICK v : v = [view |-> view, site |-> site, base |-> base]
    OBVIOUS
  <2>2. PICK p : p = [dvPanel EXCEPT !.intent = v]
    OBVIOUS
  <2>3. DvPanelOK(p) /\ SameData(dvPanel, p)
    <3>1. v.site \in Site
      BY <2>1
    <3> QED
      BY <3>1, <2>2, <1>0, DvPanelRequests
  <2>4. DvPanelOK(Follow(p)) /\ SameData(dvPanel, Follow(p))
    BY <2>3, FollowIs DEF SameData
  <2>5. DvShows(Follow(p))
    BY <1>5, <2>1, <2>2 DEF DvIntents
  <2> QED
    BY <2>4, <2>5, DvMovesKeep
<1>6. ASSUME NEW change, DvPicks(change)
      PROVE  DvInv'
  BY <1>0, <1>6, DvPanelMoves, DvMovesKeep DEF DvPicks
<1>7. ASSUME DvGoesBack
      PROVE  DvInv'
  <2>1. CASE DvShows([dvPanel EXCEPT !.selected = None])
    BY <1>0, <2>1, DvPanelMoves, DvMovesKeep
  <2>2. CASE DvShows([dvPanel EXCEPT !.diffOf = None, !.request = None])
    BY <1>0, <2>2, DvPanelMoves, DvMovesKeep
  <2>3. CASE DvShows([dvPanel EXCEPT !.snapsOf = None])
    BY <1>0, <2>3, DvPanelMoves, DvMovesKeep
  <2> QED
    BY <1>7, <2>1, <2>2, <2>3 DEF DvGoesBack
<1> QED
  BY <1>1, <1>2, <1>3, <1>4, <1>5, <1>6, <1>7

\* A call more, and nothing else.
LEMMA DvMoreCalls ==
    ASSUME DvInv, UNCHANGED <<dvMain, dvPanel, dvOff>>, dvUp' \in BOOLEAN, dvCalls \subseteq dvCalls',
           \A c \in dvCalls' \ dvCalls : DvCallIs(c, Snapshots)
    PROVE  DvInv'
<1>1. Snapshots' = Snapshots
  BY DEF Snapshots
<1>2. DvCallsOK'
  BY <1>1 DEF DvInv, DvCallsOK
<1>3. DvHistoryFollows' /\ DvEntriesFollow'
  BY DvHistoryKept, DvEntriesKept DEF DvInv
<1>4. DvRowsFollow' /\ DvResultFollows'
  BY DEF DvInv, DvRowsFollow, DvResultFollows
<1>5. DvDataOK'
  BY <1>1 DEF DvInv, DvDataOK
<1> QED
  BY <1>2, <1>3, <1>4, <1>5 DEF DvInv

LEMMA DvSendsKeep ==
    ASSUME DvInv, NEW call, DvCallIs(call, Snapshots), Sends(call)
    PROVE  DvInv'
BY DvMoreCalls DEF Sends, DvInv

LEMMA DvSentKeep ==
    ASSUME DvInv
    PROVE  /\ DvRefreshes \/ DvPolls \/ DvRereads => DvInv'
           /\ \A row, label : DvTags(row, label) \/ DvUntags(row, label) => DvInv'
           /\ \A label : DvTagsCurrent(label) => DvInv'
<1>1. On("snapshots") => dvPanel.snapsOf \in Site
  BY DEF On, DvView, Known, DvInv, DvPanelOK
<1>2. DvRefreshes \/ DvPolls \/ DvRereads => DvInv'
  <2>1. DvCallIs(Ask("scan", None, None, None), Snapshots)
    BY DEF DvCallIs, Ask
  <2>2. DvCallIs(Ask("snapshot", None, None, None), Snapshots)
    BY DEF DvCallIs, Ask
  <2>3. DvCallIs([History EXCEPT !.what = dvPanel.entriesOf], Snapshots)
    BY DEF DvCallIs, History, Ask, DvInv, DvPanelOK
  <2> QED
    BY <2>1, <2>2, <2>3, DvSendsKeep DEF DvRefreshes, DvPolls, DvRereads
<1>3. ASSUME NEW row, NEW label, DvTags(row, label) \/ DvUntags(row, label)
      PROVE  DvInv'
  <2>1. row.id \in Snapshots /\ dvPanel.snapsOf \in Site
    BY <1>1, <1>3 DEF DvTags, DvUntags, DvInv, DvDataOK
  <2>2. DvCallIs(Ask("tag", dvPanel.snapsOf, row.id, <<label, OfRows>>), Snapshots)
    BY <2>1 DEF DvCallIs, Ask
  <2>3. DvCallIs(Ask("untag", dvPanel.snapsOf, row.id, <<label, OfRows>>), Snapshots)
    BY <2>1 DEF DvCallIs, Ask
  <2> QED
    BY <1>3, <2>2, <2>3, DvSendsKeep DEF DvTags, DvUntags
<1>4. ASSUME NEW label, DvTagsCurrent(label)
      PROVE  DvInv'
  <2>1. DvCallIs(Ask("tagCurrent", dvPanel.snapsOf, None, <<label, OfRows>>), Snapshots)
    BY <1>1, <1>4 DEF DvCallIs, Ask, DvTagsCurrent
  <2> QED
    BY <1>4, <2>1, DvSendsKeep DEF DvTagsCurrent
<1> QED
  BY <1>2, <1>3, <1>4


(***************************************************************************)
(* The main process takes a call.                                          *)
(***************************************************************************)
LEMMA RecordIs ==
    ASSUME NEW m, DvMainIs(m), NEW scan, scan.at \in 1..m.scans
    PROVE  /\ DvGrows(m, Record(m, scan)) /\ scan.at \in DOMAIN Record(m, scan).recorded
           /\ Record(m, scan).scans = m.scans /\ Record(m, scan).cached = m.cached
<1>1. CASE scan.at \in DOMAIN m.recorded
  BY <1>1 DEF Record, DvGrows
<1>2. CASE scan.at \notin DOMAIN m.recorded
  <2>1. PICK snapshot : snapshot = [sites |-> scan.sites, tags |-> [d \in Site |-> {}]]
    OBVIOUS
  <2>2. PICK r : r = [i \in DOMAIN m.recorded \cup {scan.at} |->
                          IF i = scan.at THEN snapshot ELSE m.recorded[i]]
    OBVIOUS
  <2>3. Record(m, scan) = [m EXCEPT !.recorded = r]
    BY <1>2, <2>1, <2>2 DEF Record
  <2>4. /\ DOMAIN Record(m, scan) = DOMAIN m /\ Record(m, scan).scans = m.scans
        /\ Record(m, scan).cached = m.cached /\ Record(m, scan).recorded = r
    BY <2>3 DEF DvMainIs
  <2>5. DOMAIN r = DOMAIN m.recorded \cup {scan.at}
    BY <2>2
  <2>6. \A i \in DOMAIN m.recorded : r[i] = m.recorded[i]
    BY <1>2, <2>2
  <2>7. r[scan.at] = snapshot
    BY <2>2
  <2>8. \A i \in DOMAIN r : DOMAIN r[i] = {"sites", "tags"} /\ DOMAIN r[i].tags = Site
    <3>1. DOMAIN snapshot = {"sites", "tags"} /\ DOMAIN snapshot.tags = Site
      BY <2>1
    <3> QED
      BY <3>1, <2>5, <2>6, <2>7 DEF DvMainIs
  <2> QED
    BY <2>4, <2>5, <2>6, <2>8 DEF DvGrows, DvMainIs
<1> QED
  BY <1>1, <1>2

LEMMA ScannedIs ==
    ASSUME DvMainIs(dvMain), dvMain.scans < MaxScans
    PROVE  DvGrows(dvMain, Scanned) /\ Scanned.cached.at \in 1..Scanned.scans
<1>1. PICK scan : scan = [at |-> dvMain.scans + 1, sites |-> dvMain.live]
  OBVIOUS
<1>2. PICK main : main = [dvMain EXCEPT !.scans = scan.at, !.cached = scan]
  OBVIOUS
<1>3. Scanned = main \/ Scanned = Record(main, scan)
  BY <1>1, <1>2 DEF Scanned
<1>4. /\ DOMAIN main = DOMAIN dvMain /\ main.scans = scan.at /\ main.cached = scan
      /\ main.recorded = dvMain.recorded
  BY <1>2 DEF DvMainIs
<1>5. scan.at = dvMain.scans + 1
  BY <1>1
<1>6. scan.at \in Nat /\ scan.at <= MaxScans /\ scan.at \in 1..scan.at /\ 1..dvMain.scans \subseteq 1..scan.at
  BY <1>5, DvScansAssumption DEF DvMainIs
<1>7. DvGrows(dvMain, main) /\ main.cached.at \in 1..main.scans
  BY <1>4, <1>6 DEF DvGrows, DvMainIs
<1>8. DvMainIs(main) /\ scan.at \in 1..main.scans
  BY <1>4, <1>7 DEF DvGrows
<1>9. CASE Scanned = Record(main, scan)
  <2>1. PICK n : n = Record(main, scan)
    OBVIOUS
  <2>2. DvGrows(main, n) /\ n.scans = main.scans /\ n.cached = main.cached
    BY <1>8, <2>1, RecordIs
  <2>3. DvGrows(dvMain, n)
    BY <1>7, <2>2 DEF DvGrows
  <2> QED
    BY <1>4, <1>8, <1>9, <2>1, <2>2, <2>3
<1> QED
  BY <1>3, <1>7, <1>9

LEMMA GetSnapshotIs ==
    ASSUME DvMainIs(dvMain), NEW old, HasCached(old) \/ CanScan
    PROVE  DvGrows(dvMain, GetSnapshot(old)) /\ GetSnapshot(old).cached.at \in 1..GetSnapshot(old).scans
<1>1. CASE HasCached(old)
  BY <1>1 DEF GetSnapshot, HasCached, DvMainIs, DvGrows
<1>2. CASE ~HasCached(old)
  BY <1>2, ScannedIs DEF GetSnapshot, CanScan
<1> QED
  BY <1>1, <1>2

LEMMA TaggedIs ==
    ASSUME NEW m, DvMainIs(m), NEW id \in DOMAIN m.recorded, NEW site \in Site, NEW tags
    PROVE  LET n == Tagged(m, id, site, tags) IN
           /\ DvMainIs(n) /\ DOMAIN n.recorded = DOMAIN m.recorded
           /\ \A i \in DOMAIN m.recorded : \A d \in Site :
                  n.recorded[i].tags[d] = IF i = id /\ d = site THEN tags ELSE m.recorded[i].tags[d]
<1>1. PICK old : old = m.recorded[id]
  OBVIOUS
<1>2. DOMAIN old = {"sites", "tags"} /\ DOMAIN old.tags = Site
  BY <1>1 DEF DvMainIs
<1>3. PICK t : t = [old.tags EXCEPT ![site] = tags]
  OBVIOUS
<1>4. DOMAIN t = Site /\ \A d \in Site : t[d] = IF d = site THEN tags ELSE old.tags[d]
  BY <1>2, <1>3
<1>5. PICK snapshot : snapshot = [old EXCEPT !.tags = t]
  OBVIOUS
<1>6. DOMAIN snapshot = {"sites", "tags"} /\ snapshot.tags = t
  BY <1>2, <1>5
<1>7. PICK r : r = [m.recorded EXCEPT ![id] = snapshot]
  OBVIOUS
<1>8. /\ DOMAIN r = DOMAIN m.recorded /\ r[id] = snapshot
      /\ \A i \in DOMAIN m.recorded : i # id => r[i] = m.recorded[i]
  BY <1>7
<1>9. PICK n : n = [m EXCEPT !.recorded = r]
  OBVIOUS
<1>10. Tagged(m, id, site, tags) = n
  BY <1>1, <1>3, <1>5, <1>7, <1>9 DEF Tagged
<1>11. DOMAIN n = DOMAIN m /\ n.scans = m.scans /\ n.cached = m.cached /\ n.recorded = r
  BY <1>9 DEF DvMainIs
<1>12. DvMainIs(n)
  BY <1>4, <1>6, <1>8, <1>11 DEF DvMainIs
<1>13. \A i \in DOMAIN m.recorded : \A d \in Site :
           r[i].tags[d] = IF i = id /\ d = site THEN tags ELSE m.recorded[i].tags[d]
  BY <1>1, <1>4, <1>6, <1>8
<1> QED
  BY <1>8, <1>10, <1>11, <1>12, <1>13

LEMMA TakesIs ==
    ASSUME DvCallsOK, NEW call \in dvCalls, NEW answer, NEW main, Takes(call, answer, main)
    PROVE  \E c \in dvCalls' :
               /\ c.op = call.op /\ c.site = call.site /\ c.id = call.id /\ c.what = call.what
               /\ c.answer = <<answer>> /\ DOMAIN c = DOMAIN call
               /\ dvCalls' = (dvCalls \ {call}) \cup {c}
<1>1. PICK c : c = [call EXCEPT !.answer = <<answer>>]
  OBVIOUS
<1> QED
  BY <1>1 DEF Takes, DvCallsOK, DvCallIs

\* What the main process does, apart from what it does to tags.
LEMMA DvTakenKeeps ==
    ASSUME DvInv, NEW call \in dvCalls, NEW answer, NEW main, Takes(call, answer, main),
           DvMainIs(main), DOMAIN dvMain.recorded \subseteq DOMAIN main.recorded,
           call.op = "history" => \A e \in answer : DvListed(e, DOMAIN main.recorded),
           call.op = "entries" => \A e \in answer : e.id \in DOMAIN main.recorded,
           call.op = "diff" => answer.of = call.site /\ answer.request = call.what,
           DvHistoryFollows', DvEntriesFollow'
    PROVE  DvInv'
<1>1. PICK c \in dvCalls' :
          /\ c.op = call.op /\ c.site = call.site /\ c.id = call.id /\ c.what = call.what
          /\ c.answer = <<answer>> /\ DOMAIN c = DOMAIN call
          /\ dvCalls' = (dvCalls \ {call}) \cup {c}
  BY TakesIs DEF DvInv
<1>2. dvMain' = main /\ UNCHANGED <<dvUp, dvPanel, dvOff>>
  BY DEF Takes
<1>3. Snapshots \subseteq Snapshots' /\ Snapshots' = DOMAIN main.recorded
  BY <1>2 DEF Snapshots
<1>4. DvCallsOK'
  <2>1. DvCallIs(call, Snapshots')
    BY <1>3, DvCallsGrow DEF DvInv, DvCallsOK
  <2>2. c.answer[1] = answer
    BY <1>1
  <2>3. DvCallIs(c, Snapshots')
    BY <1>1, <1>3, <2>1, <2>2 DEF DvCallIs
  <2>4. \A x \in dvCalls : DvCallIs(x, Snapshots')
    BY <1>3, DvCallsGrow DEF DvInv, DvCallsOK
  <2> QED
    BY <1>1, <2>3, <2>4 DEF DvCallsOK
<1>5. \A x \in dvCalls : \E y \in dvCalls' : y.op = x.op
  BY <1>1
<1>6. DvRowsFollow' /\ DvResultFollows'
  <2>1. DvView(dvPanel') = DvView(dvPanel)
    BY <1>2
  <2>2. DvRowsFollow'
    BY <1>2, <1>5, <2>1 DEF DvInv, DvRowsFollow
  <2>3. DvResultFollows'
    BY <1>2, <1>5, <2>1 DEF DvInv, DvResultFollows
  <2> QED
    BY <2>2, <2>3
<1>7. DvDataOK'
  BY <1>2, <1>3 DEF DvInv, DvDataOK, DvListed
<1>8. DvMainIs(dvMain') /\ dvUp' \in BOOLEAN /\ DvPanelOK(dvPanel')
  BY <1>2 DEF DvInv
<1> QED
  BY <1>4, <1>6, <1>7, <1>8 DEF DvInv

\* A call that leaves the tags alone.
LEMMA DvReadKeeps ==
    ASSUME DvInv, NEW call \in dvCalls, NEW answer, NEW main, Takes(call, answer, main),
           DvGrows(dvMain, main),
           call.op = "history" => \A e \in answer : DvListed(e, DOMAIN main.recorded),
           call.op = "entries" => \A e \in answer : e.id \in DOMAIN main.recorded,
           call.op = "diff" => answer.of = call.site /\ answer.request = call.what,
           call.op \notin {"tag", "untag", "tagCurrent"}
    PROVE  DvInv'
<1>1. PICK c \in dvCalls' :
          /\ c.op = call.op /\ c.site = call.site /\ c.id = call.id /\ c.what = call.what
          /\ c.answer = <<answer>> /\ DOMAIN c = DOMAIN call
          /\ dvCalls' = (dvCalls \ {call}) \cup {c}
  BY TakesIs DEF DvInv
<1>2. dvMain' = main /\ UNCHANGED <<dvUp, dvPanel, dvOff>>
  BY DEF Takes
<1>3. \A i \in Snapshots : i \in DOMAIN main.recorded /\ dvMain'.recorded[i].tags = dvMain.recorded[i].tags
  BY <1>2 DEF DvGrows, Snapshots
<1>4. /\ \A e \in dvPanel.history : dvMain'.recorded[e.id].tags = dvMain.recorded[e.id].tags
      /\ \A e \in dvPanel.entries : dvMain'.recorded[e.id].tags = dvMain.recorded[e.id].tags
  BY <1>3 DEF DvInv, DvDataOK, DvListed
<1>5. \A x \in dvCalls : DvTagsHistory(x) => \E y \in dvCalls' : DvTagsHistory(y)
  BY <1>1 DEF DvTagsHistory
<1>6. \A x \in dvCalls : DvTagsEntries(x) => \E y \in dvCalls' : DvTagsEntries(y)
  BY <1>1 DEF DvTagsEntries
<1>7. \A x \in dvCalls : x.op \in {"tag", "untag"} /\ x.answer # <<>> => x \in dvCalls'
  BY <1>1
<1>8. DvHistoryFollows' /\ DvEntriesFollow'
  BY <1>2, <1>4, <1>5, <1>6, <1>7, DvHistoryKept, DvEntriesKept DEF DvInv
<1>9. DvMainIs(main) /\ DOMAIN dvMain.recorded \subseteq DOMAIN main.recorded
  BY DEF DvGrows
<1> QED
  BY <1>8, <1>9, DvTakenKeeps

LEMMA DvReadsKeep ==
    ASSUME DvInv, NEW call \in dvCalls, NEW old
    PROVE  DvMainScans(call, old) \/ DvMainReads(call) \/ DvMainCompares(call, old) => DvInv'
<1>1. DvMainIs(dvMain) /\ DvGrows(dvMain, dvMain) /\ DvCallIs(call, Snapshots)
  BY DEF DvInv, DvCallsOK, DvGrows
<1>2. ASSUME DvMainScans(call, old)
      PROVE  DvInv'
  <2>1. CASE call.op = "scan" /\ CanScan /\ Takes(call, Scanned.cached, Scanned)
    <3>1. DvGrows(dvMain, Scanned)
      BY <1>1, <2>1, ScannedIs DEF CanScan
    <3> QED
      BY <2>1, <3>1, DvReadKeeps
  <2>2. CASE /\ call.op = "snapshot" /\ (HasCached(old) \/ CanScan)
             /\ Takes(call, GetSnapshot(old).cached, GetSnapshot(old))
    <3>1. DvGrows(dvMain, GetSnapshot(old))
      BY <1>1, <2>2, GetSnapshotIs
    <3> QED
      BY <2>2, <3>1, DvReadKeeps
  <2> QED
    BY <1>2, <2>1, <2>2 DEF DvMainScans
<1>3. ASSUME DvMainReads(call)
      PROVE  DvInv'
  <2>1. CASE call.op = "history" /\ Takes(call, list, dvMain)
    <3>1. \A e \in list : DvListed(e, DOMAIN dvMain.recorded)
      BY <1>1 DEF list, DvListed, DvMainIs, Snapshots
    <3> QED
      BY <1>1, <2>1, <3>1, DvReadKeeps
  <2>2. CASE call.op = "entries" /\ Takes(call, deploymentHistory(call.site), dvMain)
    <3>1. \A e \in deploymentHistory(call.site) : e.id \in DOMAIN dvMain.recorded
      BY DEF deploymentHistory, Snapshots
    <3> QED
      BY <1>1, <2>2, <3>1, DvReadKeeps
  <2> QED
    BY <1>3, <2>1, <2>2 DEF DvMainReads
<1>4. ASSUME DvMainCompares(call, old)
      PROVE  DvInv'
  <2>1. PICK current : current = IF call.what.to = None THEN GetSnapshot(old) ELSE dvMain
    OBVIOUS
  <2>2. PICK changes : changes = diffTopologyForDeployment(call.site, Recorded(call.what.from),
                           IF call.what.to = None THEN current.cached.sites
                           ELSE Recorded(call.what.to))
    OBVIOUS
  <2>3. PICK answer : answer = [of |-> call.site, request |-> call.what, changes |-> changes]
    OBVIOUS
  <2>4. Takes(call, answer, current) /\ call.op = "diff"
    BY <1>4, <2>1, <2>2, <2>3 DEF DvMainCompares
  <2>5. DvGrows(dvMain, current)
    BY <1>1, <1>4, <2>1, GetSnapshotIs DEF DvMainCompares
  <2>6. answer.of = call.site /\ answer.request = call.what
    BY <2>3
  <2> QED
    BY <2>4, <2>5, <2>6, DvReadKeeps
<1> QED
  BY <1>2, <1>3, <1>4

\* A tag set or removed: what is shown differs by that tag, until the answer has come.
LEMMA DvMainTagsKeep ==
    ASSUME DvInv, NEW call \in dvCalls, NEW old, DvMainTags(call, old)
    PROVE  DvInv'
<1>1. DvMainIs(dvMain) /\ DvGrows(dvMain, dvMain) /\ DvCallIs(call, Snapshots)
  BY DEF DvInv, DvCallsOK, DvGrows
<1>2. CASE /\ call.op \in {"tag", "untag"}
           /\ Takes(call, None, Tagged(dvMain, call.id, call.site,
                                       Retagged(call, Tags(call.id, call.site))))
  <2>1. PICK tags : tags = Retagged(call, Tags(call.id, call.site))
    OBVIOUS
  <2>2. PICK main : main = Tagged(dvMain, call.id, call.site, tags)
    OBVIOUS
  <2>3. Takes(call, None, main)
    BY <1>2, <2>1, <2>2
  <2>4. PICK c \in dvCalls' :
          /\ c.op = call.op /\ c.site = call.site /\ c.id = call.id /\ c.what = call.what
          /\ c.answer = <<None>> /\ DOMAIN c = DOMAIN call
          /\ dvCalls' = (dvCalls \ {call}) \cup {c}
    BY <2>3, TakesIs DEF DvInv
  <2>5. call.id \in DOMAIN dvMain.recorded /\ call.site \in Site
    BY <1>1, <1>2 DEF DvCallIs, Snapshots
  <2>6. /\ DvMainIs(main) /\ DOMAIN main.recorded = DOMAIN dvMain.recorded
        /\ \A i \in DOMAIN dvMain.recorded : \A d \in Site :
               main.recorded[i].tags[d] = IF i = call.id /\ d = call.site THEN tags
                                          ELSE dvMain.recorded[i].tags[d]
    BY <1>1, <2>2, <2>5, TaggedIs
  <2>7. dvMain' = main /\ UNCHANGED <<dvUp, dvPanel, dvOff>>
    BY <2>3 DEF Takes
  <2>8. Differ(dvMain.recorded[call.id].tags[call.site], tags) \subseteq {call.what[1]}
    BY <2>1 DEF Retagged, Tags, Differ
  <2>9. DvTagsOne(c, call.id, call.site) /\ DvTagsEntries(c)
    BY <1>2, <2>4 DEF DvTagsOne, DvTagsEntries
  <2>10. DvEntriesFollow'
    BY <2>4, <2>9 DEF DvEntriesFollow
  <2>11. DvHistoryFollows'
    <3>1. SUFFICES ASSUME "history" \notin dvOff', ~\E x \in dvCalls' : DvTagsHistory(x),
                          NEW e \in dvPanel.history, NEW d \in Site
                   PROVE  Differ(e.tags[d], main.recorded[e.id].tags[d]) \subseteq
                              {x.what[1] : x \in {x \in dvCalls' : DvTagsOne(x, e.id, d)}}
      BY <2>7 DEF DvHistoryFollows, Tags
    <3>2. \A x \in dvCalls : DvTagsHistory(x) => \E y \in dvCalls' : DvTagsHistory(y)
      BY <1>2, <2>4 DEF DvTagsHistory
    <3>3. Differ(e.tags[d], dvMain.recorded[e.id].tags[d]) \subseteq
              {x.what[1] : x \in {x \in dvCalls : DvTagsOne(x, e.id, d)}}
      BY <2>7, <3>1, <3>2 DEF DvHistoryFollows, Tags, DvInv
    <3>4. \A x \in dvCalls : DvTagsOne(x, e.id, d) => x \in dvCalls'
      BY <2>3, <2>4 DEF DvTagsOne, Takes
    <3>5. e.id \in DOMAIN dvMain.recorded
      BY DEF DvInv, DvDataOK, DvListed, Snapshots
    <3>6. CASE e.id = call.id /\ d = call.site
      <4>1. main.recorded[e.id].tags[d] = tags
        BY <2>6, <3>5, <3>6
      <4>2. Differ(e.tags[d], tags) \subseteq
                Differ(e.tags[d], dvMain.recorded[e.id].tags[d]) \cup {call.what[1]}
        BY <2>8, <3>6 DEF Differ
      <4>3. call.what[1] \in {x.what[1] : x \in {x \in dvCalls' : DvTagsOne(x, e.id, d)}}
        BY <2>4, <2>9, <3>6
      <4> QED
        BY <3>3, <3>4, <4>1, <4>2, <4>3
    <3>7. CASE ~(e.id = call.id /\ d = call.site)
      BY <2>6, <3>3, <3>4, <3>5, <3>7
    <3> QED
      BY <3>6, <3>7
  <2> QED
    BY <1>2, <2>3, <2>6, <2>10, <2>11, DvTakenKeeps
<1>3. CASE /\ call.op = "tagCurrent" /\ (HasCached(old) \/ CanScan)
           /\ LET current == GetSnapshot(old)
                  at == current.cached.at
                  main == Record(current, current.cached)
              IN Takes(call, None, Tagged(main, at, call.site,
                                          main.recorded[at].tags[call.site] \cup {call.what[1]}))
  <2>1. PICK current : current = GetSnapshot(old)
    OBVIOUS
  <2>2. PICK scan : scan = current.cached
    OBVIOUS
  <2>3. PICK grown : grown = Record(current, scan)
    OBVIOUS
  <2>4. PICK tags : tags = grown.recorded[scan.at].tags[call.site] \cup {call.what[1]}
    OBVIOUS
  <2>5. PICK main : main = Tagged(grown, scan.at, call.site, tags)
    OBVIOUS
  <2>6. Takes(call, None, main)
    BY <1>3, <2>1, <2>2, <2>3, <2>4, <2>5, Zenon
  <2>7. DvGrows(dvMain, current) /\ scan.at \in 1..current.scans
    BY <1>1, <1>3, <2>1, <2>2, GetSnapshotIs
  <2>8. DvGrows(current, grown) /\ scan.at \in DOMAIN grown.recorded
    BY <2>3, <2>7, RecordIs DEF DvGrows
  <2>9. DvMainIs(main) /\ DOMAIN main.recorded = DOMAIN grown.recorded
    BY <1>1, <1>3, <2>5, <2>8, TaggedIs DEF DvGrows, DvCallIs
  <2>10. DOMAIN dvMain.recorded \subseteq DOMAIN main.recorded
    BY <2>7, <2>8, <2>9 DEF DvGrows
  <2>11. PICK c \in dvCalls' : c.op = call.op /\ c.answer = <<None>>
    BY <2>6, TakesIs, SMTT(30) DEF DvInv
  <2>12. DvTagsHistory(c) /\ DvTagsEntries(c)
    BY <1>3, <2>11 DEF DvTagsHistory, DvTagsEntries
  <2>13. DvHistoryFollows' /\ DvEntriesFollow'
    BY <2>11, <2>12 DEF DvHistoryFollows, DvEntriesFollow
  <2> QED
    BY <1>3, <2>6, <2>9, <2>10, <2>13, DvTakenKeeps
<1> QED
  BY <1>2, <1>3 DEF DvMainTags

(***************************************************************************)
(* The window hears the answer.                                            *)
(***************************************************************************)
\* A part of the panel that an answer changes, and nothing else.
SameView(p, q) ==
    /\ q.snapshot = p.snapshot /\ q.selected = p.selected /\ q.snapsOf = p.snapsOf
    /\ q.diffOf = p.diffOf /\ q.request = p.request

\* `calls` are those left, with the one the answer makes at once.
LEMMA DvHeardKeeps ==
    ASSUME DvInv, NEW panel, DvPanelOK(panel), SameView(dvPanel, panel), NEW calls,
           Renders(panel, calls), UNCHANGED <<dvMain, dvUp>>,
           \A c \in calls : DvCallIs(c, Snapshots),
           \A e \in panel.history : DvListed(e, Snapshots),
           \A e \in panel.entries : e.id \in Snapshots,
           DvHistoryFollows', DvEntriesFollow',
           DvView(dvPanel) = "snapshots" /\ "entries" \notin dvOff' =>
               (\E c \in calls : c.op = "entries") \/ panel.entriesOf = panel.snapsOf,
           DvView(dvPanel) = "diff" /\ "diff" \notin dvOff' =>
               \/ \E c \in calls : c.op = "diff"
               \/ /\ panel.result # <<>> /\ panel.result[1].of = panel.diffOf
                  /\ panel.result[1].request = panel.request
    PROVE  DvInv'
<1>1. DvPanelOK(dvPanel') /\ SameData(panel, dvPanel')
  BY RendersIs
<1>2. Snapshots' = Snapshots
  BY DEF Snapshots
<1>3. DvCallsOK'
  BY DvCallsKept
<1>4. DvRowsFollow'
  BY DvRowsKept
<1>5. DvResultFollows'
  BY DvResultKept
<1>6. DvDataOK'
  BY <1>1, <1>2 DEF DvDataOK, SameData
<1>7. DvMainIs(dvMain') /\ dvUp' \in BOOLEAN
  BY DEF DvInv
<1> QED
  BY <1>1, <1>3, <1>4, <1>5, <1>6, <1>7 DEF DvInv

LEMMA DvSnapshotKeeps ==
    ASSUME DvInv, NEW call \in dvCalls, DvSnapshotShown(call)
    PROVE  DvInv'
<1>1. PICK p : p = [dvPanel EXCEPT !.snapshot = call.answer[1]]
  OBVIOUS
<1>2. DvPanelOK(p) /\ SameData(dvPanel, p)
  BY <1>1, DvPanelMoves DEF DvInv
<1>3. DvPanelOK(Follow(p)) /\ SameData(dvPanel, Follow(p))
  BY <1>2, FollowIs DEF SameData
<1>4. PICK calls : calls = dvCalls \ {call}
  OBVIOUS
<1>5. Renders(Follow(p), calls) /\ UNCHANGED <<dvMain, dvUp, dvOff>>
  <2>1. (dvCalls \ {call}) \cup {} = calls
    BY <1>4
  <2> QED
    BY <1>1, <2>1 DEF DvSnapshotShown, Heard
<1>6. \A c \in calls : DvCallIs(c, Snapshots)
  BY <1>4 DEF DvInv, DvCallsOK
<1>7. \A c \in dvCalls : c \in calls \/ c.op \in {"snapshot", "scan"}
  BY <1>4 DEF DvSnapshotShown
<1> QED
  BY <1>3, <1>5, <1>6, <1>7, DvShownKeeps

LEMMA DvHistoryKeeps ==
    ASSUME DvInv, NEW call \in dvCalls, DvHistoryShown(call)
    PROVE  DvInv'
<1>1. PICK more : more = IF call.what = None THEN {} ELSE {Entries(call.what)}
  OBVIOUS
<1>2. PICK calls : calls = (dvCalls \ {call}) \cup more
  OBVIOUS
<1>3. PICK p : p = [dvPanel EXCEPT !.history = call.answer[1], !.loaded = TRUE]
  OBVIOUS
<1>4. /\ DvPanelOK(p) /\ SameView(dvPanel, p) /\ p.history = call.answer[1]
      /\ p.entries = dvPanel.entries /\ p.entriesOf = dvPanel.entriesOf /\ p.result = dvPanel.result
  <2>1. DvPanelOK(dvPanel)
    BY DEF DvInv
  <2>2. PICK v : v = call.answer[1]
    OBVIOUS
  <2> QED
    BY <1>3, <2>1, <2>2 DEF DvPanelOK, SameView, PanelFields
<1>5. /\ call.op = "history" /\ call.answer # <<>> /\ Renders(p, calls)
      /\ UNCHANGED <<dvMain, dvUp>> /\ Applied("history", call.answer[1] \subseteq list)
  BY <1>1, <1>2, <1>3 DEF DvHistoryShown, Heard
<1>6. DvCallIs(call, Snapshots)
  BY DEF DvInv, DvCallsOK
<1>7. \A c \in more : DvCallIs(c, Snapshots) /\ c.op = "entries"
  BY <1>1, <1>5, <1>6 DEF DvCallIs, Entries, Ask
<1>8. \A c \in calls : DvCallIs(c, Snapshots)
  BY <1>2, <1>7 DEF DvInv, DvCallsOK
<1>9. calls \subseteq dvCalls' /\ SameData(p, dvPanel')
  BY <1>4, <1>5, RendersIs
<1>10. ("entries" \in dvOff => "entries" \in dvOff') /\ ("diff" \in dvOff => "diff" \in dvOff')
  BY <1>5 DEF Applied
<1>11. DvEntriesFollow'
  <2>1. \A c \in dvCalls : DvTagsEntries(c) => \E x \in dvCalls' : DvTagsEntries(x)
    <3>1. call.what # None => more # {}
      BY <1>1
    <3> QED
      BY <3>1, <1>2, <1>5, <1>7, <1>9 DEF DvTagsEntries
  <2> QED
    BY <1>4, <1>5, <1>9, <1>10, <2>1, DvEntriesKept DEF DvInv, SameData
<1>12. DvHistoryFollows'
  <2>1. SUFFICES ASSUME "history" \notin dvOff', NEW e \in p.history, NEW d \in Site
                 PROVE  Differ(e.tags[d], dvMain.recorded[e.id].tags[d]) = {}
    BY <1>5, <1>9 DEF DvHistoryFollows, SameData, Tags
  <2>2. e \in list
    BY <1>4, <1>5, <2>1 DEF Applied
  <2> QED
    BY <2>2 DEF list, Differ
<1>13. /\ \A e \in p.history : DvListed(e, Snapshots)
       /\ \A e \in p.entries : e.id \in Snapshots
  BY <1>4, <1>5, <1>6 DEF DvCallIs, DvInv, DvDataOK
<1>14. DvView(dvPanel) = "snapshots" /\ "entries" \notin dvOff' =>
           (\E c \in calls : c.op = "entries") \/ p.entriesOf = p.snapsOf
  BY <1>2, <1>4, <1>5, <1>10 DEF DvInv, DvRowsFollow, SameView
<1>15. DvView(dvPanel) = "diff" /\ "diff" \notin dvOff' =>
           \/ \E c \in calls : c.op = "diff"
           \/ /\ p.result # <<>> /\ p.result[1].of = p.diffOf /\ p.result[1].request = p.request
  BY <1>2, <1>4, <1>5, <1>10 DEF DvInv, DvResultFollows, SameView
<1> QED
  BY <1>4, <1>5, <1>8, <1>11, <1>12, <1>13, <1>14, <1>15, DvHeardKeeps

LEMMA DvEntriesKeep ==
    ASSUME DvInv, NEW call \in dvCalls, DvEntriesShown(call)
    PROVE  DvInv'
<1>1. PICK calls : calls = dvCalls \ {call}
  OBVIOUS
<1>2. PICK p : p = [dvPanel EXCEPT !.entries = call.answer[1], !.entriesOf = call.site]
  OBVIOUS
<1>3. DvCallIs(call, Snapshots)
  BY DEF DvInv, DvCallsOK
<1>4. /\ call.op = "entries" /\ call.answer # <<>> /\ Renders(p, calls) /\ UNCHANGED <<dvMain, dvUp>>
      /\ Applied("entries", call.site = dvPanel.snapsOf /\ \A e \in call.answer[1] :
                                e.tags = Tags(e.id, call.site))
  <2>1. (dvCalls \ {call}) \cup {} = calls
    BY <1>1
  <2> QED
    BY <1>2, <2>1 DEF DvEntriesShown, Heard
<1>5. /\ DvPanelOK(p) /\ SameView(dvPanel, p) /\ p.history = dvPanel.history
      /\ p.entries = call.answer[1] /\ p.entriesOf = call.site /\ p.result = dvPanel.result
  <2>1. DvPanelOK(dvPanel)
    BY DEF DvInv
  <2>2. PICK v : v = call.answer[1]
    OBVIOUS
  <2>3. PICK site \in Site : site = call.site
    BY <1>3, <1>4 DEF DvCallIs
  <2> QED
    BY <1>2, <2>1, <2>2, <2>3, DvNoneAssumption DEF DvPanelOK, SameView, PanelFields
<1>6. \A c \in calls : DvCallIs(c, Snapshots)
  BY <1>1 DEF DvInv, DvCallsOK
<1>7. calls \subseteq dvCalls' /\ SameData(p, dvPanel')
  BY <1>4, <1>5, RendersIs
<1>8. ("history" \in dvOff => "history" \in dvOff') /\ ("diff" \in dvOff => "diff" \in dvOff')
  BY <1>4 DEF Applied
<1>9. DvHistoryFollows'
  <2>1. \A c \in dvCalls : c.op # "entries" => c \in dvCalls'
    BY <1>1, <1>4, <1>7
  <2> QED
    BY <1>4, <1>5, <1>7, <1>8, <2>1, DvHistoryKept DEF DvInv, SameData, DvTagsHistory
<1>10. "entries" \notin dvOff' => /\ call.site = dvPanel.snapsOf
                                  /\ \A e \in p.entries : e.tags = Tags(e.id, p.entriesOf)
  BY <1>4, <1>5 DEF Applied
<1>11. DvEntriesFollow'
  BY <1>4, <1>7, <1>10 DEF DvEntriesFollow, SameData, Tags
<1>12. /\ \A e \in p.history : DvListed(e, Snapshots)
       /\ \A e \in p.entries : e.id \in Snapshots
  BY <1>3, <1>4, <1>5 DEF DvCallIs, DvInv, DvDataOK
<1>13. DvView(dvPanel) = "snapshots" /\ "entries" \notin dvOff' =>
           (\E c \in calls : c.op = "entries") \/ p.entriesOf = p.snapsOf
  BY <1>5, <1>10 DEF SameView
<1>14. DvView(dvPanel) = "diff" /\ "diff" \notin dvOff' =>
           \/ \E c \in calls : c.op = "diff"
           \/ /\ p.result # <<>> /\ p.result[1].of = p.diffOf /\ p.result[1].request = p.request
  BY <1>1, <1>4, <1>5, <1>8 DEF DvInv, DvResultFollows, SameView
<1> QED
  BY <1>4, <1>5, <1>6, <1>9, <1>11, <1>12, <1>13, <1>14, DvHeardKeeps

LEMMA DvDiffKeeps ==
    ASSUME DvInv, NEW call \in dvCalls, DvDiffShown(call)
    PROVE  DvInv'
<1>1. PICK calls : calls = dvCalls \ {call}
  OBVIOUS
<1>2. PICK p : p = [dvPanel EXCEPT !.result = call.answer]
  OBVIOUS
<1>3. DvCallIs(call, Snapshots)
  BY DEF DvInv, DvCallsOK
<1>4. /\ call.op = "diff" /\ call.answer # <<>> /\ Renders(p, calls) /\ UNCHANGED <<dvMain, dvUp>>
      /\ Applied("diff", call.site = dvPanel.diffOf /\ call.what = dvPanel.request)
  <2>1. (dvCalls \ {call}) \cup {} = calls
    BY <1>1
  <2> QED
    BY <1>2, <2>1 DEF DvDiffShown, Heard
<1>5. /\ DvPanelOK(p) /\ SameView(dvPanel, p) /\ p.history = dvPanel.history
      /\ p.entries = dvPanel.entries /\ p.entriesOf = dvPanel.entriesOf /\ p.result = call.answer
  <2>1. DvPanelOK(dvPanel)
    BY DEF DvInv
  <2>2. PICK v : v = call.answer
    OBVIOUS
  <2> QED
    BY <1>2, <2>1, <2>2 DEF DvPanelOK, SameView, PanelFields
<1>6. \A c \in calls : DvCallIs(c, Snapshots)
  BY <1>1 DEF DvInv, DvCallsOK
<1>7. calls \subseteq dvCalls' /\ SameData(p, dvPanel')
  BY <1>4, <1>5, RendersIs
<1>8. ("history" \in dvOff => "history" \in dvOff') /\ ("entries" \in dvOff => "entries" \in dvOff')
  BY <1>4 DEF Applied
<1>9. \A c \in dvCalls : c.op # "diff" => c \in calls /\ c \in dvCalls'
  BY <1>1, <1>4, <1>7
<1>10. DvHistoryFollows'
  BY <1>4, <1>5, <1>7, <1>8, <1>9, DvHistoryKept DEF DvInv, SameData, DvTagsHistory
<1>11. DvEntriesFollow'
  BY <1>4, <1>5, <1>7, <1>8, <1>9, DvEntriesKept DEF DvInv, SameData, DvTagsEntries
<1>12. /\ \A e \in p.history : DvListed(e, Snapshots)
       /\ \A e \in p.entries : e.id \in Snapshots
  BY <1>5 DEF DvInv, DvDataOK
<1>13. DvView(dvPanel) = "snapshots" /\ "entries" \notin dvOff' =>
           (\E c \in calls : c.op = "entries") \/ p.entriesOf = p.snapsOf
  BY <1>5, <1>8, <1>9 DEF SameView, DvInv, DvRowsFollow
<1>14. DvView(dvPanel) = "diff" /\ "diff" \notin dvOff' =>
           \/ \E c \in calls : c.op = "diff"
           \/ /\ p.result # <<>> /\ p.result[1].of = p.diffOf /\ p.result[1].request = p.request
  <2>1. "diff" \notin dvOff' => call.site = dvPanel.diffOf /\ call.what = dvPanel.request
    BY <1>4 DEF Applied
  <2>2. call.answer[1].of = call.site /\ call.answer[1].request = call.what
    BY <1>3, <1>4 DEF DvCallIs
  <2> QED
    BY <1>4, <1>5, <2>1, <2>2 DEF SameView
<1> QED
  BY <1>4, <1>5, <1>6, <1>10, <1>11, <1>12, <1>13, <1>14, DvHeardKeeps

LEMMA PatchedIs ==
    ASSUME NEW call, NEW x \in Patched(call), DvCallIs(call, Snapshots),
           \A e \in dvPanel.history : DvListed(e, Snapshots), call.op \in {"tag", "untag"}
    PROVE  \E e \in dvPanel.history :
               /\ DvListed(x, Snapshots) /\ x.id = e.id
               /\ \A d \in Site : x.tags[d] = IF e.id = call.id /\ d = call.site
                                              THEN Retagged(call, e.tags[d]) ELSE e.tags[d]
<1>1. PICK e \in dvPanel.history :
          x = IF e.id # call.id THEN e
              ELSE [e EXCEPT !.tags = [e.tags EXCEPT ![call.site] =
                                                       Retagged(call, e.tags[call.site])]]
  BY DEF Patched
<1>2. PICK v : v = Retagged(call, e.tags[call.site])
  OBVIOUS
<1>3. PICK t : t = [e.tags EXCEPT ![call.site] = v]
  OBVIOUS
<1>4. call.site \in Site /\ DvListed(e, Snapshots)
  BY DEF DvCallIs
<1>5. DOMAIN t = Site /\ \A d \in Site : t[d] = IF d = call.site THEN v ELSE e.tags[d]
  BY <1>3, <1>4 DEF DvListed
<1>6. CASE e.id # call.id
  BY <1>1, <1>4, <1>6
<1>7. CASE e.id = call.id
  <2>1. x = [e EXCEPT !.tags = t]
    BY <1>1, <1>2, <1>3, <1>7
  <2>2. DOMAIN x = DOMAIN e /\ x.id = e.id /\ x.tags = t
    BY <1>4, <2>1 DEF DvListed
  <2> QED
    BY <1>2, <1>4, <1>5, <1>7, <2>2 DEF DvListed
<1> QED
  BY <1>6, <1>7

LEMMA DvTaggedKeeps ==
    ASSUME DvInv, NEW call \in dvCalls, DvTagged(call)
    PROVE  DvInv'
<1>1. PICK more : more = IF call.what[2] THEN {Entries(call.site)} ELSE {}
  OBVIOUS
<1>2. PICK calls : calls = (dvCalls \ {call}) \cup more
  OBVIOUS
<1>3. PICK p : p = [dvPanel EXCEPT !.history = Patched(call)]
  OBVIOUS
<1>4. /\ DvPanelOK(p) /\ SameView(dvPanel, p) /\ p.history = Patched(call)
      /\ p.entries = dvPanel.entries /\ p.entriesOf = dvPanel.entriesOf /\ p.result = dvPanel.result
  <2>1. DvPanelOK(dvPanel)
    BY DEF DvInv
  <2>2. PICK v : v = Patched(call)
    OBVIOUS
  <2> QED
    BY <1>3, <2>1, <2>2 DEF DvPanelOK, SameView, PanelFields
<1>5. /\ call.op \in {"tag", "untag"} /\ call.answer # <<>> /\ Renders(p, calls)
      /\ UNCHANGED <<dvMain, dvUp>>
  BY <1>1, <1>2, <1>3 DEF DvTagged, Heard
<1>6. /\ dvOff \subseteq dvOff' /\ (~call.what[2] => "entries" \in dvOff')
      /\ (call.what[1] \in Tags(call.id, call.site)) # (call.op = "tag") => "history" \in dvOff'
  BY DEF DvTagged
<1>7. DvCallIs(call, Snapshots) /\ call.site \in Site
  BY <1>5 DEF DvInv, DvCallsOK, DvCallIs
<1>8. \A c \in more : DvCallIs(c, Snapshots) /\ c.op = "entries"
  BY <1>1, <1>7 DEF DvCallIs, Entries, Ask
<1>9. \A c \in calls : DvCallIs(c, Snapshots)
  BY <1>2, <1>8 DEF DvInv, DvCallsOK
<1>10. calls \subseteq dvCalls' /\ SameData(p, dvPanel')
  BY <1>4, <1>5, RendersIs
<1>11. DvEntriesFollow'
  <2>1. CASE call.what[2]
    <3>1. Entries(call.site) \in dvCalls'
      BY <1>1, <1>2, <1>10, <2>1
    <3>2. DvTagsEntries(Entries(call.site))
      BY DEF DvTagsEntries, Entries, Ask
    <3> QED
      BY <3>1, <3>2 DEF DvEntriesFollow
  <2>2. CASE ~call.what[2]
    BY <1>6, <2>2 DEF DvEntriesFollow
  <2> QED
    BY <2>1, <2>2
<1>12. \A e \in p.history : DvListed(e, Snapshots)
  BY <1>4, <1>5, <1>7, PatchedIs DEF DvInv, DvDataOK
<1>13. DvHistoryFollows'
  <2>1. SUFFICES ASSUME "history" \notin dvOff', ~\E c \in dvCalls' : DvTagsHistory(c),
                        NEW x \in p.history, NEW d \in Site
                 PROVE  Differ(x.tags[d], dvMain.recorded[x.id].tags[d]) \subseteq
                            {c.what[1] : c \in {c \in dvCalls' : DvTagsOne(c, x.id, d)}}
    BY <1>5, <1>10 DEF DvHistoryFollows, SameData, Tags
  <2>2. PICK e \in dvPanel.history :
            /\ x.id = e.id
            /\ x.tags[d] = IF e.id = call.id /\ d = call.site
                           THEN Retagged(call, e.tags[d]) ELSE e.tags[d]
    BY <1>4, <1>5, <1>7, PatchedIs DEF DvInv, DvDataOK
  <2>3. \A c \in dvCalls : DvTagsHistory(c) => c \in dvCalls'
    BY <1>2, <1>5, <1>10 DEF DvTagsHistory
  <2>4. Differ(e.tags[d], dvMain.recorded[x.id].tags[d]) \subseteq
            {c.what[1] : c \in {c \in dvCalls : DvTagsOne(c, x.id, d)}}
    BY <1>6, <2>1, <2>2, <2>3 DEF DvHistoryFollows, DvInv, Tags
  <2>5. \A c \in dvCalls : c # call => c \in dvCalls'
    BY <1>2, <1>10
  <2>6. CASE e.id = call.id /\ d = call.site
    <3>1. PICK t : t = dvMain.recorded[x.id].tags[d]
      OBVIOUS
    <3>2. (call.what[1] \in t) = (call.op = "tag")
      BY <1>6, <2>1, <2>2, <2>6, <3>1 DEF Tags
    <3>3. Differ(x.tags[d], t) \subseteq Differ(e.tags[d], t) \ {call.what[1]}
      BY <1>5, <2>2, <2>6, <3>2 DEF Differ, Retagged
    <3>4. ASSUME NEW l \in Differ(x.tags[d], t)
          PROVE  \E c \in dvCalls' : DvTagsOne(c, x.id, d) /\ l = c.what[1]
      <4>1. PICK c \in dvCalls : DvTagsOne(c, x.id, d) /\ l = c.what[1]
        BY <2>4, <3>1, <3>3, <3>4
      <4> QED
        BY <2>5, <3>3, <3>4, <4>1
    <3> QED
      BY <3>1, <3>4
  <2>7. CASE ~(e.id = call.id /\ d = call.site)
    <3>1. \A c \in dvCalls : DvTagsOne(c, x.id, d) => c \in dvCalls'
      BY <2>2, <2>5, <2>7 DEF DvTagsOne
    <3> QED
      BY <2>2, <2>4, <2>7, <3>1
  <2> QED
    BY <2>6, <2>7
<1>14. \A e \in p.entries : e.id \in Snapshots
  BY <1>4 DEF DvInv, DvDataOK
<1>15. DvView(dvPanel) = "snapshots" /\ "entries" \notin dvOff' =>
           (\E c \in calls : c.op = "entries") \/ p.entriesOf = p.snapsOf
  BY <1>2, <1>4, <1>5, <1>6 DEF DvInv, DvRowsFollow, SameView
<1>16. DvView(dvPanel) = "diff" /\ "diff" \notin dvOff' =>
           \/ \E c \in calls : c.op = "diff"
           \/ /\ p.result # <<>> /\ p.result[1].of = p.diffOf /\ p.result[1].request = p.request
  BY <1>2, <1>4, <1>5, <1>6 DEF DvInv, DvResultFollows, SameView
<1> QED
  BY <1>4, <1>5, <1>9, <1>11, <1>12, <1>13, <1>14, <1>15, <1>16, DvHeardKeeps

LEMMA DvCurrentTaggedKeeps ==
    ASSUME DvInv, NEW call \in dvCalls, DvCurrentTagged(call)
    PROVE  DvInv'
<1>1. PICK next : next = [History EXCEPT !.what = IF call.what[2] THEN call.site ELSE None]
  OBVIOUS
<1>2. PICK calls : calls = (dvCalls \ {call}) \cup {next}
  OBVIOUS
<1>3. /\ call.op = "tagCurrent" /\ Renders(dvPanel, calls) /\ UNCHANGED <<dvMain, dvUp>>
      /\ dvOff' = IF call.what[2] THEN dvOff ELSE dvOff \cup {"entries"}
  BY <1>1, <1>2 DEF DvCurrentTagged, Heard
<1>4. call.site \in Site
  BY <1>3 DEF DvInv, DvCallsOK, DvCallIs
<1>5. /\ next.op = "history" /\ next.answer = <<>> /\ DOMAIN next = DOMAIN History
      /\ next.what = IF call.what[2] THEN call.site ELSE None
  BY <1>1 DEF History, Ask
<1>6. DvCallIs(next, Snapshots)
  BY <1>4, <1>5 DEF DvCallIs, History, Ask
<1>7. DvPanelOK(dvPanel)
  BY DEF DvInv
<1>8. next \in dvCalls' /\ SameData(dvPanel, dvPanel') /\ calls \subseteq dvCalls'
  BY <1>2, <1>3, <1>7, RendersIs
<1>9. DvHistoryFollows'
  BY <1>5, <1>8 DEF DvHistoryFollows, DvTagsHistory
<1>10. DvEntriesFollow'
  BY <1>3, <1>4, <1>5, <1>8, DvNoneAssumption DEF DvEntriesFollow, DvTagsEntries
<1>11. \A c \in calls : DvCallIs(c, Snapshots)
  BY <1>2, <1>6 DEF DvInv, DvCallsOK
<1>12. dvOff \subseteq dvOff' /\ \A c \in dvCalls : c.op \in {"entries", "diff"} => c \in calls
  BY <1>2, <1>3
<1>13. DvView(dvPanel) = "snapshots" /\ "entries" \notin dvOff' =>
           (\E c \in calls : c.op = "entries") \/ dvPanel.entriesOf = dvPanel.snapsOf
  BY <1>12 DEF DvInv, DvRowsFollow
<1>14. DvView(dvPanel) = "diff" /\ "diff" \notin dvOff' =>
           \/ \E c \in calls : c.op = "diff"
           \/ /\ dvPanel.result # <<>> /\ dvPanel.result[1].of = dvPanel.diffOf
              /\ dvPanel.result[1].request = dvPanel.request
  BY <1>12 DEF DvInv, DvResultFollows
<1>15. SameView(dvPanel, dvPanel)
  BY DEF SameView
<1>16. /\ \A e \in dvPanel.history : DvListed(e, Snapshots)
       /\ \A e \in dvPanel.entries : e.id \in Snapshots
  BY DEF DvInv, DvDataOK
<1> QED
  BY <1>3, <1>7, <1>9, <1>10, <1>11, <1>13, <1>14, <1>15, <1>16, DvHeardKeeps

LEMMA DvFailKeeps ==
    ASSUME DvInv, NEW call \in dvCalls, DvCallFails(call)
    PROVE  DvInv'
<1>1. PICK more : more = IF call.op = "history" /\ call.what # None THEN {Entries(call.what)} ELSE {}
  OBVIOUS
<1>2. /\ dvCalls' = (dvCalls \ {call}) \cup more /\ call.answer = <<>>
      /\ dvOff' = dvOff \cup ({call.op} \cap {"diff", "entries", "history"})
      /\ UNCHANGED <<dvMain, dvUp, dvPanel>>
  BY <1>1 DEF DvCallFails
<1>3. DvCallIs(call, Snapshots)
  BY DEF DvInv, DvCallsOK
<1>4. \A c \in more : DvCallIs(c, Snapshots) /\ DvTagsEntries(c)
  BY <1>1, <1>3 DEF DvCallIs, Entries, Ask, DvTagsEntries
<1>5. Snapshots' = Snapshots
  BY <1>2 DEF Snapshots
<1>6. DvCallsOK' /\ DvDataOK'
  BY <1>2, <1>4, <1>5 DEF DvInv, DvCallsOK, DvDataOK
<1>7. "history" \notin dvOff' => DvHistoryFollows'
  <2>1. ASSUME "history" \notin dvOff'
        PROVE  \A c \in dvCalls : DvTagsHistory(c) => c \in dvCalls'
    BY <1>2, <2>1 DEF DvTagsHistory
  <2> QED
    BY <1>2, <2>1, DvHistoryKept DEF DvInv
<1>8. "entries" \notin dvOff' => DvEntriesFollow'
  <2>1. ASSUME "entries" \notin dvOff', NEW c \in dvCalls, DvTagsEntries(c)
        PROVE  \E x \in dvCalls' : DvTagsEntries(x)
    <3>1. CASE c # call
      BY <1>2, <2>1, <3>1
    <3>2. CASE c = call
      <4>1. call.op = "history" /\ call.what # None
        BY <1>2, <2>1, <3>2 DEF DvTagsEntries
      <4>2. Entries(call.what) \in more
        BY <1>1, <4>1
      <4> QED
        BY <1>2, <1>4, <4>2
    <3> QED
      BY <3>1, <3>2
  <2> QED
    BY <1>2, <2>1, DvEntriesKept DEF DvInv
<1>9. DvHistoryFollows' /\ DvEntriesFollow'
  BY <1>7, <1>8 DEF DvHistoryFollows, DvEntriesFollow
<1>10. DvRowsFollow' /\ DvResultFollows'
  <2>1. DvView(dvPanel') = DvView(dvPanel)
    BY <1>2
  <2>2. \A c \in dvCalls : c.op \in {"entries", "diff"} => c \in dvCalls' \/ c.op \in dvOff'
    BY <1>2
  <2>3. DvRowsFollow'
    BY <1>2, <2>1, <2>2 DEF DvInv, DvRowsFollow
  <2>4. DvResultFollows'
    BY <1>2, <2>1, <2>2 DEF DvInv, DvResultFollows
  <2> QED
    BY <2>3, <2>4
<1> QED
  BY <1>2, <1>6, <1>9, <1>10 DEF DvInv

(***************************************************************************)
(* The server and its connection.                                          *)
(***************************************************************************)
LEMMA DvServerKeeps ==
    ASSUME DvInv, NEW site, NEW version, DvServerChanges(site, version)
    PROVE  DvInv'
<1>1. PICK live : live = [dvMain.live EXCEPT ![site] = version]
  OBVIOUS
<1>2. dvMain' = [dvMain EXCEPT !.live = live] /\ UNCHANGED <<dvUp, dvPanel, dvCalls, dvOff>>
  BY <1>1 DEF DvServerChanges
<1>3. /\ DvMainIs(dvMain') /\ dvMain'.recorded = dvMain.recorded
  BY <1>2 DEF DvInv, DvMainIs
<1>4. Snapshots' = Snapshots
  BY <1>3 DEF Snapshots
<1>5. DvCallsOK' /\ DvDataOK'
  BY <1>2, <1>4 DEF DvInv, DvCallsOK, DvDataOK
<1>6. DvHistoryFollows' /\ DvEntriesFollow'
  BY <1>2, <1>3, DvHistoryKept, DvEntriesKept DEF DvInv
<1>7. DvRowsFollow' /\ DvResultFollows'
  BY <1>2 DEF DvInv, DvRowsFollow, DvResultFollows
<1> QED
  BY <1>2, <1>3, <1>5, <1>6, <1>7 DEF DvInv

LEMMA DvConnectionKeeps ==
    ASSUME DvInv, DvLost \/ DvConnects
    PROVE  DvInv'
<1>1. /\ dvPanel' = [dvPanel EXCEPT !.snapshot = None, !.history = {}, !.loaded = FALSE,
                                    !.entries = {}, !.entriesOf = None, !.result = <<>>,
                                    !.change = None]
      /\ dvUp' \in BOOLEAN /\ UNCHANGED dvOff
      /\ dvMain' \in {dvMain, [dvMain EXCEPT !.cached = None]}
      /\ dvCalls' \in {dvCalls, dvCalls \cup {Ask("snapshot", None, None, None), History}}
  BY DEF DvLost, DvConnects
<1>2. /\ DvPanelOK(dvPanel') /\ dvPanel'.snapshot = None /\ dvPanel'.history = {}
      /\ dvPanel'.entries = {}
  BY <1>1 DEF DvInv, DvPanelOK, PanelFields
<1>3. DvMainIs(dvMain') /\ dvMain'.recorded = dvMain.recorded
  BY <1>1 DEF DvInv, DvMainIs
<1>4. Snapshots' = Snapshots
  BY <1>3 DEF Snapshots
<1>5. DvCallIs(Ask("snapshot", None, None, None), Snapshots) /\ DvCallIs(History, Snapshots)
  BY DEF DvCallIs, Ask, History
<1>6. DvCallsOK'
  BY <1>1, <1>4, <1>5 DEF DvInv, DvCallsOK
<1>7. DvView(dvPanel') = "none"
  BY <1>2 DEF DvView
<1>8. DvDataOK' /\ DvHistoryFollows' /\ DvEntriesFollow' /\ DvRowsFollow' /\ DvResultFollows'
  BY <1>2, <1>7
     DEF DvDataOK, DvHistoryFollows, DvEntriesFollow, DvRowsFollow, DvResultFollows
<1> QED
  BY <1>1, <1>2, <1>3, <1>6, <1>8 DEF DvInv

LEMMA DvInvNext == DvInv /\ [DvNext]_dvVars => DvInv'
<1>1. SUFFICES ASSUME DvInv, [DvNext]_dvVars
               PROVE  DvInv'
  OBVIOUS
<1>2. CASE UNCHANGED dvVars
  BY <1>1, <1>2, DvMoreCalls DEF dvVars, DvInv
<1>3. ASSUME NEW call \in dvCalls,
             \/ \E old \in BOOLEAN :
                    DvMainScans(call, old) \/ DvMainCompares(call, old) \/ DvMainTags(call, old)
             \/ DvMainReads(call)
             \/ DvSnapshotShown(call) \/ DvHistoryShown(call) \/ DvEntriesShown(call)
             \/ DvDiffShown(call) \/ DvTagged(call) \/ DvCurrentTagged(call) \/ DvCallFails(call)
      PROVE  DvInv'
  BY <1>1, <1>3, DvReadsKeep, DvMainTagsKeep, DvSnapshotKeeps, DvHistoryKeeps, DvEntriesKeep,
     DvDiffKeeps, DvTaggedKeeps, DvCurrentTaggedKeeps, DvFailKeeps
<1>4. CASE DvNext
  BY <1>1, <1>3, <1>4, DvUserKeeps, DvSentKeep, DvServerKeeps, DvConnectionKeeps DEF DvNext
<1> QED
  BY <1>1, <1>2, <1>4

LEMMA DvInvHolds == DvInv => DvTypeOK /\ DvTagsAreTrue /\ DvShowsItsOwn
<1>1. SUFFICES ASSUME DvInv
               PROVE  DvTypeOK /\ DvTagsAreTrue /\ DvShowsItsOwn
  OBVIOUS
<1>2. DvTypeOK
  <2>1. 1..dvMain.scans \subseteq 1..MaxScans
    BY <1>1, DvScansAssumption DEF DvInv, DvMainIs
  <2> QED
    BY <1>1, <2>1 DEF DvTypeOK, DvInv, DvMainIs, DvPanelOK, Snapshots
<1>3. DvTagsAreTrue
  <2>1. SUFFICES ASSUME dvCalls = {}
                 PROVE  /\ "history" \notin dvOff =>
                               \A e \in dvPanel.history : \A d \in Site : e.tags[d] = Tags(e.id, d)
                        /\ "entries" \notin dvOff =>
                               \A e \in dvPanel.entries : e.tags = Tags(e.id, dvPanel.entriesOf)
    BY DEF DvTagsAreTrue
  <2>2. ASSUME "history" \notin dvOff, NEW e \in dvPanel.history, NEW d \in Site
        PROVE  Differ(e.tags[d], Tags(e.id, d)) = {}
    BY <1>1, <2>1, <2>2 DEF DvInv, DvHistoryFollows
  <2>3. \A s, t : Differ(s, t) = {} => s = t
    BY DEF Differ
  <2> QED
    BY <1>1, <2>1, <2>2, <2>3 DEF DvInv, DvEntriesFollow
<1>4. DvShowsItsOwn
  <2>1. SUFFICES ASSUME dvCalls = {}
                 PROVE  /\ On("snapshots") /\ "entries" \notin dvOff =>
                               dvPanel.entriesOf = dvPanel.snapsOf
                        /\ On("diff") /\ "diff" \notin dvOff =>
                               /\ dvPanel.result # <<>>
                               /\ dvPanel.result[1].of = dvPanel.diffOf
                               /\ dvPanel.result[1].request = dvPanel.request
                               /\ \A c \in dvPanel.result[1].changes :
                                      \E i \in DOMAIN LAYER_ORDER :
                                          c \in ChangesByLayer(ChangesShown(dvPanel))[i]
    BY DEF DvShowsItsOwn
  <2>2. On("snapshots") /\ "entries" \notin dvOff => dvPanel.entriesOf = dvPanel.snapsOf
    BY <1>1, <2>1 DEF On, DvInv, DvRowsFollow
  <2>3. ASSUME On("diff"), "diff" \notin dvOff
        PROVE  /\ dvPanel.result # <<>> /\ dvPanel.result[1].of = dvPanel.diffOf
               /\ dvPanel.result[1].request = dvPanel.request
    BY <1>1, <2>1, <2>3 DEF On, DvInv, DvResultFollows
  <2>4. ASSUME NEW c
        PROVE  \E i \in DOMAIN LAYER_ORDER : LayerOf(c) = LAYER_ORDER[i]
    <3>1. LayerOf(c) \in {"ssl", "nginx", "backend", "service", "container", "files"}
      BY DEF LayerOf, KIND_TO_LAYER
    <3>2. \A l \in {"ssl", "nginx", "backend", "service", "container", "files"} :
              \E i \in 1..6 : l = LAYER_ORDER[i]
      BY DEF LAYER_ORDER
    <3>3. DOMAIN LAYER_ORDER = 1..6
      BY DEF LAYER_ORDER
    <3> QED
      BY <3>1, <3>2, <3>3
  <2>5. ASSUME On("diff"), "diff" \notin dvOff, NEW c \in dvPanel.result[1].changes
        PROVE  \E i \in DOMAIN LAYER_ORDER : c \in ChangesByLayer(ChangesShown(dvPanel))[i]
    <3>1. c \in ChangesShown(dvPanel)
      BY <2>3, <2>5 DEF ChangesShown
    <3> QED
      BY <2>4, <3>1 DEF ChangesByLayer
  <2> QED
    BY <2>2, <2>3, <2>5
<1> QED
  BY <1>2, <1>3, <1>4

(***************************************************************************)
(* The parts side by side.                                                 *)
(***************************************************************************)
DesktopInv ==
    /\ EdInv /\ TrInv /\ FbInv /\ FoInv /\ FoListIsTrue /\ PsInv /\ HkInv
    /\ WsInv /\ DvInv

LEMMA DesktopInitInv == Init => DesktopInv
<1> SUFFICES ASSUME Init
             PROVE  DesktopInv
  OBVIOUS
<1>1. EdInit /\ TrInit /\ FbInit /\ FoInit /\ PsInit /\ HkInit /\ WsInit /\ DvInit
  BY DEF Init
<1> QED
  BY <1>1, EdInitInv, TrInitInv, FbInitInv, FoInitInv, FoInitList, PsInitInv, HkInitInv,
     WsInvInit, DvInvInit
     DEF DesktopInv

\* A step of one part is a step of its own module, or leaves it alone.
LEMMA DesktopSteps ==
    ASSUME [Next]_desktopVars
    PROVE  /\ [EdNext]_edVars /\ [TrNext]_trVars /\ [FbNext]_fbVars
           /\ [FoNext]_foVars /\ [PsNext]_psVars /\ [HkNext]_hkVars
           /\ [WsNext]_wsVars /\ [DvNext]_dvVars
<1>1. CASE Next
  BY <1>1 DEF Next
<1>2. CASE UNCHANGED desktopVars
  BY <1>2 DEF desktopVars
<1> QED
  BY <1>1, <1>2

LEMMA DesktopStepInv == DesktopInv /\ [Next]_desktopVars => DesktopInv'
<1> SUFFICES ASSUME DesktopInv, [Next]_desktopVars
             PROVE  DesktopInv'
  OBVIOUS
<1>1. /\ [EdNext]_edVars /\ [TrNext]_trVars /\ [FbNext]_fbVars
      /\ [FoNext]_foVars /\ [PsNext]_psVars /\ [HkNext]_hkVars
      /\ [WsNext]_wsVars /\ [DvNext]_dvVars
  BY DesktopSteps
<1>2. EdInv' /\ TrInv' /\ FbInv'
  BY <1>1, EdStepInv, TrStepInv, FbStepInv DEF DesktopInv
<1>3. FoInv' /\ FoListIsTrue' /\ PsInv' /\ HkInv'
  BY <1>1, FoStepInv, FoStepList, PsStepInv, HkStepInv DEF DesktopInv
<1>4. WsInv' /\ DvInv'
  BY <1>1, WsInvNext, DvInvNext DEF DesktopInv
<1> QED
  BY <1>2, <1>3, <1>4 DEF DesktopInv

\* Every variable of the parts that work on what is on screen and on disk keeps its type.
THEOREM DesktopTypesHold == Spec => []DesktopTypeOK
<1>1. DesktopInv => DesktopTypeOK
  <2>1. EdInv => EdTypeOK
    BY DEF EdInv
  <2>2. TrInv => TrTypeOK
    BY DEF TrInv
  <2> QED
    BY <2>1, <2>2, FbInvShows, FoInvGoes, PsInvAgree, HkInvTrust, WsInvHolds, DvInvHolds
       DEF DesktopInv, DesktopTypeOK, WsInv
<1> QED
  BY DesktopInitInv, DesktopStepInv, <1>1, PTL DEF Spec

\* A text ends up in the file it was typed into, whichever file is open when its save is
\* answered; the files of one paste end up in one directory; a row that says a transfer is
\* complete has all of its bytes (TransferService); and of the files on the server only
\* what the prompt named is deleted, nothing is lost in a move, and nothing critical is
\* deleted, moved or pasted over without the phrase (useFileManager, FileService).
THEOREM FilesGoWhereMeant == Spec => []FilesArrive
<1>1. DesktopInv => FilesArrive
  BY EdInvHome, TrInvWhole, FbInvShows, FoInvGoes DEF DesktopInv, FilesArrive
<1> QED
  BY DesktopInitInv, DesktopStepInv, <1>1, PTL DEF Spec

\* With no listing under way the entries on display are those of the path above them, and
\* what is selected is among them (useFileManager, FilesPanel), unless a listing failed,
\* was overtaken by a later one, or was of the directory an operation had been started in.
THEOREM ListsShowTheirDirectory == Spec => [](FbShowsPath /\ FoListIsTrue)
<1>1. DesktopInv => FbShowsPath /\ FoListIsTrue
  BY FbInvShows DEF DesktopInv
<1> QED
  BY DesktopInitInv, DesktopStepInv, <1>1, PTL DEF Spec

\* The window shows what it says: the entries of the path and the rows selected among them;
\* tabs, panels and panes agree, the focused panel is on screen, an intent has reached the
\* panel it was for, a question is about the panel it names (layout/store.ts, the workspace
\* store); the snapshots, tags and changes are those of the deployment above them
\* (DeploymentsPanel), unless the answer that brought them was overtaken or failed.
THEOREM ScreenShowsWhatIs == Spec => []ScreenIsConsistent
<1>1. DesktopInv => ScreenIsConsistent
  BY FbInvShows, WsInvHolds, DvInvHolds DEF DesktopInv, ScreenIsConsistent
<1> QED
  BY DesktopInitInv, DesktopStepInv, <1>1, PTL DEF Spec

\* The profiles and passphrases in the files, in memory and in the window are the same
\* when nothing is under way (ProfileStore, SecretStore, their write-behind, the stores of
\* the window); and the known hosts hold keys the user has accepted (KnownHostsService),
\* unless two servers of one host were asked about at the same time.
THEOREM StoresKeepTheDecision == Spec => []StoresAgree
<1>1. DesktopInv => StoresAgree
  BY PsInvAgree, HkInvTrust DEF DesktopInv, StoresAgree
<1> QED
  BY DesktopInitInv, DesktopStepInv, <1>1, PTL DEF Spec

\* An editor turns clean only with a text that was read from the server or whose write was
\* acknowledged, and no late event takes the row of a complete transfer back.
THEOREM DoneIsDone == Spec => DoneStaysDone
<1>1. DesktopInv /\ [Next]_desktopVars => [EdCleanStep]_edVars /\ [TrFinalStep]_trVars
  BY DesktopSteps, EdStepClean, TrStepFinal DEF DesktopInv
<1>2. Spec => [][EdCleanStep]_edVars /\ [][TrFinalStep]_trVars
  BY DesktopInitInv, DesktopStepInv, <1>1, PTL DEF Spec
<1>3. [][EdCleanStep]_edVars => EdCleanWasSaved
  BY DEF EdCleanStep, EdCleanWasSaved
<1>4. [][TrFinalStep]_trVars => TrCompleteIsFinal
  BY DEF TrFinalStep, TrCompleteIsFinal
<1> QED
  BY <1>2, <1>3, <1>4 DEF DoneStaysDone
================================================================================
