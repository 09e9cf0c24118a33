------------------------------- MODULE CronJobs --------------------------------
(***************************************************************************)
(* The Cron tool: CronService, the hook useCron and CronPanel.             *)
(*                                                                         *)
(* A job is addressed by the number of its line in a crontab.  Listings    *)
(* are read, shown and acted upon later; an edit reads the crontab again,  *)
(* changes the line and installs the whole file.  Others edit the crontabs *)
(* too, calls overlap when the panel is left and opened again, and an      *)
(* installation that timed out may still take place.                       *)
(* One crontab is modelled: those of the user and of root are handled      *)
(* alike, by ids and commands that keep them apart.  Left out: the         *)
(* read-only sources (/etc), privileges, search, the source dialog.        *)
(***************************************************************************)
EXTENDS Null, Naturals, Sequences, FiniteSets, SequencesExt

CONSTANTS
    Job,            \* job lines with a valid schedule
    Listing, Edit,  \* slots for calls under way
    MaxTabChanges,     \* bound: changes of the crontabs
    MaxEdits,       \* bound: edits
    MaxMounts,      \* bound: times the panel is opened
    MaxSteps        \* bound on the three together

ASSUME CrBoundsAssumption == MaxTabChanges \in Nat /\ MaxEdits \in Nat /\ MaxMounts \in Nat

VARIABLES
    crTab,         \* the lines of the crontab
    crVersion,     \* its changes so far (history)
    crList, crEdit,   \* calls under way
    crPanel,       \* the panel on display
    crMounts, crEdits    \* panels and edits so far

crVars == <<crTab, crVersion, crList, crEdit, crPanel, crMounts, crEdits>>

Comment == "comment"
Broken == "broken"     \* a job whose schedule is not valid
CronLine == Job \cup {Comment, Broken}

\* parseCronLine takes any line but comments and assignments for a job.
IsJob(line) == line # Comment

\* (mutant) The jobs are numbered, not the lines.
JobsOfNumbered(lines, version) ==
    LET jobs == SelectSeq(lines, IsJob)
    IN {[line |-> n, job |-> jobs[n], seen |-> version] : n \in DOMAIN jobs}

\* (mutant) Comments are listed too.
JobsOfEveryLine(lines, version) ==
    {[line |-> n, job |-> lines[n], seen |-> version] : n \in DOMAIN lines}

\* parseCrontab, with the id of each job; the version it was read at.
JobsOf(lines, version) ==
    {[line |-> n, job |-> lines[n], seen |-> version] :
        n \in {m \in DOMAIN lines : IsJob(lines[m])}}

NoListing == [phase |-> "free"]
NoEdit == [phase |-> "free"]
NoPanel == [open |-> FALSE, jobs |-> {}, loaded |-> FALSE, loading |-> FALSE,
            dialog |-> None, submitting |-> FALSE]

CrTypeOK ==
    /\ crTab \in Seq(CronLine) /\ crVersion \in 0..MaxTabChanges
    /\ \A c \in Listing : crList[c].phase \in {"free", "asked", "read"}
    /\ \A e \in Edit :
           crEdit[e].phase \in {"free", "asked", "read", "late", "done", "failed"}
    /\ \A j \in crPanel.jobs : j.line \in Nat \ {0} /\ IsJob(j.job)
    /\ crMounts \in 0..MaxMounts /\ crEdits \in 0..MaxEdits

(***************************************************************************)
(* Listings.  The discovery command reads the crontab; the privileges and  *)
(* the crontab of root are asked for before the answer.                    *)
(***************************************************************************)
Asked(by, mount) == [phase |-> "asked", mount |-> mount, by |-> by, jobs |-> {}]

\* What the finally of reload, and of the edit that awaits it, do to the panel.
Settled(panel, call) ==
    [panel EXCEPT !.loaded = TRUE, !.loading = FALSE,
                  !.submitting = IF call.by = "edit" THEN FALSE ELSE panel.submitting]

\* A reload shows its answer in the panel it was started by.
Answers(c, panel) ==
    /\ crList' = [crList EXCEPT ![c] = NoListing]
    /\ crPanel' = IF crPanel.open /\ crList[c].mount = crMounts THEN Settled(panel, crList[c])
                  ELSE crPanel

CrOpens ==
    \E c \in Listing :
        /\ ~crPanel.open /\ crMounts < MaxMounts /\ crList[c].phase = "free"
        /\ crMounts' = crMounts + 1
        /\ crPanel' = [NoPanel EXCEPT !.open = TRUE, !.loading = TRUE]
        /\ crList' = [crList EXCEPT ![c] = Asked("panel", crMounts + 1)]
        /\ UNCHANGED <<crTab, crVersion, crEdit, crEdits>>

CrLeaves ==
    /\ crPanel.open /\ crPanel' = NoPanel
    /\ UNCHANGED <<crTab, crVersion, crList, crEdit, crMounts, crEdits>>

CrRefreshes ==
    \E c \in Listing :
        /\ crPanel.open /\ ~crPanel.loading /\ crPanel.dialog = None /\ crList[c].phase = "free"
        /\ crList' = [crList EXCEPT ![c] = Asked("panel", crMounts)]
        /\ crPanel' = [crPanel EXCEPT !.loading = TRUE]
        /\ UNCHANGED <<crTab, crVersion, crEdit, crMounts, crEdits>>

CrListReads(c) ==
    /\ crList[c].phase = "asked"
    /\ crList' = [crList EXCEPT ![c] = [crList[c] EXCEPT !.phase = "read",
                                                         !.jobs = JobsOf(crTab, crVersion)]]
    /\ UNCHANGED <<crTab, crVersion, crEdit, crPanel, crMounts, crEdits>>

CrLists(c) ==
    /\ crList[c].phase = "read"
    /\ Answers(c, [crPanel EXCEPT !.jobs = crList[c].jobs])
    /\ UNCHANGED <<crTab, crVersion, crEdit, crMounts, crEdits>>

\* The jobs of the listing before stay on display.
CrListFails(c) ==
    /\ crList[c].phase # "free"
    /\ Answers(c, crPanel)
    /\ UNCHANGED <<crTab, crVersion, crEdit, crMounts, crEdits>>

(***************************************************************************)
(* Dialogs and edits.                                                      *)
(***************************************************************************)
\* A dialog keeps the job it was opened for, whatever is listed since.
Dialog(kind, job) == [kind |-> kind, job |-> job]
SameDialog(kind, other) == (kind = "delete") = (other = "delete")

CrAsks(kind, job) ==
    /\ crPanel.open /\ crPanel.loaded /\ crPanel.dialog = None
    /\ (kind = "create") = (job = None)
    /\ crPanel' = [crPanel EXCEPT !.dialog = Dialog(kind, job)]
    /\ UNCHANGED <<crTab, crVersion, crList, crEdit, crMounts, crEdits>>

CrCancels ==
    /\ crPanel.open /\ crPanel.dialog # None
    /\ crPanel' = [crPanel EXCEPT !.dialog = None]
    /\ UNCHANGED <<crTab, crVersion, crList, crEdit, crMounts, crEdits>>

Submitting(panel) == [panel EXCEPT !.submitting = TRUE]

\* Save asks for a valid schedule, so the new line is a job of Job.
CrSubmits(value) ==
    \E e \in Edit :
        /\ crPanel.open /\ crPanel.dialog # None /\ ~crPanel.submitting
        /\ crEdit[e].phase = "free" /\ crEdits < MaxEdits
        /\ (value = None) = (crPanel.dialog.kind = "delete")
        /\ crEdits' = crEdits + 1
        /\ crPanel' = Submitting(crPanel)
        /\ crEdit' = [crEdit EXCEPT ![e] =
               [phase |-> "asked", mount |-> crMounts, kind |-> crPanel.dialog.kind,
                job |-> crPanel.dialog.job, value |-> value, base |-> <<>>, at |-> 0]]
        /\ UNCHANGED <<crTab, crVersion, crList, crMounts>>

\* resolveJobLineIndex: the line must still be there, and be a job.
Resolves(lines, edit) ==
    edit.kind = "create" \/ (edit.job.line \in DOMAIN lines /\ IsJob(lines[edit.job.line]))

\* createJob, updateJob, deleteJob up to the installation of what they have made.
CrReads(e) ==
    /\ crEdit[e].phase = "asked"
    /\ crEdit' = [crEdit EXCEPT ![e] =
           IF Resolves(crTab, crEdit[e])
           THEN [crEdit[e] EXCEPT !.phase = "read", !.base = crTab, !.at = crVersion]
           ELSE [crEdit[e] EXCEPT !.phase = "failed"]]
    /\ UNCHANGED <<crTab, crVersion, crList, crPanel, crMounts, crEdits>>

Edited(edit) ==
    CASE edit.kind = "create" -> Append(edit.base, edit.value)
      [] edit.kind = "update" -> [edit.base EXCEPT ![edit.job.line] = edit.value]
      [] edit.kind = "delete" -> RemoveAt(edit.base, edit.job.line)

\* A crontab without a line left is installed as one empty line.
Installed(lines) == IF lines = <<>> THEN <<Comment>> ELSE lines

TabBecomes(lines) ==
    /\ crVersion < MaxTabChanges /\ crVersion' = crVersion + 1
    /\ crTab' = lines

EditIs(e, phase) == crEdit' = [crEdit EXCEPT ![e] = [crEdit[e] EXCEPT !.phase = phase]]

\* crontab <file>, also after its exec has timed out and been given up.
CrInstalls(e) ==
    /\ crEdit[e].phase \in {"read", "late"}
    /\ TabBecomes(Installed(Edited(crEdit[e])))
    /\ EditIs(e, IF crEdit[e].phase = "read" THEN "done" ELSE "failed")
    /\ UNCHANGED <<crList, crPanel, crMounts, crEdits>>

CrTimesOut(e) ==
    /\ crEdit[e].phase = "read"
    /\ EditIs(e, "late")
    /\ UNCHANGED <<crTab, crVersion, crList, crPanel, crMounts, crEdits>>

CrEditFails(e) ==
    /\ crEdit[e].phase \in {"asked", "read", "late"}
    /\ EditIs(e, "failed")
    /\ UNCHANGED <<crTab, crVersion, crList, crPanel, crMounts, crEdits>>

\* submitJob, confirmDelete after the await: the dialog on display closes, be it the one
\* that was confirmed or a later one; the panel waits for the reload before another edit.
DialogAfter(edit, dialog) ==
    IF dialog # None /\ SameDialog(edit.kind, dialog.kind) THEN None ELSE dialog
CrEditDone(e) ==
    \E c \in Listing :
        /\ crEdit[e].phase = "done" /\ crList[c].phase = "free"
        /\ crEdit' = [crEdit EXCEPT ![e] = NoEdit]
        /\ crList' = [crList EXCEPT ![c] = Asked("edit", crEdit[e].mount)]
        /\ crPanel' = IF ~crPanel.open \/ crEdit[e].mount # crMounts THEN crPanel
                      ELSE [crPanel EXCEPT !.loading = TRUE,
                                           !.dialog = DialogAfter(crEdit[e], crPanel.dialog)]
        /\ UNCHANGED <<crTab, crVersion, crMounts, crEdits>>

CrEditReported(e) ==
    /\ crEdit[e].phase = "failed"
    /\ crEdit' = [crEdit EXCEPT ![e] = NoEdit]
    /\ crPanel' = IF crPanel.open /\ crEdit[e].mount = crMounts
                  THEN [crPanel EXCEPT !.submitting = FALSE] ELSE crPanel
    /\ UNCHANGED <<crTab, crVersion, crList, crMounts, crEdits>>

\* Somebody edits the crontab on the server.
CrSomeoneEdits(lines) ==
    /\ TabBecomes(lines)
    /\ UNCHANGED <<crList, crEdit, crPanel, crMounts, crEdits>>

CrInit ==
    /\ \E j \in Job : crTab = <<Comment, Broken, j>>
    /\ crVersion = 0
    /\ crList = [c \in Listing |-> NoListing] /\ crEdit = [e \in Edit |-> NoEdit]
    /\ crPanel = NoPanel /\ crMounts = 0 /\ crEdits = 0

CrNext ==
    \/ CrOpens \/ CrLeaves \/ CrRefreshes \/ CrCancels
    \/ \E c \in Listing : CrListReads(c) \/ CrLists(c) \/ CrListFails(c)
    \/ \E job \in crPanel.jobs \cup {None}, kind \in {"create", "update", "delete"} : CrAsks(kind, job)
    \/ \E value \in Job \cup {None} : CrSubmits(value)
    \/ \E e \in Edit : \/ CrReads(e) \/ CrInstalls(e) \/ CrTimesOut(e) \/ CrEditFails(e)
                       \/ CrEditDone(e) \/ CrEditReported(e)
    \/ \E n \in DOMAIN crTab : CrSomeoneEdits(RemoveAt(crTab, n))
    \/ CrSomeoneEdits(<<Comment>> \o crTab)

\* (bound) Panels, edits and changes together.
CrBound == crMounts + crEdits + crVersion <= MaxSteps

CrSpec == CrInit /\ [][CrNext]_crVars

(***************************************************************************)
(* Properties.                                                             *)
(***************************************************************************)
\* The line an edit changes is the job its dialog showed, whatever was listed between,
\* unless the crontab was changed since that job was listed.
CrMeantJob ==
    \A e \in Edit : crEdit[e].phase \in {"read", "late"} /\ crEdit[e].kind # "create" =>
        LET edit == crEdit[e] IN
        edit.at = edit.job.seen => edit.base[edit.job.line] = edit.job.job

\* A panel has one edit at a time under way, with the listing that follows it, and its
\* buttons are enabled again when that one has been told.
CrOneEdit ==
    LET mine == {e \in Edit : crEdit[e].phase # "free" /\ crEdit[e].mount = crMounts}
        after == {c \in Listing : /\ crList[c].phase # "free" /\ crList[c].mount = crMounts
                                  /\ crList[c].by = "edit"}
    IN crPanel.open => /\ Cardinality(mine) + Cardinality(after) <= 1
                       /\ crPanel.submitting = (mine \cup after # {})
===============================================================================
