--------------------------- MODULE ServerToolsProofs ---------------------------
(***************************************************************************)
(* What the tools of a server promise, for any number of workflows, edits, *)
(* rules, processes, containers and views: nginx only ever reloads what    *)
(* nginx -t has accepted, work that outlives its call says how it ended,   *)
(* nothing but what the user named is stopped or deleted, and no stream is *)
(* left over from views that are gone.                                     *)
(*                                                                         *)
(* The properties speak of what was reported, loaded and removed.  They    *)
(* follow from what holds on the way there: which configurations are       *)
(* tested while a reload may still be asked for (NgxOrdered), where in its *)
(* chain of steps a workflow has done what (SslOrdered), and, for the      *)
(* panels - ports, processes, docker, logs, statistics -, an invariant of  *)
(* each module, with the lemmas that it holds at first and that every step *)
(* keeps it.                                                               *)
(***************************************************************************)
EXTENDS ServerTools, SequenceTheorems, FiniteSetTheorems, FunctionTheorems, TLAPS

(***************************************************************************)
(* The gate of the Nginx tool.                                             *)
(***************************************************************************)
\* As long as nothing has raced: no test and no reload overlaps a file that changed
\* and is not counted yet; what the gate lets through has passed nginx -t.
NgxOrdered ==
    ~ngxRaced =>
        /\ ngxReload.loaded # "untested"
        /\ ngxReload.pending => ngxDisk.tested /\ ngxEdit # "landed"
        /\ ngxTest # "idle" => ngxEdit # "landed"
        /\ ngxTest = "valid" => ngxDisk.tested
        /\ NgxCanReload /\ ngxEdit # "landed" => ngxDisk.tested

\* Each edit under way is one of those made.
NgxCounted ==
    ngxTracker.config + (IF ngxEdit = "idle" THEN 0 ELSE 1) <= ngxMade

\* Only files that would pass the test again count as tested.
NgxTestedIsGood == ngxDisk.tested => ngxDisk.good

NgxInv == NgxTypeOK /\ NgxCounted /\ NgxTestedIsGood /\ NgxOrdered

\* The gate starts with the files nginx was started with.
LEMMA NgxInitInv == NgxInit => NgxInv
<1> SUFFICES ASSUME NgxInit PROVE NgxInv
  OBVIOUS
<1> USE MaxEditsAssumption DEF NgxInit, NewTracker
<1>1. NgxTypeOK
  <2>1. ngxDisk \in [good : BOOLEAN, tested : BOOLEAN]
    OBVIOUS
  <2> 0 \in 0..MaxEdits
    OBVIOUS
  <2>2. ngxTracker \in [config : 0..MaxEdits, validated : 0..MaxEdits, validation : Verdict]
    BY DEF Verdict
  <2>4. ngxTracker.validated <= ngxTracker.config
    <3>1. ngxTracker.validated = 0 /\ ngxTracker.config = 0
      OBVIOUS
    <3> QED
      BY <3>1
  <2>3. ngxReload \in [pending : BOOLEAN, loaded : {"nothing", "tested", "untested"}]
    OBVIOUS
  <2> QED
    BY <2>1, <2>2, <2>3, <2>4, Zenon DEF NgxTypeOK
<1>2. NgxCounted
  BY DEF NgxCounted
<1>3. NgxOrdered
  BY DEF NgxOrdered, NgxCanReload
<1>4. NgxTestedIsGood
  BY DEF NgxTestedIsGood
<1> QED
  BY <1>1, <1>2, <1>3, <1>4 DEF NgxInv

\* No step of the Nginx tool leaves the invariant of its gate.
LEMMA NgxStepInv == NgxInv /\ [NgxNext]_ngxVars => NgxInv'
<1> SUFFICES ASSUME NgxInv, [NgxNext]_ngxVars
             PROVE  NgxInv'
  OBVIOUS
<1> USE MaxEditsAssumption DEF NgxInv
<1>1. CASE NgxEditBegins
  <2>1. NgxTypeOK'
    BY <1>1 DEF NgxEditBegins, NgxTypeOK, Verdict, NgxCounted
  <2>2. NgxCounted'
    BY <1>1 DEF NgxEditBegins, NgxTypeOK, NgxCounted
  <2>3. NgxTestedIsGood'
    BY <1>1 DEF NgxEditBegins, NgxTestedIsGood
  <2>4. NgxOrdered'
    BY <1>1 DEF NgxEditBegins, NgxTypeOK, Verdict, NgxTestedIsGood, NgxOrdered, NgxCanReload
  <2> QED
    BY <2>1, <2>2, <2>3, <2>4
<1>2. CASE NgxEditLands
  <2>1. NgxTypeOK'
    BY <1>2 DEF NgxEditLands, NgxTypeOK, Verdict, NgxCounted
  <2>2. NgxCounted'
    BY <1>2 DEF NgxEditLands, NgxTypeOK, NgxCounted
  <2>3. NgxTestedIsGood'
    BY <1>2 DEF NgxEditLands, NgxTestedIsGood
  <2>4. NgxOrdered'
    BY <1>2, Zenon DEF NgxEditLands, NgxTypeOK, Verdict, NgxTestedIsGood, NgxOrdered, NgxCanReload
  <2> QED
    BY <2>1, <2>2, <2>3, <2>4
<1>3. CASE NgxEditReturns
  <2>1. NgxTypeOK'
    <3> DEFINE c == ngxTracker.config  v == ngxTracker.validated
    <3>1. c \in Nat /\ v \in 0..MaxEdits /\ v <= c /\ c + 1 <= MaxEdits
      BY <1>3 DEF NgxEditReturns, NgxTypeOK, NgxCounted
    <3>2. c + 1 \in 0..MaxEdits /\ v <= c + 1
      BY <3>1
    <3> HIDE DEF c, v
    <3>4. ngxTracker' = [config |-> c + 1, validated |-> v, validation |-> "unknown"]
      BY <1>3, Zenon DEF NgxEditReturns, NgxTypeOK, c, v
    <3>5. /\ ngxTracker' \in [config : 0..MaxEdits, validated : 0..MaxEdits,
                             validation : Verdict]
          /\ ngxTracker'.validated <= ngxTracker'.config
      BY <3>1, <3>2, <3>4 DEF Verdict
    <3> QED
      BY <1>3, <3>5 DEF NgxEditReturns, NgxTypeOK
  <2>2. NgxCounted'
    BY <1>3 DEF NgxEditReturns, NgxTypeOK, NgxCounted
  <2>3. NgxTestedIsGood'
    BY <1>3 DEF NgxEditReturns, NgxTestedIsGood
  <2>4. NgxOrdered'
    BY <1>3 DEF NgxEditReturns, NgxTypeOK, Verdict, NgxTestedIsGood, NgxOrdered, NgxCanReload
  <2> QED
    BY <2>1, <2>2, <2>3, <2>4
<1>4. CASE NgxEditFails
  <2>1. NgxTypeOK'
    BY <1>4 DEF NgxEditFails, NgxTypeOK, Verdict, NgxCounted
  <2>2. NgxCounted'
    BY <1>4 DEF NgxEditFails, NgxTypeOK, NgxCounted
  <2>3. NgxTestedIsGood'
    BY <1>4 DEF NgxEditFails, NgxTestedIsGood
  <2>4. NgxOrdered'
    BY <1>4, Zenon DEF NgxEditFails, NgxTypeOK, Verdict, NgxTestedIsGood, NgxOrdered, NgxCanReload
  <2> QED
    BY <2>1, <2>2, <2>3, <2>4
<1>5. CASE NgxEditElsewhere
  <2>1. NgxTypeOK'
    BY <1>5 DEF NgxEditElsewhere, NgxTypeOK, Verdict, NgxCounted
  <2>2. NgxCounted'
    BY <1>5 DEF NgxEditElsewhere, NgxTypeOK, NgxCounted
  <2>3. NgxTestedIsGood'
    BY <1>5 DEF NgxEditElsewhere, NgxTestedIsGood
  <2>4. NgxOrdered'
    BY <1>5 DEF NgxEditElsewhere, NgxTypeOK, Verdict, NgxTestedIsGood, NgxOrdered, NgxCanReload
  <2> QED
    BY <2>1, <2>2, <2>3, <2>4
<1>6. CASE NgxTestBegins
  <2>1. NgxTypeOK'
    BY <1>6 DEF NgxTestBegins, NgxTypeOK, Verdict, NgxCounted
  <2>2. NgxCounted'
    BY <1>6 DEF NgxTestBegins, NgxTypeOK, NgxCounted
  <2>3. NgxTestedIsGood'
    BY <1>6 DEF NgxTestBegins, NgxTestedIsGood
  <2>4. NgxOrdered'
    BY <1>6, Zenon DEF NgxTestBegins, NgxTypeOK, Verdict, NgxTestedIsGood, NgxOrdered, NgxCanReload
  <2> QED
    BY <2>1, <2>2, <2>3, <2>4
<1>7. CASE NgxTestRuns
  <2>1. NgxTypeOK'
    <3>1. ngxDisk' \in [good : BOOLEAN, tested : BOOLEAN]
      BY <1>7 DEF NgxTestRuns, NgxTypeOK
    <3> QED
      BY <1>7, <3>1 DEF NgxTestRuns, NgxTypeOK
  <2>2. NgxCounted'
    BY <1>7 DEF NgxTestRuns, NgxTypeOK, NgxCounted
  <2>3. NgxTestedIsGood'
    BY <1>7 DEF NgxTestRuns, NgxTestedIsGood
  <2>4. NgxOrdered'
    BY <1>7 DEF NgxTestRuns, NgxTypeOK, Verdict, NgxTestedIsGood, NgxOrdered, NgxCanReload
  <2> QED
    BY <2>1, <2>2, <2>3, <2>4
<1>8. CASE NgxTestAnswers
  <2>1. NgxTypeOK'
    <3> DEFINE c == ngxTracker.config
    <3>1. c \in 0..MaxEdits /\ c <= c /\ ngxTest \in Verdict
      BY <1>8 DEF NgxTestAnswers, NgxTypeOK, Verdict
    <3> HIDE DEF c
    <3>4. ngxTracker' = [config |-> c, validated |-> c, validation |-> ngxTest]
      BY <1>8, Zenon DEF NgxTestAnswers, NgxTypeOK, c
    <3>5. /\ ngxTracker' \in [config : 0..MaxEdits, validated : 0..MaxEdits,
                             validation : Verdict]
          /\ ngxTracker'.validated <= ngxTracker'.config
      BY <3>1, <3>4
    <3> QED
      BY <1>8, <3>5 DEF NgxTestAnswers, NgxTypeOK
  <2>2. NgxCounted'
    BY <1>8 DEF NgxTestAnswers, NgxTypeOK, NgxCounted
  <2>3. NgxTestedIsGood'
    BY <1>8 DEF NgxTestAnswers, NgxTestedIsGood
  <2>4. NgxOrdered'
    BY <1>8 DEF NgxTestAnswers, NgxTypeOK, Verdict, NgxTestedIsGood, NgxOrdered, NgxCanReload
  <2> QED
    BY <2>1, <2>2, <2>3, <2>4
<1>9. CASE NgxTestFails
  <2>1. NgxTypeOK'
    BY <1>9 DEF NgxTestFails, NgxTypeOK, Verdict, NgxCounted
  <2>2. NgxCounted'
    BY <1>9 DEF NgxTestFails, NgxTypeOK, NgxCounted
  <2>3. NgxTestedIsGood'
    BY <1>9 DEF NgxTestFails, NgxTestedIsGood
  <2>4. NgxOrdered'
    BY <1>9 DEF NgxTestFails, NgxTypeOK, Verdict, NgxTestedIsGood, NgxOrdered, NgxCanReload
  <2> QED
    BY <2>1, <2>2, <2>3, <2>4
<1>10. CASE NgxReloadAsked
  <2>1. NgxTypeOK'
    BY <1>10, Zenon DEF NgxReloadAsked, NgxTypeOK, Verdict, NgxCounted
  <2>2. NgxCounted'
    BY <1>10 DEF NgxReloadAsked, NgxTypeOK, NgxCounted
  <2>3. NgxTestedIsGood'
    BY <1>10 DEF NgxReloadAsked, NgxTestedIsGood
  <2>4. NgxOrdered'
    BY <1>10, Zenon DEF NgxReloadAsked, NgxTypeOK, Verdict, NgxTestedIsGood, NgxOrdered,
         NgxCanReload
  <2> QED
    BY <2>1, <2>2, <2>3, <2>4
<1>11. CASE NgxReloadRuns
  <2>1. NgxTypeOK'
    BY <1>11 DEF NgxReloadRuns, NgxTypeOK, Verdict, NgxCounted
  <2>2. NgxCounted'
    BY <1>11 DEF NgxReloadRuns, NgxTypeOK, NgxCounted
  <2>3. NgxTestedIsGood'
    BY <1>11 DEF NgxReloadRuns, NgxTestedIsGood
  <2>4. NgxOrdered'
    BY <1>11 DEF NgxReloadRuns, NgxTypeOK, Verdict, NgxTestedIsGood, NgxOrdered, NgxCanReload
  <2> QED
    BY <2>1, <2>2, <2>3, <2>4
<1>12. CASE NgxTeardown
  <2>1. NgxTypeOK'
    BY <1>12 DEF NgxTeardown, NewTracker, NgxTypeOK, Verdict, NgxCounted
  <2>2. NgxCounted'
    BY <1>12 DEF NgxTeardown, NewTracker, NgxTypeOK, NgxCounted
  <2>3. NgxTestedIsGood'
    BY <1>12 DEF NgxTeardown, NewTracker, NgxTestedIsGood
  <2>4. NgxOrdered'
    BY <1>12, Zenon DEF NgxTeardown, NewTracker, NgxTypeOK, Verdict, NgxTestedIsGood, NgxOrdered,
                  NgxCanReload
  <2> QED
    BY <2>1, <2>2, <2>3, <2>4
<1>13. CASE UNCHANGED ngxVars
  <2>1. NgxTypeOK'
    BY <1>13 DEF ngxVars, NgxTypeOK, Verdict, NgxCounted
  <2>2. NgxCounted'
    BY <1>13 DEF ngxVars, NgxTypeOK, NgxCounted
  <2>3. NgxTestedIsGood'
    BY <1>13 DEF ngxVars, NgxTestedIsGood
  <2>4. NgxOrdered'
    BY <1>13 DEF ngxVars, NgxTypeOK, Verdict, NgxTestedIsGood, NgxOrdered, NgxCanReload
  <2> QED
    BY <2>1, <2>2, <2>3, <2>4
<1> QED
  BY <1>1, <1>2, <1>3, <1>4, <1>5, <1>6, <1>7, <1>8, <1>9, <1>10, <1>11, <1>12, <1>13
     DEF NgxNext

(***************************************************************************)
(* The workflow that enables HTTPS.                                        *)
(***************************************************************************)
\* Where a run stands tells what it has done: its channel is certbot's, it is past
\* its backup when certbot runs, and past its test when it reloads.  A flag is only set
\* on a stream that leaves the list, so that no step finds it and every end is told.
RunOrdered(r, tested) ==
    /\ r.channel # "none" => r.at = Issue
    /\ r.at \in Issue..LastStep => "backup" \in r.did
    /\ "certificate" \in r.did => "backup" \in r.did
    /\ r.at = Reload /\ ~r.crossed => tested
    /\ "untested-reload" \in r.did => r.crossed
    /\ r.listed => ~r.cancelled
    /\ r.at = 0 => ~r.listed /\ ~r.cancelled
    /\ r.at = Ended /\ r.report = "none" => r.silent

SslOrdered == \A w \in Workflow : RunOrdered(sslRun[w], sslSite.tested)

\* A view without a server has been unmounted; any other has heard of every end.
SslViewsHear ==
    /\ ~sslLink /\ sslPanel.shows # None => sslPanel.remounted
    /\ SslViewHearsEnd

SslInv == SslTypeOK /\ SslOrdered /\ SslViewsHear

\* The steps as numbers.
LEMMA StepFacts ==
    /\ Validate = 3 /\ BackUp = 8 /\ Issue = 9 /\ Revalidate = 11 /\ Reload = 12
    /\ LastStep = 14 /\ Ended = 15
BY DEF Validate, BackUp, Issue, Revalidate, Reload, LastStep, Ended

\* The chain of steps: only the second test leads to the reload, only the backup to
\* certbot.
LEMMA AfterFacts ==
    ASSUME NEW n \in 1..13
    PROVE  /\ After(n) \in 1..14
           /\ After(n) = 12 => n = 11
           /\ After(n) >= 9 => n >= 8
<1>1. CASE n + 1 \in NoAwait
  <2>1. After(n) = n + 2 /\ n \in {1, 4}
    BY <1>1 DEF After, NoAwait
  <2> QED
    BY <2>1
<1>2. CASE n + 1 \notin NoAwait
  <2>1. After(n) = n + 1
    BY <1>2 DEF After
  <2> QED
    BY <2>1
<1> QED
  BY <1>1, <1>2

\* Runs start with nothing done and nothing said.
LEMMA SslInitInv == SslInit => SslInv
<1> SUFFICES ASSUME SslInit PROVE SslInv
  OBVIOUS
<1>1. FreshRun \in RunRecord /\ RunOrdered(FreshRun, FALSE)
  BY StepFacts DEF FreshRun, RunRecord, RunOrdered, Deed
<1>2. SslTypeOK
  BY <1>1 DEF SslInit, SslTypeOK, NoRunShown
<1>3. SslOrdered
  BY <1>1, Zenon DEF SslInit, SslOrdered
<1>4. SslViewsHear
  BY DEF SslInit, SslViewsHear, SslViewHearsEnd, NoRunShown
<1> QED
  BY <1>2, <1>3, <1>4 DEF SslInv

\* A test that passes disturbs no run.
LEMMA TestedIsEnough ==
    ASSUME NEW r, NEW before, NEW after, before => after, RunOrdered(r, before)
    PROVE  RunOrdered(r, after)
BY DEF RunOrdered

\* A run that ends with a report, or silently, is told of.
LEMMA EndRunKeeps ==
    ASSUME SslInv, NEW w \in Workflow, Running(w),
           NEW report \in {"none", "success", "failure"}, NEW silent \in BOOLEAN,
           report = "none" => silent, NEW deeds \in SUBSET {"backup"},
           EndRun(w, report, deeds, silent), UNCHANGED <<sslSite, sslLink>>
    PROVE  SslInv'
<1> DEFINE q == sslRun[w]
           r == [q EXCEPT !.at = Ended, !.listed = FALSE, !.channel = "none",
                    !.report = report, !.did = @ \cup deeds, !.silent = silent]
<1>0. q \in RunRecord /\ RunOrdered(q, sslSite.tested)
  BY DEF SslInv, SslTypeOK, SslOrdered
<1>1. /\ r.at = Ended /\ r.listed = FALSE /\ r.channel = "none"
      /\ r.report = report /\ r.did = q.did \cup deeds /\ r.silent = silent
      /\ r.crossed = q.crossed
  BY <1>0 DEF RunRecord
<1>2. r \in RunRecord
  <2>1. q.did \cup deeds \in SUBSET Deed
    BY <1>0, Zenon DEF RunRecord, Deed
  <2>2. Ended \in 0..Ended
    BY StepFacts
  <2> QED
    BY <1>0, <2>1, <2>2, Zenon DEF RunRecord
<1> HIDE DEF r
<1>8. RunOrdered(r, sslSite.tested)
  <2>1. r.at # 0 /\ r.at # Issue /\ r.at # Reload /\ r.at \notin Issue..LastStep
    BY <1>1, StepFacts
  <2>2. /\ "certificate" \in r.did => "certificate" \in q.did
        /\ "untested-reload" \in r.did => "untested-reload" \in q.did
        /\ "backup" \in q.did => "backup" \in r.did
    BY <1>1
  <2> QED
    BY <1>0, <1>1, <2>1, <2>2 DEF RunOrdered
<1>3. sslRun' = [sslRun EXCEPT ![w] = r] /\ sslPanel' = SslHeard(w, report)
  BY DEF EndRun, r
<1> HIDE DEF q
<1>4. SslTypeOK'
  BY <1>2, <1>3, WorkflowAssumption, Zenon DEF SslInv, SslTypeOK, SslHeard
<1>5. SslOrdered'
  BY <1>8, <1>3 DEF SslInv, SslTypeOK, SslOrdered
<1>7. SslViewsHear'
  <2>1. CASE sslPanel.shows = w
    BY <2>1, <1>1, <1>3 DEF SslInv, SslViewsHear, SslViewHearsEnd, SslHeard, SslTypeOK
  <2>2. CASE sslPanel.shows # w
    BY <2>2, <1>3 DEF SslInv, SslViewsHear, SslViewHearsEnd, SslHeard, SslTypeOK
  <2> QED
    BY <2>1, <2>2
<1> QED
  BY <1>4, <1>5, <1>7 DEF SslInv
\* The run that goes on to its next step is in order there, and disturbs no other.
LEMMA ProceedKeeps ==
    ASSUME SslInv, NEW w \in Workflow, sslRun[w].at \in 1..13,
           NEW deeds \in SUBSET {"backup", "reload", "untested-reload"},
           sslRun[w].at = BackUp => "backup" \in deeds,
           "untested-reload" \in deeds => sslRun[w].crossed,
           sslRun[w].at = Revalidate => sslSite'.tested,
           Proceed(w, deeds),
           sslSite' \in [valid : BOOLEAN, tested : BOOLEAN],
           sslSite.tested => sslSite'.tested,
           UNCHANGED sslLink
    PROVE  SslInv'
<1> DEFINE q == sslRun[w]
           r == [q EXCEPT !.at = After(@), !.channel = "none", !.did = @ \cup deeds]
<1>0. q \in RunRecord /\ RunOrdered(q, sslSite.tested)
  BY DEF SslInv, SslTypeOK, SslOrdered
<1>9. /\ q.at \in 1..13
      /\ q.at = BackUp => "backup" \in deeds
      /\ "untested-reload" \in deeds => q.crossed
      /\ q.at = Revalidate => sslSite'.tested
      /\ Proceed(w, deeds) => sslRun' = [sslRun EXCEPT ![w] = r] /\ UNCHANGED sslPanel
  BY DEF Proceed
<1> HIDE DEF q
<1>1. /\ r.at = After(q.at) /\ r.listed = q.listed /\ r.channel = "none"
      /\ r.report = q.report /\ r.did = q.did \cup deeds /\ r.silent = q.silent
      /\ r.crossed = q.crossed /\ r.cancelled = q.cancelled
  BY <1>0 DEF RunRecord
<1>2. /\ After(q.at) \in 1..14
      /\ After(q.at) = Reload => q.at = Revalidate
      /\ After(q.at) >= Issue => q.at >= BackUp
  <2>1. q.at \in 1..13
    BY <1>9
  <2> QED
    BY <2>1, AfterFacts, StepFacts
<1>3. r \in RunRecord
  <2>1. q.did \cup deeds \in SUBSET Deed
    BY <1>0 DEF RunRecord, Deed
  <2>2. After(q.at) \in 0..Ended
    BY <1>2, StepFacts
  <2> QED
    BY <1>0, <2>1, <2>2, Zenon DEF RunRecord
<1>4. sslRun' = [sslRun EXCEPT ![w] = r] /\ UNCHANGED sslPanel
  BY <1>9
<1> HIDE DEF r
<1>5. RunOrdered(r, sslSite'.tested)
  <2>1. r.at # Ended /\ r.at # 0
    BY <1>1, <1>2, StepFacts
  <2>2. r.at \in Issue..LastStep => "backup" \in r.did
    <3>1. CASE q.at = BackUp
      <4>1. "backup" \in deeds
        BY <3>1, <1>9
      <4> QED
        BY <4>1, <1>1
    <3>2. CASE q.at \in 9..13
      <4>1. q.at \in Issue..LastStep
        BY <3>2, StepFacts
      <4>2. "backup" \in q.did
        BY <4>1, <1>0 DEF RunOrdered
      <4> QED
        BY <4>2, <1>1
    <3>3. CASE q.at \in 1..7
      <4>1. ~(r.at >= Issue) /\ r.at \in 1..14
        BY <3>3, <1>1, <1>2, StepFacts
      <4> QED
        BY <4>1, StepFacts
    <3>4. q.at \in 1..7 \/ q.at = 8 \/ q.at \in 9..13
      BY <1>9
    <3> QED
      BY <3>1, <3>2, <3>3, <3>4, StepFacts
  <2>3. "certificate" \in r.did => "certificate" \in q.did
    BY <1>1
  <2>4. r.at = Reload => sslSite'.tested
    BY <1>1, <1>2, <1>9
  <2>5. "untested-reload" \in r.did => r.crossed
    <3>1. "untested-reload" \in r.did => "untested-reload" \in q.did \/ q.crossed
      BY <1>1, <1>9
    <3> QED
      BY <1>0, <1>1, <3>1 DEF RunOrdered
  <2>6. "backup" \in q.did => "backup" \in r.did
    BY <1>1
  <2> QED
    BY <1>0, <1>1, <2>1, <2>2, <2>3, <2>4, <2>5, <2>6 DEF RunOrdered
<1>6. SslTypeOK'
  BY <1>3, <1>4 DEF SslInv, SslTypeOK
<1>7. SslOrdered'
  <2> SUFFICES ASSUME NEW v \in Workflow
               PROVE  RunOrdered(sslRun'[v], sslSite'.tested)
    BY DEF SslOrdered
  <2>1. CASE v = w
    BY <2>1, <1>4, <1>5 DEF SslInv, SslTypeOK
  <2>2. CASE v # w
    <3>1. sslRun'[v] = sslRun[v] /\ RunOrdered(sslRun[v], sslSite.tested)
      BY <2>2, <1>4 DEF SslInv, SslTypeOK, SslOrdered
    <3> QED
      BY <3>1, TestedIsEnough
  <2> QED
    BY <2>1, <2>2
<1>8. SslViewsHear'
  <2>1. r.at # Ended
    BY <1>1, <1>2, StepFacts
  <2> QED
    BY <2>1, <1>4 DEF SslInv, SslTypeOK, SslViewsHear, SslViewHearsEnd
<1> QED
  BY <1>6, <1>7, <1>8 DEF SslInv
\* Cancelling a run, or losing its server, leaves it in order.
LEMMA DroppedFacts ==
    ASSUME NEW r \in RunRecord, NEW tested, RunOrdered(r, tested)
    PROVE  /\ Dropped(r) \in RunRecord
           /\ RunOrdered(Dropped(r), tested)
           /\ Dropped(r).at = r.at /\ Dropped(r).report = r.report
           /\ Dropped(r).silent = r.silent
<1>1. CASE ~r.listed
  BY <1>1 DEF Dropped
<1>2. CASE r.listed
  <2> DEFINE c == IF r.channel = "open" THEN "closing" ELSE r.channel
             d == [r EXCEPT !.cancelled = TRUE, !.listed = FALSE, !.channel = c]
  <2>1. Dropped(r) = d
    BY <1>2 DEF Dropped
  <2>2. c \in {"none", "open", "closing"} /\ (c # "none" => r.channel # "none")
    BY DEF RunRecord
  <2> HIDE DEF c
  <2>3. /\ d \in RunRecord
        /\ d.at = r.at /\ d.listed = FALSE /\ d.cancelled = TRUE /\ d.channel = c
        /\ d.report = r.report /\ d.did = r.did /\ d.crossed = r.crossed
        /\ d.silent = r.silent
    BY <2>2, Zenon DEF RunRecord
  <2> HIDE DEF d
  <2>4. r.at # 0
    BY <1>2 DEF RunOrdered
  <2>5. RunOrdered(d, tested)
    BY <2>2, <2>3, <2>4 DEF RunOrdered
  <2> QED
    BY <2>1, <2>3, <2>5
<1> QED
  BY <1>1, <1>2
\* No step of a workflow, of its panel or of the connection leaves the invariant.
LEMMA SslStepInv == SslInv /\ [SslNext]_sslVars => SslInv'
<1> SUFFICES ASSUME SslInv, [SslNext]_sslVars
             PROVE  SslInv'
  OBVIOUS
<1>0. /\ \A w \in Workflow : /\ sslRun[w] \in RunRecord
                            /\ RunOrdered(sslRun[w], sslSite.tested)
      /\ sslSite \in [valid : BOOLEAN, tested : BOOLEAN]
  BY DEF SslInv, SslTypeOK, SslOrdered
<1>1. ASSUME NEW w \in Workflow, SslStart(w) PROVE SslInv'
  <2> DEFINE q == sslRun[w]
             r == [q EXCEPT !.at = 1, !.listed = TRUE]
  <2>1. sslRun' = [sslRun EXCEPT ![w] = r]
    BY <1>1, Zenon DEF SslStart, SslInv, SslTypeOK
  <2>2. q \in RunRecord /\ RunOrdered(q, sslSite.tested) /\ q.at = 0
    BY <1>0, <1>1 DEF SslStart
  <2> HIDE DEF q
  <2>3. /\ r \in RunRecord /\ r.at = 1 /\ r.channel = q.channel /\ r.did = q.did
        /\ r.crossed = q.crossed /\ r.cancelled = q.cancelled
    <3>1. 1 \in 0..Ended
      BY StepFacts
    <3> QED
      BY <2>2, <3>1, Zenon DEF RunRecord
  <2> HIDE DEF r
  <2>4. RunOrdered(r, sslSite.tested)
    BY <2>2, <2>3, StepFacts DEF RunOrdered
  <2>5. SslTypeOK'
    BY <1>1, <2>1, <2>3, Zenon DEF SslStart, SslInv, SslTypeOK
  <2>6. SslOrdered'
    BY <1>0, <1>1, <2>1, <2>4, Zenon DEF SslStart, SslInv, SslTypeOK, SslOrdered
  <2>7. SslViewsHear'
    BY <1>1, <2>1, <2>3, StepFacts
       DEF SslStart, SslInv, SslTypeOK, SslViewsHear, SslViewHearsEnd
  <2> QED
    BY <2>5, <2>6, <2>7 DEF SslInv
<1>2. ASSUME NEW w \in Workflow, SslCancel(w) PROVE SslInv'
  <2> DEFINE r == Dropped(sslRun[w])
  <2>1. sslRun' = [sslRun EXCEPT ![w] = r]
    BY <1>2 DEF SslCancel
  <2>2. r \in RunRecord /\ RunOrdered(r, sslSite.tested)
    BY <1>0, DroppedFacts
  <2> HIDE DEF r
  <2>3. SslTypeOK'
    BY <1>2, <2>1, <2>2 DEF SslCancel, SslInv, SslTypeOK, NoRunShown
  <2>4. SslOrdered'
    BY <1>0, <1>2, <2>1, <2>2 DEF SslCancel, SslInv, SslTypeOK, SslOrdered
  <2>5. SslViewsHear'
    BY <1>2 DEF SslCancel, SslInv, SslViewsHear, SslViewHearsEnd, NoRunShown
  <2> QED
    BY <2>3, <2>4, <2>5 DEF SslInv
<1>3. ASSUME NEW w \in Workflow, SslStepPasses(w) PROVE SslInv'
  <2>1. CASE sslRun[w].at = LastStep
    BY <1>3, <2>1, EndRunKeeps, StepFacts, Zenon DEF SslStepPasses, Running
  <2>2. CASE sslRun[w].at # LastStep
    BY <1>3, <2>2, <1>0, ProceedKeeps, StepFacts DEF SslStepPasses
  <2> QED
    BY <2>1, <2>2
<1>4. ASSUME NEW w \in Workflow, SslStepFails(w) PROVE SslInv'
  BY <1>4, EndRunKeeps, Zenon DEF SslStepFails
<1>5. ASSUME NEW w \in Workflow, SslValidates(w) PROVE SslInv'
  <2>1. sslRun[w].at \in 1..13 /\ sslRun[w].at # BackUp
    BY <1>5, StepFacts DEF SslValidates
  <2>2. sslSite' \in [valid : BOOLEAN, tested : BOOLEAN] /\ sslSite'.tested
    BY <1>5, <1>0, Zenon DEF SslValidates
  <2> QED
    BY <1>5, <2>1, <2>2, ProceedKeeps, Zenon DEF SslValidates
<1>6. ASSUME NEW w \in Workflow, SslBacksUp(w) PROVE SslInv'
  <2>1. ~SslIsCancelled(w)
    BY <1>0 DEF SslIsCancelled, RunOrdered
  <2> QED
    BY <1>6, <1>0, <2>1, ProceedKeeps, StepFacts DEF SslBacksUp
<1>8. ASSUME NEW w \in Workflow, SslCertbotEnds(w) PROVE SslInv'
  <2>1. ~SslIsCancelled(w) /\ sslRun[w].at = 9
    BY <1>0, <1>8, StepFacts DEF SslIsCancelled, SslCertbotEnds, RunOrdered
  <2>5. Running(w) /\ UNCHANGED <<sslSite, sslLink>>
    BY <1>8, <2>1, StepFacts DEF SslCertbotEnds, Running
  <2>2. CASE EndRun(w, "failure", {}, FALSE)
    BY <2>2, <2>5, EndRunKeeps, Zenon
  <2>3. CASE EndRun(w, "none", {}, TRUE)
    BY <2>3, <2>5, EndRunKeeps, Zenon
  <2>4. CASE Proceed(w, {})
    BY <1>8, <1>0, <2>1, <2>4, ProceedKeeps, StepFacts DEF SslCertbotEnds
  <2> QED
    BY <1>8, <2>1, <2>2, <2>3, <2>4, Zenon DEF SslCertbotEnds
<1>9. ASSUME NEW w \in Workflow, SslReloads(w) PROVE SslInv'
  <2> DEFINE deeds == {IF sslSite.tested THEN "reload" ELSE "untested-reload"}
  <2>1. deeds \in SUBSET {"backup", "reload", "untested-reload"}
    OBVIOUS
  <2>2. "untested-reload" \in deeds => sslRun[w].crossed
    BY <1>0, <1>9 DEF SslReloads, RunOrdered
  <2>3. Proceed(w, deeds)
    BY <1>9 DEF SslReloads
  <2> HIDE DEF deeds
  <2> QED
    BY <1>9, <1>0, <2>1, <2>2, <2>3, ProceedKeeps, StepFacts DEF SslReloads
<1>7. ASSUME NEW w \in Workflow, SslCertbotRuns(w) PROVE SslInv'
  <2> DEFINE q == sslRun[w]
             r == [q EXCEPT !.channel = "open", !.did = @ \cup {"certificate"}]
             o(v) == [sslRun[v] EXCEPT !.crossed = @ \/ Running(v)]
  <2>1. /\ sslRun' = [v \in Workflow |-> IF v = w THEN r ELSE o(v)]
        /\ sslSite' \in [valid : BOOLEAN, tested : BOOLEAN]
        /\ UNCHANGED <<sslPanel, sslLink>>
    BY <1>7 DEF SslCertbotRuns
  <2>2. q \in RunRecord /\ RunOrdered(q, sslSite.tested) /\ q.at = 9
    BY <1>0, <1>7, StepFacts DEF SslCertbotRuns
  <2> HIDE DEF q
  <2>3. /\ r \in RunRecord /\ RunOrdered(r, sslSite'.tested)
        /\ r.at = q.at /\ r.silent = q.silent
    <3>1. q.did \cup {"certificate"} \in SUBSET Deed
      BY <2>2 DEF RunRecord, Deed
    <3>2. /\ r \in RunRecord /\ r.at = q.at /\ r.channel = "open"
          /\ r.did = q.did \cup {"certificate"} /\ r.crossed = q.crossed
          /\ r.cancelled = q.cancelled /\ r.listed = q.listed /\ r.silent = q.silent
      BY <2>2, <3>1, Zenon DEF RunRecord
    <3> HIDE DEF r
    <3>3. r.at = Issue /\ r.at # Reload /\ r.at # Ended /\ r.at # 0 /\ "backup" \in q.did
      BY <2>2, <3>2, StepFacts DEF RunOrdered
    <3>4. /\ "backup" \in r.did
          /\ "untested-reload" \in r.did => "untested-reload" \in q.did
      BY <3>2, <3>3
    <3> QED
      BY <2>2, <3>2, <3>3, <3>4 DEF RunOrdered
  <2>4. ASSUME NEW v \in Workflow
        PROVE  /\ o(v) \in RunRecord /\ RunOrdered(o(v), sslSite'.tested)
               /\ o(v).at = sslRun[v].at /\ o(v).silent = sslRun[v].silent
    <3> DEFINE p == sslRun[v]  c == p.crossed \/ Running(v)
    <3>1. /\ p \in RunRecord /\ RunOrdered(p, sslSite.tested)
          /\ p.at = Reload => c
          /\ p.crossed => c
          /\ c \in BOOLEAN
      BY <1>0, StepFacts DEF Running
    <3> HIDE DEF p, c
    <3>2. o(v) = [p EXCEPT !.crossed = c]
      BY DEF p, c
    <3> HIDE DEF o
    <3>3. /\ o(v) \in RunRecord
          /\ o(v).at = p.at /\ o(v).channel = p.channel /\ o(v).did = p.did
          /\ o(v).crossed = c /\ o(v).cancelled = p.cancelled /\ o(v).listed = p.listed
          /\ o(v).report = p.report /\ o(v).silent = p.silent
      BY <3>1, <3>2 DEF RunRecord
    <3>4. RunOrdered(o(v), sslSite'.tested)
      BY <3>1, <3>3 DEF RunOrdered
    <3> QED
      BY <3>3, <3>4 DEF p
  <2> HIDE DEF r, o
  <2>5. SslTypeOK'
    BY <2>1, <2>3, <2>4 DEF SslInv, SslTypeOK
  <2>6. SslOrdered'
    BY <2>1, <2>3, <2>4 DEF SslOrdered
  <2>7. SslViewsHear'
    BY <2>1, <2>3, <2>4 DEF SslInv, SslTypeOK, SslViewsHear, SslViewHearsEnd, q
  <2> QED
    BY <2>5, <2>6, <2>7 DEF SslInv
<1>10. CASE SslLeave
  BY <1>10 DEF SslLeave, SslInv, SslTypeOK, SslOrdered, SslViewsHear, SslViewHearsEnd,
               NoRunShown
<1>11. CASE SslLoseServer
  <2>1. /\ sslRun' = [w \in Workflow |-> Dropped(sslRun[w])]
        /\ UNCHANGED sslSite /\ sslLink' = FALSE
        /\ sslPanel' = [sslPanel EXCEPT !.finished = FALSE,
                                        !.remounted = @ \/ sslPanel.shows # None]
    BY <1>11 DEF SslLoseServer
  <2>2. \A w \in Workflow : /\ Dropped(sslRun[w]) \in RunRecord
                            /\ RunOrdered(Dropped(sslRun[w]), sslSite.tested)
    BY <1>0, DroppedFacts
  <2>3. SslOrdered'
    BY <2>1, <2>2 DEF SslOrdered
  <2>4. /\ sslPanel' \in [shows : Workflow \cup {None}, finished : BOOLEAN, remounted : BOOLEAN]
        /\ ~sslPanel'.finished
        /\ sslPanel'.shows # None => sslPanel'.remounted
    BY <2>1, Zenon DEF SslInv, SslTypeOK
  <2>5. SslTypeOK'
    BY <2>1, <2>2, <2>4, Zenon DEF SslInv, SslTypeOK
  <2>6. SslViewsHear'
    BY <2>4 DEF SslViewsHear, SslViewHearsEnd
  <2> QED
    BY <2>3, <2>5, <2>6 DEF SslInv
<1>12. CASE SslConnect
  BY <1>12 DEF SslConnect, SslInv, SslTypeOK, SslOrdered, SslViewsHear, SslViewHearsEnd
<1>13. CASE UNCHANGED sslVars
  BY <1>13 DEF sslVars, SslInv, SslTypeOK, SslOrdered, SslViewsHear, SslViewHearsEnd, Running
<1> QED
  BY <1>1, <1>2, <1>3, <1>4, <1>5, <1>6, <1>7, <1>8, <1>9, <1>10, <1>11, <1>12, <1>13
     DEF SslNext
(***************************************************************************)
(* Package operations.                                                     *)
(***************************************************************************)
\* What is left of the commands of an operation.
Todo == {<<"simulate", "change", "verify">>, <<"change", "verify">>, <<"change">>, <<"verify">>}

Report == {<<>>, <<"success">>, <<"failure">>}

RunInOrder ==
    [kind : PkgKind, at : {"new", "detect", "opening", "open", "closing", "over"},
     todo : Todo, listed : BOOLEAN, cancelled : BOOLEAN, reports : Report,
     done : BOOLEAN, stopped : BOOLEAN, lost : BOOLEAN]

\* The change is done once only its check is left; a channel is closed from here, and
\* an operation stopped, only with the flag the next step looks at, unless the server
\* was lost; the report is the last thing to happen.
PkgOrdered(r) ==
    /\ r.at = "over" <=> r.reports # <<>>
    /\ r.at # "over" /\ r.todo = <<"verify">> /\ ~r.lost => r.done
    /\ r.at = "closing" /\ ~r.lost => r.listed /\ r.cancelled
    /\ r.at # "over" /\ r.stopped /\ ~r.lost => r.listed /\ r.cancelled
    /\ r.reports = <<"success">> /\ ~r.lost => r.done /\ ~r.stopped
    /\ r.at = "new" => ~r.listed /\ ~r.stopped
    /\ r.at = "over" => ~r.listed

PkgInv ==
    /\ pkgRun \in [Operation -> RunInOrder]
    /\ \A o \in Operation : PkgOrdered(pkgRun[o])
    /\ pkgPanel \in [shows : Operation \cup {None}, finished : BOOLEAN, remounted : BOOLEAN]
    /\ ~pkgLink /\ pkgPanel.shows # None => pkgPanel.remounted
    /\ PkgViewHearsEnd

\* The commands, one by one.
LEMMA TodoFacts ==
    ASSUME NEW t \in Todo
    PROVE  /\ Len(t) = 1 <=> t \in {<<"change">>, <<"verify">>}
           /\ Len(t) # 1 => Tail(t) \in Todo
           /\ t = <<"verify">> => Head(t) = "verify"
           /\ t = <<"change">> => Head(t) = "change"
           /\ Len(t) # 1 /\ Tail(t) = <<"verify">> => Head(t) = "change"
<1>1. CASE t = <<"simulate", "change", "verify">>
  <2>1. Len(t) = 3 /\ Tail(t) = <<"change", "verify">>
    BY <1>1
  <2>2. /\ <<"change", "verify">> # <<"verify">>
        /\ t \notin {<<"change">>, <<"verify">>}
    BY <1>1
  <2> QED
    BY <1>1, <2>1, <2>2 DEF Todo
<1>2. CASE t = <<"change", "verify">>
  <2>1. Len(t) = 2 /\ Tail(t) = <<"verify">> /\ Head(t) = "change"
    BY <1>2
  <2>2. t \notin {<<"change">>, <<"verify">>}
    BY <1>2
  <2> QED
    BY <1>2, <2>1, <2>2 DEF Todo
<1>3. CASE t = <<"change">>
  BY <1>3
<1>4. CASE t = <<"verify">>
  BY <1>4
<1> QED
  BY <1>1, <1>2, <1>3, <1>4 DEF Todo

LEMMA PkgInitInv == PkgInit => PkgInv
<1> SUFFICES ASSUME PkgInit PROVE PkgInv
  OBVIOUS
<1>1. \A k \in PkgKind : Commands(k) \in {<<"simulate", "change", "verify">>,
          <<"change", "verify">>, <<"change">>}
  BY DEF PkgKind, Commands
<1>2. <<"verify">> \notin {<<"simulate", "change", "verify">>, <<"change", "verify">>,
          <<"change">>}
  OBVIOUS
<1>3. ASSUME NEW k \in PkgKind
      PROVE  Fresh(k) \in RunInOrder /\ PkgOrdered(Fresh(k))
  BY <1>1, <1>2 DEF Fresh, RunInOrder, PkgOrdered, Todo, Report
<1>4. PICK kind \in [Operation -> PkgKind] : pkgRun = [o \in Operation |-> Fresh(kind[o])]
  BY DEF PkgInit
<1> QED
  BY <1>3, <1>4 DEF PkgInit, PkgInv, PkgViewHearsEnd
\* An operation that ends tells its end, and the view in front hears it.
LEMMA PkgEndsKeeps ==
    ASSUME PkgInv, NEW o \in Operation, NEW record \in RunInOrder,
           NEW report \in {"success", "failure"}, record.reports = <<>>,
           report = "success" /\ ~record.lost => record.done /\ ~record.stopped,
           PkgEnds(o, report, record), UNCHANGED pkgLink
    PROVE  PkgInv'
<1> DEFINE r == [record EXCEPT !.at = "over", !.listed = FALSE,
                     !.reports = Append(@, report)]
<1>1. pkgRun' = [pkgRun EXCEPT ![o] = r] /\ pkgPanel' = PkgHeard(o)
  BY DEF PkgEnds
<1>2. Append(record.reports, report) = <<report>>
  OBVIOUS
<1>3. Append(record.reports, report) \in Report
  BY <1>2 DEF Report
<1>4. /\ r \in RunInOrder /\ r.at = "over" /\ r.listed = FALSE
      /\ r.reports = Append(record.reports, report) /\ r.lost = record.lost
      /\ r.done = record.done /\ r.stopped = record.stopped
  BY <1>3, Zenon DEF RunInOrder
<1> HIDE DEF r
<1>5. PkgOrdered(r)
  <2>1. r.reports = <<report>>
    BY <1>2, <1>4
  <2>2. r.reports # <<>> /\ (r.reports = <<"success">> => report = "success")
    BY <2>1
  <2> QED
    BY <1>4, <2>2 DEF PkgOrdered
<1>6. pkgRun' \in [Operation -> RunInOrder] /\ \A v \in Operation : PkgOrdered(pkgRun'[v])
  BY <1>1, <1>4, <1>5 DEF PkgInv
<1>7. pkgPanel' \in [shows : Operation \cup {None}, finished : BOOLEAN, remounted : BOOLEAN]
  BY <1>1, Zenon DEF PkgInv, PkgHeard
<1>8. ~pkgLink' /\ pkgPanel'.shows # None => pkgPanel'.remounted
  BY <1>1 DEF PkgInv, PkgHeard
<1>9. PkgViewHearsEnd'
  <2>1. CASE pkgPanel.shows = o
    BY <2>1, <1>1 DEF PkgInv, PkgHeard, PkgViewHearsEnd
  <2>2. CASE pkgPanel.shows # o
    BY <2>2, <1>1 DEF PkgInv, PkgHeard, PkgViewHearsEnd, PkgRunning
  <2> QED
    BY <2>1, <2>2
<1> QED
  BY <1>6, <1>7, <1>8, <1>9 DEF PkgInv

\* An operation that goes on without an end leaves the rest as it was.
LEMMA PkgMovesKeeps ==
    ASSUME PkgInv, NEW o \in Operation, NEW r \in RunInOrder, PkgOrdered(r),
           r.at \notin {"new", "over"}, pkgRun' = [pkgRun EXCEPT ![o] = r],
           UNCHANGED <<pkgPanel, pkgLink>>
    PROVE  PkgInv'
BY DEF PkgInv, PkgViewHearsEnd, PkgRunning

\* What follows a command that ended, or whose channel was closed.
LEMMA PkgGoesOnKeeps ==
    ASSUME PkgInv, NEW o \in Operation, NEW record \in RunInOrder,
           PkgRunning(o), record.reports = <<>>,
           record.listed = pkgRun[o].listed, record.cancelled = pkgRun[o].cancelled,
           record.stopped = pkgRun[o].stopped, record.lost = pkgRun[o].lost,
           Len(record.todo) = 1 /\ ~record.lost /\ ~PkgIsCancelled(o) => record.done,
           Tail(record.todo) = <<"verify">> /\ Len(record.todo) # 1
               /\ ~record.lost /\ ~PkgIsCancelled(o) => record.done,
           PkgGoesOn(o, record), UNCHANGED pkgLink
    PROVE  PkgInv'
<1>1. record.stopped /\ ~record.lost => PkgIsCancelled(o)
  BY Zenon DEF PkgInv, PkgOrdered, PkgRunning, PkgIsCancelled
<1>2. CASE PkgIsCancelled(o)
  <2>1. PkgEnds(o, "failure", record)
    BY <1>2 DEF PkgGoesOn
  <2> QED
    BY <2>1, PkgEndsKeeps
<1>3. CASE ~PkgIsCancelled(o) /\ Len(record.todo) = 1
  <2>1. PkgEnds(o, "success", record)
    BY <1>3 DEF PkgGoesOn
  <2> QED
    BY <1>1, <1>3, <2>1, PkgEndsKeeps
<1>4. CASE ~PkgIsCancelled(o) /\ Len(record.todo) # 1
  <2> DEFINE r == [record EXCEPT !.at = "opening", !.todo = Tail(@)]
  <2>1. pkgRun' = [pkgRun EXCEPT ![o] = r] /\ UNCHANGED pkgPanel
    BY <1>4 DEF PkgGoesOn
  <2>2. Tail(record.todo) \in Todo
    BY <1>4, TodoFacts DEF RunInOrder
  <2>3. /\ r \in RunInOrder /\ r.at = "opening" /\ r.todo = Tail(record.todo)
        /\ r.reports = <<>> /\ r.lost = record.lost /\ r.done = record.done
        /\ r.stopped = record.stopped /\ r.listed = record.listed
        /\ r.cancelled = record.cancelled
    BY <2>2, Zenon DEF RunInOrder
  <2> HIDE DEF r
  <2>4. PkgOrdered(r)
    BY <1>1, <1>4, <2>3 DEF PkgOrdered
  <2> QED
    BY <2>1, <2>3, <2>4, PkgMovesKeeps, Zenon
<1> QED
  BY <1>2, <1>3, <1>4
\* No step of an operation, of its panel or of the connection leaves the invariant.
LEMMA PkgStepInv == PkgInv /\ [PkgNext]_pkgVars => PkgInv'
<1> SUFFICES ASSUME PkgInv, [PkgNext]_pkgVars
             PROVE  PkgInv'
  OBVIOUS
<1>0. \A o \in Operation :
        /\ pkgRun[o] \in RunInOrder /\ PkgOrdered(pkgRun[o])
        /\ pkgRun[o].at # "over" => pkgRun[o].reports = <<>>
  BY DEF PkgInv, PkgOrdered
<1>1. ASSUME NEW o \in Operation, PkgStart(o) PROVE PkgInv'
  <2> DEFINE q == pkgRun[o]
             r == [q EXCEPT !.at = "detect", !.listed = TRUE]
  <2>1. pkgRun' = [pkgRun EXCEPT ![o] = r] /\ q.at = "new"
    BY <1>1, Zenon DEF PkgStart, PkgInv
  <2>2. q \in RunInOrder /\ PkgOrdered(q) /\ q.reports = <<>>
    BY <1>0, <2>1
  <2> HIDE DEF q
  <2>3. /\ r \in RunInOrder /\ r.at = "detect" /\ r.reports = <<>> /\ r.todo = q.todo
        /\ r.lost = q.lost /\ r.done = q.done /\ r.stopped = q.stopped
    BY <2>2, Zenon DEF RunInOrder
  <2> HIDE DEF r
  <2>4. PkgOrdered(r)
    BY <2>1, <2>2, <2>3 DEF PkgOrdered
  <2> QED
    BY <1>1, <2>1, <2>3, <2>4, Zenon DEF PkgStart, PkgInv, PkgViewHearsEnd, PkgRunning
<1>2. ASSUME NEW o \in Operation, PkgCancel(o) PROVE PkgInv'
  <2>1. CASE pkgRun[o].listed
    <3> DEFINE q == pkgRun[o]
               at == IF q.at = "open" /\ Head(q.todo) # "verify" THEN "closing" ELSE q.at
               r == [q EXCEPT !.cancelled = TRUE, !.stopped = TRUE, !.at = at]
    <3>1. pkgRun' = [pkgRun EXCEPT ![o] = r] /\ UNCHANGED <<pkgPanel, pkgLink>>
      BY <1>2, <2>1 DEF PkgCancel
    <3>2. /\ q \in RunInOrder /\ PkgOrdered(q) /\ q.at # "over" /\ q.reports = <<>>
          /\ q.listed
      BY <1>0, <2>1 DEF PkgOrdered
    <3>3. at \in {"new", "detect", "opening", "open", "closing"} /\ (at = "new" <=> q.at = "new")
      BY <3>2 DEF RunInOrder
    <3> HIDE DEF q, at
    <3>6. /\ r \in RunInOrder /\ r.at = at /\ r.reports = <<>> /\ r.todo = q.todo
          /\ r.lost = q.lost /\ r.done = q.done /\ r.stopped = TRUE
          /\ r.cancelled = TRUE /\ r.listed = TRUE
      BY <3>2, <3>3, Zenon DEF RunInOrder
    <3>7. q.at # "new"
      BY <3>2 DEF PkgOrdered
    <3> HIDE DEF r
    <3>8. PkgOrdered(r)
      BY <3>2, <3>3, <3>6, <3>7 DEF PkgOrdered
    <3> QED
      BY <3>1, <3>3, <3>6, <3>7, <3>8, PkgMovesKeeps, Zenon
  <2>2. CASE ~pkgRun[o].listed
    BY <1>2, <2>2 DEF PkgCancel, PkgInv, PkgViewHearsEnd, PkgRunning
  <2> QED
    BY <2>1, <2>2
<1>3. ASSUME NEW o \in Operation, PkgDetects(o) PROVE PkgInv'
  <2> DEFINE q == pkgRun[o]
             r == [q EXCEPT !.at = "opening"]
  <2>1. \/ PkgEnds(o, "failure", q)
        \/ ~PkgIsCancelled(o) /\ pkgRun' = [pkgRun EXCEPT ![o] = r] /\ UNCHANGED pkgPanel
    BY <1>3 DEF PkgDetects
  <2>2. /\ q \in RunInOrder /\ PkgOrdered(q) /\ q.at = "detect" /\ q.reports = <<>>
        /\ UNCHANGED pkgLink
    BY <1>0, <1>3 DEF PkgDetects
  <2>3. CASE PkgEnds(o, "failure", q)
    BY <2>2, <2>3, PkgEndsKeeps
  <2>4. CASE ~PkgIsCancelled(o) /\ pkgRun' = [pkgRun EXCEPT ![o] = r] /\ UNCHANGED pkgPanel
    <3>1. q.stopped => q.lost
      BY <2>2, <2>4 DEF PkgIsCancelled, PkgOrdered
    <3> HIDE DEF q
    <3>2. /\ r \in RunInOrder /\ r.at = "opening" /\ r.reports = <<>> /\ r.todo = q.todo
          /\ r.lost = q.lost /\ r.done = q.done /\ r.stopped = q.stopped
      BY <2>2 DEF RunInOrder
    <3> HIDE DEF r
    <3>3. PkgOrdered(r)
      BY <2>2, <3>1, <3>2 DEF PkgOrdered
    <3> QED
      BY <2>2, <2>4, <3>2, <3>3, PkgMovesKeeps, Zenon
  <2> QED
    BY <2>1, <2>3, <2>4
<1>4. ASSUME NEW o \in Operation, PkgOpens(o) PROVE PkgInv'
  <2> DEFINE q == pkgRun[o]
             r == [q EXCEPT !.at = "open"]
  <2>1. pkgRun' = [pkgRun EXCEPT ![o] = r] /\ UNCHANGED <<pkgPanel, pkgLink>>
    BY <1>4 DEF PkgOpens
  <2>2. q \in RunInOrder /\ PkgOrdered(q) /\ q.at = "opening" /\ q.reports = <<>>
    BY <1>0, <1>4 DEF PkgOpens
  <2> HIDE DEF q
  <2>3. /\ r \in RunInOrder /\ r.at = "open" /\ r.reports = <<>> /\ r.todo = q.todo
        /\ r.lost = q.lost /\ r.done = q.done /\ r.stopped = q.stopped
        /\ r.listed = q.listed /\ r.cancelled = q.cancelled
    BY <2>2 DEF RunInOrder
  <2> HIDE DEF r
  <2>4. PkgOrdered(r)
    BY <2>2, <2>3 DEF PkgOrdered
  <2> QED
    BY <2>1, <2>3, <2>4, PkgMovesKeeps, Zenon
<1>5. ASSUME NEW o \in Operation, PkgCannotOpen(o) PROVE PkgInv'
  BY <1>5, <1>0, PkgEndsKeeps DEF PkgCannotOpen
<1>6. ASSUME NEW o \in Operation, PkgWorks(o) PROVE PkgInv'
  <2> DEFINE q == pkgRun[o]
             d == q.done \/ Head(q.todo) = "change"
             r == [q EXCEPT !.done = d]
  <2>1. q \in RunInOrder /\ PkgOrdered(q) /\ q.at = "open" /\ q.reports = <<>>
    BY <1>0, <1>6 DEF PkgWorks
  <2>2. PkgGoesOn(o, r) /\ UNCHANGED pkgLink
    BY <1>6 DEF PkgWorks, Worked
  <2>3. PkgRunning(o) /\ d \in BOOLEAN
    BY <2>1 DEF PkgRunning
  <2>4. q.todo \in Todo
    BY <2>1 DEF RunInOrder
  <2>5. Len(q.todo) = 1 /\ ~q.lost => d
    BY <2>1, <2>4, TodoFacts DEF PkgOrdered
  <2>6. Len(q.todo) # 1 /\ Tail(q.todo) = <<"verify">> => d
    BY <2>4, TodoFacts
  <2> HIDE DEF d
  <2>7. /\ r \in RunInOrder /\ r.reports = q.reports /\ r.todo = q.todo /\ r.lost = q.lost
        /\ r.done = d /\ r.stopped = q.stopped /\ r.listed = q.listed
        /\ r.cancelled = q.cancelled
    BY <2>1, <2>3 DEF RunInOrder
  <2> HIDE DEF r
  <2> QED
    BY <2>1, <2>2, <2>3, <2>5, <2>6, <2>7, PkgGoesOnKeeps
<1>7. ASSUME NEW o \in Operation, PkgFails(o) PROVE PkgInv'
  BY <1>7, <1>0, PkgEndsKeeps DEF PkgFails
<1>8. ASSUME NEW o \in Operation, PkgCloses(o) PROVE PkgInv'
  <2>1. /\ pkgRun[o] \in RunInOrder /\ pkgRun[o].reports = <<>> /\ PkgRunning(o)
        /\ ~pkgRun[o].lost => PkgIsCancelled(o)
    BY <1>0, <1>8 DEF PkgCloses, PkgRunning, PkgIsCancelled, PkgOrdered
  <2>2. CASE PkgEnds(o, "failure", pkgRun[o])
    BY <1>8, <2>1, <2>2, PkgEndsKeeps DEF PkgCloses
  <2>3. CASE PkgGoesOn(o, pkgRun[o])
    BY <1>8, <2>1, <2>3, PkgGoesOnKeeps DEF PkgCloses
  <2> QED
    BY <1>8, <2>2, <2>3 DEF PkgCloses
<1>9. CASE PkgListAsks
  BY <1>9 DEF PkgListAsks, PkgInv, PkgViewHearsEnd, PkgRunning
<1>10. CASE PkgLeave
  BY <1>10 DEF PkgLeave, PkgInv, PkgViewHearsEnd
<1>11. CASE PkgLoseServer
  <2> DEFINE at(o) == IF pkgRun[o].at = "open" THEN "closing" ELSE pkgRun[o].at
             l(o) == [pkgRun[o] EXCEPT !.cancelled = TRUE, !.listed = FALSE, !.lost = TRUE,
                                       !.at = at(o)]
  <2>1. /\ pkgRun' = [o \in Operation |-> IF ~PkgRunning(o) THEN pkgRun[o] ELSE l(o)]
        /\ pkgLink' = FALSE
    BY <1>11, Zenon DEF PkgLoseServer
  <2>2. ASSUME NEW o \in Operation, PkgRunning(o)
        PROVE  l(o) \in RunInOrder /\ PkgOrdered(l(o))
    <3> DEFINE q == pkgRun[o]  a == at(o)  r == [q EXCEPT !.cancelled = TRUE,
                   !.listed = FALSE, !.lost = TRUE, !.at = a]
    <3>1. q \in RunInOrder /\ PkgOrdered(q) /\ q.at \notin {"new", "over"}
      BY <1>0, <2>2 DEF PkgRunning
    <3>6. q.reports = <<>>
      BY <3>1 DEF PkgOrdered
    <3>2. a \in {"detect", "opening", "open", "closing"}
      BY <3>1 DEF RunInOrder
    <3>3. l(o) = r
      OBVIOUS
    <3> HIDE DEF q, a, l
    <3>4. /\ r \in RunInOrder /\ r.at = a /\ r.lost = TRUE /\ r.reports = q.reports
      BY <3>1, <3>2, Zenon DEF RunInOrder
    <3> HIDE DEF r
    <3>5. PkgOrdered(r)
      BY <3>2, <3>4, <3>6 DEF PkgOrdered
    <3> QED
      BY <3>3, <3>4, <3>5
  <2> HIDE DEF l
  <2>3. pkgRun' \in [Operation -> RunInOrder] /\ \A o \in Operation : PkgOrdered(pkgRun'[o])
    BY <1>0, <2>1, <2>2
  <2>4. /\ pkgPanel' \in [shows : Operation \cup {None}, finished : BOOLEAN,
                          remounted : BOOLEAN]
        /\ pkgPanel'.shows # None => pkgPanel'.remounted
    BY <1>11, Zenon DEF PkgLoseServer, PkgInv
  <2> QED
    BY <2>1, <2>3, <2>4 DEF PkgInv, PkgViewHearsEnd
<1>12. CASE PkgConnect
  BY <1>12 DEF PkgConnect, PkgInv, PkgViewHearsEnd, PkgRunning
<1>13. CASE UNCHANGED pkgVars
  BY <1>13 DEF pkgVars, PkgInv, PkgViewHearsEnd, PkgRunning
<1> QED
  BY <1>1, <1>2, <1>3, <1>4, <1>5, <1>6, <1>7, <1>8, <1>9, <1>10, <1>11, <1>12, <1>13
     DEF PkgNext

(***************************************************************************)
(* The firewall of the Ports tool.                                         *)
(***************************************************************************)
FwRules == {rules \in Seq(Rule) : Len(rules) <= MaxRules}

\* Every listing, cached, under way or checked against, is one the server had.
FwTyped ==
    /\ fwRules \in FwRules /\ fwShown \in 0..MaxRules /\ fwShifted \in BOOLEAN
    /\ fwCache # None => fwCache \in FwListing /\ fwCache.rules \in FwRules
    /\ fwChange # None => fwChange \in FwChangeRecord
    /\ fwReads \in Seq([for : {"panel", "check", "refresh"}, rules : Seq(Rule) \cup {None}])
    /\ \A i \in DOMAIN fwReads : fwReads[i].rules # None => fwReads[i].rules \in FwRules

\* One listing at a time is read for a change, and the change waits for it.
FwAwaited ==
    /\ \A i \in DOMAIN fwReads : fwReads[i].for # "panel" =>
        /\ fwChange # None
        /\ fwChange.at = IF fwReads[i].for = "check" THEN "reading" ELSE "refreshing"
    /\ \A i, j \in DOMAIN fwReads :
        fwReads[i].for # "panel" /\ fwReads[j].for # "panel" => i = j

\* What is sent was checked: a deletion against the listing it keeps, a change of a
\* rule by its port.
FwSentIsChecked ==
    fwChange # None =>
        IF fwChange.does = "delete"
        THEN fwChange.at = "sent" => FwMayDelete(fwChange.against, fwChange.id)
        ELSE fwChange.port \in Port /\ FwMaySet(fwChange.port)

FwInv == FwTyped /\ FwAwaited /\ FwSentIsChecked /\ FwSshStaysOpen

\* The first rule for a port is the one before which none matches.
LEMMA FwVerdictFacts ==
    ASSUME NEW rules \in Seq(Rule), NEW port
    PROVE  FwVerdict(rules, port) = "allowed" <=>
               \E i \in DOMAIN rules :
                   /\ port \in rules[i].ports /\ rules[i].action = "allow"
                   /\ \A j \in DOMAIN rules : port \in rules[j].ports => i <= j
BY DEF FwVerdict, FwMatches

\* What is behind the removed entry moves up by one place.
LEMMA RemoveAtFacts ==
    ASSUME NEW S, NEW s \in Seq(S), NEW id \in DOMAIN s
    PROVE  /\ RemoveAt(s, id) \in Seq(S)
           /\ Len(RemoveAt(s, id)) = Len(s) - 1
           /\ \A j \in DOMAIN RemoveAt(s, id) :
                  RemoveAt(s, id)[j] = IF j < id THEN s[j] ELSE s[j + 1]
<1> DEFINE a == SubSeq(s, 1, id - 1)
           b == SubSeq(s, id + 1, Len(s))
<1>1. Len(s) \in Nat /\ id \in 1..Len(s)
  OBVIOUS
<1>2. /\ a \in Seq(S) /\ Len(a) = id - 1
      /\ \A j \in 1..(id - 1) : a[j] = s[j]
  BY <1>1
<1>3. /\ b \in Seq(S) /\ Len(b) = Len(s) - id
      /\ \A j \in 1..(Len(s) - id) : b[j] = s[id + j]
  BY <1>1
<1>4. RemoveAt(s, id) = a \o b
  BY DEF RemoveAt
<1> HIDE DEF a, b
<1>5. /\ a \o b \in Seq(S) /\ Len(a \o b) = Len(s) - 1
      /\ DOMAIN (a \o b) = 1..(Len(s) - 1)
      /\ \A j \in 1..(Len(s) - 1) :
             (a \o b)[j] = IF j <= Len(a) THEN a[j] ELSE b[j - Len(a)]
  <2>1. (id - 1) + (Len(s) - id) = Len(s) - 1
    BY <1>1
  <2>2. Len(a) + Len(b) = Len(s) - 1
    BY ONLY <1>2, <1>3, <2>1
  <2>3. a \o b \in Seq(S) /\ Len(a \o b) = Len(a) + Len(b)
    BY <1>2, <1>3, ConcatProperties, Zenon
  <2>4. \A j \in 1..(Len(a) + Len(b)) :
            (a \o b)[j] = IF j <= Len(a) THEN a[j] ELSE b[j - Len(a)]
    BY <1>2, <1>3, ConcatProperties, Zenon
  <2>5. DOMAIN (a \o b) = 1..Len(a \o b)
    BY <2>3
  <2> QED
    BY ONLY <2>2, <2>3, <2>4, <2>5
<1>6. ASSUME NEW j \in 1..(Len(s) - 1)
      PROVE  (a \o b)[j] = IF j < id THEN s[j] ELSE s[j + 1]
  <2>1. CASE j < id
    BY <1>1, <1>2, <1>5, <2>1
  <2>2. CASE ~(j < id)
    <3>1. /\ j - (id - 1) \in 1..(Len(s) - id) /\ ~(j <= id - 1)
          /\ id + (j - (id - 1)) = j + 1
      BY <1>1, <2>2
    <3>2. (a \o b)[j] = b[j - (id - 1)]
      BY <1>2, <1>5, <3>1, Zenon
    <3>3. b[j - (id - 1)] = s[id + (j - (id - 1))]
      BY <1>3, <3>1
    <3> QED
      BY <2>2, <3>1, <3>2, <3>3
  <2> QED
    BY <2>1, <2>2, Zenon
<1>7. RemoveAt(s, id) \in Seq(S) /\ Len(RemoveAt(s, id)) = Len(s) - 1
  BY <1>4, <1>5
<1>8. DOMAIN RemoveAt(s, id) = 1..(Len(s) - 1)
  BY <1>4, <1>5
<1>9. ASSUME NEW j \in DOMAIN RemoveAt(s, id)
      PROVE  RemoveAt(s, id)[j] = IF j < id THEN s[j] ELSE s[j + 1]
  BY ONLY <1>4, <1>6, <1>8, <1>9, Zenon
<1> QED
  BY ONLY <1>7, <1>9

\* Taking away a rule that does not name a port leaves its verdict.
LEMMA RemovalKeepsVerdict ==
    ASSUME NEW rules \in Seq(Rule), NEW id \in DOMAIN rules, NEW port,
           port \notin rules[id].ports, FwVerdict(rules, port) = "allowed"
    PROVE  FwVerdict(RemoveAt(rules, id), port) = "allowed"
<1> DEFINE r == RemoveAt(rules, id)
<1>1. /\ r \in Seq(Rule) /\ Len(r) = Len(rules) - 1 /\ Len(rules) \in Nat
      /\ \A j \in DOMAIN r : r[j] = IF j < id THEN rules[j] ELSE rules[j + 1]
  BY RemoveAtFacts
<1>2. PICK i \in DOMAIN rules :
          /\ port \in rules[i].ports /\ rules[i].action = "allow"
          /\ \A j \in DOMAIN rules : port \in rules[j].ports => i <= j
  BY FwVerdictFacts
<1>3. i # id /\ i \in 1..Len(rules) /\ id \in 1..Len(rules)
  BY <1>2
<1> DEFINE k == IF i < id THEN i ELSE i - 1
<1> HIDE DEF r
<1>4. k \in DOMAIN r /\ r[k] = rules[i]
  BY <1>1, <1>3
<1>5. ASSUME NEW j \in DOMAIN r, port \in r[j].ports PROVE k <= j
  <2>1. CASE j < id
    <3>1. j \in DOMAIN rules /\ r[j] = rules[j]
      BY <1>1, <2>1
    <3>2. i <= j
      BY <1>2, <1>5, <3>1
    <3> QED
      BY <1>3, <2>1, <3>1, <3>2
  <2>2. CASE ~(j < id)
    <3>1. j + 1 \in DOMAIN rules /\ r[j] = rules[j + 1] /\ j \in Nat
      BY <1>1, <2>2
    <3>2. i <= j + 1
      BY <1>2, <1>5, <3>1
    <3> QED
      BY <1>3, <2>2, <3>1, <3>2
  <2> QED
    BY <2>1, <2>2
<1> HIDE DEF k
<1>6. \E n \in DOMAIN r : /\ port \in r[n].ports /\ r[n].action = "allow"
                          /\ \A j \in DOMAIN r : port \in r[j].ports => n <= j
  BY <1>2, <1>4, <1>5
<1> QED
  BY <1>1, <1>6, FwVerdictFacts DEF r

\* A step that changes neither the rules nor what was sent.
LEMMA FwQuiet ==
    ASSUME FwInv, UNCHANGED <<fwRules, fwShifted>>
    PROVE  FwSshStaysOpen'
BY DEF FwInv, FwSshStaysOpen

FwRead == [for : {"panel", "check", "refresh"}, rules : Seq(Rule) \cup {None}]

\* One more listing is asked for; only a change that waits asks for its own.
LEMMA FwAppends ==
    ASSUME FwInv, NEW kind \in {"panel", "check", "refresh"},
           fwReads' = Append(fwReads, [for |-> kind, rules |-> None]),
           IF kind = "panel" THEN UNCHANGED fwChange
           ELSE /\ fwChange = None \/ fwChange.at = "done"
                /\ fwChange' # None
                /\ fwChange'.at = IF kind = "check" THEN "reading" ELSE "refreshing"
    PROVE  /\ fwReads' \in Seq(FwRead)
           /\ \A i \in DOMAIN fwReads' : fwReads'[i].rules # None => fwReads'[i].rules \in FwRules
           /\ FwAwaited'
<1> DEFINE new == [for |-> kind, rules |-> None]
<1>1. /\ fwReads \in Seq(FwRead) /\ Len(fwReads) \in Nat
      /\ \A i \in DOMAIN fwReads : fwReads[i].rules # None => fwReads[i].rules \in FwRules
  BY DEF FwInv, FwTyped, FwRead
<1>2. new \in FwRead /\ new.for = kind /\ new.rules = None
  BY DEF FwRead
<1>3. fwReads' = Append(fwReads, new)
  OBVIOUS
<1> HIDE DEF new
<1>4. /\ fwReads' \in Seq(FwRead) /\ Len(fwReads') = Len(fwReads) + 1
      /\ \A i \in DOMAIN fwReads : i \in DOMAIN fwReads' /\ fwReads'[i] = fwReads[i]
      /\ \A i \in DOMAIN fwReads' : i \notin DOMAIN fwReads => fwReads'[i] = new
      /\ \A i, j \in DOMAIN fwReads' : i \notin DOMAIN fwReads /\ j \notin DOMAIN fwReads => i = j
  BY <1>1, <1>2, <1>3
<1>5. \A i \in DOMAIN fwReads' : fwReads'[i].rules # None => fwReads'[i].rules \in FwRules
  BY <1>1, <1>2, <1>4
<1>6. FwAwaited'
  <2>1. CASE kind = "panel"
    <3>1. \A i \in DOMAIN fwReads' : fwReads'[i].for # "panel" =>
              i \in DOMAIN fwReads /\ fwReads'[i] = fwReads[i]
      BY <1>2, <1>4, <2>1
    <3> QED
      BY <2>1, <3>1 DEF FwInv, FwAwaited
  <2>2. CASE kind # "panel"
    <3>1. \A i \in DOMAIN fwReads : fwReads[i].for = "panel"
      BY <2>2 DEF FwInv, FwAwaited
    <3>2. \A i \in DOMAIN fwReads' : fwReads'[i].for # "panel" =>
              i \notin DOMAIN fwReads /\ fwReads'[i].for = kind
      BY <1>2, <1>4, <3>1
    <3> QED
      BY <1>4, <2>2, <3>2 DEF FwAwaited
  <2> QED
    BY <2>1, <2>2
<1> QED
  BY <1>4, <1>5, <1>6

LEMMA FwReadingKeeps ==
    ASSUME FwInv, FwPolls \/ FwCacheAges \/ FwForgets \/ UNCHANGED fwVars
    PROVE  FwInv'
<1> USE DEF FwInv
<1>1. UNCHANGED <<fwRules, fwChange, fwShifted>>
  BY DEF FwPolls, FwCacheAges, FwForgets, fwVars
<1>2. FwSentIsChecked' /\ FwSshStaysOpen'
  BY <1>1, FwQuiet DEF FwSentIsChecked
<1>3. fwCache' # None => fwCache' \in FwListing /\ fwCache'.rules \in FwRules
  <2>1. fwCache # None => fwCache \in FwListing /\ fwCache.rules \in FwRules
    BY DEF FwTyped
  <2>2. CASE FwCacheAges
    <3>1. fwCache \in FwListing /\ fwCache' = [fwCache EXCEPT !.fresh = FALSE]
      BY <2>1, <2>2 DEF FwCacheAges, FwFresh
    <3>2. fwCache' \in FwListing /\ fwCache'.rules = fwCache.rules
      BY <3>1, Zenon DEF FwListing
    <3> QED
      BY <2>1, <2>2, <3>2 DEF FwCacheAges, FwFresh
  <2>3. CASE fwCache' = fwCache \/ fwCache' = None
    BY <2>1, <2>3
  <2> QED
    BY <2>2, <2>3 DEF FwPolls, FwForgets, fwVars
<1>4. fwShown' \in 0..MaxRules
  <2>1. CASE fwShown' = fwShown
    BY <2>1 DEF FwTyped
  <2>2. CASE FwFresh /\ fwShown' = Len(fwCache.rules)
    BY <2>2 DEF FwFresh, FwTyped, FwRules, FwListing
  <2> QED
    BY <2>1, <2>2 DEF FwPolls, FwCacheAges, FwForgets, fwVars
<1>5. CASE UNCHANGED fwReads
  BY <1>1, <1>2, <1>3, <1>4, <1>5 DEF FwTyped, FwAwaited
<1>6. CASE fwReads' = Append(fwReads, [for |-> "panel", rules |-> None])
  <2>1. /\ fwReads' \in Seq(FwRead) /\ FwAwaited'
        /\ \A i \in DOMAIN fwReads' : fwReads'[i].rules # None => fwReads'[i].rules \in FwRules
    BY <1>1, <1>6, FwAppends
  <2> QED
    BY <1>1, <1>2, <1>3, <1>4, <2>1 DEF FwTyped, FwRead
<1> QED
  BY <1>5, <1>6 DEF FwPolls, FwCacheAges, FwForgets, fwVars

LEMMA FwListsKeeps ==
    ASSUME FwInv, NEW i \in DOMAIN fwReads, FwLists(i)
    PROVE  FwInv'
<1> USE DEF FwInv, FwLists
<1>1. /\ fwReads \in Seq(FwRead) /\ fwRules \in FwRules
      /\ \A k \in DOMAIN fwReads : fwReads[k].rules # None => fwReads[k].rules \in FwRules
  BY DEF FwTyped, FwRead
<1>2. /\ fwReads' \in Seq(FwRead) /\ DOMAIN fwReads' = DOMAIN fwReads
      /\ \A k \in DOMAIN fwReads : fwReads'[k].for = fwReads[k].for
      /\ \A k \in DOMAIN fwReads :
             fwReads'[k].rules = IF k = i THEN fwRules ELSE fwReads[k].rules
  <2> DEFINE r == [fwReads[i] EXCEPT !.rules = fwRules]
  <2>0. fwReads[i] \in FwRead /\ fwRules \in Seq(Rule)
    BY <1>1 DEF FwRules
  <2>1. r \in FwRead /\ r.for = fwReads[i].for /\ r.rules = fwRules
    BY <2>0 DEF FwRead
  <2>2. fwReads' = [fwReads EXCEPT ![i] = r]
    OBVIOUS
  <2> HIDE DEF r
  <2> QED
    BY <1>1, <2>1, <2>2
<1>3. FwTyped'
  BY <1>1, <1>2 DEF FwTyped, FwRead
<1>4. FwAwaited' /\ FwSentIsChecked'
  BY <1>2 DEF FwAwaited, FwSentIsChecked
<1> QED
  BY <1>3, <1>4, FwQuiet

\* The listing is cached and shown, and the deletion that waited for it goes on.
LEMMA FwAnswersKeeps ==
    ASSUME FwInv, NEW i \in DOMAIN fwReads, FwAnswers(i)
    PROVE  FwInv'
<1> USE DEF FwInv
<1> DEFINE r == fwReads[i]
<1>0. /\ fwReads \in Seq(FwRead)
      /\ \A k \in DOMAIN fwReads : fwReads[k].rules # None => fwReads[k].rules \in FwRules
  BY DEF FwTyped, FwRead
<1>1. /\ fwReads \in Seq(FwRead) /\ r \in FwRead /\ r.rules \in FwRules /\ r.rules # None
      /\ \A k \in DOMAIN fwReads : fwReads[k].rules # None => fwReads[k].rules \in FwRules
  BY <1>0 DEF FwAnswers
<1>2. /\ fwReads' \in Seq(FwRead) /\ Len(fwReads') = Len(fwReads) - 1
      /\ \A k \in DOMAIN fwReads' :
             fwReads'[k] = IF k < i THEN fwReads[k] ELSE fwReads[k + 1]
  BY <1>1, RemoveAtFacts DEF FwAnswers
<1>3. \A k \in DOMAIN fwReads' : \E n \in DOMAIN fwReads \ {i} : fwReads'[k] = fwReads[n]
                                     /\ n = IF k < i THEN k ELSE k + 1
  BY <1>1, <1>2
<1>4. /\ fwCache' \in FwListing /\ fwCache'.rules = r.rules
      /\ fwShown' \in 0..MaxRules
      /\ UNCHANGED <<fwRules, fwShifted>>
  <2>1. fwCache' = [rules |-> r.rules, fresh |-> TRUE]
    BY DEF FwAnswers
  <2>2. r.rules \in Seq(Rule) /\ Len(r.rules) \in 0..MaxRules
    BY <1>1, MaxRulesAssumption DEF FwRules
  <2>3. fwShown' = fwShown \/ fwShown' = Len(r.rules)
    BY DEF FwAnswers
  <2> HIDE DEF r
  <2> QED
    BY <2>1, <2>2, <2>3 DEF FwListing, FwTyped, FwAnswers
<1>5. CASE r.for = "panel"
  <2>1. fwChange' = fwChange
    BY <1>5 DEF FwAnswers
  <2>2. FwTyped'
    BY <1>1, <1>2, <1>3, <1>4, <2>1 DEF FwTyped, FwRead
  <2>3. FwAwaited'
    <3>1. \A k \in DOMAIN fwReads' : fwReads'[k].for # "panel" =>
            /\ fwChange' # None
            /\ fwChange'.at = IF fwReads'[k].for = "check" THEN "reading" ELSE "refreshing"
      BY <1>3, <2>1 DEF FwAwaited
    <3>2. ASSUME NEW k \in DOMAIN fwReads', NEW l \in DOMAIN fwReads',
                 fwReads'[k].for # "panel", fwReads'[l].for # "panel"
          PROVE  k = l
      <4>1. (IF k < i THEN k ELSE k + 1) = (IF l < i THEN l ELSE l + 1)
        BY <1>3, <3>2 DEF FwAwaited
      <4> QED
        BY <1>2, <4>1
    <3> QED
      BY <3>1, <3>2 DEF FwAwaited
  <2>4. FwSentIsChecked'
    BY <2>1 DEF FwSentIsChecked
  <2> QED
    BY <1>4, <2>2, <2>3, <2>4, FwQuiet
<1>6. CASE r.for # "panel"
  <2>1. /\ fwChange # None /\ fwChange \in FwChangeRecord
        /\ fwChange' = IF r.for = "check" THEN FwChecked(r.rules) ELSE None
    BY <1>1, <1>6 DEF FwAnswers, FwAwaited, FwRead, FwTyped
  <2>2. /\ fwChange' # None => fwChange' \in FwChangeRecord
        /\ FwSentIsChecked'
    <3>1. CASE fwChange' = None
      BY <3>1 DEF FwSentIsChecked
    <3>2. CASE /\ FwMayDelete(r.rules, fwChange.id)
               /\ fwChange' = [fwChange EXCEPT !.at = "sent", !.against = r.rules]
      <4>1. r.rules \in Seq(Rule)
        BY <1>1 DEF FwRules
      <4> HIDE DEF r
      <4>2. /\ fwChange' \in FwChangeRecord /\ fwChange'.id = fwChange.id
            /\ fwChange'.against = r.rules /\ fwChange'.does = fwChange.does
            /\ fwChange'.port = fwChange.port
        BY <2>1, <3>2, <4>1, Zenon DEF FwChangeRecord
      <4> QED
        BY <2>1, <3>2, <4>2 DEF FwSentIsChecked
    <3> QED
      BY <2>1, <3>1, <3>2 DEF FwChecked
  <2>3. \A k \in DOMAIN fwReads' : fwReads'[k].for = "panel"
    BY <1>3, <1>6 DEF FwAwaited
  <2>4. FwTyped'
    BY <1>1, <1>2, <1>3, <1>4, <2>2 DEF FwTyped, FwRead
  <2>5. FwAwaited'
    BY <2>3 DEF FwAwaited
  <2> QED
    BY <1>4, <2>2, <2>4, <2>5, FwQuiet
<1> QED
  BY <1>5, <1>6

\* A quiet change of the record of the change under way.
LEMMA FwChangeOnly ==
    ASSUME FwInv, UNCHANGED <<fwRules, fwCache, fwReads, fwShown, fwShifted>>,
           \A i \in DOMAIN fwReads : fwReads[i].for = "panel",
           fwChange' # None => fwChange' \in FwChangeRecord,
           FwSentIsChecked'
    PROVE  FwInv'
<1>1. FwTyped'
  BY DEF FwInv, FwTyped
<1>2. FwAwaited'
  BY DEF FwInv, FwAwaited
<1> QED
  BY <1>1, <1>2, FwQuiet DEF FwInv

\* While no listing is awaited none is read for a change.
LEMMA FwNoneAwaited ==
    ASSUME FwInv, fwChange = None \/ fwChange.at \in {"sent", "done"}
    PROVE  \A i \in DOMAIN fwReads : fwReads[i].for = "panel"
<1>1. ASSUME NEW i \in DOMAIN fwReads, fwReads[i].for # "panel" PROVE FALSE
  <2>1. /\ fwChange # None
        /\ fwChange.at = IF fwReads[i].for = "check" THEN "reading" ELSE "refreshing"
    BY <1>1 DEF FwInv, FwAwaited
  <2> QED
    BY <2>1
<1> QED
  BY <1>1

LEMMA FwDeleteKeeps ==
    ASSUME FwInv, NEW id \in 1..fwShown, FwDelete(id)
    PROVE  FwInv'
<1> DEFINE change == [does |-> "delete", id |-> id, port |-> "none", at |-> "reading",
                      against |-> <<>>]
           sent(rules) == [change EXCEPT !.at = "sent", !.against = rules]
<1>1. id \in Nat
  BY DEF FwInv, FwTyped
<1>2. /\ change \in FwChangeRecord /\ change.does = "delete" /\ change.at = "reading"
      /\ change.id = id
  BY <1>1 DEF FwChangeRecord
<1>3. change # None
  BY <1>2, FwNoneAssumption
<1>4. \A i \in DOMAIN fwReads : fwReads[i].for = "panel"
  BY FwNoneAwaited DEF FwDelete
<1>5. CASE ~FwFresh
  <2>1. /\ fwChange = None /\ fwChange' = change
        /\ fwReads' = Append(fwReads, [for |-> "check", rules |-> None])
        /\ UNCHANGED <<fwRules, fwCache, fwShown, fwShifted>>
    BY <1>5 DEF FwDelete
  <2> HIDE DEF change
  <2>2. /\ fwReads' \in Seq(FwRead) /\ FwAwaited'
        /\ \A i \in DOMAIN fwReads' : fwReads'[i].rules # None => fwReads'[i].rules \in FwRules
    BY <1>2, <1>3, <2>1, FwAppends
  <2>3. FwTyped'
    BY <1>2, <2>1, <2>2 DEF FwInv, FwTyped, FwRead
  <2>4. FwSentIsChecked'
    BY <1>2, <2>1 DEF FwSentIsChecked
  <2> QED
    BY <2>1, <2>2, <2>3, <2>4, FwQuiet DEF FwInv
<1>6. CASE FwFresh
  <2> DEFINE r == sent(fwCache.rules)
  <2>1. fwCache.rules \in Seq(Rule)
    BY <1>6 DEF FwFresh, FwInv, FwTyped, FwRules
  <2>2. /\ r \in FwChangeRecord /\ r.does = "delete" /\ r.against = fwCache.rules /\ r.id = id
    BY <1>1, <2>1, Zenon DEF FwChangeRecord
  <2>3. /\ fwChange' = IF FwMayDelete(fwCache.rules, id) THEN r ELSE None
        /\ UNCHANGED <<fwRules, fwCache, fwReads, fwShown, fwShifted>>
    BY <1>6 DEF FwDelete
  <2> HIDE DEF r
  <2>4. FwSentIsChecked'
    BY <2>2, <2>3 DEF FwSentIsChecked
  <2> QED
    BY <1>4, <2>2, <2>3, <2>4, FwChangeOnly
<1> QED
  BY <1>5, <1>6

LEMMA FwSetKeeps ==
    ASSUME FwInv, NEW action \in FwAction, NEW port \in Port, FwSet(action, port)
    PROVE  FwInv'
<1> DEFINE r == [does |-> action, id |-> 0, port |-> port, at |-> "sent", against |-> <<>>]
<1>1. r \in FwChangeRecord /\ r.does = action /\ r.port = port
  BY DEF FwChangeRecord
<1>2. /\ fwChange' = r /\ FwMaySet(port) /\ action # "delete"
      /\ UNCHANGED <<fwRules, fwCache, fwReads, fwShown, fwShifted>>
  BY DEF FwSet, FwAction
<1>3. \A i \in DOMAIN fwReads : fwReads[i].for = "panel"
  BY FwNoneAwaited DEF FwSet
<1> HIDE DEF r
<1>4. FwSentIsChecked'
  BY <1>1, <1>2 DEF FwSentIsChecked, FwMaySet
<1> QED
  BY <1>1, <1>2, <1>3, <1>4, FwChangeOnly

LEMMA FwFailsKeeps ==
    ASSUME FwInv, FwFails
    PROVE  FwInv'
<1>1. \A i \in DOMAIN fwReads : fwReads[i].for = "panel"
  BY FwNoneAwaited DEF FwFails
<1> QED
  BY <1>1, FwChangeOnly DEF FwFails, FwSentIsChecked

\* The change is done: what it was checked against no longer matters.
LEMMA FwDoneRecord ==
    ASSUME FwInv, fwChange # None, NEW step \in {"done", "refreshing"},
           fwChange' = [fwChange EXCEPT !.at = step]
    PROVE  /\ fwChange' \in FwChangeRecord /\ fwChange'.at = step /\ fwChange' # None
           /\ FwSentIsChecked'
<1>1. fwChange \in FwChangeRecord
  BY DEF FwInv, FwTyped
<1>2. /\ fwChange' \in FwChangeRecord /\ fwChange'.at = step
      /\ fwChange'.does = fwChange.does /\ fwChange'.port = fwChange.port
  BY <1>1 DEF FwChangeRecord
<1>3. fwChange' # None
  BY <1>2, FwNoneAssumption
<1> QED
  BY <1>2, <1>3 DEF FwInv, FwSentIsChecked

LEMMA FwDoneKeeps ==
    ASSUME FwInv, FwDone
    PROVE  FwInv'
<1>1. /\ fwChange # None /\ fwChange.at = "done"
      /\ fwChange' = [fwChange EXCEPT !.at = "refreshing"] /\ fwCache' = None
      /\ fwReads' = Append(fwReads, [for |-> "refresh", rules |-> None])
      /\ UNCHANGED <<fwRules, fwShown, fwShifted>>
  BY DEF FwDone
<1>2. /\ fwChange' \in FwChangeRecord /\ fwChange'.at = "refreshing" /\ fwChange' # None
      /\ FwSentIsChecked'
  BY <1>1, FwDoneRecord
<1>3. /\ fwReads' \in Seq(FwRead) /\ FwAwaited'
      /\ \A i \in DOMAIN fwReads' : fwReads'[i].rules # None => fwReads'[i].rules \in FwRules
  BY <1>1, <1>2, FwAppends
<1>4. FwTyped'
  BY <1>1, <1>2, <1>3 DEF FwInv, FwTyped, FwRead
<1> QED
  BY <1>1, <1>2, <1>3, <1>4, FwQuiet DEF FwInv

\* A step that changes the rules: they keep their type, and SSH its verdict.
LEMMA FwRulesChange ==
    ASSUME FwInv, UNCHANGED <<fwCache, fwReads, fwShown>>,
           fwRules' \in FwRules, fwShifted' \in BOOLEAN,
           FwSshStaysOpen',
           \/ UNCHANGED fwChange
           \/ /\ fwChange # None /\ fwChange.at = "sent"
              /\ fwChange' = [fwChange EXCEPT !.at = "done"]
    PROVE  FwInv'
<1>1. CASE UNCHANGED fwChange
  <2>1. FwTyped'
    BY <1>1 DEF FwInv, FwTyped
  <2>2. FwAwaited' /\ FwSentIsChecked'
    BY <1>1 DEF FwInv, FwAwaited, FwSentIsChecked
  <2> QED
    BY <2>1, <2>2 DEF FwInv
<1>2. CASE /\ fwChange # None /\ fwChange.at = "sent"
           /\ fwChange' = [fwChange EXCEPT !.at = "done"]
  <2>1. /\ fwChange' \in FwChangeRecord /\ fwChange'.at = "done" /\ fwChange' # None
        /\ FwSentIsChecked'
    BY <1>2, FwDoneRecord
  <2>2. \A i \in DOMAIN fwReads : fwReads[i].for = "panel"
    BY <1>2, FwNoneAwaited
  <2>3. FwTyped'
    BY <2>1 DEF FwInv, FwTyped
  <2>4. FwAwaited'
    BY <2>2 DEF FwAwaited
  <2> QED
    BY <2>1, <2>3, <2>4 DEF FwInv
<1> QED
  BY <1>1, <1>2

\* A number goes to the server; the rule it names there is the one that was checked,
\* or the listing was outdated.
LEMMA FwDeletesKeeps ==
    ASSUME FwInv, FwDeletes
    PROVE  FwInv'
<1>1. /\ fwChange # None /\ fwChange.at = "sent" /\ fwChange.does = "delete"
      /\ fwChange' = [fwChange EXCEPT !.at = "done"]
      /\ UNCHANGED <<fwCache, fwReads, fwShown>>
      /\ fwRules' = IF fwChange.id \in DOMAIN fwRules THEN RemoveAt(fwRules, fwChange.id)
                                                      ELSE fwRules
      /\ fwShifted' = (fwShifted \/ fwChange.against # fwRules)
  BY DEF FwDeletes
<1>2. fwRules \in Seq(Rule) /\ Len(fwRules) \in Nat /\ Len(fwRules) <= MaxRules
  BY DEF FwInv, FwTyped, FwRules
<1>3. fwRules' \in FwRules
  <2>1. CASE fwChange.id \in DOMAIN fwRules
    BY <1>1, <1>2, <2>1, RemoveAtFacts, MaxRulesAssumption DEF FwRules
  <2> QED
    BY <1>1, <1>2, <2>1 DEF FwRules
<1>4. fwShifted' \in BOOLEAN
  BY <1>1 DEF FwInv, FwTyped
<1>5. FwSshStaysOpen'
  <2>1. CASE fwShifted \/ fwChange.against # fwRules
    BY <1>1, <2>1, Zenon DEF FwSshStaysOpen
  <2>2. CASE ~fwShifted /\ fwChange.against = fwRules
    <3>1. FwMayDelete(fwRules, fwChange.id)
      BY <1>1, <2>2 DEF FwInv, FwSentIsChecked
    <3>2. FwVerdict(fwRules, "ssh") = "allowed"
      BY <2>2 DEF FwInv, FwSshStaysOpen
    <3>3. /\ fwChange.id \in DOMAIN fwRules /\ "ssh" \notin fwRules[fwChange.id].ports
      BY <3>1 DEF FwMayDelete
    <3>4. FwVerdict(RemoveAt(fwRules, fwChange.id), "ssh") = "allowed"
      BY <1>2, <3>2, <3>3, RemovalKeepsVerdict
    <3> QED
      BY <1>1, <3>3, <3>4 DEF FwSshStaysOpen
  <2> QED
    BY <2>1, <2>2
<1> QED
  BY <1>1, <1>3, <1>4, <1>5, FwRulesChange

LEMMA FwDeletedElsewhereKeeps ==
    ASSUME FwInv, NEW i \in DOMAIN fwRules, FwDeletedElsewhere(i)
    PROVE  FwInv'
<1>1. fwRules \in Seq(Rule) /\ Len(fwRules) \in Nat /\ Len(fwRules) <= MaxRules
  BY DEF FwInv, FwTyped, FwRules
<1>2. /\ fwRules' = RemoveAt(fwRules, i) /\ "ssh" \notin fwRules[i].ports
      /\ UNCHANGED <<fwCache, fwReads, fwShown, fwChange, fwShifted>>
  BY DEF FwDeletedElsewhere
<1>3. fwRules' \in FwRules
  BY <1>1, <1>2, RemoveAtFacts, MaxRulesAssumption DEF FwRules
<1>4. FwSshStaysOpen'
  BY <1>1, <1>2, RemovalKeepsVerdict DEF FwInv, FwSshStaysOpen
<1> QED
  BY <1>2, <1>3, <1>4, FwRulesChange DEF FwInv, FwTyped

\* A rule set from here is about another port than SSH's; it is put in the place of
\* one about that port, or behind every other.
LEMMA FwSetsKeeps ==
    ASSUME FwInv, FwSets
    PROVE  FwInv'
<1> DEFINE rule == [action |-> fwChange.does, ports |-> {fwChange.port}, known |-> TRUE]
           same == {i \in DOMAIN fwRules : fwRules[i].ports = rule.ports /\ fwRules[i].known}
<1>1. /\ fwChange # None /\ fwChange.at = "sent" /\ fwChange.does # "delete"
      /\ fwChange' = [fwChange EXCEPT !.at = "done"]
      /\ UNCHANGED <<fwCache, fwReads, fwShown, fwShifted>>
      /\ same # {} \/ Len(fwRules) < MaxRules
      /\ fwRules' = IF same # {} THEN [i \in DOMAIN fwRules |-> IF i \in same THEN rule
                                                                ELSE fwRules[i]]
                    ELSE Append(fwRules, rule)
  BY DEF FwSets
<1>2. fwRules \in Seq(Rule) /\ Len(fwRules) \in Nat /\ Len(fwRules) <= MaxRules
  BY DEF FwInv, FwTyped, FwRules
<1>3. fwChange \in FwChangeRecord /\ fwChange.port \in Port /\ fwChange.port # "ssh"
  BY <1>1 DEF FwInv, FwTyped, FwSentIsChecked, FwMaySet
<1>4. fwChange.does \in FwAction
  BY <1>1, <1>3 DEF FwChangeRecord
<1>5. rule \in Rule /\ rule.ports = {fwChange.port} /\ "ssh" \notin rule.ports
  <2>1. {fwChange.port} \in (SUBSET Port) \ {{}}
    BY <1>3
  <2> QED
    BY <1>3, <1>4, <2>1 DEF Rule
<1>6. \A i \in same : "ssh" \notin fwRules[i].ports
  BY <1>5
<1> HIDE DEF rule
<1>7. fwRules' \in FwRules
  <2>1. CASE same # {}
    <3>1. fwRules' = [i \in DOMAIN fwRules |-> IF i \in same THEN rule ELSE fwRules[i]]
      BY <1>1, <2>1
    <3>2. DOMAIN fwRules = 1..Len(fwRules) /\ \A i \in 1..Len(fwRules) : fwRules[i] \in Rule
      BY <1>2
    <3> HIDE DEF same
    <3>3. fwRules' \in [1..Len(fwRules) -> Rule]
      BY <1>5, <3>1, <3>2
    <3> QED
      BY <1>2, <3>3 DEF FwRules
  <2>2. CASE same = {}
    BY <1>1, <1>2, <1>5, <2>2, MaxRulesAssumption DEF FwRules
  <2> QED
    BY <2>1, <2>2
<1>8. FwVerdict(fwRules, "ssh") = "allowed" => FwVerdict(fwRules', "ssh") = "allowed"
  <2> HAVE FwVerdict(fwRules, "ssh") = "allowed"
  <2>1. PICK k \in DOMAIN fwRules :
          /\ "ssh" \in fwRules[k].ports /\ fwRules[k].action = "allow"
          /\ \A j \in DOMAIN fwRules : "ssh" \in fwRules[j].ports => k <= j
    BY <1>2, FwVerdictFacts
  <2>2. k \in DOMAIN fwRules' /\ fwRules'[k] = fwRules[k]
    BY <1>1, <1>2, <1>5, <1>6, <2>1
  <2>3. \A j \in DOMAIN fwRules' : "ssh" \in fwRules'[j].ports =>
            j \in DOMAIN fwRules /\ "ssh" \in fwRules[j].ports
    <3>1. CASE same # {}
      BY <1>1, <1>5, <3>1, Zenon
    <3>2. CASE same = {}
      <4>1. fwRules' = Append(fwRules, rule)
        BY <1>1, <3>2
      <4>2. /\ DOMAIN fwRules' = 1..(Len(fwRules) + 1)
            /\ \A j \in 1..Len(fwRules) : fwRules'[j] = fwRules[j]
            /\ fwRules'[Len(fwRules) + 1] = rule
        BY <1>2, <1>5, <4>1
      <4> QED
        BY <1>2, <1>5, <4>2
    <3> QED
      BY <3>1, <3>2
  <2>4. fwRules' \in Seq(Rule)
    BY <1>7 DEF FwRules
  <2> QED
    BY <2>1, <2>2, <2>3, <2>4, FwVerdictFacts
<1>9. FwSshStaysOpen'
  BY <1>1, <1>8 DEF FwInv, FwSshStaysOpen
<1> QED
  BY <1>1, <1>7, <1>9, FwRulesChange DEF FwInv, FwTyped

LEMMA FwInitInv == FwInit => FwInv
<1> HAVE FwInit
<1>1. fwRules \in FwRules /\ FwVerdict(fwRules, "ssh") = "allowed"
  <2>1. PICK n \in 1..MaxRules :
          \E rules \in [1..n -> {SshRule, OpenSshProfile, WebRule("allow"), WebRule("deny")}] :
            FwVerdict(rules, "ssh") = "allowed" /\ fwRules = rules
    BY DEF FwInit
  <2>2. {SshRule, OpenSshProfile, WebRule("allow"), WebRule("deny")} \subseteq Rule
    <3>1. {"ssh"} \in (SUBSET Port) \ {{}} /\ {"web"} \in (SUBSET Port) \ {{}}
      BY DEF Port
    <3> QED
      BY <3>1 DEF SshRule, OpenSshProfile, WebRule, Rule, FwAction
  <2>3. n \in Nat /\ n <= MaxRules
    BY MaxRulesAssumption
  <2>4. fwRules \in [1..n -> Rule]
    BY <2>1, <2>2
  <2>5. fwRules \in Seq(Rule) /\ Len(fwRules) = n
    BY <2>3, <2>4
  <2> QED
    BY <2>1, <2>3, <2>5 DEF FwRules
<1>2. fwReads = <<>> /\ fwCache = None /\ fwChange = None /\ fwShown = 0 /\ fwShifted = FALSE
  BY DEF FwInit
<1>3. FwTyped
  <2>1. fwReads \in Seq([for : {"panel", "check", "refresh"}, rules : Seq(Rule) \cup {None}])
    BY <1>2
  <2>2. fwShown \in 0..MaxRules /\ DOMAIN fwReads = {}
    BY <1>2, MaxRulesAssumption
  <2> QED
    BY <1>1, <1>2, <2>1, <2>2, Zenon DEF FwTyped
<1> QED
  BY <1>1, <1>2, <1>3 DEF FwInv, FwAwaited, FwSentIsChecked, FwSshStaysOpen

LEMMA FwStepInv == FwInv /\ [FwNext]_fwVars => FwInv'
<1> SUFFICES ASSUME FwInv, [FwNext]_fwVars PROVE FwInv'
  OBVIOUS
<1>1. CASE FwPolls \/ FwCacheAges \/ FwForgets \/ UNCHANGED fwVars
  BY <1>1, FwReadingKeeps
<1>2. CASE \E i \in DOMAIN fwReads : FwLists(i) \/ FwAnswers(i)
  BY <1>2, FwListsKeeps, FwAnswersKeeps
<1>3. CASE \E id \in 1..fwShown : FwDelete(id)
  BY <1>3, FwDeleteKeeps
<1>4. CASE \E action \in FwAction, port \in Port : FwSet(action, port)
  BY <1>4, FwSetKeeps
<1>5. CASE FwDeletes \/ FwSets \/ FwDone \/ FwFails
  BY <1>5, FwDeletesKeeps, FwSetsKeeps, FwDoneKeeps, FwFailsKeeps
<1>6. CASE \E i \in DOMAIN fwRules : FwDeletedElsewhere(i)
  BY <1>6, FwDeletedElsewhereKeeps
<1> QED
  BY <1>1, <1>2, <1>3, <1>4, <1>5, <1>6 DEF FwNext

LEMMA FwInvTyped == FwInv => FwTypeOK
BY DEF FwInv, FwTyped, FwAwaited, FwTypeOK, FwRules, FwListing, FwChangeRecord

(***************************************************************************)
(* The processes tool.                                                     *)
(***************************************************************************)
\* The program x is the one pid ran when it was seen there: no other pid runs it, now
\* or later.
Known(pid, x) ==
    /\ pid \in Pid /\ x \in Named /\ x \in prPast.started
    /\ \A p \in Pid : prServer[p] = x => p = pid

PrServerInv ==
    /\ prUp \in BOOLEAN /\ prServer \in [Pid -> Named \cup {None}]
    /\ prPast \in [last : SubscriberId, started : SUBSET (Named \cup {None})]
    /\ \A p \in Pid : prServer[p] # None => Known(p, prServer[p])

\* The detail on screen and the dialog name a process under the pid it had.
PrPanelInv ==
    prPanel # None =>
        /\ prPanel \in PrPanelRecord
        /\ prPanel.detail # None =>
               Known(prPanel.detail.pid, prPanel.detail.program) /\ prPanel.selected # None
        /\ prPanel.dialog # None => Known(prPanel.dialog.pid, prPanel.dialog.named)

PrDetailsInv ==
    \A d \in prDetails :
        /\ d \in PrAskedRecord /\ (d.found # None => Known(d.pid, d.found))
        /\ prPanel # None /\ prPanel.selected # None

\* What was found protected is not signalled; who is told has a panel.
PrSignalInv ==
    prSignal # None =>
        /\ prSignal \in PrSignalRecord /\ Known(prSignal.pid, prSignal.named)
        /\ prSignal.told => prPanel # None
        /\ prSignal.stage = "reread" => prSignal.told
        /\ prSignal.stage = "kill" => prSignal.found # "sshd"

PrHitInv ==
    /\ prHit # None => prHit.named \in Named /\ prHit.named \in prPast.started
    /\ PrSignalsAreMeant

PrReadsInv ==
    /\ prReads \subseteq PrReadRecord
    /\ \A r, s \in prReads : r.by = "poll" /\ s.by = "poll" => r = s

PrListedInv ==
    /\ prToMain \in Seq(PrCallRecord)
    /\ \A k \in DOMAIN prToMain : prToMain[k].op = "subscribe" <=> prToMain[k].interval # None
    /\ prListed # None =>
           /\ prListed \in PrListedRecord /\ prListed.subscribers # NoSubscription
           /\ prListed.timer = DesiredInterval(prListed.subscribers)

\* The interval the window wants of a subscription, and the one it has.
Wanted(s) ==
    IF Watches(prPanel) THEN (IF prPanel.id = s THEN prPanel.interval ELSE None) ELSE None
ListedFor(s) == IF prListed = None THEN None ELSE prListed.subscribers[s]

\* The last call under way for a subscription asks for what is wanted.
PrServed(s) ==
    \/ /\ \A k \in DOMAIN prToMain : prToMain[k].id # s
       /\ ListedFor(s) = Wanted(s)
    \/ \E k \in DOMAIN prToMain :
           /\ prToMain[k].id = s /\ prToMain[k].interval = Wanted(s)
           /\ \A l \in DOMAIN prToMain : prToMain[l].id = s => l <= k

PrInv ==
    /\ PrServerInv /\ PrPanelInv /\ PrDetailsInv /\ PrSignalInv /\ PrHitInv
    /\ PrReadsInv /\ PrListedInv /\ \A s \in SubscriberId : PrServed(s)

LEMMA DesiredIntervalFacts ==
    ASSUME NEW subs \in [SubscriberId -> PROCESS_INTERVAL_OPTIONS \cup {None}]
    PROVE  /\ DesiredInterval(subs) \in {1, 2}
           /\ \A s \in SubscriberId : subs[s] # None => DesiredInterval(subs) <= subs[s]
<1> DEFINE asked == {subs[s] : s \in SubscriberId} \ {None}
           all == asked \cup {DEFAULT_INTERVAL}
           least == CHOOSE i \in all : \A j \in all : i <= j
<1>1. asked \subseteq {1, 2, 5} /\ 2 \in all /\ all \subseteq {1, 2, 5}
  BY DEF PROCESS_INTERVAL_OPTIONS, DEFAULT_INTERVAL
<1>2. \A s \in SubscriberId : subs[s] # None => subs[s] \in all
  OBVIOUS
<1>3. DesiredInterval(subs) = least
  BY DEF DesiredInterval
<1> HIDE DEF asked, all
<1>4. \E i \in all : \A j \in all : i <= j
  <2>1. CASE 1 \in all
    BY <1>1, <2>1
  <2>2. CASE 1 \notin all
    BY <1>1, <2>2
  <2> QED
    BY <2>1, <2>2
<1>5. least \in all /\ \A j \in all : least <= j
  BY <1>4
<1> HIDE DEF least
<1>6. least \in {1, 2}
  BY <1>1, <1>5
<1> QED
  BY <1>2, <1>3, <1>5, <1>6, Zenon

\* A place behind the first of two joined sequences.
LEMMA SecondPart ==
    ASSUME NEW a \in Nat, NEW b \in Nat, NEW k \in 1..(a + b), ~(k <= a)
    PROVE  k - a \in 1..b /\ k = a + (k - a)
OBVIOUS

\* Calls of the window are appended: it is enough that the last of them for each
\* subscription asks for what is wanted by then.
LEMMA CallsServe ==
    ASSUME PrListedInv, \A s \in SubscriberId : PrServed(s),
           NEW messages \in Seq(PrCallRecord),
           \A k \in DOMAIN messages : messages[k].op = "subscribe" <=> messages[k].interval # None,
           Calls(messages), UNCHANGED prListed \/ prListed' = None,
           NEW asker \in SubscriberId,
           \A k \in DOMAIN messages : messages[k].id = asker,
           messages # <<>> => messages[Len(messages)].interval = Wanted(asker)',
           \A s \in SubscriberId : s # asker \/ messages = <<>> =>
               /\ Wanted(s)' = Wanted(s)
               /\ ListedFor(s) = Wanted(s) => ListedFor(s)' = Wanted(s)
    PROVE  PrListedInv' /\ \A s \in SubscriberId : PrServed(s)'
<1>1. prToMain' = prToMain \o messages /\ prToMain \in Seq(PrCallRecord)
  BY DEF Calls, PrListedInv
<1>2. /\ prToMain' \in Seq(PrCallRecord) /\ Len(prToMain') = Len(prToMain) + Len(messages)
      /\ Len(prToMain) \in Nat /\ Len(messages) \in Nat
      /\ \A k \in 1..Len(prToMain) : prToMain'[k] = prToMain[k]
      /\ \A k \in 1..Len(messages) : prToMain'[Len(prToMain) + k] = messages[k]
  BY <1>1
<1>3. \A k \in DOMAIN prToMain' :
          \/ k \in DOMAIN prToMain /\ prToMain'[k] = prToMain[k]
          \/ \E l \in DOMAIN messages : k = Len(prToMain) + l /\ prToMain'[k] = messages[l]
  <2> TAKE k \in DOMAIN prToMain'
  <2>1. k \in 1..(Len(prToMain) + Len(messages))
    BY <1>2
  <2>2. CASE k <= Len(prToMain)
    BY <1>1, <1>2, <2>1, <2>2
  <2>3. CASE ~(k <= Len(prToMain))
    <3>1. k - Len(prToMain) \in 1..Len(messages) /\ k = Len(prToMain) + (k - Len(prToMain))
      BY <1>2, <2>1, <2>3, SecondPart, Zenon
    <3> QED
      BY <1>2, <3>1
  <2> QED
    BY <2>2, <2>3
<1>4. PrListedInv'
  BY <1>1, <1>2, <1>3 DEF PrListedInv
<1>5. ASSUME NEW s \in SubscriberId PROVE PrServed(s)'
  <2>1. CASE s = asker /\ messages # <<>>
    <3> DEFINE k == Len(prToMain) + Len(messages)
    <3>1. Len(messages) \in 1..Len(messages) /\ Len(messages) \in DOMAIN messages
      BY <2>1
    <3>2. /\ k \in DOMAIN prToMain' /\ prToMain'[k] = messages[Len(messages)]
          /\ \A l \in DOMAIN prToMain' : l <= k
      BY <1>2, <3>1
    <3> HIDE DEF k
    <3> QED
      BY <2>1, <3>1, <3>2 DEF PrServed
  <2>2. CASE s # asker \/ messages = <<>>
    <3>1. Wanted(s)' = Wanted(s) /\ (ListedFor(s) = Wanted(s) => ListedFor(s)' = Wanted(s))
      BY <2>2
    <3>2. \A k \in DOMAIN prToMain' : prToMain'[k].id = s =>
              k \in DOMAIN prToMain /\ prToMain'[k] = prToMain[k]
      BY <1>3, <2>2
    <3>3. \A k \in DOMAIN prToMain : k \in DOMAIN prToMain' /\ prToMain'[k] = prToMain[k]
      BY <1>1, <1>2
    <3>4. CASE /\ \A k \in DOMAIN prToMain : prToMain[k].id # s
               /\ ListedFor(s) = Wanted(s)
      BY <3>1, <3>2, <3>4 DEF PrServed
    <3>5. CASE \E k \in DOMAIN prToMain :
                   /\ prToMain[k].id = s /\ prToMain[k].interval = Wanted(s)
                   /\ \A l \in DOMAIN prToMain : prToMain[l].id = s => l <= k
      BY <3>1, <3>2, <3>3, <3>5 DEF PrServed
    <3> QED
      BY <3>4, <3>5 DEF PrServed
  <2> QED
    BY <2>1, <2>2
<1> QED
  BY <1>4, <1>5

\* A call of the window that subscribes or unsubscribes the panel.
LEMMA CallFacts ==
    ASSUME NEW panel \in PrPanelRecord
    PROVE  /\ Subscribe(panel) \in Seq(PrCallRecord) /\ Unsubscribe(panel) \in Seq(PrCallRecord)
           /\ Len(Subscribe(panel)) = 1 /\ Len(Unsubscribe(panel)) = 1
           /\ Subscribe(panel)[1].op = "subscribe" /\ Unsubscribe(panel)[1].op = "unsubscribe"
           /\ Subscribe(panel)[1].interval = panel.interval /\ panel.interval # None
           /\ Unsubscribe(panel)[1].interval = None
           /\ Subscribe(panel)[1].id = panel.id /\ Unsubscribe(panel)[1].id = panel.id
           /\ panel.id \in SubscriberId
<1>1. panel.id \in SubscriberId /\ panel.interval \in PROCESS_INTERVAL_OPTIONS
  BY DEF PrPanelRecord
<1> DEFINE s == [op |-> "subscribe", id |-> panel.id, interval |-> panel.interval]
           u == [op |-> "unsubscribe", id |-> panel.id, interval |-> None]
<1>2. s \in PrCallRecord /\ u \in PrCallRecord
  BY <1>1 DEF PrCallRecord
<1>3. Subscribe(panel) = <<s>> /\ Unsubscribe(panel) = <<u>>
  BY DEF Subscribe, Unsubscribe
<1>4. /\ s.op = "subscribe" /\ s.id = panel.id /\ s.interval = panel.interval
      /\ u.op = "unsubscribe" /\ u.id = panel.id /\ u.interval = None
  OBVIOUS
<1> HIDE DEF s, u
<1> QED
  BY <1>1, <1>2, <1>3, <1>4, PrNoneAssumption

\* Calls about one subscription, and with an interval just to subscribe.
CallsOf(asker, messages) ==
    /\ messages \in Seq(PrCallRecord)
    /\ \A k \in DOMAIN messages :
           /\ messages[k].id = asker
           /\ messages[k].op = "subscribe" <=> messages[k].interval # None

LEMMA JoinedCalls ==
    ASSUME NEW asker, NEW a, NEW b, CallsOf(asker, a), CallsOf(asker, b)
    PROVE  /\ CallsOf(asker, a \o b)
           /\ b # <<>> => a \o b # <<>> /\ (a \o b)[Len(a \o b)] = b[Len(b)]
<1>1. /\ a \in Seq(PrCallRecord) /\ b \in Seq(PrCallRecord)
      /\ Len(a) \in Nat /\ Len(b) \in Nat
  BY DEF CallsOf
<1>2. /\ a \o b \in Seq(PrCallRecord) /\ Len(a \o b) = Len(a) + Len(b)
      /\ \A k \in 1..Len(a) : (a \o b)[k] = a[k]
      /\ \A k \in 1..Len(b) : (a \o b)[Len(a) + k] = b[k]
  BY <1>1
<1>3. \A k \in DOMAIN (a \o b) :
          (\E l \in DOMAIN a : (a \o b)[k] = a[l]) \/ (\E l \in DOMAIN b : (a \o b)[k] = b[l])
  <2> TAKE k \in DOMAIN (a \o b)
  <2>1. k \in 1..(Len(a) + Len(b))
    BY <1>1, <1>2
  <2>2. CASE k <= Len(a)
    BY <1>1, <1>2, <2>1, <2>2
  <2>3. CASE ~(k <= Len(a))
    <3>1. k - Len(a) \in 1..Len(b) /\ k = Len(a) + (k - Len(a))
      BY <1>1, <2>1, <2>3, SecondPart
    <3> QED
      BY <1>1, <1>2, <3>1
  <2> QED
    BY <2>2, <2>3
<1>4. CallsOf(asker, a \o b)
  BY <1>2, <1>3 DEF CallsOf
<1>5. ASSUME b # <<>> PROVE a \o b # <<>> /\ (a \o b)[Len(a \o b)] = b[Len(b)]
  <2>1. Len(b) \in 1..Len(b)
    BY <1>1, <1>5
  <2>2. Len(a \o b) > 0
    BY <1>1, <1>2, <2>1
  <2> QED
    BY <1>1, <1>2, <2>1, <2>2
<1> QED
  BY <1>4, <1>5

\* What the effects of the panel ask for is what the panel wants.
LEMMA EffectServes ==
    ASSUME PrListedInv, \A s \in SubscriberId : PrServed(s),
           UNCHANGED <<prUp, prListed>>,
           prPanel = None \/ prPanel \in PrPanelRecord,
           prPanel' = None \/ prPanel' \in PrPanelRecord,
           prPanel # None \/ prPanel' # None,
           prPanel # None /\ prPanel' # None => prPanel'.id = prPanel.id,
           Calls(Effect(prPanel, prPanel'))
    PROVE  PrListedInv' /\ \A s \in SubscriberId : PrServed(s)'
<1>1. PICK asker \in SubscriberId : asker = IF prPanel = None THEN prPanel'.id ELSE prPanel.id
  BY CallFacts
<1> DEFINE ended == IF Watches(prPanel) THEN Unsubscribe(prPanel) ELSE <<>>
           begun == IF prPanel' = None THEN <<>>
                    ELSE IF Watches(prPanel') THEN Subscribe(prPanel') ELSE Unsubscribe(prPanel')
<1>2. Calls(ended \o begun)
  BY DEF Effect
<1>3. CallsOf(asker, <<>>)
  BY DEF CallsOf
<1>4. CallsOf(asker, ended)
  <2>1. CASE Watches(prPanel)
    <3>1. /\ prPanel # None /\ ended = Unsubscribe(prPanel)
      BY <2>1 DEF Watches
    <3> QED
      BY <1>1, <3>1, CallFacts DEF CallsOf
  <2> QED
    BY <1>3, <2>1
<1>5. /\ CallsOf(asker, begun)
      /\ begun # <<>> => begun[Len(begun)].interval = Wanted(asker)'
      /\ begun = <<>> <=> prPanel' = None
  <2>1. CASE prPanel' # None
    <3>1. /\ asker = prPanel'.id
          /\ Watches(prPanel)' <=> Watches(prPanel')
          /\ begun = IF Watches(prPanel') THEN Subscribe(prPanel') ELSE Unsubscribe(prPanel')
      BY <1>1, <2>1 DEF Watches
    <3>2. Wanted(asker)' = IF Watches(prPanel') THEN prPanel'.interval ELSE None
      BY <3>1 DEF Wanted, Watches
    <3>3. CallsOf(asker, begun)
      BY <2>1, <3>1, CallFacts DEF CallsOf
    <3> QED
      BY <2>1, <3>1, <3>2, <3>3, CallFacts
  <2>2. CASE prPanel' = None
    BY <1>3, <2>2
  <2> QED
    BY <2>1, <2>2
<1>6. \A s \in SubscriberId : s # asker => Wanted(s)' = Wanted(s)
  BY <1>1 DEF Wanted, Watches
<1>7. ended = <<>> => Wanted(asker) = None
  <2>1. CASE Watches(prPanel)
    <3>1. prPanel # None /\ ended = Unsubscribe(prPanel) /\ Len(ended) = 1
      BY <2>1, CallFacts DEF Watches
    <3> QED
      BY <3>1
  <2> QED
    BY <2>1 DEF Wanted
<1>8. prPanel' = None => Wanted(asker)' = None
  BY DEF Wanted, Watches
<1> HIDE DEF ended, begun
<1> DEFINE messages == ended \o begun
<1>9. /\ CallsOf(asker, messages)
      /\ begun # <<>> => messages # <<>> /\ messages[Len(messages)] = begun[Len(begun)]
  BY <1>4, <1>5, JoinedCalls
<1>10. /\ begun = <<>> => messages = ended
       /\ messages = <<>> => Wanted(asker)' = Wanted(asker)
       /\ messages # <<>> => messages[Len(messages)].interval = Wanted(asker)'
  <2>1. CASE begun # <<>>
    BY <1>5, <1>9, <2>1
  <2>2. CASE begun = <<>>
    <3>1. messages = ended
      BY <1>4, <2>2 DEF CallsOf
    <3>2. ASSUME ended # <<>> PROVE ended[Len(ended)].interval = None
      <4>1. Watches(prPanel) /\ ended = Unsubscribe(prPanel) /\ prPanel # None
        BY <3>2 DEF ended, Watches
      <4> QED
        BY <4>1, CallFacts
    <3> QED
      BY <1>5, <1>7, <1>8, <2>2, <3>1, <3>2
  <2> QED
    BY <2>1, <2>2
<1>11. Calls(messages)
  BY <1>2
<1> HIDE DEF messages
<1>12. /\ messages \in Seq(PrCallRecord)
       /\ \A k \in DOMAIN messages : messages[k].id = asker
       /\ \A k \in DOMAIN messages : messages[k].op = "subscribe" <=> messages[k].interval # None
  BY <1>9 DEF CallsOf
<1>13. \A s \in SubscriberId : ListedFor(s)' = ListedFor(s)
  BY DEF ListedFor
<1> QED
  BY <1>1, <1>6, <1>10, <1>11, <1>12, <1>13, CallsServe

(***************************************************************************)
(* What a step leaves alone.                                               *)
(***************************************************************************)
LEMMA PrServerQuiet ==
    ASSUME PrInv, UNCHANGED <<prServer, prHit>>, prUp' \in BOOLEAN,
           prPast' \in [last : SubscriberId, started : SUBSET (Named \cup {None})],
           prPast'.started = prPast.started
    PROVE  /\ PrServerInv' /\ PrHitInv'
           /\ \A p, x : Known(p, x)' = Known(p, x)
<1>1. \A p, x : Known(p, x)' = Known(p, x)
  BY DEF Known
<1>2. PrServerInv'
  BY <1>1 DEF PrInv, PrServerInv
<1>3. PrHitInv'
  BY DEF PrInv, PrHitInv, PrSignalsAreMeant
<1> QED
  BY <1>1, <1>2, <1>3

LEMMA PrSignalQuiet ==
    ASSUME PrInv, UNCHANGED prSignal, \A p, x : Known(p, x) => Known(p, x)',
           prPanel # None => prPanel' # None
    PROVE  PrSignalInv'
BY DEF PrInv, PrSignalInv

LEMMA PrServedQuiet ==
    ASSUME PrInv, UNCHANGED <<prListed, prToMain>>,
           \A s \in SubscriberId : Wanted(s)' = Wanted(s)
    PROVE  PrListedInv' /\ \A s \in SubscriberId : PrServed(s)'
<1>1. PrListedInv'
  BY DEF PrInv, PrListedInv
<1>2. ASSUME NEW s \in SubscriberId PROVE PrServed(s)'
  <2>1. PrServed(s) /\ Wanted(s)' = Wanted(s) /\ ListedFor(s)' = ListedFor(s)
    BY DEF PrInv, ListedFor
  <2> QED
    BY <2>1 DEF PrServed
<1> QED
  BY <1>1, <1>2

LEMMA PrReadsQuiet ==
    ASSUME PrInv, NEW gone, prReads' = prReads \ gone
    PROVE  PrReadsInv'
BY DEF PrInv, PrReadsInv

\* A refresh is no poll.
LEMMA PrRefreshReads ==
    ASSUME PrInv, NEW gone, prReads' = (prReads \ gone) \cup {Refresh}
    PROVE  PrReadsInv'
<1>1. Refresh \in PrReadRecord /\ Refresh.by # "poll"
  BY DEF Refresh, Read, PrReadRecord
<1> QED
  BY <1>1 DEF PrInv, PrReadsInv

\* A step of the list that is polled: nothing else changes.
LEMMA PrPollStep ==
    ASSUME PrInv,
           UNCHANGED <<prServerVars, prSignalVars, prCountVars, prPanel, prDetails>>,
           PrReadsInv', PrListedInv', \A s \in SubscriberId : PrServed(s)'
    PROVE  PrInv'
<1> USE DEF prServerVars, prSignalVars, prCountVars
<1>1. PrServerInv' /\ PrHitInv' /\ \A p, x : Known(p, x)' = Known(p, x)
  BY PrServerQuiet DEF PrInv, PrServerInv
<1>2. PrPanelInv' /\ PrDetailsInv'
  BY <1>1 DEF PrInv, PrPanelInv, PrDetailsInv
<1>3. PrSignalInv'
  BY <1>1, PrSignalQuiet
<1> QED
  BY <1>1, <1>2, <1>3 DEF PrInv

\* A step of the panel or of a detail: the list on the server goes on, and the panel
\* wants what it wanted.
LEMMA PrPanelStep ==
    ASSUME PrInv,
           UNCHANGED <<prUp, prServer, prHit, prPast, prListed, prToMain, prReads>>,
           PrPanelInv', PrDetailsInv', PrSignalInv',
           \A s \in SubscriberId : Wanted(s)' = Wanted(s)
    PROVE  PrInv'
<1>1. PrServerInv' /\ PrHitInv'
  BY PrServerQuiet DEF PrInv, PrServerInv
<1>2. PrListedInv' /\ \A s \in SubscriberId : PrServed(s)'
  BY PrServedQuiet
<1>3. PrReadsInv'
  BY DEF PrInv, PrReadsInv
<1> QED
  BY <1>1, <1>2, <1>3 DEF PrInv

LEMMA WantedQuiet ==
    ASSUME prUp' = prUp,
           \/ prPanel' = prPanel
           \/ /\ prPanel # None /\ prPanel' # None /\ prPanel'.id = prPanel.id
              /\ prPanel'.interval = prPanel.interval
              /\ prPanel'.selected = prPanel.selected
    PROVE  \A s \in SubscriberId : Wanted(s)' = Wanted(s)
BY DEF Wanted, Watches

\* A poll is added where there is none, and one that is abandoned is none.
LEMMA PolledOnceKeeps ==
    ASSUME PrInv, prReads' = PolledOnce(prReads)
    PROVE  PrReadsInv'
<1>1. Read("poll") \in PrReadRecord /\ Read("poll").by = "poll"
  BY DEF Read, PrReadRecord
<1> QED
  BY <1>1 DEF PrInv, PrReadsInv, PolledOnce

LEMMA AbandonedKeeps ==
    ASSUME PrInv, NEW gone, prReads' = Abandoned(prReads) \ gone
    PROVE  PrReadsInv'
<1>1. ASSUME NEW r \in prReads
      PROVE  LET now == IF r.by = "poll" THEN [r EXCEPT !.by = "ended poll"] ELSE r
             IN now \in PrReadRecord /\ now.by # "poll"
  <2>1. r \in PrReadRecord
    BY DEF PrInv, PrReadsInv
  <2> QED
    BY <2>1, Zenon DEF PrReadRecord
<1> QED
  BY <1>1, Zenon DEF PrReadsInv, Abandoned

(***************************************************************************)
(* The list.                                                               *)
(***************************************************************************)
\* The head of the calls under way is taken: only the last call for its subscription
\* matters.
LEMMA HeadTaken ==
    ASSUME PrInv, prToMain # <<>>, prToMain' = Tail(prToMain),
           UNCHANGED <<prUp, prPanel>>,
           NEW call, call = Head(prToMain),
           prListed' # None =>
               /\ prListed' \in PrListedRecord /\ prListed'.subscribers # NoSubscription
               /\ prListed'.timer = DesiredInterval(prListed'.subscribers),
           \A s \in SubscriberId : s # call.id => ListedFor(s)' = ListedFor(s),
           Wanted(call.id) = call.interval => ListedFor(call.id)' = call.interval
    PROVE  PrListedInv' /\ \A s \in SubscriberId : PrServed(s)'
<1>1. /\ prToMain \in Seq(PrCallRecord) /\ Len(prToMain) \in Nat /\ Len(prToMain) > 0
      /\ prToMain' \in Seq(PrCallRecord) /\ Len(prToMain') = Len(prToMain) - 1
      /\ \A k \in DOMAIN prToMain' : k + 1 \in DOMAIN prToMain /\ prToMain'[k] = prToMain[k + 1]
      /\ call = prToMain[1]
  BY DEF PrInv, PrListedInv
<1>2. PrListedInv'
  <2>1. \A k \in DOMAIN prToMain' : prToMain'[k].op = "subscribe" <=> prToMain'[k].interval # None
    BY <1>1 DEF PrInv, PrListedInv
  <2> QED
    BY <1>1, <2>1 DEF PrListedInv
<1>3. ASSUME NEW s \in SubscriberId PROVE PrServed(s)'
  <2>1. Wanted(s)' = Wanted(s)
    BY WantedQuiet
  <2>2. CASE /\ \A k \in DOMAIN prToMain : prToMain[k].id # s
             /\ ListedFor(s) = Wanted(s)
    <3>1. s # call.id
      BY <1>1, <2>2
    <3>2. \A k \in DOMAIN prToMain' : prToMain'[k].id # s
      BY <1>1, <2>2
    <3> QED
      BY <2>1, <2>2, <3>1, <3>2 DEF PrServed
  <2>3. CASE \E k \in DOMAIN prToMain :
                 /\ prToMain[k].id = s /\ prToMain[k].interval = Wanted(s)
                 /\ \A l \in DOMAIN prToMain : prToMain[l].id = s => l <= k
    <3>1. PICK k \in DOMAIN prToMain :
                 /\ prToMain[k].id = s /\ prToMain[k].interval = Wanted(s)
                 /\ \A l \in DOMAIN prToMain : prToMain[l].id = s => l <= k
      BY <2>3
    <3>2. k \in 1..Len(prToMain)
      BY <1>1
    <3>3. CASE k = 1
      <4>1. call.id = s /\ Wanted(call.id) = call.interval
        BY <1>1, <3>1, <3>3
      <4>2. \A l \in DOMAIN prToMain' : prToMain'[l].id # s
        <5>1. \A l \in DOMAIN prToMain' : l + 1 > 1
          BY <1>1
        <5> QED
          BY <1>1, <3>1, <3>3, <5>1
      <4> QED
        BY <2>1, <4>1, <4>2 DEF PrServed
    <3>4. CASE k # 1
      <4>1. /\ k - 1 \in DOMAIN prToMain' /\ (k - 1) + 1 = k
        BY <1>1, <3>2, <3>4
      <4>2. prToMain'[k - 1] = prToMain[k]
        BY <1>1, <4>1
      <4>3. \A l \in DOMAIN prToMain' : prToMain'[l].id = s => l <= k - 1
        <5> TAKE l \in DOMAIN prToMain'
        <5>1. l + 1 \in DOMAIN prToMain /\ prToMain'[l] = prToMain[l + 1] /\ l \in Nat
          BY <1>1
        <5>2. prToMain'[l].id = s => l + 1 <= k
          BY <3>1, <5>1
        <5> QED
          BY <3>2, <5>1, <5>2
      <4> QED
        BY <2>1, <3>1, <4>1, <4>2, <4>3 DEF PrServed
    <3> QED
      BY <3>3, <3>4
  <2> QED
    BY <2>2, <2>3 DEF PrInv, PrServed
<1> QED
  BY <1>2, <1>3

LEMMA PrSubscribedKeeps ==
    ASSUME PrInv, PrSubscribed
    PROVE  PrInv'
<1> USE DEF PrSubscribed
<1>1. PICK call \in PrCallRecord : call = Head(prToMain) /\ call = prToMain[1]
        /\ 1 \in DOMAIN prToMain
  BY DEF PrInv, PrListedInv
<1>2. call.op = "subscribe" /\ call.id \in SubscriberId
      /\ call.interval \in PROCESS_INTERVAL_OPTIONS
  BY <1>1, PrNoneAssumption DEF PrInv, PrListedInv, PrCallRecord
<1>3. prToMain # <<>> /\ prToMain' = Tail(prToMain) /\ UNCHANGED <<prUp, prPanel>>
  BY DEF prServerVars
<1>4. CASE prUp
  <2> DEFINE before == IF prListed = None THEN NoSubscription ELSE prListed.subscribers
             after == [before EXCEPT ![call.id] = call.interval]
  <2>1. before \in [SubscriberId -> PROCESS_INTERVAL_OPTIONS \cup {None}]
    BY DEF NoSubscription, PrInv, PrListedInv, PrListedRecord
  <2>2. \A s \in SubscriberId : ListedFor(s) = before[s]
    BY DEF ListedFor, NoSubscription
  <2>3. prListed' = ListedWith(after) /\ prReads' = PolledOnce(prReads)
    BY <1>1, <1>4
  <2> HIDE DEF before
  <2>4. /\ after \in [SubscriberId -> PROCESS_INTERVAL_OPTIONS \cup {None}]
        /\ after[call.id] = call.interval
        /\ \A s \in SubscriberId : s # call.id => after[s] = before[s]
    BY <1>2, <2>1
  <2> HIDE DEF after
  <2>5. after # NoSubscription
    BY <1>2, <2>4, PrNoneAssumption DEF NoSubscription
  <2>6. /\ prListed' \in PrListedRecord /\ prListed'.subscribers = after
        /\ prListed'.timer = DesiredInterval(after) /\ prListed' # None
    <3>1. DesiredInterval(after) \in {1, 2}
      BY <2>4, DesiredIntervalFacts
    <3> QED
      BY <2>3, <2>4, <3>1, PrNoneAssumption DEF ListedWith, PrListedRecord
  <2>7. \A s \in SubscriberId : ListedFor(s)' = after[s]
    BY <2>6 DEF ListedFor
  <2>8. PrListedInv' /\ \A s \in SubscriberId : PrServed(s)'
    <3>1. /\ \A s \in SubscriberId : s # call.id => ListedFor(s)' = ListedFor(s)
          /\ ListedFor(call.id)' = call.interval
      BY <1>2, <2>2, <2>4, <2>7
    <3> QED
      BY <1>1, <1>3, <2>5, <2>6, <3>1, HeadTaken
  <2>9. PrReadsInv'
    BY <2>3, PolledOnceKeeps
  <2> QED
    BY <2>8, <2>9, PrPollStep
<1>5. CASE ~prUp
  <2>1. UNCHANGED <<prListed, prReads>>
    BY <1>5
  <2>2. \A s \in SubscriberId : Wanted(s) = None
    BY <1>5 DEF Wanted, Watches
  <2>3. Wanted(call.id) # call.interval /\ \A s \in SubscriberId : ListedFor(s)' = ListedFor(s)
    BY <1>2, <2>1, <2>2, PrNoneAssumption DEF ListedFor
  <2>4. PrListedInv' /\ \A s \in SubscriberId : PrServed(s)'
    BY <1>1, <1>3, <2>1, <2>3, HeadTaken DEF PrInv, PrListedInv
  <2>5. PrReadsInv'
    BY <2>1 DEF PrInv, PrReadsInv
  <2> QED
    BY <2>4, <2>5, PrPollStep
<1> QED
  BY <1>4, <1>5

LEMMA PrUnsubscribedKeeps ==
    ASSUME PrInv, PrUnsubscribed
    PROVE  PrInv'
<1> USE DEF PrUnsubscribed
<1>1. PICK call \in PrCallRecord : call = Head(prToMain) /\ call = prToMain[1]
        /\ 1 \in DOMAIN prToMain
  BY DEF PrInv, PrListedInv
<1>2. call.op = "unsubscribe" /\ call.id \in SubscriberId /\ call.interval = None
  BY <1>1 DEF PrInv, PrListedInv, PrCallRecord
<1>3. prToMain # <<>> /\ prToMain' = Tail(prToMain) /\ UNCHANGED <<prUp, prPanel>>
  BY DEF prServerVars
<1>4. CASE prListed = None
  <2>1. UNCHANGED <<prListed, prReads>>
    BY <1>4
  <2>2. \A s \in SubscriberId : ListedFor(s)' = ListedFor(s) /\ ListedFor(s) = None
    BY <1>4, <2>1 DEF ListedFor
  <2>3. PrListedInv' /\ \A s \in SubscriberId : PrServed(s)'
    BY <1>1, <1>2, <1>3, <1>4, <2>1, <2>2, HeadTaken
  <2>4. PrReadsInv'
    BY <2>1 DEF PrInv, PrReadsInv
  <2> QED
    BY <2>3, <2>4, PrPollStep
<1>5. CASE prListed # None
  <2> DEFINE before == prListed.subscribers
             left == [before EXCEPT ![call.id] = None]
  <2>1. before \in [SubscriberId -> PROCESS_INTERVAL_OPTIONS \cup {None}]
    BY <1>5 DEF PrInv, PrListedInv, PrListedRecord
  <2>2. \A s \in SubscriberId : ListedFor(s) = before[s]
    BY <1>5 DEF ListedFor
  <2>3. IF left = NoSubscription
        THEN prListed' = None /\ prReads' = Abandoned(prReads)
        ELSE prListed' = ListedWith(left) /\ UNCHANGED prReads
    BY <1>1, <1>5
  <2> HIDE DEF before
  <2>4. /\ left \in [SubscriberId -> PROCESS_INTERVAL_OPTIONS \cup {None}]
        /\ left[call.id] = None
        /\ \A s \in SubscriberId : s # call.id => left[s] = before[s]
    BY <1>2, <2>1
  <2> HIDE DEF left
  <2>5. prListed' # None =>
            /\ prListed' \in PrListedRecord /\ prListed'.subscribers = left
            /\ prListed'.timer = DesiredInterval(left) /\ left # NoSubscription
    <3>1. DesiredInterval(left) \in {1, 2}
      BY <2>4, DesiredIntervalFacts
    <3> QED
      BY <2>3, <2>4, <3>1 DEF ListedWith, PrListedRecord
  <2>6. \A s \in SubscriberId : ListedFor(s)' = left[s]
    <3>1. CASE left = NoSubscription
      BY <2>3, <3>1 DEF ListedFor, NoSubscription
    <3>2. CASE left # NoSubscription
      <4>1. prListed' = [subscribers |-> left, timer |-> DesiredInterval(left)]
        BY <2>3, <3>2 DEF ListedWith
      <4>2. prListed' # None /\ prListed'.subscribers = left
        <5>1. DesiredInterval(left) \in {1, 2}
          BY <2>4, DesiredIntervalFacts
        <5>2. prListed' \in PrListedRecord
          BY <2>4, <4>1, <5>1 DEF PrListedRecord
        <5> QED
          BY <4>1, <5>2, PrNoneAssumption
      <4> QED
        BY <4>2 DEF ListedFor
    <3> QED
      BY <3>1, <3>2
  <2>7. PrListedInv' /\ \A s \in SubscriberId : PrServed(s)'
    <3>1. /\ \A s \in SubscriberId : s # call.id => ListedFor(s)' = ListedFor(s)
          /\ ListedFor(call.id)' = call.interval
      BY <1>2, <2>2, <2>4, <2>6
    <3> QED
      BY <1>1, <1>3, <2>5, <3>1, HeadTaken
  <2>8. PrReadsInv'
    <3>1. CASE prReads' = Abandoned(prReads)
      <4>1. prReads' = Abandoned(prReads) \ {}
        BY <3>1
      <4> QED
        BY <4>1, AbandonedKeeps, Zenon
    <3>2. CASE prReads' = prReads
      BY <3>2 DEF PrInv, PrReadsInv
    <3> QED
      BY <2>3, <3>1, <3>2
  <2> QED
    BY <2>7, <2>8, PrPollStep
<1> QED
  BY <1>4, <1>5

LEMMA PrListStepsKeep ==
    ASSUME PrInv,
           \/ PrRefreshes \/ PrTicks
           \/ \E r \in prReads : PrReads(r) \/ PrReadFails(r)
    PROVE  PrInv'
<1>1. /\ UNCHANGED <<prListed, prToMain, prServerVars, prSignalVars, prPast, prPanel, prDetails>>
      /\ prUp' = prUp
  BY DEF PrRefreshes, PrTicks, PrReads, PrReadFails, prServerVars, prCountVars
<1>2. PrReadsInv'
  <2>1. CASE PrRefreshes
    <3>1. prReads' = (prReads \ {}) \cup {Refresh}
      BY <2>1 DEF PrRefreshes, Refreshed
    <3> QED
      BY <3>1, PrRefreshReads, Zenon
  <2>2. CASE PrTicks
    BY <2>2, PolledOnceKeeps DEF PrTicks
  <2>3. ASSUME NEW r \in prReads, PrReads(r) PROVE PrReadsInv'
    <3> DEFINE read == [r EXCEPT !.saw = prServer]
    <3>1. r \in PrReadRecord /\ prServer \in PrTable
      BY <2>3 DEF PrInv, PrReadsInv, PrServerInv, PrTable
    <3>2. read \in PrReadRecord /\ read.by = r.by
      BY <3>1, Zenon DEF PrReadRecord
    <3>3. prReads' = (prReads \ {r}) \cup {read}
      BY <2>3 DEF PrReads
    <3> HIDE DEF read
    <3> QED
      BY <2>3, <3>1, <3>2, <3>3 DEF PrInv, PrReadsInv
  <2>4. ASSUME NEW r \in prReads, PrReadFails(r) PROVE PrReadsInv'
    BY <2>4, PrReadsQuiet, Zenon DEF PrReadFails
  <2> QED
    BY <2>1, <2>2, <2>3, <2>4
<1>3. \A s \in SubscriberId : Wanted(s)' = Wanted(s)
  BY <1>1, WantedQuiet
<1>4. PrListedInv' /\ \A s \in SubscriberId : PrServed(s)'
  BY <1>1, <1>3, PrServedQuiet
<1>5. PrServerInv' /\ PrHitInv' /\ \A p, x : Known(p, x)' = Known(p, x)
  BY <1>1, PrServerQuiet DEF PrInv, PrServerInv, prServerVars, prSignalVars
<1>6. PrPanelInv' /\ PrDetailsInv'
  BY <1>1, <1>5 DEF PrInv, PrPanelInv, PrDetailsInv
<1>7. PrSignalInv'
  BY <1>1, <1>5, PrSignalQuiet DEF prSignalVars
<1> QED
  BY <1>2, <1>4, <1>5, <1>6, <1>7 DEF PrInv

(***************************************************************************)
(* The panel.                                                              *)
(***************************************************************************)
\* The panel opens, closes, or begins or ends to watch.
LEMMA PrEffectStep ==
    ASSUME PrInv,
           UNCHANGED <<prUp, prServer, prHit, prListed>>,
           prPast' \in [last : SubscriberId, started : SUBSET (Named \cup {None})],
           prPast'.started = prPast.started,
           prPanel # None \/ prPanel' # None,
           prPanel # None /\ prPanel' # None => prPanel'.id = prPanel.id,
           Calls(Effect(prPanel, prPanel')),
           PrPanelInv', PrDetailsInv', PrSignalInv', PrReadsInv'
    PROVE  PrInv'
<1>1. PrServerInv' /\ PrHitInv'
  BY PrServerQuiet DEF PrInv, PrServerInv
<1>2. PrListedInv' /\ \A s \in SubscriberId : PrServed(s)'
  <2>1. /\ prPanel = None \/ prPanel \in PrPanelRecord
        /\ prPanel' = None \/ prPanel' \in PrPanelRecord
    BY DEF PrInv, PrPanelInv
  <2>2. PrListedInv /\ \A s \in SubscriberId : PrServed(s)
    BY DEF PrInv
  <2> QED
    BY <2>1, <2>2, EffectServes
<1> QED
  BY <1>1, <1>2 DEF PrInv

LEMMA KnownStays ==
    ASSUME prServer' = prServer, prPast'.started = prPast.started
    PROVE  \A p, x : Known(p, x)' = Known(p, x)
BY DEF Known

\* A question about a pid knows nothing yet.
LEMMA AskedFacts ==
    ASSUME NEW pid \in Pid
    PROVE  Asked(pid) \in PrAskedRecord /\ Asked(pid).found = None
BY DEF Asked, PrAskedRecord

LEMMA PrOpensKeeps ==
    ASSUME PrInv, NEW selected \in Pid \cup {None}, PrOpens(selected)
    PROVE  PrInv'
<1> USE DEF PrOpens
<1>1. PICK id \in SubscriberId : prPanel' = Panel(id, selected)
  OBVIOUS
<1>2. /\ prPanel' \in PrPanelRecord /\ prPanel'.selected = selected
      /\ prPanel'.detail = None /\ prPanel'.dialog = None
  <2>1. Nothing \in PrTable /\ DEFAULT_INTERVAL \in PROCESS_INTERVAL_OPTIONS /\ "all" \in Filter
    BY DEF PrTable, DEFAULT_INTERVAL, PROCESS_INTERVAL_OPTIONS, Filter
  <2> QED
    BY <1>1, <2>1 DEF Panel, PrPanelRecord
<1>3. prPanel' # None
  BY <1>2, PrNoneAssumption
<1>4. UNCHANGED <<prUp, prServer, prHit, prListed, prSignal, prPast>> /\ prPanel = None
  BY DEF prServerVars, prSignalVars
<1>5. \A p, x : Known(p, x)' = Known(p, x)
  BY <1>4, KnownStays
<1>6. PrPanelInv' /\ PrSignalInv'
  BY <1>2, <1>4, <1>5, PrSignalQuiet DEF PrPanelInv
<1>7. PrDetailsInv'
  <2>1. prDetails' = {} \/ (selected \in Pid /\ prDetails' = {Asked(selected)})
    OBVIOUS
  <2> QED
    BY <1>2, <1>3, <2>1, AskedFacts, PrNoneAssumption DEF PrDetailsInv
<1>8. PrReadsInv'
  <2>1. prReads' = (prReads \ {}) \cup {Refresh} \/ prReads' = prReads
    BY DEF Refreshed
  <2> QED
    BY <2>1, PrRefreshReads, Zenon DEF PrInv, PrReadsInv
<1>9. Calls(Effect(prPanel, prPanel'))
  BY <1>4
<1> QED
  BY <1>3, <1>4, <1>6, <1>7, <1>8, <1>9, PrEffectStep DEF PrInv, PrServerInv

LEMMA PrLeavesKeeps ==
    ASSUME PrInv, PrLeaves
    PROVE  PrInv'
<1> USE DEF PrLeaves
<1>1. /\ UNCHANGED <<prUp, prServer, prHit, prListed>> /\ prPanel # None /\ prPanel' = None
      /\ prDetails' = {} /\ Calls(Effect(prPanel, prPanel'))
      /\ prReads' = prReads \ OfWindow
  BY DEF prServerVars
<1>2. /\ prPast' \in [last : SubscriberId, started : SUBSET (Named \cup {None})]
      /\ prPast'.started = prPast.started
  <2>1. prPanel.id \in SubscriberId
    BY <1>1 DEF PrInv, PrPanelInv, PrPanelRecord
  <2> QED
    BY <2>1 DEF PrInv, PrServerInv
<1>3. \A p, x : Known(p, x)' = Known(p, x)
  BY <1>1, <1>2, KnownStays
<1>4. PrPanelInv' /\ PrDetailsInv' /\ PrReadsInv'
  BY <1>1, PrReadsQuiet DEF PrPanelInv, PrDetailsInv
<1>5. PrSignalInv'
  <2>1. CASE prSignal' = None
    BY <2>1 DEF PrSignalInv
  <2>2. CASE /\ prSignal # None /\ prSignal.stage # "reread"
             /\ prSignal' = [prSignal EXCEPT !.told = FALSE]
    <3>1. prSignal \in PrSignalRecord
      BY <2>2 DEF PrInv, PrSignalInv
    <3>2. /\ prSignal' \in PrSignalRecord /\ ~prSignal'.told
          /\ prSignal'.pid = prSignal.pid /\ prSignal'.named = prSignal.named
          /\ prSignal'.stage = prSignal.stage /\ prSignal'.found = prSignal.found
      BY <2>2, <3>1, Zenon DEF PrSignalRecord
    <3> QED
      BY <1>3, <2>2, <3>2 DEF PrInv, PrSignalInv
  <2> QED
    BY <2>1, <2>2
<1> QED
  BY <1>1, <1>2, <1>4, <1>5, PrEffectStep

\* The panel with another interval, filter, selection, list, detail or dialog.
LEMMA PanelFields ==
    ASSUME NEW panel \in PrPanelRecord
    PROVE  /\ \A i \in PROCESS_INTERVAL_OPTIONS :
                  [panel EXCEPT !.interval = i] \in PrPanelRecord
           /\ \A f \in Filter : [panel EXCEPT !.filter = f] \in PrPanelRecord
           /\ \A t \in PrTable : [panel EXCEPT !.shown = t] \in PrPanelRecord
           /\ \A p \in Pid : [panel EXCEPT !.selected = p] \in PrPanelRecord
           /\ \A d \in PrDetailRecord \cup {None} : [panel EXCEPT !.detail = d] \in PrPanelRecord
           /\ \A d \in PrDialogRecord \cup {None} : [panel EXCEPT !.dialog = d] \in PrPanelRecord
           /\ Deselected(panel) \in PrPanelRecord
<1>1. \A i \in PROCESS_INTERVAL_OPTIONS : [panel EXCEPT !.interval = i] \in PrPanelRecord
  BY DEF PrPanelRecord
<1>2. \A f \in Filter : [panel EXCEPT !.filter = f] \in PrPanelRecord
  BY DEF PrPanelRecord
<1>3. \A t \in PrTable : [panel EXCEPT !.shown = t] \in PrPanelRecord
  BY DEF PrPanelRecord
<1>4. \A p \in Pid : [panel EXCEPT !.selected = p] \in PrPanelRecord
  BY DEF PrPanelRecord
<1>5. \A d \in PrDetailRecord \cup {None} : [panel EXCEPT !.detail = d] \in PrPanelRecord
  BY DEF PrPanelRecord
<1>6. \A d \in PrDialogRecord \cup {None} : [panel EXCEPT !.dialog = d] \in PrPanelRecord
  BY DEF PrPanelRecord
<1>7. Deselected(panel) \in PrPanelRecord
  BY Zenon DEF PrPanelRecord, Deselected
<1> QED
  BY <1>1, <1>2, <1>3, <1>4, <1>5, <1>6, <1>7

LEMMA PrChoosesIntervalKeeps ==
    ASSUME PrInv, NEW interval \in PROCESS_INTERVAL_OPTIONS, PrChoosesInterval(interval)
    PROVE  PrInv'
<1> USE DEF PrChoosesInterval
<1>1. /\ UNCHANGED <<prUp, prServer, prHit, prListed, prSignal, prPast, prDetails, prReads>>
      /\ prPanel # None /\ prPanel' = [prPanel EXCEPT !.interval = interval]
      /\ Calls(Effect(prPanel, prPanel')) /\ prPanel.selected = None
  BY DEF prServerVars, prSignalVars
<1>2. prPanel \in PrPanelRecord
  BY <1>1 DEF PrInv, PrPanelInv
<1>3. /\ prPanel' \in PrPanelRecord /\ prPanel'.id = prPanel.id
      /\ prPanel'.selected = prPanel.selected /\ prPanel'.detail = prPanel.detail
      /\ prPanel'.dialog = prPanel.dialog
  <2>1. prPanel' \in PrPanelRecord
    BY <1>1, <1>2, PanelFields
  <2>2. /\ prPanel'.id = prPanel.id /\ prPanel'.selected = prPanel.selected
        /\ prPanel'.detail = prPanel.detail /\ prPanel'.dialog = prPanel.dialog
    BY <1>1, <1>2 DEF PrPanelRecord
  <2> QED
    BY <2>1, <2>2
<1>4. \A p, x : Known(p, x)' = Known(p, x)
  BY <1>1, KnownStays
<1>5. prPanel' # None
  BY <1>3, PrNoneAssumption
<1>6. PrPanelInv' /\ PrDetailsInv'
  BY <1>1, <1>3, <1>4, <1>5 DEF PrInv, PrPanelInv, PrDetailsInv
<1>7. PrSignalInv' /\ PrReadsInv'
  BY <1>1, <1>4, <1>5, PrSignalQuiet DEF PrInv, PrReadsInv
<1> QED
  BY <1>1, <1>3, <1>5, <1>6, <1>7, PrEffectStep DEF PrInv, PrServerInv

LEMMA PrFiltersKeeps ==
    ASSUME PrInv, NEW filter \in Filter, PrFilters(filter)
    PROVE  PrInv'
<1> USE DEF PrFilters
<1>1. /\ UNCHANGED <<prUp, prServer, prHit, prPast, prListed, prToMain, prReads, prSignal,
                     prDetails>>
      /\ prPanel # None /\ prPanel' = [prPanel EXCEPT !.filter = filter]
  BY DEF prServerVars, prSignalVars, prPollVars
<1>2. prPanel \in PrPanelRecord
  BY <1>1 DEF PrInv, PrPanelInv
<1>3. /\ prPanel' \in PrPanelRecord /\ prPanel'.id = prPanel.id
      /\ prPanel'.selected = prPanel.selected /\ prPanel'.detail = prPanel.detail
      /\ prPanel'.dialog = prPanel.dialog /\ prPanel'.interval = prPanel.interval
  <2>1. prPanel' \in PrPanelRecord
    BY <1>1, <1>2, PanelFields
  <2>2. /\ prPanel'.id = prPanel.id /\ prPanel'.selected = prPanel.selected
        /\ prPanel'.detail = prPanel.detail /\ prPanel'.dialog = prPanel.dialog
        /\ prPanel'.interval = prPanel.interval
    BY <1>1, <1>2 DEF PrPanelRecord
  <2> QED
    BY <2>1, <2>2
<1>4. \A p, x : Known(p, x)' = Known(p, x)
  BY <1>1, KnownStays
<1>5. prPanel' # None
  BY <1>3, PrNoneAssumption
<1>6. PrPanelInv' /\ PrDetailsInv'
  BY <1>1, <1>3, <1>4, <1>5 DEF PrInv, PrPanelInv, PrDetailsInv
<1>7. PrSignalInv'
  BY <1>1, <1>4, <1>5, PrSignalQuiet
<1> QED
  BY <1>1, <1>3, <1>5, <1>6, <1>7, WantedQuiet, PrPanelStep

LEMMA PrSelectsKeeps ==
    ASSUME PrInv, NEW pid \in Pid, PrSelects(pid)
    PROVE  PrInv'
<1> USE DEF PrSelects
<1>1. /\ UNCHANGED <<prUp, prServer, prHit, prListed, prSignal, prPast, prReads>>
      /\ prPanel # None /\ prPanel' = [prPanel EXCEPT !.selected = pid]
      /\ prDetails' = prDetails \cup {Asked(pid)}
      /\ IF prPanel.selected = None THEN Calls(Effect(prPanel, prPanel')) ELSE UNCHANGED prToMain
  BY DEF prServerVars, prSignalVars
<1>2. prPanel \in PrPanelRecord
  BY <1>1 DEF PrInv, PrPanelInv
<1>3. /\ prPanel' \in PrPanelRecord /\ prPanel'.id = prPanel.id
      /\ prPanel'.selected = pid /\ prPanel'.detail = prPanel.detail
      /\ prPanel'.dialog = prPanel.dialog
  <2>1. prPanel' \in PrPanelRecord
    BY <1>1, <1>2, PanelFields
  <2>2. /\ prPanel'.id = prPanel.id /\ prPanel'.selected = pid
        /\ prPanel'.detail = prPanel.detail /\ prPanel'.dialog = prPanel.dialog
    BY <1>1, <1>2 DEF PrPanelRecord
  <2> QED
    BY <2>1, <2>2
<1>4. \A p, x : Known(p, x)' = Known(p, x)
  BY <1>1, KnownStays
<1>5. prPanel' # None /\ pid # None
  BY <1>3, PrNoneAssumption
<1>6. PrPanelInv'
  BY <1>1, <1>3, <1>4, <1>5 DEF PrInv, PrPanelInv
<1>7. PrDetailsInv'
  BY <1>1, <1>3, <1>4, <1>5, AskedFacts DEF PrInv, PrDetailsInv
<1>8. PrSignalInv' /\ PrReadsInv'
  BY <1>1, <1>4, <1>5, PrSignalQuiet DEF PrInv, PrReadsInv
<1>9. CASE prPanel.selected = None
  BY <1>1, <1>3, <1>5, <1>6, <1>7, <1>8, <1>9, PrEffectStep DEF PrInv, PrServerInv
<1>10. CASE prPanel.selected # None
  <2>1. \A s \in SubscriberId : Wanted(s) = None /\ Wanted(s)' = None
    BY <1>3, <1>5, <1>10 DEF Wanted, Watches
  <2> QED
    BY <1>1, <1>6, <1>7, <1>8, <1>10, <2>1, PrPanelStep
<1> QED
  BY <1>9, <1>10

LEMMA PrGoesBackKeeps ==
    ASSUME PrInv, PrGoesBack
    PROVE  PrInv'
<1> USE DEF PrGoesBack
<1>1. /\ UNCHANGED <<prUp, prServer, prHit, prListed, prSignal, prPast>>
      /\ prPanel # None /\ prPanel' = Deselected(prPanel)
      /\ prDetails' = {} /\ Calls(Effect(prPanel, prPanel'))
      /\ prReads' = (prReads \ {}) \cup {Refresh}
  BY DEF prServerVars, prSignalVars, prCountVars, Refreshed
<1>2. prPanel \in PrPanelRecord
  BY <1>1 DEF PrInv, PrPanelInv
<1>3. /\ prPanel' \in PrPanelRecord /\ prPanel'.id = prPanel.id
      /\ prPanel'.detail = None /\ prPanel'.dialog = prPanel.dialog
  <2>1. prPanel' \in PrPanelRecord
    BY <1>1, <1>2, PanelFields
  <2>2. /\ prPanel'.id = prPanel.id /\ prPanel'.detail = None
        /\ prPanel'.dialog = prPanel.dialog
    BY <1>1, <1>2 DEF PrPanelRecord, Deselected
  <2> QED
    BY <2>1, <2>2
<1>4. \A p, x : Known(p, x)' = Known(p, x)
  BY <1>1, KnownStays
<1>5. prPanel' # None
  BY <1>3, PrNoneAssumption
<1>6. PrPanelInv' /\ PrDetailsInv'
  BY <1>1, <1>3, <1>4, <1>5 DEF PrInv, PrPanelInv, PrDetailsInv
<1>7. PrSignalInv' /\ PrReadsInv'
  BY <1>1, <1>4, <1>5, PrSignalQuiet, PrRefreshReads
<1> QED
  BY <1>1, <1>3, <1>5, <1>6, <1>7, PrEffectStep DEF PrInv, PrServerInv

\* A list that arrives replaces the one shown, and nothing else of the panel.
LEMMA PrAnswersKeeps ==
    ASSUME PrInv, NEW r \in prReads, PrAnswers(r)
    PROVE  PrInv'
<1> USE DEF PrAnswers
<1>1. /\ UNCHANGED <<prUp, prServer, prHit, prPast, prListed, prToMain, prSignal, prDetails>>
      /\ prReads' = prReads \ {r}
      /\ \/ prPanel' = prPanel
         \/ prPanel # None /\ prPanel' = [prPanel EXCEPT !.shown = r.saw]
  BY DEF prServerVars, prSignalVars, prCountVars
<1>2. \A p, x : Known(p, x)' = Known(p, x)
  BY <1>1, KnownStays
<1>3. \/ prPanel' = prPanel
      \/ /\ prPanel # None /\ prPanel' # None /\ prPanel' \in PrPanelRecord
         /\ prPanel'.id = prPanel.id /\ prPanel'.interval = prPanel.interval
         /\ prPanel'.selected = prPanel.selected /\ prPanel'.detail = prPanel.detail
         /\ prPanel'.dialog = prPanel.dialog
  <2>1. ASSUME prPanel # None, prPanel' = [prPanel EXCEPT !.shown = r.saw]
        PROVE  /\ prPanel' \in PrPanelRecord
               /\ prPanel'.id = prPanel.id /\ prPanel'.interval = prPanel.interval
               /\ prPanel'.selected = prPanel.selected /\ prPanel'.detail = prPanel.detail
               /\ prPanel'.dialog = prPanel.dialog
    <3>1. prPanel \in PrPanelRecord /\ r.saw \in PrTable
      BY <2>1, Zenon DEF PrInv, PrPanelInv, PrReadsInv, PrReadRecord
    <3>2. prPanel' \in PrPanelRecord
      BY <2>1, <3>1, PanelFields
    <3>3. /\ prPanel'.id = prPanel.id /\ prPanel'.interval = prPanel.interval
          /\ prPanel'.selected = prPanel.selected /\ prPanel'.detail = prPanel.detail
          /\ prPanel'.dialog = prPanel.dialog
      BY <2>1, <3>1 DEF PrPanelRecord
    <3> QED
      BY <3>2, <3>3
  <2> QED
    BY <1>1, <2>1, PrNoneAssumption
<1>4. PrPanelInv' /\ PrDetailsInv'
  BY <1>1, <1>2, <1>3 DEF PrInv, PrPanelInv, PrDetailsInv
<1>5. PrSignalInv' /\ PrReadsInv'
  BY <1>1, <1>2, <1>3, PrSignalQuiet, PrReadsQuiet, Zenon
<1>6. PrServerInv' /\ PrHitInv'
  BY <1>1, PrServerQuiet DEF PrInv, PrServerInv
<1>7. PrListedInv' /\ \A s \in SubscriberId : PrServed(s)'
  BY <1>1, <1>3, WantedQuiet, PrServedQuiet
<1> QED
  BY <1>4, <1>5, <1>6, <1>7 DEF PrInv

\* A detail asked for again, read, or given up: the panel stays as it is.
LEMMA PrDetailStepsKeep ==
    ASSUME PrInv, PrRereads \/ \E d \in prDetails : PrDetailLists(d) \/ PrDetailFails(d)
    PROVE  PrInv'
<1>1. UNCHANGED <<prUp, prServer, prHit, prPast, prListed, prToMain, prReads, prSignal, prPanel>>
  BY DEF PrRereads, PrDetailLists, PrDetailFails, prServerVars, prSignalVars, prCountVars,
       prPollVars
<1>2. \A p, x : Known(p, x)' = Known(p, x)
  BY <1>1, KnownStays
<1>3. PrPanelInv' /\ PrSignalInv'
  BY <1>1, <1>2, PrSignalQuiet DEF PrInv, PrPanelInv
<1>4. PrDetailsInv'
  <2>1. CASE PrRereads
    <3>1. /\ prPanel # None /\ prPanel.selected # None /\ prPanel.selected \in Pid
          /\ prDetails' = prDetails \cup {Asked(prPanel.selected)}
      BY <2>1 DEF PrRereads, PrInv, PrPanelInv, PrPanelRecord
    <3> QED
      BY <1>1, <1>2, <3>1, AskedFacts DEF PrInv, PrDetailsInv
  <2>2. ASSUME NEW d \in prDetails, PrDetailLists(d) PROVE PrDetailsInv'
    <3> DEFINE found == [d EXCEPT !.found = prServer[d.pid]]
    <3>1. d \in PrAskedRecord /\ prServer[d.pid] # None /\ prServer[d.pid] \in Named
      BY <2>2, PrNoneAssumption DEF PrDetailLists, PrInv, PrDetailsInv, PrServerInv, PrAskedRecord
    <3>2. /\ found \in PrAskedRecord /\ found.pid = d.pid /\ found.found = prServer[d.pid]
          /\ d.pid \in Pid
      BY <3>1 DEF PrAskedRecord
    <3>3. Known(found.pid, found.found)
      BY <3>1, <3>2 DEF PrInv, PrServerInv
    <3>4. prDetails' = (prDetails \ {d}) \cup {found}
      BY <2>2 DEF PrDetailLists
    <3> HIDE DEF found
    <3> QED
      BY <1>1, <1>2, <2>2, <3>2, <3>3, <3>4 DEF PrInv, PrDetailsInv
  <2>3. ASSUME NEW d \in prDetails, PrDetailFails(d) PROVE PrDetailsInv'
    BY <1>1, <1>2, <2>3 DEF PrDetailFails, PrInv, PrDetailsInv
  <2> QED
    BY <2>1, <2>2, <2>3
<1> QED
  BY <1>1, <1>3, <1>4, WantedQuiet, PrPanelStep

LEMMA PrDetailAnswersKeeps ==
    ASSUME PrInv, NEW d \in prDetails, PrDetailAnswers(d)
    PROVE  PrInv'
<1> USE DEF PrDetailAnswers
<1> DEFINE detail == ProcessDetail(d)
<1>1. /\ UNCHANGED <<prUp, prServer, prHit, prPast, prListed, prToMain, prReads, prSignal>>
      /\ prDetails' = prDetails \ {d} /\ d.found # None
      /\ prPanel' = [prPanel EXCEPT !.detail = detail]
  BY DEF prServerVars, prSignalVars, prCountVars, prPollVars
<1>2. /\ prPanel # None /\ prPanel.selected # None /\ prPanel \in PrPanelRecord
      /\ d \in PrAskedRecord /\ Known(d.pid, d.found)
  BY <1>1 DEF PrInv, PrDetailsInv, PrPanelInv
<1>3. detail \in PrDetailRecord /\ detail.pid = d.pid /\ detail.program = d.found
  <2>1. IsProtectedProcess(d.pid, Traits[d.found].comm, SshPids) \in BOOLEAN
    BY DEF IsProtectedProcess
  <2> QED
    BY <1>2, <2>1 DEF ProcessDetail, PrDetailRecord, Known
<1> HIDE DEF detail
<1>4. /\ prPanel' \in PrPanelRecord /\ prPanel'.detail = detail
      /\ prPanel'.id = prPanel.id /\ prPanel'.interval = prPanel.interval
      /\ prPanel'.selected = prPanel.selected /\ prPanel'.dialog = prPanel.dialog
  <2>1. prPanel' \in PrPanelRecord
    BY <1>1, <1>2, <1>3, PanelFields
  <2>2. /\ prPanel'.detail = detail /\ prPanel'.id = prPanel.id
        /\ prPanel'.interval = prPanel.interval /\ prPanel'.selected = prPanel.selected
        /\ prPanel'.dialog = prPanel.dialog
    BY <1>1, <1>2, <1>3 DEF PrPanelRecord
  <2> QED
    BY <2>1, <2>2
<1>5. prPanel' # None
  BY <1>4, PrNoneAssumption
<1>6. \A p, x : Known(p, x)' = Known(p, x)
  BY <1>1, KnownStays
<1>7. PrPanelInv'
  BY <1>2, <1>3, <1>4, <1>6 DEF PrInv, PrPanelInv
<1>8. PrDetailsInv'
  BY <1>1, <1>4, <1>5, <1>6 DEF PrInv, PrDetailsInv
<1>9. PrSignalInv'
  BY <1>1, <1>5, <1>6, PrSignalQuiet
<1> QED
  BY <1>1, <1>2, <1>4, <1>5, <1>7, <1>8, <1>9, WantedQuiet, PrPanelStep

(***************************************************************************)
(* Signals.                                                                *)
(***************************************************************************)
\* The dialog opens with what the detail names, closes, or is confirmed.
LEMMA PrDialogKeeps ==
    ASSUME PrInv, (\E signal \in Signal : PrRequests(signal)) \/ PrCancels \/ PrConfirms
    PROVE  PrInv'
<1>1. /\ UNCHANGED <<prUp, prServer, prHit, prPast, prListed, prToMain, prReads, prDetails>>
      /\ prPanel # None
  BY DEF PrRequests, PrCancels, PrConfirms, prServerVars, prSignalVars, prCountVars, prPollVars
<1>2. \A p, x : Known(p, x)' = Known(p, x)
  BY <1>1, KnownStays
<1>3. prPanel \in PrPanelRecord
  BY <1>1 DEF PrInv, PrPanelInv
<1>4. \E dialog \in PrDialogRecord \cup {None} :
          /\ prPanel' = [prPanel EXCEPT !.dialog = dialog]
          /\ dialog # None => Known(dialog.pid, dialog.named)
  <2>1. ASSUME NEW signal \in Signal, PrRequests(signal)
        PROVE  \E dialog \in PrDialogRecord \cup {None} :
                   /\ prPanel' = [prPanel EXCEPT !.dialog = dialog]
                   /\ dialog # None => Known(dialog.pid, dialog.named)
    <3> DEFINE dialog == [pid |-> prPanel.detail.pid, signal |-> signal,
                          named |-> prPanel.detail.program]
    <3>1. /\ prPanel.detail # None /\ Known(prPanel.detail.pid, prPanel.detail.program)
          /\ prPanel.detail \in PrDetailRecord
      BY <1>1, <1>3, <2>1 DEF PrRequests, PrInv, PrPanelInv, PrPanelRecord
    <3>2. /\ dialog \in PrDialogRecord /\ dialog.pid = prPanel.detail.pid
          /\ dialog.named = prPanel.detail.program
      BY <3>1 DEF PrDialogRecord, PrDetailRecord
    <3>3. prPanel' = [prPanel EXCEPT !.dialog = dialog]
      BY <2>1 DEF PrRequests
    <3> HIDE DEF dialog
    <3> QED
      BY <3>1, <3>2, <3>3
  <2>2. CASE PrCancels \/ PrConfirms
    BY <2>2 DEF PrCancels, PrConfirms
  <2> QED
    BY <2>1, <2>2
<1>5. PICK dialog \in PrDialogRecord \cup {None} :
          /\ prPanel' = [prPanel EXCEPT !.dialog = dialog]
          /\ dialog # None => Known(dialog.pid, dialog.named)
  BY <1>4
<1>6. /\ prPanel' \in PrPanelRecord /\ prPanel'.dialog = dialog
      /\ prPanel'.id = prPanel.id /\ prPanel'.interval = prPanel.interval
      /\ prPanel'.selected = prPanel.selected /\ prPanel'.detail = prPanel.detail
  <2>1. prPanel' \in PrPanelRecord
    BY <1>3, <1>5, PanelFields
  <2>2. /\ prPanel'.dialog = dialog /\ prPanel'.id = prPanel.id
        /\ prPanel'.interval = prPanel.interval /\ prPanel'.selected = prPanel.selected
        /\ prPanel'.detail = prPanel.detail
    BY <1>3, <1>5 DEF PrPanelRecord
  <2> QED
    BY <2>1, <2>2
<1>7. prPanel' # None
  BY <1>6, PrNoneAssumption
<1>8. PrPanelInv' /\ PrDetailsInv'
  BY <1>1, <1>2, <1>5, <1>6, <1>7 DEF PrInv, PrPanelInv, PrDetailsInv
<1>9. PrSignalInv'
  <2>1. CASE prSignal' = prSignal
    BY <1>2, <1>7, <2>1, PrSignalQuiet
  <2>2. CASE PrConfirms
    <3> DEFINE pending == prPanel.dialog
    <3>1. pending # None /\ pending \in PrDialogRecord /\ Known(pending.pid, pending.named)
      BY <1>1, <1>3, <2>2 DEF PrConfirms, PrInv, PrPanelInv, PrPanelRecord
    <3>2. prSignal' = Sent(pending.pid, pending.signal, pending.named)
      BY <2>2 DEF PrConfirms
    <3> HIDE DEF pending
    <3>3. /\ prSignal' \in PrSignalRecord /\ prSignal'.pid = pending.pid
          /\ prSignal'.named = pending.named /\ prSignal'.stage = "list"
      BY <3>1, <3>2 DEF Sent, PrSignalRecord, PrDialogRecord
    <3> QED
      BY <1>2, <1>7, <3>1, <3>3 DEF PrSignalInv
  <2> QED
    BY <2>1, <2>2 DEF PrRequests, PrCancels, PrConfirms, prSignalVars
<1> QED
  BY <1>1, <1>6, <1>7, <1>8, <1>9, WantedQuiet, PrPanelStep

\* A step of the service on the signal: what it named stays known.
LEMMA PrSignalStep ==
    ASSUME PrInv, AfterSignalStep, UNCHANGED <<prServer, prHit>>, PrSignalInv'
    PROVE  PrInv'
<1>1. UNCHANGED <<prUp, prServer, prHit, prPast, prListed, prToMain, prReads, prDetails, prPanel>>
  BY DEF AfterSignalStep, prPollVars, prCountVars
<1>2. \A p, x : Known(p, x)' = Known(p, x)
  BY <1>1, KnownStays
<1>3. PrPanelInv' /\ PrDetailsInv'
  BY <1>1, <1>2 DEF PrInv, PrPanelInv, PrDetailsInv
<1> QED
  BY <1>1, <1>3, WantedQuiet, PrPanelStep

LEMMA SignalFields ==
    ASSUME NEW signal \in PrSignalRecord
    PROVE  /\ \A x \in Named \cup {None} :
                  [signal EXCEPT !.stage = "protection", !.found = x] \in PrSignalRecord
           /\ \A s \in BOOLEAN : [signal EXCEPT !.stage = "kill", !.sudo = s] \in PrSignalRecord
           /\ [signal EXCEPT !.stage = "reread"] \in PrSignalRecord
           /\ \A s \in Seq(PrTable) : [signal EXCEPT !.saw = s] \in PrSignalRecord
<1>1. \A x \in Named \cup {None} :
          [signal EXCEPT !.stage = "protection", !.found = x] \in PrSignalRecord
  BY Zenon DEF PrSignalRecord
<1>2. \A s \in BOOLEAN : [signal EXCEPT !.stage = "kill", !.sudo = s] \in PrSignalRecord
  BY Zenon DEF PrSignalRecord
<1>3. [signal EXCEPT !.stage = "reread"] \in PrSignalRecord
  BY DEF PrSignalRecord
<1>4. \A s \in Seq(PrTable) : [signal EXCEPT !.saw = s] \in PrSignalRecord
  BY DEF PrSignalRecord
<1> QED
  BY <1>1, <1>2, <1>3, <1>4, Zenon

LEMMA PrSignalStepsKeep ==
    ASSUME PrInv,
           \/ PrSignalLists \/ (\E cut \in BOOLEAN : PrSignalChecks(cut)) \/ PrSignalFails
           \/ PrSignalRereads
    PROVE  PrInv'
<1>1. AfterSignalStep /\ UNCHANGED <<prServer, prHit>> /\ prSignal # None
  BY DEF PrSignalLists, PrSignalChecks, PrSignalFails, PrSignalRereads, At
<1>2. UNCHANGED prPanel /\ UNCHANGED prPast
  BY <1>1 DEF AfterSignalStep, prCountVars
<1>3. \A p, x : Known(p, x)' = Known(p, x)
  BY <1>1, <1>2, KnownStays
<1>4. /\ prSignal \in PrSignalRecord /\ Known(prSignal.pid, prSignal.named)
      /\ prSignal.told => prPanel # None
      /\ prSignal.stage = "reread" => prSignal.told
  BY <1>1 DEF PrInv, PrSignalInv
<1>5. PrSignalInv'
  <2>1. CASE prSignal' = None
    BY <2>1 DEF PrSignalInv
  <2>2. CASE /\ PrSignalLists /\ prServer[prSignal.pid] # None
             /\ prSignal' = [prSignal EXCEPT !.stage = "protection",
                                             !.found = prServer[prSignal.pid]]
    <3>1. prServer[prSignal.pid] \in Named \cup {None}
      BY <1>4 DEF PrInv, PrServerInv, PrSignalRecord
    <3>2. /\ prSignal' \in PrSignalRecord /\ prSignal'.pid = prSignal.pid
          /\ prSignal'.named = prSignal.named /\ prSignal'.told = prSignal.told
          /\ prSignal'.stage = "protection"
      <4>1. prSignal' \in PrSignalRecord
        BY <1>4, <2>2, <3>1, SignalFields, Zenon
      <4>2. /\ prSignal'.pid = prSignal.pid /\ prSignal'.named = prSignal.named
            /\ prSignal'.told = prSignal.told /\ prSignal'.stage = "protection"
        BY <1>4, <2>2, <3>1 DEF PrSignalRecord
      <4> QED
        BY <4>1, <4>2
    <3> QED
      BY <1>2, <1>3, <1>4, <3>2 DEF PrSignalInv
  <2>3. ASSUME NEW cut \in BOOLEAN, PrSignalChecks(cut), prSignal' # None
        PROVE  PrSignalInv'
    <3>1. /\ ~IsProtectedProcess(prSignal.pid, Traits[prSignal.found].comm,
                                 IF cut THEN {} ELSE SshPids)
          /\ prSignal' = [prSignal EXCEPT !.stage = "kill", !.sudo = ~Traits[prSignal.found].mine]
      BY <2>3 DEF PrSignalChecks
    <3>2. prSignal.found # "sshd"
      BY <3>1 DEF IsProtectedProcess, Traits
    <3>3. (~Traits[prSignal.found].mine) \in BOOLEAN
      OBVIOUS
    <3>4. /\ prSignal' \in PrSignalRecord /\ prSignal'.pid = prSignal.pid
          /\ prSignal'.named = prSignal.named /\ prSignal'.told = prSignal.told
          /\ prSignal'.found = prSignal.found /\ prSignal'.stage = "kill"
      <4>1. prSignal' \in PrSignalRecord
        BY <1>4, <3>1, <3>3, SignalFields, Zenon
      <4>2. /\ prSignal'.pid = prSignal.pid /\ prSignal'.named = prSignal.named
            /\ prSignal'.told = prSignal.told /\ prSignal'.found = prSignal.found
            /\ prSignal'.stage = "kill"
        BY <1>4, <3>1, <3>3 DEF PrSignalRecord
      <4> QED
        BY <4>1, <4>2
    <3> QED
      BY <1>2, <1>3, <1>4, <3>2, <3>4 DEF PrSignalInv
  <2>4. CASE PrSignalRereads
    <3> DEFINE saw == IF prUp THEN <<prServer>> ELSE <<>>
    <3>1. saw \in Seq(PrTable)
      <4>1. prServer \in PrTable
        BY DEF PrInv, PrServerInv, PrTable
      <4> QED
        BY <4>1
    <3>2. prSignal' = [prSignal EXCEPT !.saw = saw] /\ prSignal.stage = "reread"
      BY <2>4 DEF PrSignalRereads, At
    <3> HIDE DEF saw
    <3>3. /\ prSignal' \in PrSignalRecord /\ prSignal'.pid = prSignal.pid
          /\ prSignal'.named = prSignal.named /\ prSignal'.told = prSignal.told
          /\ prSignal'.stage = "reread"
      <4>1. prSignal' \in PrSignalRecord
        BY <1>4, <3>1, <3>2, SignalFields, Zenon
      <4>2. /\ prSignal'.pid = prSignal.pid /\ prSignal'.named = prSignal.named
            /\ prSignal'.told = prSignal.told /\ prSignal'.stage = "reread"
        BY <1>4, <3>1, <3>2 DEF PrSignalRecord
      <4> QED
        BY <4>1, <4>2
    <3> QED
      BY <1>2, <1>3, <1>4, <3>2, <3>3 DEF PrSignalInv
  <2> QED
    BY <2>1, <2>2, <2>3, <2>4 DEF PrSignalLists, PrSignalFails
<1> QED
  BY <1>1, <1>5, PrSignalStep

\* The signal reaches whoever has the pid.  If that is not the process that was named,
\* that one has ended, for no other pid has ever run it.
LEMMA PrSignalHitsKeeps ==
    ASSUME PrInv, NEW ends \in BOOLEAN, PrSignalHits(ends)
    PROVE  PrInv'
<1> DEFINE hit == prServer[prSignal.pid]
<1>1. /\ prSignal # None /\ prSignal.stage = "kill" /\ hit # None
      /\ prServer' = IF ends THEN [prServer EXCEPT ![prSignal.pid] = None] ELSE prServer
      /\ prHit' = [named |-> prSignal.named, found |-> prSignal.found, hit |-> hit]
      /\ prSignal' = IF prSignal.told THEN [prSignal EXCEPT !.stage = "reread"] ELSE None
  BY DEF PrSignalHits, At
<1>2. UNCHANGED <<prUp, prPast, prListed, prToMain, prReads, prDetails, prPanel>>
  BY DEF PrSignalHits, AfterSignalStep, prPollVars, prCountVars
<1>3. /\ prSignal \in PrSignalRecord /\ Known(prSignal.pid, prSignal.named)
      /\ prSignal.told => prPanel # None
      /\ prSignal.found # "sshd"
  BY <1>1 DEF PrInv, PrSignalInv
<1>4. /\ prServer \in [Pid -> Named \cup {None}] /\ prSignal.pid \in Pid
      /\ prServer' \in [Pid -> Named \cup {None}]
      /\ \A p \in Pid : prServer'[p] = prServer[p] \/ prServer'[p] = None
  BY <1>1, <1>3 DEF PrInv, PrServerInv, PrSignalRecord
<1>5. \A p, x : Known(p, x) => Known(p, x)'
  BY <1>2, <1>4, PrNoneAssumption DEF Known
<1>6. PrServerInv'
  BY <1>2, <1>4, <1>5 DEF PrInv, PrServerInv
<1>7. PrPanelInv' /\ PrDetailsInv'
  BY <1>2, <1>5 DEF PrInv, PrPanelInv, PrDetailsInv
<1>8. PrSignalInv'
  <2>1. CASE ~prSignal.told
    BY <1>1, <2>1 DEF PrSignalInv
  <2>2. CASE prSignal.told
    <3>1. prSignal' = [prSignal EXCEPT !.stage = "reread"]
      BY <1>1, <2>2
    <3>2. /\ prSignal' \in PrSignalRecord /\ prSignal'.pid = prSignal.pid
          /\ prSignal'.named = prSignal.named /\ prSignal'.told = prSignal.told
          /\ prSignal'.stage = "reread"
      <4>1. prSignal' \in PrSignalRecord
        BY <1>3, <3>1, SignalFields, Zenon
      <4>2. /\ prSignal'.pid = prSignal.pid /\ prSignal'.named = prSignal.named
            /\ prSignal'.told = prSignal.told /\ prSignal'.stage = "reread"
        BY <1>3, <3>1 DEF PrSignalRecord
      <4> QED
        BY <4>1, <4>2
    <3> QED
      BY <1>2, <1>3, <1>5, <2>2, <3>2 DEF PrSignalInv
  <2> QED
    BY <2>1, <2>2
<1>9. PrHitInv'
  <2>1. /\ prHit'.named = prSignal.named /\ prHit'.found = prSignal.found /\ prHit'.hit = hit
        /\ prSignal.named \in Named /\ prSignal.named \in prPast.started
    BY <1>1, <1>3 DEF Known
  <2>2. hit # prSignal.named => \A p \in Pid : prServer'[p] # prSignal.named
    <3>1. \A p \in Pid : prServer[p] = prSignal.named => p = prSignal.pid
      BY <1>3 DEF Known
    <3> HIDE DEF hit
    <3> QED
      BY <1>4, <2>1, <3>1, PrNoneAssumption DEF hit
  <2> HIDE DEF hit
  <2> QED
    BY <1>2, <1>3, <2>1, <2>2 DEF PrHitInv, PrSignalsAreMeant
<1>10. PrReadsInv' /\ PrListedInv' /\ \A s \in SubscriberId : PrServed(s)'
  BY <1>2, WantedQuiet, PrServedQuiet DEF PrInv, PrReadsInv
<1> QED
  BY <1>6, <1>7, <1>8, <1>9, <1>10 DEF PrInv

\* The list is shown; after a kill the detail is left, otherwise it is asked for anew.
LEMMA PrSignalEndsKeeps ==
    ASSUME PrInv, PrSignalEnds
    PROVE  PrInv'
<1> USE DEF PrSignalEnds
<1> DEFINE reread == IF prSignal.saw = <<>> THEN prPanel
                     ELSE [prPanel EXCEPT !.shown = prSignal.saw[1]]
           leaves == prSignal.signal = "kill" /\ prPanel.selected # None
<1>1. /\ prSignal # None /\ prSignal.stage = "reread" /\ prSignal.saw # None /\ prSignal' = None
      /\ prPanel' = IF leaves THEN Deselected(reread) ELSE reread
      /\ IF leaves /\ prUp
         THEN Calls(Effect(prPanel, prPanel')) /\ Refreshed(prReads)
         ELSE UNCHANGED <<prToMain, prReads>>
      /\ prDetails' = IF leaves THEN {}
                      ELSE IF prPanel.selected # None /\ prUp
                      THEN prDetails \cup {Asked(prPanel.selected)} ELSE prDetails
  BY DEF At
<1>2. UNCHANGED <<prUp, prServer, prHit, prPast, prListed>>
  BY DEF prServerVars, prCountVars
<1>3. /\ prSignal \in PrSignalRecord /\ prPanel # None /\ prPanel \in PrPanelRecord
  BY <1>1 DEF PrInv, PrSignalInv, PrPanelInv
<1>4. /\ reread \in PrPanelRecord /\ reread.id = prPanel.id
      /\ reread.interval = prPanel.interval /\ reread.selected = prPanel.selected
      /\ reread.detail = prPanel.detail /\ reread.dialog = prPanel.dialog
  <2>1. CASE prSignal.saw = <<>>
    BY <1>3, <2>1
  <2>2. CASE prSignal.saw # <<>>
    <3>1. prSignal.saw \in Seq(PrTable)
      BY <1>1, <1>3 DEF PrSignalRecord
    <3>2. prSignal.saw[1] \in PrTable
      BY <2>2, <3>1
    <3>3. reread \in PrPanelRecord
      BY <1>3, <2>2, <3>2, PanelFields
    <3>4. /\ reread.id = prPanel.id
          /\ reread.interval = prPanel.interval /\ reread.selected = prPanel.selected
          /\ reread.detail = prPanel.detail /\ reread.dialog = prPanel.dialog
      BY <1>3, <2>2 DEF PrPanelRecord
    <3> QED
      BY <3>3, <3>4
  <2> QED
    BY <2>1, <2>2
<1> HIDE DEF reread
<1>5. \A p, x : Known(p, x)' = Known(p, x)
  BY <1>2, KnownStays
<1>6. PrSignalInv'
  BY <1>1 DEF PrSignalInv
<1>7. CASE leaves
  <2>1. prPanel' = Deselected(reread) /\ prDetails' = {}
    BY <1>1, <1>7
  <2>2. /\ prPanel' \in PrPanelRecord /\ prPanel'.id = prPanel.id
        /\ prPanel'.detail = None /\ prPanel'.dialog = prPanel.dialog
    <3>1. prPanel' \in PrPanelRecord
      BY <1>4, <2>1, PanelFields
    <3>2. /\ prPanel'.id = prPanel.id /\ prPanel'.detail = None
          /\ prPanel'.dialog = prPanel.dialog
      BY <1>4, <2>1, Zenon DEF PrPanelRecord, Deselected
    <3> QED
      BY <3>1, <3>2
  <2>3. prPanel' # None
    BY <2>2, PrNoneAssumption
  <2>4. PrPanelInv' /\ PrDetailsInv'
    BY <1>3, <1>5, <2>1, <2>2 DEF PrInv, PrPanelInv, PrDetailsInv
  <2>5. CASE prUp
    <3>1. Calls(Effect(prPanel, prPanel')) /\ prReads' = (prReads \ {}) \cup {Refresh}
      BY <1>1, <1>7, <2>5 DEF Refreshed
    <3> QED
      BY <1>2, <1>6, <2>2, <2>3, <2>4, <3>1, PrRefreshReads, PrEffectStep, Zenon DEF PrInv,
           PrServerInv
  <2>6. CASE ~prUp
    <3>1. UNCHANGED <<prToMain, prReads>>
      BY <1>1, <2>6
    <3>2. \A s \in SubscriberId : Wanted(s) = None /\ Wanted(s)' = None
      BY <1>2, <2>6 DEF Wanted, Watches
    <3> QED
      BY <1>2, <1>6, <2>4, <3>1, <3>2, PrPanelStep
  <2> QED
    BY <2>5, <2>6
<1>8. CASE ~leaves
  <2>1. /\ prPanel' = reread /\ UNCHANGED <<prToMain, prReads>>
        /\ \/ prDetails' = prDetails
           \/ /\ prPanel.selected # None
              /\ prDetails' = prDetails \cup {Asked(prPanel.selected)}
    BY <1>1, <1>8
  <2>2. prPanel' # None
    BY <1>4, <2>1, PrNoneAssumption
  <2>3. PrPanelInv'
    BY <1>3, <1>4, <1>5, <2>1 DEF PrInv, PrPanelInv
  <2>4. PrDetailsInv'
    <3>1. prPanel.selected # None => prPanel.selected \in Pid
      BY <1>3 DEF PrPanelRecord
    <3> QED
      BY <1>4, <1>5, <2>1, <2>2, <3>1, AskedFacts DEF PrInv, PrDetailsInv
  <2>5. \A s \in SubscriberId : Wanted(s)' = Wanted(s)
    BY <1>2, <1>3, <1>4, <2>1, <2>2, WantedQuiet
  <2> QED
    BY <1>2, <1>6, <2>1, <2>3, <2>4, <2>5, PrPanelStep
<1> QED
  BY <1>7, <1>8

(***************************************************************************)
(* The server and the connection.                                          *)
(***************************************************************************)
\* No program starts twice: what a pid ran stays known when it goes to another one.
LEMMA PrServerRunsKeeps ==
    ASSUME PrInv, NEW pid \in Pid, NEW program \in Named \cup {None}, PrServerRuns(pid, program)
    PROVE  PrInv'
<1> USE DEF PrServerRuns
<1>1. /\ IF program = None THEN prServer[pid] # None
         ELSE prServer[pid] = None /\ program \notin prPast.started
      /\ prPast' = [prPast EXCEPT !.started = prPast.started \cup {program}]
      /\ prServer' = [prServer EXCEPT ![pid] = program]
      /\ UNCHANGED <<prUp, prListed, prToMain, prReads, prDetails, prPanel, prSignal, prHit>>
  BY DEF prPollVars, prSignalVars
<1>2. /\ prPast \in [last : SubscriberId, started : SUBSET (Named \cup {None})]
      /\ prServer \in [Pid -> Named \cup {None}]
  BY DEF PrInv, PrServerInv
<1>3. /\ prPast' \in [last : SubscriberId, started : SUBSET (Named \cup {None})]
      /\ prPast'.started = prPast.started \cup {program}
      /\ prServer' \in [Pid -> Named \cup {None}]
      /\ prServer'[pid] = program
      /\ \A p \in Pid : p # pid => prServer'[p] = prServer[p]
  BY <1>1, <1>2
<1>4. \A p, x : Known(p, x) => Known(p, x)'
  <2>1. ASSUME NEW p, NEW x, Known(p, x) PROVE Known(p, x)'
    <3>1. x # program
      BY <1>1, <2>1, PrNoneAssumption DEF Known
    <3> QED
      BY <1>3, <2>1, <3>1 DEF Known
  <2> QED
    BY <2>1
<1>5. PrServerInv'
  <2>1. ASSUME NEW p \in Pid, NEW x, prServer'[p] = x, x # None PROVE Known(p, x)'
    <3>1. CASE p # pid
      <4>1. prServer[p] = x
        BY <1>3, <2>1, <3>1
      <4>2. Known(p, x)
        BY <2>1, <4>1 DEF PrInv, PrServerInv
      <4> QED
        BY <1>4, <4>2
    <3>2. CASE p = pid
      <4>1. x = program /\ program \in Named /\ program \notin prPast.started
        BY <1>1, <1>3, <2>1, <3>2
      <4>2. \A q \in Pid : prServer[q] # program
        BY <1>2, <2>1, <4>1 DEF PrInv, PrServerInv, Known
      <4> QED
        BY <1>3, <3>2, <4>1, <4>2 DEF Known
    <3> QED
      BY <3>1, <3>2
  <2>2. \A p \in Pid : prServer'[p] # None =>
            /\ prServer'[p] \in Named /\ prServer'[p] \in prPast'.started
            /\ \A q \in Pid : prServer'[q] = prServer'[p] => q = p
    BY <2>1 DEF Known
  <2>3. prUp' \in BOOLEAN
    BY <1>1 DEF PrInv, PrServerInv
  <2> QED
    BY <1>3, <2>2, <2>3 DEF PrServerInv, Known
<1>6. PrPanelInv' /\ PrDetailsInv' /\ PrSignalInv'
  BY <1>1, <1>4, PrSignalQuiet DEF PrInv, PrPanelInv, PrDetailsInv
<1>7. PrHitInv'
  <2>1. CASE prHit = None
    BY <1>1, <2>1 DEF PrHitInv, PrSignalsAreMeant
  <2>2. CASE prHit # None
    <3>1. prHit.named \in Named /\ prHit.named \in prPast.started
      BY <2>2 DEF PrInv, PrHitInv
    <3>2. program # prHit.named
      BY <1>1, <3>1, PrNoneAssumption
    <3> QED
      BY <1>1, <1>3, <2>2, <3>1, <3>2 DEF PrInv, PrHitInv, PrSignalsAreMeant
  <2> QED
    BY <2>1, <2>2
<1>8. PrReadsInv' /\ PrListedInv' /\ \A s \in SubscriberId : PrServed(s)'
  BY <1>1, WantedQuiet, PrServedQuiet DEF PrInv, PrReadsInv
<1> QED
  BY <1>5, <1>6, <1>7, <1>8 DEF PrInv

\* The teardown clears the list; the panel, if any, unsubscribes.
LEMMA PrLostKeeps ==
    ASSUME PrInv, PrLost
    PROVE  PrInv'
<1> USE DEF PrLost
<1>1. /\ prUp' = FALSE /\ prListed' = None /\ prReads' = Abandoned(prReads) \ OfWindow
      /\ prDetails' = {}
      /\ prPanel' = IF prPanel = None THEN None ELSE [prPanel EXCEPT !.detail = None]
      /\ UNCHANGED <<prServer, prHit, prSignal, prPast>>
  BY DEF prSignalVars, prCountVars
<1>2. PrServerInv' /\ PrHitInv' /\ \A p, x : Known(p, x)' = Known(p, x)
  BY <1>1, PrServerQuiet, Zenon DEF PrInv, PrServerInv
<1>3. prPanel # None => /\ prPanel \in PrPanelRecord /\ prPanel' \in PrPanelRecord
                        /\ prPanel'.detail = None /\ prPanel'.dialog = prPanel.dialog
  <2>1. prPanel # None => prPanel \in PrPanelRecord
    BY DEF PrInv, PrPanelInv
  <2>2. prPanel # None => prPanel' \in PrPanelRecord
    BY <1>1, <2>1, PanelFields
  <2>3. prPanel # None => prPanel'.detail = None /\ prPanel'.dialog = prPanel.dialog
    BY <1>1, <2>1 DEF PrPanelRecord
  <2> QED
    BY <2>1, <2>2, <2>3
<1>4. prPanel # None => prPanel' # None
  BY <1>3, PrNoneAssumption
<1>5. PrPanelInv' /\ PrDetailsInv' /\ PrSignalInv'
  BY <1>1, <1>2, <1>3, <1>4, PrSignalQuiet DEF PrInv, PrPanelInv, PrDetailsInv
<1>6. PrReadsInv'
  BY <1>1, AbandonedKeeps
<1>7. \A s \in SubscriberId : Wanted(s)' = None /\ ListedFor(s)' = None
  BY <1>1 DEF Wanted, Watches, ListedFor
<1>8. PrListedInv' /\ \A s \in SubscriberId : PrServed(s)'
  <2>1. CASE prPanel = None
    <3>1. UNCHANGED prToMain /\ \A s \in SubscriberId : Wanted(s) = None
      BY <2>1 DEF Wanted, Watches
    <3>2. PrListedInv'
      BY <1>1, <3>1 DEF PrInv, PrListedInv
    <3>3. ASSUME NEW s \in SubscriberId PROVE PrServed(s)'
      BY <1>7, <3>1 DEF PrInv, PrServed
    <3> QED
      BY <3>2, <3>3
  <2>2. CASE prPanel # None
    <3> DEFINE first == IF prPanel.selected = None THEN Unsubscribe(prPanel) ELSE <<>>
               messages == first \o Unsubscribe(prPanel)
    <3>1. PICK asker \in SubscriberId : asker = prPanel.id
      BY <1>3, <2>2, CallFacts
    <3>2. CallsOf(asker, first) /\ CallsOf(asker, Unsubscribe(prPanel))
      <4>1. CallsOf(asker, Unsubscribe(prPanel)) /\ CallsOf(asker, <<>>)
        BY <1>3, <2>2, <3>1, CallFacts DEF CallsOf
      <4> QED
        BY <4>1
    <3>3. /\ Unsubscribe(prPanel) # <<>>
          /\ Unsubscribe(prPanel)[Len(Unsubscribe(prPanel))].interval = None
      BY <1>3, <2>2, CallFacts
    <3>4. Calls(messages)
      BY <2>2
    <3> HIDE DEF first
    <3>5. /\ CallsOf(asker, messages) /\ messages # <<>>
          /\ messages[Len(messages)] = Unsubscribe(prPanel)[Len(Unsubscribe(prPanel))]
      BY <3>2, <3>3, JoinedCalls
    <3> HIDE DEF messages
    <3>6. /\ messages \in Seq(PrCallRecord)
          /\ \A k \in DOMAIN messages : messages[k].id = asker
          /\ \A k \in DOMAIN messages : messages[k].op = "subscribe" <=> messages[k].interval # None
      BY <3>5 DEF CallsOf
    <3>7. \A s \in SubscriberId : s # asker => Wanted(s) = None
      BY <3>1 DEF Wanted
    <3>8. PrListedInv /\ \A s \in SubscriberId : PrServed(s)
      BY DEF PrInv
    <3> QED
      BY <1>1, <1>7, <3>1, <3>3, <3>4, <3>5, <3>6, <3>7, <3>8, CallsServe
  <2> QED
    BY <2>1, <2>2
<1> QED
  BY <1>2, <1>5, <1>6, <1>8 DEF PrInv

\* The panel subscribes again, or asks for the detail it still has selected.
LEMMA PrConnectsKeeps ==
    ASSUME PrInv, PrConnects
    PROVE  PrInv'
<1> USE DEF PrConnects
<1>1. /\ ~prUp /\ prUp' = TRUE
      /\ UNCHANGED <<prServer, prHit, prSignal, prPast, prListed, prPanel>>
  BY DEF prSignalVars
<1>2. PrServerInv' /\ PrHitInv' /\ \A p, x : Known(p, x)' = Known(p, x)
  BY <1>1, PrServerQuiet DEF PrInv, PrServerInv
<1>3. PrPanelInv' /\ PrSignalInv'
  BY <1>1, <1>2, PrSignalQuiet DEF PrInv, PrPanelInv
<1>4. PrDetailsInv'
  <2>1. CASE prPanel = None
    BY <1>1, <1>2, <2>1 DEF PrInv, PrDetailsInv
  <2>2. CASE prPanel # None
    <3>1. prPanel.selected # None => prPanel.selected \in Pid
      BY <2>2 DEF PrInv, PrPanelInv, PrPanelRecord
    <3> QED
      BY <1>1, <2>2, <3>1, AskedFacts DEF PrDetailsInv
  <2> QED
    BY <2>1, <2>2
<1>5. PrReadsInv'
  <2>1. prReads' = prReads \/ prReads' = (prReads \ {}) \cup {Refresh}
    BY DEF Refreshed
  <2> QED
    BY <2>1, PrRefreshReads, Zenon DEF PrInv, PrReadsInv
<1>6. PrListedInv' /\ \A s \in SubscriberId : PrServed(s)'
  <2>1. CASE prPanel = None
    <3>1. UNCHANGED prToMain /\ \A s \in SubscriberId : Wanted(s)' = Wanted(s)
      BY <1>1, <2>1 DEF Wanted, Watches
    <3> QED
      BY <1>1, <3>1, PrServedQuiet
  <2>2. CASE prPanel # None
    <3> DEFINE messages == IF prPanel.selected = None THEN Subscribe(prPanel)
                           ELSE Unsubscribe(prPanel)
    <3>1. prPanel \in PrPanelRecord
      BY <2>2 DEF PrInv, PrPanelInv
    <3>2. PICK asker \in SubscriberId : asker = prPanel.id
      BY <3>1, CallFacts
    <3>3. Wanted(asker)' = IF prPanel.selected = None THEN prPanel.interval ELSE None
      BY <1>1, <2>2, <3>2 DEF Wanted, Watches
    <3>4. \A s \in SubscriberId : s # asker => Wanted(s)' = Wanted(s)
      BY <1>1, <3>2 DEF Wanted, Watches
    <3>5. /\ messages \in Seq(PrCallRecord) /\ messages # <<>>
          /\ \A k \in DOMAIN messages : messages[k].op = "subscribe" <=> messages[k].interval # None
          /\ \A k \in DOMAIN messages : messages[k].id = asker
          /\ messages[Len(messages)].interval = Wanted(asker)'
      BY <3>1, <3>2, <3>3, CallFacts
    <3>6. Calls(messages)
      BY <2>2
    <3> HIDE DEF messages
    <3>7. PrListedInv /\ \A s \in SubscriberId : PrServed(s)
      BY DEF PrInv
    <3>8. \A s \in SubscriberId : ListedFor(s)' = ListedFor(s)
      BY <1>1 DEF ListedFor
    <3> QED
      BY <1>1, <3>4, <3>5, <3>6, <3>7, <3>8, CallsServe
  <2> QED
    BY <2>1, <2>2
<1> QED
  BY <1>2, <1>3, <1>4, <1>5, <1>6 DEF PrInv

(***************************************************************************)
LEMMA PrInitInv == PrInit => PrInv
<1> HAVE PrInit
<1>1. PICK first \in Pid, other \in Pid, second \in {None, "sshd"} :
          /\ first # other
          /\ prServer = [p \in Pid |-> CASE p = first -> "web" [] p = other -> second
                                        [] OTHER -> None]
          /\ prPast = [last |-> 2, started |-> {"web", second}]
  BY Zenon DEF PrInit
<1>2. /\ prUp = TRUE /\ prListed = None /\ prToMain = <<>> /\ prReads = {}
      /\ prPanel = None /\ prDetails = {} /\ prSignal = None /\ prHit = None
  BY DEF PrInit
<1>3. "web" \in Named /\ "sshd" \in Named
  BY DEF Named, Traits
<1>4. /\ prServer \in [Pid -> Named \cup {None}]
      /\ prPast \in [last : SubscriberId, started : SUBSET (Named \cup {None})]
  BY <1>1, <1>3 DEF SubscriberId
<1>5. \A p \in Pid : /\ prServer[p] = "web" <=> p = first
                     /\ prServer[p] = "sshd" => p = other /\ second = "sshd"
                     /\ prServer[p] \in {"web", "sshd", None}
  BY <1>1, <1>3, PrNoneAssumption
<1>6. \A p \in Pid : prServer[p] # None => Known(p, prServer[p])
  <2> SUFFICES ASSUME NEW p \in Pid, prServer[p] # None PROVE Known(p, prServer[p])
    OBVIOUS
  <2>1. prServer[p] \in prPast.started /\ prServer[p] \in Named
    BY <1>1, <1>3, <1>5
  <2> QED
    BY <1>5, <2>1 DEF Known
<1>7. PrServerInv
  BY <1>2, <1>4, <1>6 DEF PrServerInv
<1>8. PrListedInv
  BY <1>2 DEF PrListedInv
<1>9. \A s \in SubscriberId : PrServed(s)
  BY <1>2 DEF PrServed, ListedFor, Wanted, Watches
<1> QED
  BY <1>2, <1>7, <1>8, <1>9
     DEF PrInv, PrPanelInv, PrDetailsInv, PrSignalInv, PrHitInv, PrSignalsAreMeant, PrReadsInv

LEMMA PrStepInv == PrInv /\ [PrNext]_prVars => PrInv'
<1> SUFFICES ASSUME PrInv, [PrNext]_prVars PROVE PrInv'
  OBVIOUS
<1>1. CASE UNCHANGED prVars
  <2>1. /\ UNCHANGED <<prServer, prHit, prSignal, prPast, prListed, prToMain, prReads, prPanel,
                       prDetails, prUp>>
    BY <1>1 DEF prVars
  <2>2. \A p, x : Known(p, x)' = Known(p, x)
    BY <2>1, KnownStays
  <2>3. PrPanelInv' /\ PrDetailsInv' /\ PrSignalInv'
    BY <2>1, <2>2, PrSignalQuiet DEF PrInv, PrPanelInv, PrDetailsInv
  <2> QED
    BY <2>1, <2>3, WantedQuiet, PrPanelStep
<1>2. CASE \/ \E selected \in Pid \cup {None} : PrOpens(selected)
           \/ PrLeaves \/ PrGoesBack
           \/ \E interval \in PROCESS_INTERVAL_OPTIONS : PrChoosesInterval(interval)
           \/ \E filter \in Filter : PrFilters(filter)
           \/ \E pid \in Pid : PrSelects(pid)
  BY <1>2, PrOpensKeeps, PrLeavesKeeps, PrGoesBackKeeps, PrChoosesIntervalKeeps, PrFiltersKeeps,
     PrSelectsKeeps
<1>3. CASE PrSubscribed \/ PrUnsubscribed
  BY <1>3, PrSubscribedKeeps, PrUnsubscribedKeeps
<1>4. CASE PrRefreshes \/ PrTicks \/ \E r \in prReads : PrReads(r) \/ PrReadFails(r)
  BY <1>4, PrListStepsKeep
<1>5. CASE \E r \in prReads : PrAnswers(r)
  BY <1>5, PrAnswersKeeps
<1>6. CASE PrRereads \/ \E d \in prDetails : PrDetailLists(d) \/ PrDetailFails(d)
  BY <1>6, PrDetailStepsKeep
<1>7. CASE \E d \in prDetails : PrDetailAnswers(d)
  BY <1>7, PrDetailAnswersKeeps
<1>8. CASE (\E signal \in Signal : PrRequests(signal)) \/ PrCancels \/ PrConfirms
  BY <1>8, PrDialogKeeps
<1>9. CASE \/ PrSignalLists \/ (\E cut \in BOOLEAN : PrSignalChecks(cut)) \/ PrSignalFails
           \/ PrSignalRereads
  BY <1>9, PrSignalStepsKeep
<1>10. CASE PrSignalEnds \/ \E ends \in BOOLEAN : PrSignalHits(ends)
  BY <1>10, PrSignalEndsKeeps, PrSignalHitsKeeps
<1>11. CASE \E pid \in Pid, program \in Named \cup {None} : PrServerRuns(pid, program)
  BY <1>11, PrServerRunsKeeps
<1>12. CASE PrLost \/ PrConnects
  BY <1>12, PrLostKeeps, PrConnectsKeeps
<1> QED
  BY <1>1, <1>2, <1>3, <1>4, <1>5, <1>6, <1>7, <1>8, <1>9, <1>10, <1>11, <1>12 DEF PrNext

LEMMA PrInvTyped == PrInv => PrTypeOK
<1> HAVE PrInv
<1>1. \A p, q \in Pid : (p # q /\ prServer[p] # None) => prServer[p] # prServer[q]
  BY DEF PrInv, PrServerInv, Known
<1>2. prPanel # None => /\ prPanel.selected \in Pid \cup {None}
                        /\ prPanel.detail # None => prPanel.selected # None
  BY DEF PrInv, PrPanelInv, PrPanelRecord
<1>3. prListed # None => prListed.timer \in {1, 2}
  BY DEF PrInv, PrListedInv, PrListedRecord
<1> QED
  BY <1>1, <1>2, <1>3 DEF PrInv, PrServerInv, PrTypeOK

LEMMA PrInvLive == PrInv => PrTableIsLive
<1> HAVE PrInv
<1>1. Cardinality(Polls) <= 1
  <2>1. CASE Polls = {}
    BY <2>1, FS_EmptySet
  <2>2. CASE Polls # {}
    <3>1. PICK r : r \in Polls
      BY <2>2
    <3>2. Polls = {r}
      BY <3>1 DEF Polls, PrInv, PrReadsInv
    <3> QED
      BY <3>2, FS_Singleton
  <2> QED
    BY <2>1, <2>2
<1>2. prListed # None => prListed.subscribers # NoSubscription
  BY DEF PrInv, PrListedInv
<1>3. ASSUME prToMain = <<>>
      PROVE  IF Watches(prPanel)
             THEN /\ prListed # None
                  /\ \A s \in SubscriberId : prListed.subscribers[s] =
                         IF s = prPanel.id THEN prPanel.interval ELSE None
                  /\ prListed.timer <= prPanel.interval
             ELSE prListed = None
  <2>1. \A s \in SubscriberId : ListedFor(s) = Wanted(s)
    BY <1>3 DEF PrInv, PrServed
  <2>2. CASE Watches(prPanel)
    <3>1. /\ prPanel.id \in SubscriberId /\ prPanel.interval \in PROCESS_INTERVAL_OPTIONS
      BY <2>2 DEF Watches, PrInv, PrPanelInv, PrPanelRecord
    <3>2. prListed # None
      BY <2>1, <2>2, <3>1, PrNoneAssumption DEF ListedFor, Wanted
    <3>3. \A s \in SubscriberId : prListed.subscribers[s] =
              IF s = prPanel.id THEN prPanel.interval ELSE None
      BY <2>1, <2>2, <3>2 DEF ListedFor, Wanted
    <3>4. /\ prListed.subscribers \in [SubscriberId -> PROCESS_INTERVAL_OPTIONS \cup {None}]
          /\ prListed.timer = DesiredInterval(prListed.subscribers)
      BY <3>2 DEF PrInv, PrListedInv, PrListedRecord
    <3>5. prListed.subscribers[prPanel.id] = prPanel.interval /\ prPanel.interval # None
      BY <3>1, <3>3, PrNoneAssumption
    <3>6. prListed.timer <= prPanel.interval
      BY <3>1, <3>4, <3>5, DesiredIntervalFacts
    <3> QED
      BY <2>2, <3>2, <3>3, <3>6
  <2>3. CASE ~Watches(prPanel)
    <3>1. ASSUME prListed # None PROVE FALSE
      <4>1. /\ prListed.subscribers \in [SubscriberId -> PROCESS_INTERVAL_OPTIONS \cup {None}]
            /\ \A s \in SubscriberId : prListed.subscribers[s] = None
        BY <2>1, <2>3, <3>1 DEF ListedFor, Wanted, PrInv, PrListedInv, PrListedRecord
      <4> QED
        BY <1>2, <3>1, <4>1 DEF NoSubscription
    <3> QED
      BY <2>3, <3>1
  <2> QED
    BY <2>2, <2>3
<1> QED
  BY <1>1, <1>2, <1>3 DEF PrTableIsLive

LEMMA PrInvMeant == PrInv => PrSignalsAreMeant
BY DEF PrInv, PrHitInv

(***************************************************************************)
(* Docker.                                                                 *)
(***************************************************************************)
\* What a list shows, and what the dialog and the lists under way have, is of the tab.
CtPageInv ==
    /\ ctServer \in CtServerRecord /\ ctCache \in BOOLEAN \cup {None}
    /\ ctPanel \in CtPanelRecord
    /\ ctPanel.page # None =>
           /\ ctPanel.available = TRUE
           /\ ctPanel.page.rows \subseteq CtRow(ctPanel.page.tab)
           /\ ctPanel.page.dialog # None => ctPanel.page.dialog \in CtRow(ctPanel.page.tab)
           /\ ctPanel.page.view = "detail" => ctPanel.page.selected \in Box
    /\ \A load \in ctLoads :
           /\ ctPanel.page # None /\ load \in CtLoadRecord
           /\ load.saw \subseteq CtRow(ctPanel.page.tab)

\* A removal was confirmed; who is told is on the page.
CtActionInv ==
    ctAction # None =>
        /\ ctAction \in CtActionRecord /\ ctAction.row \in CtRow(ctAction.tab)
        /\ IF ctAction.op = "remove" THEN ctAction.row \in ctConfirmed
           ELSE ctAction.tab = "containers"
        /\ ctAction.stage \in {"told", "reload"} => ctAction.told
        /\ ctAction.told => ctPanel.page # None

\* What was removed is not on the server.
CtGone ==
    /\ ctRemoved \subseteq CtAnyRow
    /\ \A x \in GoneThings :
           /\ x \in Box => ctServer.boxes[x] = "absent"
           /\ x \in Tag => ctServer.tags[x] = None
           /\ x \in Volume => x \notin ctServer.volumes

\* Rows that show nothing of what was removed.
Clean(rows) == \A row \in rows : row.thing \notin GoneThings

\* A list may show what was removed only between the end of the removal and the list
\* that follows it.
CtStage == IF ctAction = None THEN "check" ELSE ctAction.stage
CtCleared ==
    ctUnlisted \/ CtStage = "told"
        \/ /\ \A load \in ctLoads : Clean(load.saw)
           /\ CtStage # "reload" /\ ctPanel.page # None => Clean(ctPanel.page.rows)

\* The list after an action is read once, while the action waits for it.
CtReloads ==
    /\ \A load \in ctLoads : load.by = "action" => CtStage = "reload"
    /\ \A load, other \in ctLoads : load.by = "action" /\ other.by = "action" => load = other

CtInv ==
    /\ CtPageInv /\ CtActionInv /\ CtOnlyNamedGo /\ CtGone /\ CtCleared /\ CtReloads
    /\ ctUnlisted \in BOOLEAN

(***************************************************************************)
(* The records.                                                            *)
(***************************************************************************)
LEMMA CtRowFacts ==
    ASSUME NEW tab \in Tab, NEW row \in CtRow(tab)
    PROVE  /\ row \in CtAnyRow
           /\ tab = "containers" => row.thing \in Box /\ row.is \in {"running", "exited"}
           /\ tab = "images" => row.thing \in Tag /\ row.is \in Image
           /\ tab = "volumes" => row.thing \in Volume
           /\ tab # "networks"
           /\ row.thing \in Box \cup Tag \cup Volume
BY DEF CtRow, CtAnyRow, Tab

\* A list names only what is on the server.
LEMMA ListingFacts ==
    ASSUME ctServer \in CtServerRecord, NEW tab \in Tab, NEW all \in BOOLEAN
    PROVE  /\ Listing(tab, all) \subseteq CtRow(tab)
           /\ CtGone => Clean(Listing(tab, all))
<1>1. CASE tab = "containers"
  <2>1. ASSUME NEW row \in Listing(tab, all)
        PROVE  row \in [thing : Box, is : {"running", "exited"}]
               /\ ctServer.boxes[row.thing] # "absent"
    BY <1>1, <2>1 DEF Listing
  <2>2. ASSUME NEW row \in [thing : Box, is : {"running", "exited"}] PROVE row.thing \in Box
    OBVIOUS
  <2> QED
    BY <1>1, <2>1, <2>2 DEF CtRow, CtGone, Clean
<1>2. CASE tab = "images"
  <2>1. ASSUME NEW row \in Listing(tab, all)
        PROVE  row \in [thing : Tag, is : Image] /\ ctServer.tags[row.thing] # None
    BY <1>2, <2>1 DEF Listing, CtServerRecord
  <2>2. ASSUME NEW row \in [thing : Tag, is : Image] PROVE row.thing \in Tag
    OBVIOUS
  <2> QED
    BY <1>2, <2>1, <2>2 DEF CtRow, CtGone, Clean
<1>3. CASE tab = "volumes"
  <2>1. ASSUME NEW row \in Listing(tab, all)
        PROVE  row \in [thing : Volume, is : {None}] /\ row.thing \in ctServer.volumes
    BY <1>3, <2>1 DEF Listing, CtServerRecord
  <2>2. ASSUME NEW row \in [thing : Volume, is : {None}] PROVE row.thing \in Volume
    OBVIOUS
  <2> QED
    BY <1>3, <2>1, <2>2 DEF CtRow, CtGone, Clean
<1>4. CASE tab = "networks"
  BY <1>4 DEF Listing, Clean
<1> QED
  BY <1>1, <1>2, <1>3, <1>4 DEF Tab

LEMMA PageFacts ==
    ASSUME NEW tab \in Tab
    PROVE  /\ Page(tab) \in CtPageRecord /\ Page(tab).tab = tab /\ Page(tab).rows = {}
           /\ Page(tab).dialog = None /\ Page(tab).view = "list" /\ Page(tab).all = TRUE
BY DEF Page, CtPageRecord

\* The page with another list, view, dialog or filter.
LEMMA PageLoading ==
    ASSUME NEW page \in CtPageRecord, NEW l \in BOOLEAN
    PROVE  LET now == [page EXCEPT !.loading = l]
           IN  /\ now \in CtPageRecord
               /\ now.tab = page.tab /\ now.rows = page.rows /\ now.view = page.view
               /\ now.selected = page.selected /\ now.dialog = page.dialog
BY DEF CtPageRecord

LEMMA PageAll ==
    ASSUME NEW page \in CtPageRecord, NEW a \in BOOLEAN
    PROVE  LET now == [page EXCEPT !.all = a]
           IN  /\ now \in CtPageRecord
               /\ now.tab = page.tab /\ now.rows = page.rows /\ now.view = page.view
               /\ now.selected = page.selected /\ now.dialog = page.dialog
BY DEF CtPageRecord

LEMMA PageIntent ==
    ASSUME NEW page \in CtPageRecord, NEW b \in Box \cup {None}
    PROVE  LET now == [page EXCEPT !.intent = b]
           IN  /\ now \in CtPageRecord
               /\ now.tab = page.tab /\ now.rows = page.rows /\ now.view = page.view
               /\ now.selected = page.selected /\ now.dialog = page.dialog
BY DEF CtPageRecord

LEMMA PageView ==
    ASSUME NEW page \in CtPageRecord, NEW v \in {"list", "detail"}
    PROVE  LET now == [page EXCEPT !.view = v]
           IN  /\ now \in CtPageRecord
               /\ now.tab = page.tab /\ now.rows = page.rows /\ now.view = v
               /\ now.selected = page.selected /\ now.dialog = page.dialog
BY DEF CtPageRecord

LEMMA PageOpened ==
    ASSUME NEW page \in CtPageRecord, NEW b \in Box \cup {None}
    PROVE  LET now == [page EXCEPT !.view = "detail", !.selected = b]
           IN  /\ now \in CtPageRecord
               /\ now.tab = page.tab /\ now.rows = page.rows /\ now.view = "detail"
               /\ now.selected = b /\ now.dialog = page.dialog
BY Zenon DEF CtPageRecord

LEMMA PageDialog ==
    ASSUME NEW page \in CtPageRecord, NEW d \in CtAnyRow \cup {None}
    PROVE  LET now == [page EXCEPT !.dialog = d]
           IN  /\ now \in CtPageRecord
               /\ now.tab = page.tab /\ now.rows = page.rows /\ now.view = page.view
               /\ now.selected = page.selected /\ now.dialog = d
BY DEF CtPageRecord

LEMMA PageRows ==
    ASSUME NEW page \in CtPageRecord, NEW rows \in SUBSET CtAnyRow
    PROVE  LET now == [page EXCEPT !.rows = rows]
           IN  /\ now \in CtPageRecord
               /\ now.tab = page.tab /\ now.rows = rows /\ now.view = page.view
               /\ now.selected = page.selected /\ now.dialog = page.dialog
BY DEF CtPageRecord

\* The panel with another page.
LEMMA ShowsFacts ==
    ASSUME CtPageInv, ctPanel.page # None, NEW page \in CtPageRecord, Shows(page)
    PROVE  /\ ctPanel' \in CtPanelRecord /\ ctPanel'.page = page /\ ctPanel'.page # None
           /\ ctPanel'.available = TRUE /\ ctPanel.page \in CtPageRecord
<1>1. ctPanel \in CtPanelRecord /\ ctPanel' = [ctPanel EXCEPT !.page = page]
  BY DEF CtPageInv, Shows
<1>2. /\ ctPanel' \in CtPanelRecord /\ ctPanel'.page = page
      /\ ctPanel'.available = ctPanel.available
  BY <1>1 DEF CtPanelRecord
<1> QED
  BY <1>1, <1>2, CtNoneAssumption DEF CtPageInv, CtPanelRecord

(***************************************************************************)
(* Steps of the panel: nothing is removed.                                 *)
(***************************************************************************)
\* A step that neither removes nor confirms.
LEMMA CtQuiet ==
    ASSUME CtInv, UNCHANGED <<ctServer, ctRemoved, ctConfirmed>>
    PROVE  /\ CtOnlyNamedGo' /\ CtGone' /\ ctServer' \in CtServerRecord
           /\ \A rows : Clean(rows)' = Clean(rows)
<1>1. GoneThings' = GoneThings
  BY DEF GoneThings
<1>2. \A rows : Clean(rows)' = Clean(rows)
  BY <1>1 DEF Clean
<1> QED
  BY <1>1, <1>2 DEF CtInv, CtOnlyNamedGo, CtGone, CtPageInv

\* The page changes without its list, what it has under way only by new lists.
LEMMA CtPageStep ==
    ASSUME CtInv, UNCHANGED <<ctServer, ctCache, ctAction, ctHistory>>,
           ctPanel.page # None, NEW page \in CtPageRecord, Shows(page),
           page.tab = ctPanel.page.tab, page.rows = ctPanel.page.rows,
           page.dialog # None => page.dialog \in CtRow(page.tab),
           page.view = "detail" => page.selected \in Box,
           \A load \in ctLoads' :
               \/ load \in ctLoads
               \/ load \in CtLoadRecord /\ load.saw = {} /\ load.by = "page"
    PROVE  CtInv'
<1>1. /\ ctPanel' \in CtPanelRecord /\ ctPanel'.page = page /\ ctPanel'.page # None
      /\ ctPanel'.available = TRUE /\ ctPanel.page \in CtPageRecord
  BY ShowsFacts, Zenon DEF CtInv
<1>2. UNCHANGED <<ctRemoved, ctConfirmed, ctUnlisted>>
  BY DEF ctHistory
<1>3. /\ CtOnlyNamedGo' /\ CtGone' /\ ctServer' \in CtServerRecord
      /\ \A rows : Clean(rows)' = Clean(rows)
  BY <1>2, CtQuiet
<1>4. CtPageInv'
  BY <1>1, <1>3 DEF CtInv, CtPageInv
<1>5. CtActionInv'
  BY <1>1, <1>2 DEF CtInv, CtActionInv
<1>6. CtCleared'
  <2>1. CtStage' = CtStage
    BY DEF CtStage
  <2>2. \A load \in ctLoads' : load.saw = {} \/ load \in ctLoads
    OBVIOUS
  <2>3. Clean({})
    BY DEF Clean
  <2>4. (\A load \in ctLoads : Clean(load.saw)) => \A load \in ctLoads' : Clean(load.saw)'
    BY <1>3, <2>2, <2>3, Zenon
  <2>5. Clean(ctPanel.page.rows) => Clean(page.rows)'
    BY <1>3
  <2> QED
    BY <1>1, <1>2, <2>1, <2>4, <2>5 DEF CtInv, CtCleared
<1>7. CtReloads'
  BY DEF CtInv, CtReloads, CtStage
<1> QED
  BY <1>2, <1>3, <1>4, <1>5, <1>6, <1>7 DEF CtInv

LEMMA CtListStepsKeep ==
    ASSUME CtInv, CtTicks \/ CtRefreshes \/ CtShowsAll \/ CtBack \/ CtCancels
    PROVE  CtInv'
<1>1. /\ UNCHANGED <<ctServer, ctCache, ctAction, ctHistory>> /\ ctPanel.page # None
  BY DEF CtTicks, CtRefreshes, CtShowsAll, CtBack, CtCancels, OnPage, OnList
<1>2. /\ ctPanel.page \in CtPageRecord
      /\ ctPanel.page.dialog # None => ctPanel.page.dialog \in CtRow(ctPanel.page.tab)
      /\ ctPanel.page.view = "detail" => ctPanel.page.selected \in Box
  BY <1>1 DEF CtInv, CtPageInv, CtPanelRecord
<1>3. PICK page \in CtPageRecord : page = ctPanel.page
  BY <1>2
<1>4. ASSUME NEW p \in CtPageRecord
      PROVE  /\ Load(p) \in CtLoadRecord /\ Load(p).saw = {} /\ Load(p).by = "page"
             /\ Loading(p) \in CtPageRecord /\ Loading(p).tab = p.tab /\ Loading(p).rows = p.rows
             /\ Loading(p).dialog = p.dialog /\ Loading(p).view = p.view
             /\ Loading(p).selected = p.selected
  <2>1. Load(p) \in CtLoadRecord /\ Load(p).saw = {} /\ Load(p).by = "page"
    BY DEF Load, CtLoadRecord, CtPageRecord
  <2> QED
    BY <2>1, PageLoading, Zenon DEF Loading
<1>5. CASE CtTicks \/ CtRefreshes
  <2>1. Shows(Loading(page)) /\ ctLoads' = ctLoads \cup {Load(page)}
    BY <1>3, <1>5 DEF CtTicks, CtRefreshes, Begins
  <2>2. PICK shown \in CtPageRecord : shown = Loading(page)
    BY <1>4
  <2>3. Shows(shown)
    BY <2>1, <2>2
  <2>4. /\ shown.tab = page.tab /\ shown.rows = page.rows /\ shown.dialog = page.dialog
        /\ shown.view = page.view /\ shown.selected = page.selected
    BY <1>4, <2>2
  <2>5. \A load \in ctLoads' :
            \/ load \in ctLoads
            \/ load \in CtLoadRecord /\ load.saw = {} /\ load.by = "page"
    BY <1>4, <2>1
  <2> QED
    BY <1>1, <1>2, <1>3, <2>3, <2>4, <2>5, CtPageStep
<1>6. CASE CtShowsAll
  <2> DEFINE all == [page EXCEPT !.all = ~page.all]
  <2>1. (~page.all) \in BOOLEAN
    OBVIOUS
  <2>2. /\ all \in CtPageRecord /\ all.tab = page.tab /\ all.rows = page.rows
        /\ all.dialog = page.dialog /\ all.view = page.view /\ all.selected = page.selected
    BY <2>1, PageAll, Zenon
  <2>3. Shows(Loading(all)) /\ ctLoads' = ctLoads \cup {Load(Loading(all))}
    BY <1>3, <1>6 DEF CtShowsAll, Begins
  <2> HIDE DEF all
  <2>4. PICK shown \in CtPageRecord : shown = Loading(all)
    BY <1>4, <2>2
  <2>5. Load(shown) \in CtLoadRecord /\ Load(shown).saw = {} /\ Load(shown).by = "page"
    BY <1>4
  <2>6. Shows(shown)
    BY <2>3, <2>4
  <2>7. /\ shown.tab = page.tab /\ shown.rows = page.rows /\ shown.dialog = page.dialog
        /\ shown.view = page.view /\ shown.selected = page.selected
    BY <1>4, <2>2, <2>4
  <2>8. \A load \in ctLoads' :
            \/ load \in ctLoads
            \/ load \in CtLoadRecord /\ load.saw = {} /\ load.by = "page"
    BY <2>3, <2>4, <2>5
  <2> QED
    BY <1>1, <1>2, <1>3, <2>6, <2>7, <2>8, CtPageStep
<1>7. CASE CtBack \/ CtCancels
  <2> DEFINE listed == [page EXCEPT !.view = "list"]
             closed == [page EXCEPT !.dialog = None]
  <2>1. /\ listed \in CtPageRecord /\ listed.tab = page.tab /\ listed.rows = page.rows
        /\ listed.dialog = page.dialog /\ listed.view = "list"
    BY PageView, Zenon
  <2>2. /\ closed \in CtPageRecord /\ closed.tab = page.tab /\ closed.rows = page.rows
        /\ closed.dialog = None /\ closed.view = page.view /\ closed.selected = page.selected
    BY PageDialog
  <2>3. ctLoads' = ctLoads /\ (Shows(listed) \/ Shows(closed))
    BY <1>3, <1>7 DEF CtBack, CtCancels
  <2> HIDE DEF listed, closed
  <2>4. \A load \in ctLoads' : load \in ctLoads
    BY <2>3
  <2>5. PICK shown \in CtPageRecord :
            /\ Shows(shown) /\ shown.tab = page.tab /\ shown.rows = page.rows
            /\ shown.dialog # None => shown.dialog \in CtRow(page.tab)
            /\ shown.view = "detail" => shown.selected \in Box
    BY <1>2, <1>3, <2>1, <2>2, <2>3
  <2> QED
    BY <1>1, <1>3, <2>4, <2>5, CtPageStep
<1> QED
  BY <1>5, <1>6, <1>7

\* A row of the list is looked at, or asked about.
LEMMA CtRowStepsKeep ==
    ASSUME CtInv, NEW row \in ctPanel.page.rows, CtOpens(row) \/ CtAsks(row)
    PROVE  CtInv'
<1>1. /\ UNCHANGED <<ctServer, ctCache, ctAction, ctHistory, ctLoads>> /\ ctPanel.page # None
  BY DEF CtOpens, CtAsks, OnPage, OnList
<1>2. /\ ctPanel.page \in CtPageRecord /\ ctPanel.page.rows \subseteq CtRow(ctPanel.page.tab)
      /\ ctPanel.page.dialog # None => ctPanel.page.dialog \in CtRow(ctPanel.page.tab)
      /\ ctPanel.page.view = "detail" => ctPanel.page.selected \in Box
  BY <1>1 DEF CtInv, CtPageInv, CtPanelRecord
<1>3. PICK page \in CtPageRecord : page = ctPanel.page
  BY <1>2
<1>4. page.tab \in Tab /\ row \in CtRow(page.tab)
  BY <1>2, <1>3 DEF CtPageRecord
<1>5. CASE CtOpens(row)
  <2> DEFINE opened == [page EXCEPT !.view = "detail", !.selected = row.thing]
  <2>1. row.thing \in Box
    BY <1>3, <1>4, <1>5, CtRowFacts DEF CtOpens, OnTab
  <2>2. /\ opened \in CtPageRecord /\ opened.tab = page.tab /\ opened.rows = page.rows
        /\ opened.dialog = page.dialog /\ opened.selected = row.thing
    BY <2>1, PageOpened, Zenon
  <2>3. Shows(opened)
    BY <1>3, <1>5 DEF CtOpens
  <2> HIDE DEF opened
  <2>4. \A load \in ctLoads' : load \in ctLoads
    BY <1>1
  <2>5. PICK shown \in CtPageRecord :
            /\ Shows(shown) /\ shown.tab = page.tab /\ shown.rows = page.rows
            /\ shown.dialog # None => shown.dialog \in CtRow(page.tab)
            /\ shown.view = "detail" => shown.selected \in Box
    BY <1>2, <1>3, <2>1, <2>2, <2>3
  <2> QED
    BY <1>1, <1>3, <2>4, <2>5, CtPageStep
<1>6. CASE CtAsks(row)
  <2> DEFINE asked == [page EXCEPT !.dialog = row]
  <2>1. row \in CtAnyRow
    BY <1>4, CtRowFacts
  <2>2. /\ asked \in CtPageRecord /\ asked.tab = page.tab /\ asked.rows = page.rows
        /\ asked.dialog = row /\ asked.view = page.view /\ asked.selected = page.selected
    BY <2>1, PageDialog
  <2>3. Shows(asked)
    BY <1>3, <1>6 DEF CtAsks
  <2> HIDE DEF asked
  <2>4. \A load \in ctLoads' : load \in ctLoads
    BY <1>1
  <2>5. PICK shown \in CtPageRecord :
            /\ Shows(shown) /\ shown.tab = page.tab /\ shown.rows = page.rows
            /\ shown.dialog # None => shown.dialog \in CtRow(page.tab)
            /\ shown.view = "detail" => shown.selected \in Box
    BY <1>2, <1>3, <1>4, <2>2, <2>3
  <2> QED
    BY <1>1, <1>3, <2>4, <2>5, CtPageStep
<1> QED
  BY <1>5, <1>6

\* The page is left: what it has under way ends without being told.
LEMMA PageGoneFacts ==
    ASSUME CtInv, PageGone, UNCHANGED <<ctRemoved, ctConfirmed>>
    PROVE  /\ CtActionInv'
           /\ ctUnlisted' \in BOOLEAN
              /\ (~ctUnlisted' => ~ctUnlisted /\ CtStage \notin {"told", "reload"})
           /\ CtStage' \notin {"told", "reload"}
<1> DEFINE over == ctAction # None /\ ctAction.stage \in {"told", "reload"}
<1>1. /\ ctAction' = IF ctAction = None \/ over THEN None ELSE [ctAction EXCEPT !.told = FALSE]
      /\ ctUnlisted' = (ctUnlisted \/ over)
  BY DEF PageGone
<1>2. CASE ctAction = None \/ over
  BY <1>1, <1>2, Zenon DEF CtInv, CtActionInv, CtStage
<1>3. CASE ~(ctAction = None \/ over)
  <2>1. ctAction \in CtActionRecord /\ ctAction' = [ctAction EXCEPT !.told = FALSE]
    BY <1>1, <1>3 DEF CtInv, CtActionInv
  <2>2. /\ ctAction' \in CtActionRecord /\ ~ctAction'.told /\ ctAction'.stage = ctAction.stage
        /\ ctAction'.op = ctAction.op /\ ctAction'.tab = ctAction.tab
        /\ ctAction'.row = ctAction.row
    BY <2>1, Zenon DEF CtActionRecord
  <2> QED
    BY <1>1, <1>3, <2>2 DEF CtInv, CtActionInv, CtStage
<1> QED
  BY <1>2, <1>3

\* The panel opens, closes or changes its tab: a new page shows nothing yet.
LEMMA CtNewPage ==
    ASSUME CtInv, UNCHANGED <<ctServer, ctRemoved, ctConfirmed>>,
           ctCache' \in BOOLEAN \cup {None}, CtActionInv',
           ctUnlisted' \in BOOLEAN, ctUnlisted' \/ CtStage' # "told",
           ctPanel' \in CtPanelRecord,
           ctPanel'.page # None =>
               /\ ctPanel'.available = TRUE /\ ctPanel'.page.rows = {}
               /\ ctPanel'.page.dialog = None /\ ctPanel'.page.view = "list",
           \A load \in ctLoads' :
               ctPanel'.page # None /\ load \in CtLoadRecord /\ load.saw = {} /\ load.by = "page"
    PROVE  CtInv'
<1>1. /\ CtOnlyNamedGo' /\ CtGone' /\ ctServer' \in CtServerRecord
      /\ \A rows : Clean(rows)' = Clean(rows)
  BY CtQuiet
<1>2. CtPageInv'
  BY <1>1 DEF CtPageInv
<1>3. Clean({})
  BY DEF Clean
<1>4. CtCleared'
  BY <1>1, <1>3, Zenon DEF CtCleared
<1>5. CtReloads'
  BY DEF CtReloads
<1> QED
  BY <1>1, <1>2, <1>4, <1>5 DEF CtInv

LEMMA CtChecksKeeps ==
    ASSUME CtInv, CtChecks \/ CtCloses
    PROVE  CtInv'
<1>1. /\ ctPanel' \in {Closed, [Closed EXCEPT !.open = TRUE]} /\ PageGone /\ ctLoads' = {}
      /\ UNCHANGED <<ctServer, ctCache, ctRemoved, ctConfirmed>>
  BY DEF CtChecks, CtCloses
<1>2. ctPanel' \in CtPanelRecord /\ ctPanel'.page = None
  <2>1. /\ Closed \in CtPanelRecord /\ Closed.page = None
        /\ [Closed EXCEPT !.open = TRUE] \in CtPanelRecord
        /\ [Closed EXCEPT !.open = TRUE].page = None
    BY Zenon DEF Closed, CtPanelRecord
  <2> QED
    BY <1>1, <2>1, Zenon
<1>3. /\ CtActionInv' /\ ctUnlisted' \in BOOLEAN /\ CtStage' # "told"
  BY <1>1, PageGoneFacts
<1> QED
  BY <1>1, <1>2, <1>3, CtNewPage, Zenon DEF CtInv, CtPageInv

LEMMA CtSwitchesKeeps ==
    ASSUME CtInv, NEW tab \in Tab, CtSwitches(tab)
    PROVE  CtInv'
<1>1. /\ ctPanel.page # None /\ Shows(Loading(Page(tab))) /\ ctLoads' = {Load(Page(tab))}
      /\ PageGone /\ UNCHANGED <<ctServer, ctCache, ctRemoved, ctConfirmed>>
  BY DEF CtSwitches, OnPage
<1>2. /\ Loading(Page(tab)) \in CtPageRecord /\ Loading(Page(tab)).rows = {}
      /\ Loading(Page(tab)).dialog = None /\ Loading(Page(tab)).view = "list"
  BY PageFacts, PageLoading, Zenon DEF Loading
<1>3. /\ Load(Page(tab)) \in CtLoadRecord /\ Load(Page(tab)).saw = {}
      /\ Load(Page(tab)).by = "page"
  BY PageFacts, Zenon DEF Load, CtLoadRecord
<1>4. PICK page \in CtPageRecord : page = Loading(Page(tab))
  BY <1>2
<1>5. /\ ctPanel' \in CtPanelRecord /\ ctPanel'.page = page /\ ctPanel'.page # None
      /\ ctPanel'.available = TRUE
  BY <1>1, <1>4, ShowsFacts, Zenon DEF CtInv
<1>6. /\ CtActionInv' /\ ctUnlisted' \in BOOLEAN /\ CtStage' # "told"
  BY <1>1, PageGoneFacts
<1> QED
  BY <1>1, <1>2, <1>3, <1>4, <1>5, <1>6, CtNewPage, Zenon DEF CtInv, CtPageInv

LEMMA CtCheckedKeeps ==
    ASSUME CtInv, NEW answer \in BOOLEAN, NEW intent \in Box \cup {None},
           CtChecked(answer, intent)
    PROVE  CtInv'
<1> DEFINE page == [Loading(Page("containers")) EXCEPT !.intent = intent]
<1>1. /\ ctPanel.available = None /\ ctCache' = answer
      /\ ctPanel' = [open |-> TRUE, available |-> answer,
                     page |-> IF answer THEN page ELSE None]
      /\ ctLoads' = IF answer THEN {Load(Page("containers"))} ELSE {}
      /\ UNCHANGED <<ctServer, ctAction, ctRemoved, ctConfirmed, ctUnlisted>>
  BY DEF CtChecked, Available, ctHistory
<1>2. "containers" \in Tab
  BY DEF Tab
<1>3. page \in CtPageRecord /\ page.rows = {} /\ page.dialog = None /\ page.view = "list"
  <2>1. /\ Loading(Page("containers")) \in CtPageRecord
        /\ Loading(Page("containers")).rows = {} /\ Loading(Page("containers")).dialog = None
        /\ Loading(Page("containers")).view = "list"
    BY <1>2, PageFacts, PageLoading, Zenon DEF Loading
  <2> QED
    BY <2>1, PageIntent
<1>4. /\ Load(Page("containers")) \in CtLoadRecord /\ Load(Page("containers")).saw = {}
      /\ Load(Page("containers")).by = "page"
  BY <1>2, PageFacts, Zenon DEF Load, CtLoadRecord
<1>5. page # None
  BY <1>3, CtNoneAssumption
<1> HIDE DEF page
<1>6. /\ ctPanel' \in CtPanelRecord /\ ctPanel'.page = (IF answer THEN page ELSE None)
      /\ ctPanel'.available = answer
  BY <1>1, <1>3 DEF CtPanelRecord
<1>7. ctPanel.page = None
  BY <1>1, CtNoneAssumption, Zenon DEF CtInv, CtPageInv
<1>8. CtActionInv' /\ CtStage' # "told"
  BY <1>1, <1>7 DEF CtInv, CtActionInv, CtStage
<1> QED
  BY <1>1, <1>3, <1>4, <1>5, <1>6, <1>8, CtNewPage, Zenon DEF CtInv

(***************************************************************************)
(* Lists.                                                                  *)
(***************************************************************************)
\* A list under way runs: it shows what is there, and nothing that was removed.
LEMMA CtLoadRunsKeeps ==
    ASSUME CtInv, NEW load \in ctLoads, NEW answer \in BOOLEAN, CtLoadRuns(load, answer)
    PROVE  CtInv'
<1> DEFINE lists == answer /\ ctServer.up
           lost == load.by = "action" /\ ~lists
           listed == [load EXCEPT !.stage = "answer",
                                  !.saw = Listing(ctPanel.page.tab, load.all)]
           page == [ctPanel.page EXCEPT !.loading = lists /\ ctPanel.page.loading]
<1>1. /\ ctCache' = answer
      /\ ctLoads' = (ctLoads \ {load}) \cup (IF lists THEN {listed} ELSE {})
      /\ Shows(page)
      /\ ctAction' = IF lost THEN None ELSE ctAction
      /\ ctUnlisted' = (ctUnlisted \/ lost)
      /\ UNCHANGED <<ctServer, ctRemoved, ctConfirmed>>
  BY DEF CtLoadRuns, Available
<1>2. /\ ctPanel.page # None /\ load \in CtLoadRecord /\ ctPanel.page \in CtPageRecord
      /\ ctServer \in CtServerRecord /\ ctPanel.page.tab \in Tab /\ load.all \in BOOLEAN
  BY DEF CtInv, CtPageInv, CtPanelRecord, CtPageRecord, CtLoadRecord
<1>3. /\ Listing(ctPanel.page.tab, load.all) \subseteq CtRow(ctPanel.page.tab)
      /\ Clean(Listing(ctPanel.page.tab, load.all))
      /\ Listing(ctPanel.page.tab, load.all) \in SUBSET CtAnyRow
  <2>1. /\ Listing(ctPanel.page.tab, load.all) \subseteq CtRow(ctPanel.page.tab)
        /\ Clean(Listing(ctPanel.page.tab, load.all))
    BY <1>2, ListingFacts DEF CtInv
  <2> QED
    BY <1>2, <2>1, CtRowFacts
<1>4. /\ listed \in CtLoadRecord /\ listed.saw = Listing(ctPanel.page.tab, load.all)
      /\ listed.by = load.by
  BY <1>2, <1>3, Zenon DEF CtLoadRecord
<1>5. /\ page \in CtPageRecord
      /\ page.tab = ctPanel.page.tab /\ page.rows = ctPanel.page.rows
      /\ page.dialog = ctPanel.page.dialog /\ page.view = ctPanel.page.view
      /\ page.selected = ctPanel.page.selected
  <2>1. (lists /\ ctPanel.page.loading) \in BOOLEAN
    OBVIOUS
  <2> HIDE DEF lists
  <2> QED
    BY <1>2, <2>1, PageLoading, Zenon
<1>6. PICK shown \in CtPageRecord : shown = page
  BY <1>5
<1> HIDE DEF listed, page
<1>7. /\ ctPanel' \in CtPanelRecord /\ ctPanel'.page = shown /\ ctPanel'.page # None
      /\ ctPanel'.available = TRUE
  BY <1>1, <1>2, <1>6, ShowsFacts, Zenon DEF CtInv
<1>8. /\ CtOnlyNamedGo' /\ CtGone' /\ ctServer' \in CtServerRecord
      /\ \A rows : Clean(rows)' = Clean(rows)
  BY <1>1, CtQuiet
<1>9. \A l \in ctLoads' :
          \/ l \in ctLoads /\ l # load
          \/ lists /\ l = listed
  BY <1>1
<1>10. CtPageInv'
  BY <1>1, <1>2, <1>3, <1>4, <1>5, <1>6, <1>7, <1>8, <1>9 DEF CtInv, CtPageInv
<1>11. CtActionInv'
  BY <1>1, <1>7 DEF CtInv, CtActionInv
<1>12. CtReloads'
  BY <1>1, <1>4, <1>9 DEF CtInv, CtReloads, CtStage
<1>13. CtCleared'
  <2>1. CASE lost
    BY <1>1, <2>1, Zenon DEF CtCleared
  <2>2. CASE ~lost
    <3>1. CtStage' = CtStage /\ ctUnlisted' = ctUnlisted
      BY <1>1, <2>2 DEF CtStage, CtInv
    <3>2. Clean(listed.saw)
      BY <1>3, <1>4
    <3>3. (\A l \in ctLoads : Clean(l.saw)) => \A l \in ctLoads' : Clean(l.saw)'
      BY <1>8, <1>9, <3>2
    <3>4. Clean(ctPanel.page.rows) => Clean(shown.rows)'
      BY <1>5, <1>6, <1>8
    <3> QED
      BY <1>2, <1>7, <3>1, <3>3, <3>4 DEF CtInv, CtCleared
  <2> QED
    BY <2>1, <2>2
<1>14. ctUnlisted' \in BOOLEAN
  BY <1>1 DEF CtInv
<1> QED
  BY <1>8, <1>10, <1>11, <1>12, <1>13, <1>14 DEF CtInv

\* The page with the rows of a list, and the container that was asked for if it is there.
LEMMA WithRowsFacts ==
    ASSUME NEW page \in CtPageRecord, NEW rows \in SUBSET CtRow(page.tab),
           page.view = "detail" => page.selected \in Box
    PROVE  LET now == WithRows(page, rows)
           IN  /\ now \in CtPageRecord /\ now.tab = page.tab /\ now.rows = rows
               /\ now.dialog = page.dialog
               /\ now.view = "detail" => now.selected \in Box
<1> DEFINE shown == [page EXCEPT !.rows = rows]
<1>1. page.tab \in Tab /\ page.intent \in Box \cup {None}
  BY DEF CtPageRecord
<1>2. rows \in SUBSET CtAnyRow
  BY <1>1, CtRowFacts
<1>3. /\ shown \in CtPageRecord /\ shown.tab = page.tab /\ shown.rows = rows
      /\ shown.view = page.view /\ shown.selected = page.selected /\ shown.dialog = page.dialog
  BY <1>2, PageRows
<1>4. WithRows(page, rows) =
          IF \E row \in rows : row.thing = page.intent
          THEN [shown EXCEPT !.view = "detail", !.selected = page.intent] ELSE shown
  BY DEF WithRows
<1> HIDE DEF shown
<1>5. CASE \E row \in rows : row.thing = page.intent
  <2> DEFINE opened == [shown EXCEPT !.view = "detail", !.selected = page.intent]
  <2>1. \A row \in rows : row.thing \in Box \cup Tag \cup Volume
    BY <1>1, CtRowFacts
  <2>2. page.intent \in Box
    BY <1>1, <1>5, <2>1, CtNoneAssumption
  <2>3. /\ opened \in CtPageRecord /\ opened.tab = shown.tab /\ opened.rows = shown.rows
        /\ opened.selected = page.intent /\ opened.dialog = shown.dialog
    BY <1>3, <2>2, PageOpened, Zenon
  <2>4. WithRows(page, rows) = opened
    BY <1>4, <1>5
  <2> HIDE DEF opened
  <2> QED
    BY <1>3, <2>2, <2>3, <2>4
<1>6. CASE ~\E row \in rows : row.thing = page.intent
  BY <1>3, <1>4, <1>6
<1> QED
  BY <1>5, <1>6

LEMMA CtLoadAnswersKeeps ==
    ASSUME CtInv, NEW load \in ctLoads, CtLoadAnswers(load)
    PROVE  CtInv'
<1> DEFINE page == [WithRows(ctPanel.page, load.saw) EXCEPT !.loading = FALSE]
<1>1. /\ ctLoads' = ctLoads \ {load} /\ Shows(page)
      /\ ctAction' = IF load.by = "action" THEN None ELSE ctAction
      /\ UNCHANGED <<ctServer, ctCache, ctRemoved, ctConfirmed, ctUnlisted>>
  BY DEF CtLoadAnswers, ctHistory
<1>2. /\ ctPanel.page # None /\ load \in CtLoadRecord /\ ctPanel.page \in CtPageRecord
      /\ load.saw \in SUBSET CtRow(ctPanel.page.tab)
      /\ ctPanel.page.view = "detail" => ctPanel.page.selected \in Box
  BY DEF CtInv, CtPageInv, CtPanelRecord
<1>3. /\ page \in CtPageRecord
      /\ page.tab = ctPanel.page.tab /\ page.rows = load.saw
      /\ page.dialog = ctPanel.page.dialog
      /\ page.view = "detail" => page.selected \in Box
  <2>1. PICK with \in CtPageRecord : with = WithRows(ctPanel.page, load.saw)
    BY <1>2, WithRowsFacts
  <2>2. /\ with.tab = ctPanel.page.tab /\ with.rows = load.saw
        /\ with.dialog = ctPanel.page.dialog
        /\ with.view = "detail" => with.selected \in Box
    BY <1>2, <2>1, WithRowsFacts
  <2> QED
    BY <2>1, <2>2, PageLoading, Zenon
<1>4. PICK shown \in CtPageRecord : shown = page
  BY <1>3
<1> HIDE DEF page
<1>5. /\ ctPanel' \in CtPanelRecord /\ ctPanel'.page = shown /\ ctPanel'.page # None
      /\ ctPanel'.available = TRUE
  BY <1>1, <1>2, <1>4, ShowsFacts, Zenon DEF CtInv
<1>6. /\ CtOnlyNamedGo' /\ CtGone' /\ ctServer' \in CtServerRecord
      /\ \A rows : Clean(rows)' = Clean(rows)
  BY <1>1, CtQuiet
<1>7. CtPageInv'
  BY <1>1, <1>2, <1>3, <1>4, <1>5, <1>6 DEF CtInv, CtPageInv
<1>8. CtActionInv'
  BY <1>1, <1>5 DEF CtInv, CtActionInv
<1>9. CtReloads'
  BY <1>1 DEF CtInv, CtReloads, CtStage
<1>10. CtCleared'
  <2>1. CASE ctUnlisted
    BY <1>1, <2>1 DEF CtCleared
  <2>2. CASE ~ctUnlisted /\ CtStage = "told"
    <3>1. load.by # "action"
      BY <2>2 DEF CtInv, CtReloads
    <3> QED
      BY <1>1, <2>2, <3>1 DEF CtCleared, CtStage
  <2>3. CASE ~ctUnlisted /\ CtStage # "told"
    <3>1. Clean(load.saw) /\ \A l \in ctLoads' : Clean(l.saw)
      BY <1>1, <2>3 DEF CtInv, CtCleared
    <3>2. Clean(shown.rows)' /\ \A l \in ctLoads' : Clean(l.saw)'
      BY <1>3, <1>4, <1>6, <3>1
    <3> QED
      BY <1>5, <3>2 DEF CtCleared
  <2> QED
    BY <2>1, <2>2, <2>3
<1> QED
  BY <1>1, <1>6, <1>7, <1>8, <1>9, <1>10 DEF CtInv

(***************************************************************************)
(* Actions.                                                                *)
(***************************************************************************)
LEMMA ActionFacts ==
    ASSUME ctPanel.page # None, ctPanel.page \in CtPageRecord,
           NEW op \in {"start", "stop", "restart", "remove"}, NEW row \in CtRow(ctPanel.page.tab)
    PROVE  /\ Action(op, row) \in CtActionRecord /\ Action(op, row).op = op
           /\ Action(op, row).tab = ctPanel.page.tab /\ Action(op, row).row = row
           /\ Action(op, row).stage = "check"
<1>1. /\ ctPanel.page.tab \in Tab /\ ctPanel.page.all \in BOOLEAN
      /\ ctPanel.page.selected \in Box \cup {None}
  BY DEF CtPageRecord
<1>2. row \in CtAnyRow
  BY <1>1, CtRowFacts
<1> QED
  BY <1>1, <1>2 DEF Action, CtActionRecord

\* An action begins: it is run on a row of the page, a removal on the row of the dialog.
LEMMA CtBeginsKeeps ==
    ASSUME CtInv,
           \/ CtConfirms
           \/ \E row \in ctPanel.page.rows, op \in {"start", "stop", "restart"} : CtRuns(op, row)
    PROVE  CtInv'
<1>1. /\ UNCHANGED <<ctServer, ctCache, ctPanel, ctLoads, ctRemoved, ctUnlisted>>
      /\ ctAction = None /\ ctPanel.page # None /\ ctPanel.page \in CtPageRecord
      /\ ctConfirmed \subseteq ctConfirmed'
  BY DEF CtConfirms, CtRuns, ctHistory, Idle, OnList, OnPage, CtInv, CtPageInv, CtPanelRecord
<1>2. \E op \in {"start", "stop", "restart", "remove"}, row \in CtRow(ctPanel.page.tab) :
          /\ ctAction' = Action(op, row)
          /\ IF op = "remove" THEN row \in ctConfirmed' ELSE ctPanel.page.tab = "containers"
  <2>1. CASE CtConfirms
    <3>1. /\ ctPanel.page.dialog \in CtRow(ctPanel.page.tab)
          /\ ctAction' = Action("remove", ctPanel.page.dialog)
          /\ ctPanel.page.dialog \in ctConfirmed'
      BY <1>1, <2>1 DEF CtConfirms, CtInv, CtPageInv
    <3> QED
      BY <3>1
  <2>2. ASSUME NEW row \in ctPanel.page.rows, NEW op \in {"start", "stop", "restart"},
               CtRuns(op, row)
        PROVE  /\ ctAction' = Action(op, row) /\ row \in CtRow(ctPanel.page.tab)
               /\ op # "remove" /\ ctPanel.page.tab = "containers"
    BY <1>1, <2>2 DEF CtRuns, OnTab, CtInv, CtPageInv
  <2> QED
    BY <2>1, <2>2
<1>3. PICK op \in {"start", "stop", "restart", "remove"}, row \in CtRow(ctPanel.page.tab) :
          /\ ctAction' = Action(op, row)
          /\ IF op = "remove" THEN row \in ctConfirmed' ELSE ctPanel.page.tab = "containers"
  BY <1>2
<1>4. /\ ctAction' \in CtActionRecord /\ ctAction'.op = op
      /\ ctAction'.tab = ctPanel.page.tab /\ ctAction'.row = row /\ ctAction'.stage = "check"
  BY <1>1, <1>3, ActionFacts
<1>5. CtActionInv'
  BY <1>1, <1>3, <1>4 DEF CtActionInv
<1>6. CtStage = "check" /\ CtStage' = "check"
  BY <1>1, <1>4 DEF CtStage
<1>7. GoneThings' = GoneThings /\ \A rows : Clean(rows)' = Clean(rows)
  BY <1>1 DEF GoneThings, Clean
<1>8. CtCleared'
  BY <1>1, <1>6, <1>7 DEF CtInv, CtCleared
<1>9. CtReloads'
  BY <1>1, <1>6 DEF CtInv, CtReloads
<1>10. CtOnlyNamedGo' /\ CtGone'
  BY <1>1, <1>7 DEF CtInv, CtOnlyNamedGo, CtGone
<1>11. CtPageInv'
  BY <1>1 DEF CtInv, CtPageInv
<1> QED
  BY <1>1, <1>5, <1>8, <1>9, <1>10, <1>11 DEF CtInv

\* An action learns whether Docker answers, or fails.
LEMMA CtActionChecksKeeps ==
    ASSUME CtInv, CtActionFails \/ \E answer \in BOOLEAN : CtActionChecks(answer)
    PROVE  CtInv'
<1>1. /\ UNCHANGED <<ctServer, ctPanel, ctLoads, ctRemoved, ctConfirmed>>
      /\ ctCache' \in BOOLEAN \cup {None} /\ ctUnlisted' \in BOOLEAN
      /\ ctAction # None /\ CtStage \in {"check", "run", "told"}
      /\ CtStage = "told" => ctUnlisted'
      /\ ctUnlisted => ctUnlisted'
      /\ ctAction' = None \/ (CtStage = "check" /\ ctAction' = [ctAction EXCEPT !.stage = "run"])
  BY Zenon DEF CtActionChecks, CtActionFails, ctHistory, Available, CtStage, CtInv, CtPageInv
<1>2. /\ CtOnlyNamedGo' /\ CtGone' /\ ctServer' \in CtServerRecord
      /\ \A rows : Clean(rows)' = Clean(rows)
  BY <1>1, CtQuiet
<1>3. CtPageInv'
  BY <1>1 DEF CtInv, CtPageInv
<1>4. CtActionInv' /\ CtStage' \in {"check", "run"}
  <2>1. CASE ctAction' = None
    BY <2>1 DEF CtActionInv, CtStage
  <2>2. CASE ctAction' = [ctAction EXCEPT !.stage = "run"]
    <3>1. ctAction \in CtActionRecord
      BY <1>1 DEF CtInv, CtActionInv
    <3>2. /\ ctAction' \in CtActionRecord /\ ctAction'.stage = "run"
          /\ ctAction'.op = ctAction.op /\ ctAction'.tab = ctAction.tab
          /\ ctAction'.row = ctAction.row /\ ctAction'.told = ctAction.told
      BY <2>2, <3>1 DEF CtActionRecord
    <3> QED
      BY <1>1, <3>2 DEF CtInv, CtActionInv, CtStage
  <2> QED
    BY <1>1, <2>1, <2>2
<1>5. CtCleared'
  BY <1>1, <1>2, <1>4 DEF CtInv, CtCleared
<1>6. CtReloads'
  BY <1>1 DEF CtInv, CtReloads
<1> QED
  BY <1>1, <1>2, <1>3, <1>4, <1>5, <1>6 DEF CtInv

\* What a removal takes is of its kind, and is not on the server afterwards.
LEMMA WithoutFacts ==
    ASSUME ctServer \in CtServerRecord, NEW tab \in Tab, NEW row \in CtRow(tab)
    PROVE  LET things == Taken(tab, row)
               now == Without(tab, things)
           IN  /\ now \in CtServerRecord
               /\ things \subseteq Box \cup Tag \cup Volume
               /\ \A x \in Box : /\ now.boxes[x] \in {ctServer.boxes[x], "absent"}
                                 /\ x \in things => now.boxes[x] = "absent"
               /\ \A x \in Tag : /\ now.tags[x] \in {ctServer.tags[x], None}
                                 /\ x \in things => now.tags[x] = None
               /\ \A x \in Volume : /\ x \in now.volumes => x \in ctServer.volumes
                                    /\ x \in things => x \notin now.volumes
               /\ \A t \in things :
                      /\ [row EXCEPT !.thing = t] \in CtRow(tab)
                      /\ [row EXCEPT !.thing = t].thing = t
                      /\ [row EXCEPT !.thing = t].is = row.is
                      /\ t = row.thing \/ row.is \in Image
<1> DEFINE things == Taken(tab, row)
           now == Without(tab, things)
<1>1. CASE tab = "containers"
  <2>1. things = {row.thing} /\ row.thing \in Box
        /\ row \in [thing : Box, is : {"running", "exited"}]
    BY <1>1 DEF Taken, CtRow
  <2>2. now = [ctServer EXCEPT !.boxes = [b \in Box |-> IF b \in things THEN "absent"
                                                        ELSE ctServer.boxes[b]]]
    BY <1>1 DEF Without
  <2> DEFINE boxes == [b \in Box |-> IF b \in things THEN "absent" ELSE ctServer.boxes[b]]
  <2>3. /\ boxes \in [Box -> {"running", "exited", "absent"}]
        /\ \A x \in Box : boxes[x] = IF x \in things THEN "absent" ELSE ctServer.boxes[x]
    BY DEF CtServerRecord
  <2> HIDE DEF things, boxes
  <2>4. /\ now \in CtServerRecord /\ now.boxes = boxes /\ now.tags = ctServer.tags
        /\ now.volumes = ctServer.volumes
    BY <2>2, <2>3 DEF CtServerRecord, boxes
  <2> HIDE DEF now
  <2>5. \A x \in Tag : x \notin things
    BY <2>1, CtThingsAssumption
  <2>6. \A x \in Volume : x \notin things
    BY <2>1, CtThingsAssumption
  <2>7. \A t \in things :
            /\ [row EXCEPT !.thing = t] \in CtRow(tab) /\ [row EXCEPT !.thing = t].thing = t
            /\ [row EXCEPT !.thing = t].is = row.is /\ t = row.thing
    BY <1>1, <2>1 DEF CtRow
  <2> QED
    BY <2>1, <2>3, <2>4, <2>5, <2>6, <2>7 DEF things, now
<1>2. CASE tab = "images"
  <2>1. things \subseteq Tag /\ row.is \in Image /\ row \in [thing : Tag, is : Image]
    BY <1>2 DEF Taken, TagsTaken, CtRow
  <2>2. now = [ctServer EXCEPT !.tags = [t \in Tag |-> IF t \in things THEN None
                                                       ELSE ctServer.tags[t]]]
    BY <1>2 DEF Without
  <2> DEFINE tags == [t \in Tag |-> IF t \in things THEN None ELSE ctServer.tags[t]]
  <2>3. /\ tags \in [Tag -> Image \cup {None}]
        /\ \A x \in Tag : tags[x] = IF x \in things THEN None ELSE ctServer.tags[x]
    BY DEF CtServerRecord
  <2> HIDE DEF things, tags
  <2>4. /\ now \in CtServerRecord /\ now.tags = tags /\ now.boxes = ctServer.boxes
        /\ now.volumes = ctServer.volumes
    BY <2>2, <2>3, Zenon DEF CtServerRecord, tags
  <2> HIDE DEF now
  <2>5. \A x \in Box : x \notin things
    BY <2>1, CtThingsAssumption
  <2>6. \A x \in Volume : x \notin things
    BY <2>1, CtThingsAssumption
  <2>7. \A t \in things :
            /\ [row EXCEPT !.thing = t] \in CtRow(tab) /\ [row EXCEPT !.thing = t].thing = t
            /\ [row EXCEPT !.thing = t].is = row.is
    BY <1>2, <2>1 DEF CtRow
  <2> QED
    BY <2>1, <2>3, <2>4, <2>5, <2>6, <2>7 DEF things, now
<1>3. CASE tab = "volumes"
  <2>1. things = {row.thing} /\ row.thing \in Volume /\ row \in [thing : Volume, is : {None}]
    BY <1>3 DEF Taken, CtRow
  <2>2. now = [ctServer EXCEPT !.volumes = ctServer.volumes \ things]
    BY <1>3 DEF Without
  <2> HIDE DEF things
  <2>3. /\ now \in CtServerRecord /\ now.tags = ctServer.tags /\ now.boxes = ctServer.boxes
        /\ now.volumes = ctServer.volumes \ things
    BY <2>2 DEF CtServerRecord
  <2> HIDE DEF now
  <2>4. \A x \in Tag : x \notin things
    BY <2>1, CtThingsAssumption
  <2>5. \A x \in Box : x \notin things
    BY <2>1, CtThingsAssumption
  <2>6. \A t \in things :
            /\ [row EXCEPT !.thing = t] \in CtRow(tab) /\ [row EXCEPT !.thing = t].thing = t
            /\ [row EXCEPT !.thing = t].is = row.is /\ t = row.thing
    BY <1>3, <2>1 DEF CtRow
  <2> QED
    BY <2>1, <2>3, <2>4, <2>5, <2>6, Zenon DEF things, now
<1>4. CASE tab = "networks"
  BY <1>4 DEF CtRow
<1> QED
  BY <1>1, <1>2, <1>3, <1>4 DEF Tab

\* An action has been done: it is to be told, or nobody is there to be told.
LEMMA CtDoneFacts ==
    ASSUME CtInv, ctAction # None, ctAction.stage = "run",
           ctAction' = IF ctAction.told THEN [ctAction EXCEPT !.stage = "told"] ELSE None,
           ctUnlisted' = (ctUnlisted \/ ~ctAction.told),
           UNCHANGED <<ctPanel, ctLoads, ctConfirmed>>
    PROVE  CtActionInv' /\ CtCleared' /\ CtReloads' /\ ctUnlisted' \in BOOLEAN
<1>1. ctAction \in CtActionRecord /\ CtStage = "run" /\ ctUnlisted \in BOOLEAN
  BY DEF CtInv, CtActionInv, CtStage
<1>2. CASE ctAction.told
  <2>1. ctAction' = [ctAction EXCEPT !.stage = "told"]
    BY <1>2
  <2>2. /\ ctAction' \in CtActionRecord /\ ctAction'.stage = "told"
        /\ ctAction'.op = ctAction.op /\ ctAction'.tab = ctAction.tab
        /\ ctAction'.row = ctAction.row /\ ctAction'.told = ctAction.told
    BY <1>1, <2>1 DEF CtActionRecord
  <2>3. ctAction' # None
    BY <2>2, CtNoneAssumption
  <2>4. CtStage' = "told"
    BY <2>2, <2>3 DEF CtStage
  <2>5. CtActionInv'
    BY <1>2, <2>2 DEF CtInv, CtActionInv
  <2> QED
    BY <1>1, <1>2, <2>4, <2>5 DEF CtCleared, CtInv, CtReloads
<1>3. CASE ~ctAction.told
  <2>1. ctAction' = None /\ ctUnlisted' = TRUE /\ CtStage' = "check"
    BY <1>3, Zenon DEF CtStage
  <2> QED
    BY <1>1, <2>1 DEF CtActionInv, CtCleared, CtReloads, CtInv
<1> QED
  BY <1>2, <1>3

LEMMA CtActionRunsKeeps ==
    ASSUME CtInv, CtActionRuns
    PROVE  CtInv'
<1>1. /\ ctAction # None /\ ctAction.stage = "run"
      /\ ctCache' \in BOOLEAN \cup {None}
      /\ ctAction' = IF ctAction.told THEN [ctAction EXCEPT !.stage = "told"] ELSE None
      /\ ctUnlisted' = (ctUnlisted \/ ~ctAction.told)
      /\ UNCHANGED <<ctPanel, ctLoads, ctConfirmed>>
  BY DEF CtActionRuns, CtInv, CtPageInv
<1>2. /\ ctAction \in CtActionRecord /\ ctAction.row \in CtRow(ctAction.tab)
      /\ ctServer \in CtServerRecord /\ ctAction.tab \in Tab
      /\ IF ctAction.op = "remove" THEN ctAction.row \in ctConfirmed
         ELSE ctAction.tab = "containers"
  BY <1>1 DEF CtInv, CtActionInv, CtPageInv, CtActionRecord
<1>3. CtActionInv' /\ CtCleared' /\ CtReloads' /\ ctUnlisted' \in BOOLEAN
  BY <1>1, CtDoneFacts
<1>4. PICK tab \in Tab : tab = ctAction.tab
  BY <1>2
<1>5. PICK row \in CtRow(tab) : row = ctAction.row
  BY <1>2, <1>4
<1>6. ctServer' \in CtServerRecord /\ CtGone' /\ CtOnlyNamedGo'
  <2>1. CASE ctAction.op = "remove"
    <3> DEFINE things == Taken(tab, row)
               taken == {[row EXCEPT !.thing = t] : t \in things}
    <3>1. ctServer' = Without(tab, things) /\ ctRemoved' = ctRemoved \cup taken
      BY <1>4, <1>5, <2>1 DEF CtActionRuns
    <3>2. /\ ctServer' \in CtServerRecord
          /\ \A x \in Box : /\ ctServer'.boxes[x] \in {ctServer.boxes[x], "absent"}
                            /\ x \in things => ctServer'.boxes[x] = "absent"
          /\ \A x \in Tag : /\ ctServer'.tags[x] \in {ctServer.tags[x], None}
                            /\ x \in things => ctServer'.tags[x] = None
          /\ \A x \in Volume : /\ x \in ctServer'.volumes => x \in ctServer.volumes
                               /\ x \in things => x \notin ctServer'.volumes
      BY <1>2, <3>1, WithoutFacts
    <3>3. \A t \in things :
              /\ [row EXCEPT !.thing = t] \in CtRow(tab)
              /\ [row EXCEPT !.thing = t].thing = t
              /\ [row EXCEPT !.thing = t].is = row.is
              /\ t = row.thing \/ row.is \in Image
      BY <1>2, WithoutFacts
    <3> HIDE DEF things
    <3>4. \A gone \in taken : /\ gone \in CtAnyRow /\ gone.thing \in things /\ gone.is = row.is
                              /\ gone.thing = row.thing \/ row.is \in Image
      <4>1. ASSUME NEW t \in things PROVE [row EXCEPT !.thing = t] \in CtAnyRow
        <5>1. PICK gone \in CtRow(tab) : gone = [row EXCEPT !.thing = t]
          BY <3>3, Zenon
        <5> QED
          BY <5>1, CtRowFacts
      <4>2. ASSUME NEW gone \in taken
            PROVE  /\ gone \in CtAnyRow /\ gone.thing \in things /\ gone.is = row.is
                   /\ gone.thing = row.thing \/ row.is \in Image
        <5>1. PICK t \in things : gone = [row EXCEPT !.thing = t]
          OBVIOUS
        <5> HIDE DEF taken
        <5> QED
          BY <3>3, <4>1, <5>1
      <4> QED
        BY <4>2
    <3> HIDE DEF taken
    <3>5. \A x \in GoneThings' : x \in GoneThings \/ x \in things
      BY <3>1, <3>4 DEF GoneThings
    <3>6. ctRemoved' \subseteq CtAnyRow
      BY <3>1, <3>4 DEF CtInv, CtGone
    <3>7. CtGone'
      BY <3>2, <3>5, <3>6 DEF CtInv, CtGone
    <3>8. CtOnlyNamedGo'
      <4>1. row \in ctConfirmed /\ ctConfirmed' = ctConfirmed
        BY <1>1, <1>2, <1>5, <2>1
      <4>2. \A gone \in taken : row.thing = gone.thing \/ (row.is \in Image /\ row.is = gone.is)
        BY <3>4
      <4> QED
        BY <3>1, <4>1, <4>2 DEF CtInv, CtOnlyNamedGo
    <3> QED
      BY <3>2, <3>7, <3>8
  <2>2. CASE ctAction.op # "remove"
    <3> DEFINE is == IF ctAction.op = "stop" THEN "exited" ELSE "running"
               boxes == [ctServer.boxes EXCEPT ![row.thing] = is]
    <3>1. /\ ctServer' = [ctServer EXCEPT !.boxes = boxes] /\ ctRemoved' = ctRemoved
          /\ ctServer.boxes[row.thing] # "absent"
      BY <1>2, <1>5, <2>2 DEF CtActionRuns, BoxIs, Exists
    <3>2. row.thing \in Box
      BY <1>2, <1>4, <2>2 DEF CtRow
    <3>3. /\ boxes \in [Box -> {"running", "exited", "absent"}]
          /\ \A x \in Box : x # row.thing => boxes[x] = ctServer.boxes[x]
      BY <1>2, <3>2 DEF CtServerRecord
    <3> HIDE DEF boxes
    <3>4. /\ ctServer' \in CtServerRecord /\ ctServer'.boxes = boxes
          /\ ctServer'.tags = ctServer.tags /\ ctServer'.volumes = ctServer.volumes
      BY <1>2, <3>1, <3>3 DEF CtServerRecord
    <3>5. GoneThings' = GoneThings
      BY <3>1 DEF GoneThings
    <3>6. row.thing \notin GoneThings
      BY <3>1, <3>2 DEF CtInv, CtGone
    <3>7. CtGone'
      BY <3>1, <3>3, <3>4, <3>5, <3>6 DEF CtInv, CtGone
    <3> QED
      BY <1>1, <3>1, <3>4, <3>7 DEF CtInv, CtOnlyNamedGo
  <2> QED
    BY <2>1, <2>2
<1>7. CtPageInv'
  BY <1>1, <1>6 DEF CtInv, CtPageInv
<1> QED
  BY <1>3, <1>6, <1>7 DEF CtInv

LEMMA CtActionToldKeeps ==
    ASSUME CtInv, CtActionTold
    PROVE  CtInv'
<1> DEFINE removed == ctAction.op = "remove"
           leaves == ctAction.op = "remove" /\ ctAction.tab = "containers"
                         /\ ctAction.selected = ctAction.row.thing
           page == [ctPanel.page EXCEPT
                        !.dialog = IF removed THEN None ELSE ctPanel.page.dialog,
                        !.view = IF leaves THEN "list" ELSE ctPanel.page.view,
                        !.selected = IF leaves THEN None ELSE ctPanel.page.selected,
                        !.loading = TRUE]
           load == [Load(ctAction) EXCEPT !.by = "action"]
<1>1. /\ ctAction # None /\ ctAction.stage = "told"
      /\ Shows(page) /\ ctLoads' = ctLoads \cup {load}
      /\ ctUnlisted' = (ctUnlisted \/ ctLoads # {})
      /\ ctAction' = [ctAction EXCEPT !.stage = "reload"]
      /\ UNCHANGED <<ctServer, ctCache, ctRemoved, ctConfirmed>>
  BY DEF CtActionTold
<1>2. /\ ctAction \in CtActionRecord /\ ctAction.told /\ ctPanel.page # None
      /\ ctPanel.page \in CtPageRecord /\ CtStage = "told"
  BY <1>1 DEF CtInv, CtActionInv, CtPageInv, CtPanelRecord, CtStage
<1>3. /\ page \in CtPageRecord
      /\ page.tab = ctPanel.page.tab /\ page.rows = ctPanel.page.rows
      /\ page.dialog \in {None, ctPanel.page.dialog}
      /\ page.view = "detail" => /\ page.view = ctPanel.page.view
                                 /\ page.selected = ctPanel.page.selected
  <2>1. removed \in BOOLEAN /\ leaves \in BOOLEAN
    OBVIOUS
  <2> HIDE DEF removed, leaves
  <2>2. PICK p \in CtPageRecord : p = ctPanel.page
    BY <1>2
  <2>3. PICK r \in BOOLEAN, l \in BOOLEAN : r = removed /\ l = leaves
    BY <2>1
  <2> DEFINE after == [p EXCEPT !.dialog = IF r THEN None ELSE p.dialog,
                                !.view = IF l THEN "list" ELSE p.view,
                                !.selected = IF l THEN None ELSE p.selected,
                                !.loading = TRUE]
  <2>4. page = after
    BY <2>2, <2>3 DEF page
  <2>5. /\ after \in CtPageRecord
        /\ after.tab = p.tab /\ after.rows = p.rows /\ after.dialog \in {None, p.dialog}
        /\ after.view = "detail" => after.view = p.view /\ after.selected = p.selected
    BY Zenon DEF CtPageRecord
  <2> HIDE DEF page, after
  <2> QED
    BY <2>2, <2>4, <2>5
<1>4. load \in CtLoadRecord /\ load.saw = {} /\ load.by = "action"
  BY <1>2 DEF Load, CtLoadRecord, CtActionRecord
<1> HIDE DEF page, load
<1>5. PICK shown \in CtPageRecord : shown = page
  BY <1>3
<1>6. /\ ctPanel' \in CtPanelRecord /\ ctPanel'.page = shown /\ ctPanel'.page # None
      /\ ctPanel'.available = TRUE
  BY <1>1, <1>2, <1>5, ShowsFacts, Zenon DEF CtInv
<1>7. /\ CtOnlyNamedGo' /\ CtGone' /\ ctServer' \in CtServerRecord
      /\ \A rows : Clean(rows)' = Clean(rows)
  BY <1>1, CtQuiet
<1>8. CtPageInv'
  BY <1>1, <1>2, <1>3, <1>4, <1>5, <1>6, <1>7 DEF CtInv, CtPageInv
<1>9. /\ ctAction' \in CtActionRecord /\ ctAction'.stage = "reload"
      /\ ctAction'.op = ctAction.op /\ ctAction'.tab = ctAction.tab
      /\ ctAction'.row = ctAction.row /\ ctAction'.told = ctAction.told
  BY <1>1, <1>2, Zenon DEF CtActionRecord
<1>10. CtActionInv'
  BY <1>1, <1>6, <1>9 DEF CtInv, CtActionInv
<1>11. CtStage' = "reload"
  <2>1. ctAction' # None
    BY <1>9, CtNoneAssumption
  <2> QED
    BY <1>9, <2>1 DEF CtStage
<1>12. CtCleared'
  <2>1. CASE ctUnlisted'
    BY <2>1 DEF CtCleared
  <2>2. CASE ~ctUnlisted'
    <3>1. ctLoads' = {load}
      BY <1>1, <2>2, Zenon
    <3>2. Clean(load.saw)
      BY <1>4 DEF Clean
    <3>3. \A l \in ctLoads' : Clean(l.saw)'
      BY <1>7, <3>1, <3>2
    <3> QED
      BY <1>11, <3>3 DEF CtCleared
  <2> QED
    BY <2>1, <2>2
<1>13. CtReloads'
  <2>1. \A l \in ctLoads : l.by # "action"
    BY <1>2 DEF CtInv, CtReloads
  <2> QED
    BY <1>1, <1>11, <2>1 DEF CtReloads
<1>14. ctUnlisted' \in BOOLEAN
  BY <1>1 DEF CtInv
<1> QED
  BY <1>7, <1>8, <1>10, <1>12, <1>13, <1>14 DEF CtInv

\* Others change the server, but bring nothing back that was removed.
LEMMA CtServerChangesKeeps ==
    ASSUME CtInv, CtServerChanges
    PROVE  CtInv'
<1>1. /\ UNCHANGED <<ctCache, ctPanel, ctLoads, ctAction, ctRemoved, ctConfirmed, ctUnlisted>>
      /\ ctServer \in CtServerRecord
  BY DEF CtServerChanges, ctHistory, CtInv, CtPageInv
<1>2. GoneThings' = GoneThings /\ \A rows : Clean(rows)' = Clean(rows)
  BY <1>1 DEF GoneThings, Clean
<1>3. ctServer' \in CtServerRecord /\ CtGone'
  <2>1. CASE ctServer' = [ctServer EXCEPT !.up = ~ctServer.up]
    <3>1. (~ctServer.up) \in BOOLEAN
      OBVIOUS
    <3>2. /\ ctServer' \in CtServerRecord /\ ctServer'.boxes = ctServer.boxes
          /\ ctServer'.tags = ctServer.tags /\ ctServer'.volumes = ctServer.volumes
      BY <1>1, <2>1, <3>1, Zenon DEF CtServerRecord
    <3> QED
      BY <1>1, <1>2, <3>2 DEF CtInv, CtGone
  <2>2. ASSUME NEW b \in Box, NEW is \in {"running", "exited"}, b \notin GoneThings,
               ctServer' = BoxIs(b, is)
        PROVE  ctServer' \in CtServerRecord /\ CtGone'
    <3> DEFINE boxes == [ctServer.boxes EXCEPT ![b] = is]
    <3>1. ctServer' = [ctServer EXCEPT !.boxes = boxes]
      BY <2>2 DEF BoxIs
    <3>2. /\ boxes \in [Box -> {"running", "exited", "absent"}]
          /\ \A x \in Box : x # b => boxes[x] = ctServer.boxes[x]
      BY <1>1 DEF CtServerRecord
    <3> HIDE DEF boxes
    <3>3. /\ ctServer' \in CtServerRecord /\ ctServer'.boxes = boxes
          /\ ctServer'.tags = ctServer.tags /\ ctServer'.volumes = ctServer.volumes
      BY <1>1, <3>1, <3>2 DEF CtServerRecord
    <3> QED
      BY <1>1, <1>2, <2>2, <3>2, <3>3 DEF CtInv, CtGone
  <2>3. ASSUME NEW t \in Tag, NEW i \in Image, t \notin GoneThings, ctServer' = TagIs(t, i)
        PROVE  ctServer' \in CtServerRecord /\ CtGone'
    <3> DEFINE tags == [ctServer.tags EXCEPT ![t] = i]
    <3>1. ctServer' = [ctServer EXCEPT !.tags = tags]
      BY <2>3 DEF TagIs
    <3>2. /\ tags \in [Tag -> Image \cup {None}]
          /\ \A x \in Tag : x # t => tags[x] = ctServer.tags[x]
      BY <1>1 DEF CtServerRecord
    <3> HIDE DEF tags
    <3>3. /\ ctServer' \in CtServerRecord /\ ctServer'.tags = tags
          /\ ctServer'.boxes = ctServer.boxes /\ ctServer'.volumes = ctServer.volumes
      BY <1>1, <3>1, <3>2 DEF CtServerRecord
    <3> QED
      BY <1>1, <1>2, <2>3, <3>2, <3>3 DEF CtInv, CtGone
  <2> QED
    BY <2>1, <2>2, <2>3 DEF CtServerChanges
<1>4. CtPageInv'
  BY <1>1, <1>3 DEF CtInv, CtPageInv
<1>5. CtActionInv' /\ CtOnlyNamedGo' /\ CtReloads' /\ CtStage' = CtStage
  BY <1>1 DEF CtInv, CtActionInv, CtOnlyNamedGo, CtReloads, CtStage
<1>6. CtCleared'
  BY <1>1, <1>2, <1>5 DEF CtInv, CtCleared
<1> QED
  BY <1>1, <1>3, <1>4, <1>5, <1>6 DEF CtInv

(***************************************************************************)
(* The invariant.                                                          *)
(***************************************************************************)
LEMMA CtInitInv ==
    ASSUME CtInit
    PROVE  CtInv
<1>1. PICK up \in BOOLEAN, i \in Image \cup {None} :
          ctServer = [up |-> up, boxes |-> [b \in Box |-> "running"],
                      tags |-> [t \in Tag |-> i], volumes |-> Volume]
  BY Zenon DEF CtInit
<1>2. /\ ctCache = None /\ ctPanel = [Closed EXCEPT !.open = TRUE] /\ ctLoads = {}
      /\ ctAction = None /\ ctRemoved = {} /\ ctConfirmed = {} /\ ctUnlisted = FALSE
  BY DEF CtInit
<1>3. ctServer \in CtServerRecord
  BY <1>1 DEF CtServerRecord
<1>4. ctPanel \in CtPanelRecord /\ ctPanel.page = None
  BY <1>2, Zenon DEF Closed, CtPanelRecord
<1>5. CtPageInv
  BY <1>2, <1>3, <1>4 DEF CtPageInv
<1>6. CtActionInv /\ CtOnlyNamedGo /\ CtGone /\ CtReloads
  BY <1>2 DEF CtActionInv, CtOnlyNamedGo, CtGone, CtReloads, GoneThings
<1>7. CtCleared
  BY <1>2, <1>4 DEF CtCleared, CtStage
<1> QED
  BY <1>2, <1>5, <1>6, <1>7, Zenon DEF CtInv

LEMMA CtStepInv ==
    ASSUME CtInv, CtNext \/ UNCHANGED ctVars
    PROVE  CtInv'
<1>1. CASE UNCHANGED ctVars
  <2>1. UNCHANGED <<ctServer, ctCache, ctPanel, ctLoads, ctAction, ctRemoved, ctConfirmed,
                    ctUnlisted>>
    BY <1>1 DEF ctVars, ctHistory
  <2>2. CtPageInv' /\ CtActionInv' /\ CtOnlyNamedGo' /\ CtReloads'
    BY <2>1 DEF CtInv, CtPageInv, CtActionInv, CtOnlyNamedGo, CtReloads, CtStage
  <2>3. CtGone' /\ CtCleared'
    BY <2>1 DEF CtInv, CtGone, CtCleared, CtStage, Clean, GoneThings
  <2> QED
    BY <2>1, <2>2, <2>3 DEF CtInv
<1>2. CASE CtChecks \/ CtCloses
  BY <1>2, CtChecksKeeps
<1>3. CASE CtTicks \/ CtRefreshes \/ CtShowsAll \/ CtBack \/ CtCancels
  BY <1>3, CtListStepsKeep
<1>4. ASSUME NEW answer \in BOOLEAN, NEW intent \in Box \cup {None}, CtChecked(answer, intent)
      PROVE  CtInv'
  BY <1>4, CtCheckedKeeps
<1>5. ASSUME NEW answer \in BOOLEAN, NEW load \in ctLoads, CtLoadRuns(load, answer)
      PROVE  CtInv'
  BY <1>5, CtLoadRunsKeeps
<1>6. CASE CtActionFails \/ \E answer \in BOOLEAN : CtActionChecks(answer)
  BY <1>6, CtActionChecksKeeps
<1>7. ASSUME NEW tab \in Tab, CtSwitches(tab) PROVE CtInv'
  BY <1>7, CtSwitchesKeeps
<1>8. ASSUME NEW load \in ctLoads, CtLoadAnswers(load) PROVE CtInv'
  BY <1>8, CtLoadAnswersKeeps
<1>9. ASSUME NEW row \in ctPanel.page.rows, CtOpens(row) \/ CtAsks(row) PROVE CtInv'
  BY <1>9, CtRowStepsKeep
<1>10. CASE \/ CtConfirms
            \/ \E row \in ctPanel.page.rows, op \in {"start", "stop", "restart"} : CtRuns(op, row)
  BY <1>10, CtBeginsKeeps
<1>11. CASE CtActionRuns
  BY <1>11, CtActionRunsKeeps
<1>12. CASE CtActionTold
  BY <1>12, CtActionToldKeeps
<1>13. CASE CtServerChanges
  BY <1>13, CtServerChangesKeeps
<1> QED
  BY <1>1, <1>2, <1>3, <1>4, <1>5, <1>6, <1>7, <1>8, <1>9, <1>10, <1>11, <1>12, <1>13
  DEF CtNext

LEMMA CtInvTyped ==
    ASSUME CtInv
    PROVE  CtTypeOK
BY DEF CtInv, CtPageInv, CtServerRecord, CtPanelRecord, CtPageRecord, CtTypeOK, OnPage

LEMMA CtInvGone ==
    ASSUME CtInv
    PROVE  CtRemovedIsGone
<1>1. ASSUME OnPage, ctLoads = {}, ctAction = None, ~ctUnlisted
      PROVE  \A row \in ctPanel.page.rows : row.thing \notin GoneThings
  <2>1. CtStage = "check"
    BY <1>1 DEF CtStage
  <2> QED
    BY <1>1, <2>1 DEF CtInv, CtCleared, Clean, OnPage
<1> QED
  BY <1>1 DEF CtRemovedIsGone

(***************************************************************************)
(* Following a log.                                                        *)
(***************************************************************************)
\* Without an overlap one tail is there at most, and what waits to be followed is what is
\* selected.
TlAlone ==
    ~tlOverlap => /\ Len(tlChannels) <= 1
                  /\ \A i \in DOMAIN tlStarts : tlStarts[i] = tlView.selected

TlInv == TlTypeOK /\ TlCount <= MaxTails /\ TlAlone /\ TlTailsAreReachable

\* A call that waited to open its tail is gone from those that wait.
LEMMA StartGone ==
    ASSUME tlStarts \in Seq(LogFile), NEW i \in 1..Len(tlStarts), tlStarts' = RemoveAt(tlStarts, i)
    PROVE  /\ tlStarts' \in Seq(LogFile) /\ Len(tlStarts') = Len(tlStarts) - 1
           /\ \A j \in DOMAIN tlStarts' : \E k \in 1..Len(tlStarts) : tlStarts'[j] = tlStarts[k]
<1>1. PICK starts \in Seq(LogFile) : starts = tlStarts
  OBVIOUS
<1>2. PICK at \in DOMAIN starts : at = i
  BY <1>1
<1>3. PICK left : left = RemoveAt(starts, at)
  OBVIOUS
<1>4. /\ left \in Seq(LogFile) /\ Len(left) = Len(starts) - 1
      /\ \A j \in DOMAIN left : left[j] = IF j < at THEN starts[j] ELSE starts[j + 1]
  BY <1>3, RemoveAtFacts
<1>5. ASSUME NEW j \in DOMAIN left PROVE \E k \in 1..Len(starts) : left[j] = starts[k]
  <2>1. j \in 1..Len(starts) /\ j + 1 \in 1..Len(starts)
    BY <1>4
  <2> QED
    BY <1>4, <2>1
<1>6. tlStarts' = left
  BY <1>1, <1>2, <1>3
<1> QED
  BY <1>1, <1>4, <1>5, <1>6

LEMMA ToldToCloseFacts ==
    ASSUME NEW channel \in TlChannel
    PROVE  /\ ToldToClose(channel) \in TlChannel /\ ToldToClose(channel).closing
           /\ ToldToClose(channel).id = channel.id /\ ToldToClose(channel).file = channel.file
BY Zenon DEF ToldToClose, TlChannel

\* While there is room an id is free.
LEMMA NextIdFacts ==
    ASSUME tlChannels \in Seq(TlChannel), Len(tlChannels) < MaxTails
    PROVE  TlNextId \in 1..MaxTails
<1> DEFINE n == Len(tlChannels)
           f == [i \in 1..n |-> tlChannels[i].id]
<1>1. n \in Nat /\ DOMAIN tlChannels = 1..n /\ \A i \in 1..n : tlChannels[i].id \in 1..MaxTails
  <2>1. n \in Nat /\ DOMAIN tlChannels = 1..n /\ \A i \in 1..n : tlChannels[i] \in TlChannel
    OBVIOUS
  <2> QED
    BY <2>1 DEF TlChannel
<1>2. SUFFICES \E id \in 1..MaxTails : \A i \in DOMAIN tlChannels : tlChannels[i].id # id
  BY DEF TlNextId
<1>3. SUFFICES ASSUME \A id \in 1..MaxTails : \E i \in 1..n : tlChannels[i].id = id
               PROVE  FALSE
  BY <1>1
<1>4. f \in Surjection(1..n, 1..MaxTails)
  BY <1>1, <1>3 DEF Surjection
<1>5. ExistsSurjection(1..n, 1..MaxTails)
  BY <1>4 DEF ExistsSurjection
<1>6. Cardinality(1..MaxTails) <= n
  BY <1>1, <1>5, FS_SurjCardinalityBound
<1>7. Cardinality(1..MaxTails) = MaxTails
  BY TlMaxTailsAssumption, FS_Interval
<1> QED
  BY <1>1, <1>6, <1>7, TlMaxTailsAssumption

\* What is stopped is what could be reached.
LEMMA TlStopFacts ==
    ASSUME TlInv, TlStops
    PROVE  /\ tlChannels' \in Seq(TlChannel) /\ Len(tlChannels') = Len(tlChannels)
           /\ tlListed' \in 1..MaxTails \cup {None}
           /\ ~tlOverlap => \A i \in DOMAIN tlChannels' : tlChannels'[i].closing
<1> DEFINE n == Len(tlChannels)
<1>1. /\ n \in Nat /\ DOMAIN tlChannels = 1..n
      /\ \A i \in 1..n : tlChannels[i] \in TlChannel
  BY DEF TlInv, TlTypeOK
<1>2. /\ tlChannels' = TlStopped /\ tlListed' = None
      /\ ~tlOverlap => \A i \in 1..n :
             tlChannels[i].closing \/ tlChannels[i].id = tlListed
  BY <1>1 DEF TlStops, TlInv, TlTailsAreReachable
<1>3. CASE tlListed = None
  <2>1. ~tlOverlap => \A i \in 1..n : tlChannels[i].closing
    BY <1>1, <1>2, <1>3, TlNoneAssumption DEF TlChannel
  <2> QED
    BY <1>1, <1>2, <1>3, <2>1 DEF TlStopped, TlInv, TlTypeOK
<1>4. CASE tlListed # None
  <2> DEFINE stopped == [i \in 1..n |-> IF tlChannels[i].id = tlListed
                                        THEN ToldToClose(tlChannels[i]) ELSE tlChannels[i]]
  <2>1. tlChannels' = stopped
    BY <1>1, <1>2, <1>4 DEF TlStopped
  <2>2. \A i \in 1..n : /\ stopped[i] \in TlChannel
                        /\ tlChannels[i].id = tlListed => stopped[i].closing
                        /\ tlChannels[i].closing => stopped[i].closing
    BY <1>1, ToldToCloseFacts
  <2>3. stopped \in Seq(TlChannel) /\ Len(stopped) = n /\ DOMAIN stopped = 1..n
    BY <1>1, <2>2
  <2> HIDE DEF stopped
  <2> QED
    BY <1>2, <2>1, <2>2, <2>3
<1> QED
  BY <1>3, <1>4

LEMMA TlInitInv ==
    ASSUME TlInit
    PROVE  TlInv
<1>1. /\ tlView = [selected |-> None, shows |-> {}] /\ tlStarts = <<>> /\ tlChannels = <<>>
      /\ tlListed = None /\ tlOverlap = FALSE
  BY DEF TlInit
<1>2. Len(tlStarts) = 0 /\ Len(tlChannels) = 0 /\ DOMAIN tlStarts = {} /\ DOMAIN tlChannels = {}
  BY <1>1
<1>3. TlTypeOK
  <2>1. tlView \in [selected : LogFile \cup {None}, shows : SUBSET LogFile]
    BY <1>1
  <2>2. tlStarts \in Seq(LogFile) /\ tlChannels \in Seq(TlChannel)
    BY <1>1
  <2> QED
    BY <1>1, <2>1, <2>2, Zenon DEF TlTypeOK
<1> QED
  BY <1>2, <1>3, TlMaxTailsAssumption DEF TlInv, TlCount, TlAlone, TlTailsAreReachable

LEMMA TlStepInv ==
    ASSUME TlInv, TlNext \/ UNCHANGED tlVars
    PROVE  TlInv'
<1>1. CASE UNCHANGED tlVars
  BY <1>1 DEF tlVars, TlInv, TlTypeOK, TlCount, TlAlone, TlTailsAreReachable
<1> DEFINE n == Len(tlChannels)
           s == Len(tlStarts)
<1>2. /\ n \in Nat /\ s \in Nat /\ DOMAIN tlChannels = 1..n /\ DOMAIN tlStarts = 1..s
      /\ tlStarts \in Seq(LogFile) /\ tlChannels \in Seq(TlChannel) /\ n + s <= MaxTails
      /\ tlView \in [selected : LogFile \cup {None}, shows : SUBSET LogFile]
      /\ tlListed \in 1..MaxTails \cup {None} /\ tlOverlap \in BOOLEAN
      /\ \A i \in 1..n : tlChannels[i] \in TlChannel
      /\ \A i \in 1..s : tlStarts[i] \in LogFile
  BY DEF TlInv, TlTypeOK, TlCount
<1>3. ASSUME NEW f \in LogFile, TlSelects(f) PROVE TlInv'
  <2>1. /\ n + s < MaxTails /\ TlStops /\ tlStarts' = Append(tlStarts, f)
        /\ tlView' = [selected |-> f, shows |-> {}]
        /\ tlOverlap' = (tlOverlap \/ tlStarts # <<>>)
    BY <1>3 DEF TlSelects, TlCount
  <2>2. /\ tlChannels' \in Seq(TlChannel) /\ Len(tlChannels') = n
        /\ tlListed' \in 1..MaxTails \cup {None}
        /\ ~tlOverlap => \A i \in DOMAIN tlChannels' : tlChannels'[i].closing
    BY <2>1, TlStopFacts
  <2>3. tlStarts' \in Seq(LogFile) /\ Len(tlStarts') = s + 1
    BY <1>2, <2>1
  <2>4. tlStarts = <<>> => \A i \in DOMAIN tlStarts' : tlStarts'[i] = f
    BY <2>1
  <2>5. TlTypeOK' /\ (TlCount <= MaxTails)'
    BY <1>2, <2>1, <2>2, <2>3, TlMaxTailsAssumption DEF TlTypeOK, TlCount
  <2>6. tlView'.selected = f
    BY <2>1
  <2>7. TlAlone'
    BY <1>2, <2>1, <2>2, <2>4, <2>6, Zenon DEF TlInv, TlAlone
  <2>8. TlTailsAreReachable'
    BY <2>1, <2>2, Zenon DEF TlTailsAreReachable
  <2> QED
    BY <2>5, <2>7, <2>8 DEF TlInv
<1>4. CASE TlUnmounts
  <2>1. /\ TlStops /\ tlStarts' = tlStarts
        /\ tlView' = [selected |-> None, shows |-> {}]
        /\ tlOverlap' = (tlOverlap \/ tlStarts # <<>>)
    BY <1>4 DEF TlUnmounts
  <2>2. /\ tlChannels' \in Seq(TlChannel) /\ Len(tlChannels') = n
        /\ tlListed' \in 1..MaxTails \cup {None}
        /\ ~tlOverlap => \A i \in DOMAIN tlChannels' : tlChannels'[i].closing
    BY <2>1, TlStopFacts
  <2>3. TlTypeOK' /\ (TlCount <= MaxTails)'
    BY <1>2, <2>1, <2>2 DEF TlTypeOK, TlCount
  <2>4. tlStarts = <<>> => DOMAIN tlStarts' = {}
    BY <2>1
  <2>5. TlAlone'
    BY <1>2, <2>1, <2>2, <2>4, Zenon DEF TlInv, TlAlone
  <2>6. TlTailsAreReachable'
    BY <2>1, <2>2, Zenon DEF TlTailsAreReachable
  <2> QED
    BY <2>3, <2>5, <2>6 DEF TlInv
<1>5. ASSUME NEW i \in DOMAIN tlStarts, TlOpens(i) PROVE TlInv'
  <2> DEFINE channel == [id |-> TlNextId, file |-> tlStarts[i], closing |-> FALSE]
  <2>1. /\ tlChannels' = Append(tlChannels, channel) /\ tlListed' = TlNextId
        /\ tlStarts' = RemoveAt(tlStarts, i) /\ tlView' = tlView
        /\ tlOverlap' = (tlOverlap \/ tlChannels # <<>>)
    BY <1>5 DEF TlOpens
  <2>2. n < MaxTails /\ i \in 1..s
    BY <1>2, <1>5, TlMaxTailsAssumption
  <2>3. TlNextId \in 1..MaxTails
    BY <1>2, <2>2, NextIdFacts
  <2>4. channel \in TlChannel
    BY <1>2, <2>2, <2>3 DEF TlChannel
  <2>5. /\ tlStarts' \in Seq(LogFile) /\ Len(tlStarts') = s - 1
        /\ \A j \in DOMAIN tlStarts' : \E k \in 1..s : tlStarts'[j] = tlStarts[k]
    BY <1>2, <2>1, <2>2, StartGone, Zenon
  <2>6. tlChannels' \in Seq(TlChannel) /\ Len(tlChannels') = n + 1
    BY <1>2, <2>1, <2>4
  <2>7. TlTypeOK' /\ (TlCount <= MaxTails)'
    BY <1>2, <2>1, <2>2, <2>3, <2>5, <2>6, TlMaxTailsAssumption DEF TlTypeOK, TlCount
  <2> HIDE DEF channel
  <2>8. tlChannels = <<>> => Len(tlChannels') = 1 /\ \A j \in DOMAIN tlChannels' :
        tlChannels'[j] = channel
    BY <2>1
  <2>9. channel.file = tlStarts[i] /\ channel.id = TlNextId
    BY DEF channel
  <2>10. ~tlOverlap => tlStarts[i] = tlView.selected
    BY <1>2, <2>2 DEF TlInv, TlAlone
  <2>11. TlAlone'
    <3>1. ASSUME ~tlOverlap' PROVE Len(tlChannels') <= 1
      <4>1. tlChannels = <<>>
        BY <2>1, <3>1, Zenon
      <4>2. n = 0
        BY <4>1
      <4> QED
        BY <2>6, <4>2
    <3>2. ASSUME ~tlOverlap', NEW j \in DOMAIN tlStarts' PROVE tlStarts'[j] = tlView'.selected
      BY <1>2, <2>1, <2>5, <3>2, Zenon DEF TlInv, TlAlone
    <3> QED
      BY <3>1, <3>2 DEF TlAlone
  <2>12. TlTailsAreReachable'
    BY <2>1, <2>8, <2>9, <2>10, Zenon DEF TlTailsAreReachable
  <2> QED
    BY <2>7, <2>11, <2>12 DEF TlInv
<1>6. ASSUME NEW i \in DOMAIN tlStarts, TlCannotOpen(i) PROVE TlInv'
  <2>1. /\ tlStarts' = RemoveAt(tlStarts, i) /\ i \in 1..s
        /\ UNCHANGED <<tlView, tlChannels, tlListed, tlOverlap>>
    BY <1>2, <1>6 DEF TlCannotOpen
  <2>2. /\ tlStarts' \in Seq(LogFile) /\ Len(tlStarts') = s - 1
        /\ \A j \in DOMAIN tlStarts' : \E k \in 1..s : tlStarts'[j] = tlStarts[k]
    BY <1>2, <2>1, StartGone, Zenon
  <2>3. TlTypeOK' /\ (TlCount <= MaxTails)'
    BY <1>2, <2>1, <2>2, TlMaxTailsAssumption DEF TlTypeOK, TlCount
  <2>4. TlAlone' /\ TlTailsAreReachable'
    BY <1>2, <2>1, <2>2, Zenon DEF TlInv, TlAlone, TlTailsAreReachable
  <2> QED
    BY <2>3, <2>4 DEF TlInv
<1>7. ASSUME NEW i \in DOMAIN tlChannels, TlData(i) PROVE TlInv'
  <2>1. /\ tlView' = [tlView EXCEPT !.shows = tlView.shows \cup {tlChannels[i].file}]
        /\ UNCHANGED <<tlStarts, tlChannels, tlListed, tlOverlap>>
    BY <1>7 DEF TlData
  <2>2. tlChannels[i].file \in LogFile
    BY <1>2, <1>7 DEF TlChannel
  <2>3. /\ tlView' \in [selected : LogFile \cup {None}, shows : SUBSET LogFile]
        /\ tlView'.selected = tlView.selected
    BY <1>2, <2>1, <2>2
  <2> QED
    BY <2>1, <2>3 DEF TlInv, TlTypeOK, TlCount, TlAlone, TlTailsAreReachable
<1>8. ASSUME NEW i \in DOMAIN tlChannels, TlEnds(i) PROVE TlInv'
  <2>1. /\ tlChannels' = RemoveAt(tlChannels, i) /\ tlListed' = None /\ i \in 1..n
        /\ UNCHANGED <<tlView, tlStarts, tlOverlap>>
    BY <1>2, <1>8 DEF TlEnds
  <2>2. tlChannels' \in Seq(TlChannel) /\ Len(tlChannels') = n - 1
    BY <1>2, <2>1, RemoveAtFacts, Zenon
  <2>3. TlTypeOK' /\ (TlCount <= MaxTails)'
    BY <1>2, <2>1, <2>2, TlMaxTailsAssumption DEF TlTypeOK, TlCount
  <2>4. ~tlOverlap => n <= 1
    BY DEF TlInv, TlAlone
  <2>5. ~tlOverlap => DOMAIN tlChannels' = {}
    BY <1>2, <2>1, <2>2, <2>4
  <2>6. TlAlone' /\ TlTailsAreReachable'
    BY <1>2, <2>1, <2>2, <2>4, <2>5 DEF TlInv, TlAlone, TlTailsAreReachable
  <2> QED
    BY <2>3, <2>6 DEF TlInv
<1>9. CASE TlTeardown
  <2> DEFINE told == [i \in 1..n |-> ToldToClose(tlChannels[i])]
  <2>1. tlChannels' = told /\ tlListed' = None /\ UNCHANGED <<tlView, tlStarts, tlOverlap>>
    BY <1>2, <1>9 DEF TlTeardown
  <2>2. \A i \in 1..n : told[i] \in TlChannel /\ told[i].closing
    BY <1>2, ToldToCloseFacts
  <2>3. told \in Seq(TlChannel) /\ Len(told) = n /\ DOMAIN told = 1..n
    BY <1>2, <2>2
  <2> HIDE DEF told
  <2>4. TlTypeOK' /\ (TlCount <= MaxTails)'
    BY <1>2, <2>1, <2>3, TlMaxTailsAssumption DEF TlTypeOK, TlCount
  <2>5. TlAlone' /\ TlTailsAreReachable'
    BY <2>1, <2>2, <2>3 DEF TlInv, TlAlone, TlTailsAreReachable
  <2> QED
    BY <2>4, <2>5 DEF TlInv
<1> QED
  BY <1>1, <1>3, <1>4, <1>5, <1>6, <1>7, <1>8, <1>9 DEF TlNext

(***************************************************************************)
(* Polling the statistics.                                                 *)
(***************************************************************************)
\* What the service has of each view, and what its effect has asked for last.
HasOf(listed, object) ==
    [v \in View |-> IF listed = None THEN None ELSE object[listed].subscribers[v]]
StHas == HasOf(stListed, stObject)
StWants == [v \in View |-> IF stSeen THEN stView[v] ELSE None]

\* A queue of calls about views of which the service has `has`: the calls about a view take
\* turns, and the last one says what the view wants.  Only a loss takes away what a view
\* has without a call.
InTurn(q, has) ==
    /\ \A j \in DOMAIN q :
           (q[j].op = "subscribe" /\ \A k \in DOMAIN q : k < j => q[k].view # q[j].view)
               => has[q[j].view] = None
    /\ \A i, j \in DOMAIN q :
           i < j /\ q[i].view = q[j].view
               /\ (\A k \in DOMAIN q : i < k /\ k < j => q[k].view # q[i].view)
           => q[i].op # q[j].op
Says(q, has, wants) ==
    /\ \A i \in DOMAIN q :
           (\A k \in DOMAIN q : i < k => q[k].view # q[i].view) => q[i].mode = wants[q[i].view]
    /\ \A v \in View :
           (\A i \in DOMAIN q : q[i].view # v) => has[v] \in {None, wants[v]}
InOrder(q, has, wants) == InTurn(q, has) /\ Says(q, has, wants)

Modes == [View -> Mode \cup {None}]

LEMMA CallParts ==
    ASSUME NEW call \in StCallRecord
    PROVE  /\ call.view \in View /\ call.op \in {"subscribe", "unsubscribe"}
           /\ call.mode \in Mode \cup {None}
           /\ call.op = "subscribe" <=> call.mode # None
BY StNoneAssumption DEF StCallRecord, Call, Mode

\* Calls are added, one about each view that wants something else than before.
LEMMA CallsAdded ==
    ASSUME NEW q \in Seq(StCallRecord), NEW s \in Seq(StCallRecord),
           NEW has \in Modes, NEW wants \in Modes, NEW now \in Modes,
           InOrder(q, has, wants),
           \A i, j \in DOMAIN s : s[i].view = s[j].view => i = j,
           \A i \in DOMAIN s : /\ s[i].mode = now[s[i].view]
                               /\ (now[s[i].view] = None) # (wants[s[i].view] = None),
           \A v \in View : (\A i \in DOMAIN s : s[i].view # v) => now[v] = wants[v]
    PROVE  q \o s \in Seq(StCallRecord) /\ InOrder(q \o s, has, now)
<1> DEFINE n == Len(q)
           m == Len(s)
           r == q \o s
<1>1. /\ n \in Nat /\ m \in Nat /\ DOMAIN q = 1..n /\ DOMAIN s = 1..m
      /\ \A i \in 1..n : q[i] \in StCallRecord
      /\ \A i \in 1..m : s[i] \in StCallRecord
  OBVIOUS
<1>2. /\ r \in Seq(StCallRecord) /\ DOMAIN r = 1..(n + m)
      /\ \A i \in 1..n : r[i] = q[i]
      /\ \A i \in 1..(n + m) : ~(i <= n) => i - n \in 1..m /\ r[i] = s[i - n]
  BY <1>1
<1> HIDE DEF r, n, m
<1>3. \A i \in 1..(n + m) : (i <= n => i \in 1..n) /\ r[i] \in StCallRecord
  BY <1>1, <1>2
\* The last call about a view before the ones that are added.
<1>4. ASSUME NEW j \in 1..(n + m), ~(j <= n),
             NEW i \in 1..n, q[i].view = r[j].view,
             \A k \in 1..n : i < k => q[k].view # q[i].view
      PROVE  q[i].op # r[j].op
  <2>1. j - n \in 1..m /\ r[j] = s[j - n]
    BY <1>2, <1>4
  <2>2. q[i].mode = wants[q[i].view]
    BY <1>1, <1>4 DEF InOrder, Says
  <2>3. /\ r[j].mode = now[r[j].view]
        /\ (now[r[j].view] = None) # (wants[r[j].view] = None)
    BY <1>1, <2>1
  <2> QED
    BY <1>1, <1>3, <1>4, <2>2, <2>3, CallParts
<1>5. InTurn(r, has)
  <2>1. ASSUME NEW j \in 1..(n + m), r[j].op = "subscribe",
               \A k \in 1..(n + m) : k < j => r[k].view # r[j].view
        PROVE  has[r[j].view] = None
    <3>1. CASE j <= n
      <4>1. j \in 1..n /\ r[j] = q[j]
        BY <1>2, <1>3, <3>1
      <4>2. \A k \in 1..n : k < j => q[k].view # q[j].view
        BY <1>1, <1>2, <2>1, <4>1
      <4> QED
        BY <1>1, <2>1, <4>1, <4>2 DEF InOrder, InTurn
    <3>2. CASE ~(j <= n)
      <4>1. j - n \in 1..m /\ r[j] = s[j - n] /\ r[j].view \in View
        BY <1>2, <1>3, <2>1, <3>2, CallParts
      <4>2. \A k \in 1..n : q[k].view # r[j].view
        <5>1. ASSUME NEW k \in 1..n PROVE k \in 1..(n + m) /\ k < j
          BY <1>1, <2>1, <3>2
        <5> QED
          BY <1>2, <2>1, <5>1
      <4>3. has[r[j].view] \in {None, wants[r[j].view]}
        BY <1>1, <4>1, <4>2 DEF InOrder, Says
      <4>4. r[j].mode # None
        BY <1>3, <2>1, CallParts
      <4>5. /\ r[j].mode = now[r[j].view]
            /\ (now[r[j].view] = None) # (wants[r[j].view] = None)
        BY <1>1, <4>1
      <4> QED
        BY <4>3, <4>4, <4>5
    <3> QED
      BY <3>1, <3>2
  <2>2. ASSUME NEW i \in 1..(n + m), NEW j \in 1..(n + m), i < j, r[i].view = r[j].view,
               \A k \in 1..(n + m) : i < k /\ k < j => r[k].view # r[i].view
        PROVE  r[i].op # r[j].op
    <3>1. CASE j <= n
      <4>1. i \in 1..n /\ j \in 1..n /\ r[i] = q[i] /\ r[j] = q[j]
        BY <1>1, <1>2, <2>2, <3>1
      <4>2. \A k \in 1..n : i < k /\ k < j => q[k].view # q[i].view
        BY <1>1, <1>2, <2>2, <4>1
      <4> QED
        BY <1>1, <2>2, <4>1, <4>2 DEF InOrder, InTurn
    <3>2. CASE ~(j <= n) /\ i <= n
      <4>1. i \in 1..n /\ r[i] = q[i]
        BY <1>2, <1>3, <3>2
      <4>2. ASSUME NEW k \in 1..n, i < k PROVE q[k].view # q[i].view
        <5>1. k \in 1..(n + m) /\ k < j
          BY <1>1, <2>2, <3>2
        <5> QED
          BY <1>2, <2>2, <4>1, <4>2, <5>1
      <4> QED
        BY <1>4, <2>2, <3>2, <4>1, <4>2
    <3>3. CASE ~(i <= n)
      <4>1. ~(j <= n)
        BY <1>1, <2>2, <3>3
      <4>2. /\ i - n \in 1..m /\ j - n \in 1..m /\ r[i] = s[i - n] /\ r[j] = s[j - n]
        BY <1>2, <3>3, <4>1
      <4>3. i - n = j - n
        BY <1>1, <2>2, <4>2
      <4> QED
        BY <1>1, <2>2, <4>3
    <3> QED
      BY <3>1, <3>2, <3>3
  <2>3. DOMAIN r = 1..(n + m)
    BY <1>2
  <2>4. \A j \in DOMAIN r :
            (r[j].op = "subscribe" /\ \A k \in DOMAIN r : k < j => r[k].view # r[j].view)
                => has[r[j].view] = None
    BY <2>1, <2>3, Zenon
  <2>5. \A i, j \in DOMAIN r :
            i < j /\ r[i].view = r[j].view
                /\ (\A k \in DOMAIN r : i < k /\ k < j => r[k].view # r[i].view)
            => r[i].op # r[j].op
    BY <2>2, <2>3
  <2> QED
    BY <2>4, <2>5 DEF InTurn
<1>6. Says(r, has, now)
  <2>1. ASSUME NEW i \in 1..(n + m), \A k \in 1..(n + m) : i < k => r[k].view # r[i].view
        PROVE  r[i].mode = now[r[i].view]
    <3>1. CASE i <= n
      <4>1. i \in 1..n /\ r[i] = q[i] /\ r[i].view \in View
        BY <1>2, <1>3, <2>1, <3>1, CallParts
      <4>2. \A k \in 1..n : i < k => q[k].view # q[i].view
        BY <1>1, <1>2, <2>1, <4>1
      <4>3. q[i].mode = wants[q[i].view]
        BY <1>1, <4>1, <4>2 DEF InOrder, Says
      <4>4. ASSUME NEW k \in 1..m PROVE s[k].view # r[i].view
        <5>1. k + n \in 1..(n + m) /\ ~(k + n <= n) /\ i < k + n /\ (k + n) - n = k
          BY <1>1, <3>1
        <5>2. r[k + n] = s[k]
          BY <1>2, <5>1
        <5> QED
          BY <2>1, <5>1, <5>2
      <4>5. now[r[i].view] = wants[r[i].view]
        BY <1>1, <4>1, <4>4
      <4> QED
        BY <4>1, <4>3, <4>5
    <3>2. CASE ~(i <= n)
      <4>1. i - n \in 1..m /\ r[i] = s[i - n]
        BY <1>2, <2>1, <3>2
      <4> QED
        BY <1>1, <4>1
    <3> QED
      BY <3>1, <3>2
  <2>2. ASSUME NEW v \in View, \A i \in 1..(n + m) : r[i].view # v
        PROVE  has[v] \in {None, now[v]}
    <3>1. \A i \in 1..n : q[i].view # v
      BY <1>1, <1>2, <2>2
    <3>2. ASSUME NEW k \in 1..m PROVE s[k].view # v
      <4>1. k + n \in 1..(n + m) /\ ~(k + n <= n) /\ (k + n) - n = k
        BY <1>1
      <4>2. r[k + n] = s[k]
        BY <1>2, <4>1
      <4> QED
        BY <2>2, <4>1, <4>2
    <3>3. has[v] \in {None, wants[v]}
      BY <1>1, <3>1 DEF InOrder, Says
    <3> QED
      BY <1>1, <3>2, <3>3
  <2> QED
    BY <1>2, <2>1, <2>2, Zenon DEF Says
<1> QED
  BY <1>2, <1>5, <1>6 DEF InOrder, r

\* A call is answered: the service has what it says, or nothing, and of no other view more.
LEMMA CallTaken ==
    ASSUME NEW q \in Seq(StCallRecord), q # <<>>,
           NEW has \in Modes, NEW wants \in Modes, NEW now \in Modes,
           InOrder(q, has, wants),
           now[Head(q).view] \in {None, Head(q).mode},
           \A v \in View : v # Head(q).view => now[v] \in {None, has[v]}
    PROVE  Tail(q) \in Seq(StCallRecord) /\ InOrder(Tail(q), now, wants)
<1> DEFINE n == Len(q)
           r == Tail(q)
<1>1. /\ n \in Nat \ {0} /\ DOMAIN q = 1..n /\ Head(q) = q[1] /\ 1 \in 1..n
      /\ \A i \in 1..n : q[i] \in StCallRecord
  OBVIOUS
<1>2. /\ r \in Seq(StCallRecord) /\ DOMAIN r = 1..(n - 1)
      /\ \A i \in 1..(n - 1) : i + 1 \in 1..n /\ r[i] = q[i + 1]
  BY <1>1
<1> HIDE DEF r, n
<1>3. \A i \in 2..n : i - 1 \in 1..(n - 1) /\ r[i - 1] = q[i] /\ i \in 1..n
  <2>1. ASSUME NEW i \in 2..n PROVE i - 1 \in 1..(n - 1) /\ (i - 1) + 1 = i /\ i \in 1..n
    BY <1>1
  <2> QED
    BY <1>2, <2>1
<1>4. \A i \in 1..n : i = 1 \/ i \in 2..n
  BY <1>1
<1>5. InTurn(r, now)
  <2>1. ASSUME NEW j \in 1..(n - 1), r[j].op = "subscribe",
               \A k \in 1..(n - 1) : k < j => r[k].view # r[j].view
        PROVE  now[r[j].view] = None
    <3>1. j + 1 \in 1..n /\ r[j] = q[j + 1] /\ q[j + 1].view \in View /\ 1 < j + 1
      BY <1>1, <1>2, <2>1, CallParts
    <3>2. ASSUME NEW k \in 1..n, 1 < k, k < j + 1 PROVE q[k].view # q[j + 1].view
      <4>1. k \in 2..n /\ k - 1 < j
        BY <1>1, <2>1, <3>2
      <4> QED
        BY <1>3, <2>1, <3>1, <4>1, Zenon
    <3>3. CASE q[1].view = q[j + 1].view
      <4>1. q[1].op # q[j + 1].op
        BY <1>1, <3>1, <3>2, <3>3 DEF InOrder, InTurn
      <4>2. q[1].mode = None
        BY <1>1, <2>1, <3>1, <4>1, CallParts
      <4> QED
        BY <1>1, <3>1, <3>3, <4>2
    <3>4. CASE q[1].view # q[j + 1].view
      <4>1. \A k \in 1..n : k < j + 1 => q[k].view # q[j + 1].view
        <5>1. ASSUME NEW k \in 1..n, k < j + 1 PROVE k = 1 \/ 1 < k
          BY <1>1, <5>1
        <5> QED
          BY <3>2, <3>4, <5>1
      <4>2. has[q[j + 1].view] = None
        BY <1>1, <2>1, <3>1, <4>1 DEF InOrder, InTurn
      <4> QED
        BY <1>1, <3>1, <3>4, <4>2
    <3> QED
      BY <3>3, <3>4
  <2>2. ASSUME NEW i \in 1..(n - 1), NEW j \in 1..(n - 1), i < j, r[i].view = r[j].view,
               \A k \in 1..(n - 1) : i < k /\ k < j => r[k].view # r[i].view
        PROVE  r[i].op # r[j].op
    <3>1. /\ i + 1 \in 1..n /\ j + 1 \in 1..n /\ r[i] = q[i + 1] /\ r[j] = q[j + 1]
          /\ i + 1 < j + 1
      BY <1>1, <1>2, <2>2
    <3>2. ASSUME NEW k \in 1..n, i + 1 < k, k < j + 1 PROVE q[k].view # q[i + 1].view
      <4>1. k \in 2..n /\ i < k - 1 /\ k - 1 < j
        BY <1>1, <2>2, <3>2
      <4> QED
        BY <1>3, <2>2, <3>1, <4>1, Zenon
    <3> QED
      BY <1>1, <2>2, <3>1, <3>2 DEF InOrder, InTurn
  <2>3. DOMAIN r = 1..(n - 1)
    BY <1>2
  <2>4. \A j \in DOMAIN r :
            (r[j].op = "subscribe" /\ \A k \in DOMAIN r : k < j => r[k].view # r[j].view)
                => now[r[j].view] = None
    BY <2>1, <2>3
  <2>5. \A i, j \in DOMAIN r :
            i < j /\ r[i].view = r[j].view
                /\ (\A k \in DOMAIN r : i < k /\ k < j => r[k].view # r[i].view)
            => r[i].op # r[j].op
    BY <2>2, <2>3
  <2> QED
    BY <2>4, <2>5 DEF InTurn
<1>6. Says(r, now, wants)
  <2>1. ASSUME NEW i \in 1..(n - 1), \A k \in 1..(n - 1) : i < k => r[k].view # r[i].view
        PROVE  r[i].mode = wants[r[i].view]
    <3>1. i + 1 \in 1..n /\ r[i] = q[i + 1]
      BY <1>2, <2>1
    <3>2. ASSUME NEW k \in 1..n, i + 1 < k PROVE q[k].view # q[i + 1].view
      <4>1. k \in 2..n /\ i < k - 1
        BY <1>1, <2>1, <3>2
      <4> QED
        BY <1>3, <2>1, <3>1, <4>1
    <3> QED
      BY <1>1, <3>1, <3>2 DEF InOrder, Says
  <2>2. ASSUME NEW v \in View, \A i \in 1..(n - 1) : r[i].view # v
        PROVE  now[v] \in {None, wants[v]}
    <3>1. \A k \in 2..n : q[k].view # v
      BY <1>3, <2>2
    <3>2. CASE q[1].view = v
      <4>1. \A k \in 1..n : 1 < k => q[k].view # q[1].view
        BY <1>1, <3>1, <3>2
      <4>2. q[1].mode = wants[v]
        BY <1>1, <3>2, <4>1 DEF InOrder, Says
      <4> QED
        BY <1>1, <3>2, <4>2
    <3>3. CASE q[1].view # v
      <4>1. \A k \in 1..n : q[k].view # v
        BY <1>4, <3>1, <3>3
      <4>2. has[v] \in {None, wants[v]}
        BY <1>1, <4>1 DEF InOrder, Says
      <4> QED
        BY <1>1, <3>3, <4>2
    <3> QED
      BY <3>2, <3>3
  <2> QED
    BY <1>2, <2>1, <2>2, Zenon DEF Says
<1> QED
  BY <1>2, <1>5, <1>6 DEF InOrder, r

\* What the service has is taken away.
LEMMA SomeTaken ==
    ASSUME NEW q \in Seq(StCallRecord),
           NEW has \in Modes, NEW wants \in Modes, NEW now \in Modes,
           InOrder(q, has, wants), \A v \in View : now[v] \in {None, has[v]}
    PROVE  InOrder(q, now, wants)
<1>1. \A i \in DOMAIN q : q[i].view \in View
  BY CallParts
<1> QED
  BY <1>1 DEF InOrder, InTurn, Says

(***************************************************************************)
(* State objects.                                                          *)
(***************************************************************************)
\* The timer of a listed object is that of its fastest view, and it has one.
Fits(state) ==
    /\ \E v \in View : state.subscribers[v] # None
    /\ state.timer = IF \E v \in View : state.subscribers[v] = "stats"
                     THEN Interval("stats") ELSE Interval("overview")
Held(state) == state.timer = NoTimer /\ state.polling
Sane(state, boot) == state.previous \in {NoSample, <<boot>>}

LEMMA WatchedFacts ==
    ASSUME NEW state \in StObjectRecord, NEW v \in View, NEW mode \in Mode \cup {None}
    PROVE  LET now == Watched(state, v, mode)
           IN  /\ now \in StObjectRecord /\ now.timer = state.timer
               /\ now.previous = state.previous /\ now.polling = state.polling
               /\ now.subscribers[v] = mode
               /\ \A u \in View : u # v => now.subscribers[u] = state.subscribers[u]
<1> DEFINE subscribers == [state.subscribers EXCEPT ![v] = mode]
<1>1. /\ subscribers \in [View -> Mode \cup {None}] /\ subscribers[v] = mode
      /\ \A u \in View : u # v => subscribers[u] = state.subscribers[u]
  BY DEF StObjectRecord
<1>2. Watched(state, v, mode) = [state EXCEPT !.subscribers = subscribers]
  BY DEF Watched
<1> HIDE DEF subscribers
<1> QED
  BY <1>1, <1>2 DEF StObjectRecord

LEMMA PacedFacts ==
    ASSUME NEW state \in StObjectRecord,
           NEW timer \in {NoTimer, Interval("stats"), Interval("overview")}
    PROVE  LET now == Paced(state, timer)
           IN  /\ now \in StObjectRecord /\ now.timer = timer
               /\ now.previous = state.previous /\ now.polling = state.polling
               /\ now.subscribers = state.subscribers
BY DEF Paced, StObjectRecord, Mode

LEMMA PollingFacts ==
    ASSUME NEW state \in StObjectRecord, NEW is \in BOOLEAN
    PROVE  LET now == Polling(state, is)
           IN  /\ now \in StObjectRecord /\ now.timer = state.timer
               /\ now.previous = state.previous /\ now.polling = is
               /\ now.subscribers = state.subscribers
BY DEF Polling, StObjectRecord

LEMMA SampledFacts ==
    ASSUME NEW state \in StObjectRecord, stBoot \in {0, 1}
    PROVE  LET now == Sampled(state)
           IN  /\ now \in StObjectRecord /\ now.timer = state.timer
               /\ now.previous = <<stBoot>> /\ now.subscribers = state.subscribers
BY Zenon DEF Sampled, StObjectRecord

LEMMA RescheduledFacts ==
    ASSUME NEW state \in StObjectRecord, \E v \in View : state.subscribers[v] # None
    PROVE  LET now == Rescheduled(state)
           IN  /\ now \in StObjectRecord /\ Fits(now)
               /\ now.previous = state.previous /\ now.polling = state.polling
               /\ now.subscribers = state.subscribers
<1> DEFINE modes == {state.subscribers[v] : v \in View} \ {None}
           timer == IF "stats" \in modes THEN Interval("stats") ELSE Interval("overview")
<1>1. modes # {} /\ ("stats" \in modes <=> \E v \in View : state.subscribers[v] = "stats")
  BY StNoneAssumption
<1>2. Rescheduled(state) = Paced(state, timer)
  BY <1>1 DEF Rescheduled
<1>3. timer \in {NoTimer, Interval("stats"), Interval("overview")}
  OBVIOUS
<1> HIDE DEF modes
<1>4. timer = IF \E v \in View : state.subscribers[v] = "stats"
              THEN Interval("stats") ELSE Interval("overview")
  BY <1>1
<1> HIDE DEF timer
<1> QED
  BY <1>2, <1>3, <1>4, PacedFacts DEF Fits

LEMMA GoneFacts == Gone \notin StObjectRecord /\ ~Gone.polling
<1>1. ASSUME Gone \in StObjectRecord PROVE FALSE
  <2>1. "timer" \in DOMAIN Gone
    BY <1>1 DEF StObjectRecord
  <2> QED
    BY <2>1 DEF Gone
<1> QED
  BY <1>1 DEF Gone

Objects == [Object -> StObjectRecord \cup {Gone}]

\* An object that is no longer listed is there as long as a poll holds it.
LEMMA DropFacts ==
    ASSUME NEW object \in Objects, NEW o \in Object, object[o] # Gone
    PROVE  LET now == DroppedObject(object, o)
           IN  /\ now \in Objects
               /\ \A p \in Object : p # o => now[p] = object[p]
               /\ now[o] # Gone => Held(now[o]) /\ now[o].previous = object[o].previous
<1>1. object[o] \in StObjectRecord
  BY DEF Objects
<1>2. /\ Paced(object[o], NoTimer) \in StObjectRecord
      /\ Paced(object[o], NoTimer).timer = NoTimer
      /\ Paced(object[o], NoTimer).previous = object[o].previous
      /\ Paced(object[o], NoTimer).polling = object[o].polling
  BY <1>1, PacedFacts
<1> QED
  BY <1>2 DEF DroppedObject, Objects, Held

(***************************************************************************)
(* The invariant.                                                          *)
(***************************************************************************)
\* The listed object is there, at the pace of its views; another one is held by a poll.
ObjectsFit(listed, object, boot) ==
    /\ listed # None => object[listed] # Gone
    /\ \A o \in Object : object[o] # Gone =>
           /\ Sane(object[o], boot)
           /\ IF o = listed THEN Fits(object[o]) ELSE Held(object[o])
StObjects == ObjectsFit(stListed, stObject, stBoot)

\* Without a connection nothing is listed, unless a subscription came after the teardown.
StConnection ==
    /\ stClosing = "torn" => stUp
    /\ stClosing = "closed" => ~stUp
    /\ ~stUp /\ stClosing = "no" => stListed = None

\* Every event is another state than the one before, and the last one the state that is.
StEvents ==
    /\ \A i \in DOMAIN stToWindow :
           stToWindow[i] = ~(IF i = 1 THEN stSeen ELSE stToWindow[i - 1])
    /\ stUp = IF stToWindow = <<>> THEN stSeen ELSE stToWindow[Len(stToWindow)]

\* Once the window knows of the connection, a view without a call under way has what it
\* wants.
StServed ==
    stUp /\ stClosing = "no" /\ stToWindow = <<>> =>
        \A v \in View : (\A i \in DOMAIN stToMain : stToMain[i].view # v) =>
            StHas[v] = StWants[v]

StInv ==
    /\ StTypeOK /\ ~stMixed /\ StObjects /\ StConnection /\ StEvents
    /\ InOrder(stToMain, StHas, StWants) /\ StServed

LEMMA HasFacts ==
    ASSUME NEW listed \in Object \cup {None}, NEW object \in Objects,
           listed # None => object[listed] # Gone
    PROVE  /\ HasOf(listed, object) \in Modes
           /\ listed # None => listed \in Object /\ object[listed] \in StObjectRecord
<1>1. listed # None => listed \in Object /\ object[listed] \in StObjectRecord
  BY DEF Objects
<1>2. \A v \in View : (IF listed = None THEN None ELSE object[listed].subscribers[v])
                         \in Mode \cup {None}
  BY <1>1 DEF StObjectRecord
<1> QED
  BY <1>1, <1>2 DEF HasOf, Modes

LEMMA StFacts ==
    ASSUME StInv
    PROVE  /\ StHas \in Modes /\ StWants \in Modes /\ stObject \in Objects
           /\ stListed # None => stListed \in Object /\ stObject[stListed] \in StObjectRecord
<1>1. /\ stObject \in Objects /\ stListed \in Object \cup {None}
      /\ stListed # None => stObject[stListed] # Gone
  BY DEF StInv, StTypeOK, StObjects, ObjectsFit, Objects
<1>2. StWants \in Modes
  BY DEF StInv, StTypeOK, StWants, Modes
<1> QED
  BY <1>1, <1>2, HasFacts DEF StHas

\* No call is made or answered, and what the service has of a view is at most dropped.
LEMMA StNoCall ==
    ASSUME StInv, StTypeOK', StObjects', StConnection', StEvents', ~stMixed',
           UNCHANGED <<stToMain, stView, stSeen>>,
           \A v \in View : StHas'[v] \in {None, StHas[v]},
           \/ ~(stUp' /\ stClosing' = "no" /\ stToWindow' = <<>>)
           \/ /\ stUp /\ stClosing = "no" /\ stToWindow = <<>>
              /\ \A v \in View : StHas'[v] = StHas[v]
    PROVE  StInv'
<1>1. StHas \in Modes /\ StWants \in Modes /\ StHas' \in Modes /\ StWants' = StWants
  <2>1. StHas \in Modes /\ StWants \in Modes
    BY StFacts
  <2>2. /\ stListed' \in Object \cup {None} /\ stObject' \in Objects
        /\ stListed' # None => stObject'[stListed'] # Gone
    BY DEF StTypeOK, StObjects, ObjectsFit, Objects
  <2>3. HasOf(stListed', stObject') \in Modes
    BY <2>2, HasFacts
  <2> QED
    BY <2>1, <2>3 DEF StWants, StHas
<1>2. PICK now \in Modes : now = StHas'
  BY <1>1
<1>3. InOrder(stToMain, now, StWants)
  BY <1>1, <1>2, SomeTaken DEF StInv, StTypeOK
<1>4. InOrder(stToMain, StHas, StWants)'
  BY <1>1, <1>2, <1>3 DEF InOrder, InTurn, Says
<1>5. StServed'
  BY <1>1 DEF StInv, StServed
<1> QED
  BY <1>4, <1>5 DEF StInv

\* Calls are added at the end of the queue: the objects are left alone.
LEMMA StCallsMade ==
    ASSUME StInv, UNCHANGED <<stUp, stClosing, stBoot, stListed, stObject, stMixed>>,
           stView' \in [View -> Mode \cup {None}], stSeen' \in BOOLEAN,
           stToWindow' \in Seq(BOOLEAN), StEvents',
           NEW s \in Seq(StCallRecord), stToMain' = stToMain \o s,
           \A i, j \in DOMAIN s : s[i].view = s[j].view => i = j,
           \A i \in DOMAIN s : /\ s[i].mode = StWants'[s[i].view]
                               /\ (StWants'[s[i].view] = None) # (StWants[s[i].view] = None),
           \A v \in View : (\A i \in DOMAIN s : s[i].view # v) => StWants'[v] = StWants[v],
           \/ stToWindow' = stToWindow
           \/ \A v \in View : (\A i \in DOMAIN s : s[i].view # v) => StWants'[v] = None
    PROVE  StInv'
<1>1. /\ StHas \in Modes /\ StWants \in Modes /\ stToMain \in Seq(StCallRecord)
      /\ InOrder(stToMain, StHas, StWants)
  BY StFacts DEF StInv, StTypeOK
<1>2. StWants' \in Modes /\ StHas' = StHas
  BY DEF StWants, Modes, StHas
<1>3. PICK now \in Modes : now = StWants'
  BY <1>2
<1>4. PICK has \in Modes : has = StHas
  BY <1>1
<1>5. /\ \A i \in DOMAIN s : /\ s[i].mode = now[s[i].view]
                             /\ (now[s[i].view] = None) # (StWants[s[i].view] = None)
      /\ \A v \in View : (\A i \in DOMAIN s : s[i].view # v) => now[v] = StWants[v]
  BY <1>3
<1>6. /\ stToMain \o s \in Seq(StCallRecord)
      /\ InOrder(stToMain \o s, has, now)
  <2>1. PICK q \in Seq(StCallRecord) : q = stToMain
    BY <1>1
  <2>2. PICK wants \in Modes : wants = StWants
    BY <1>1
  <2>3. /\ InOrder(q, has, wants)
        /\ \A i \in DOMAIN s : /\ s[i].mode = now[s[i].view]
                               /\ (now[s[i].view] = None) # (wants[s[i].view] = None)
        /\ \A v \in View : (\A i \in DOMAIN s : s[i].view # v) => now[v] = wants[v]
    BY <1>1, <1>4, <1>5, <2>1, <2>2
  <2>4. q \o s \in Seq(StCallRecord) /\ InOrder(q \o s, has, now)
    BY <2>3, CallsAdded
  <2> QED
    BY <2>1, <2>4
<1>7. PICK queue \in Seq(StCallRecord) : queue = stToMain'
  BY <1>6, Zenon
<1>8. InOrder(queue, has, now)
  BY <1>6, <1>7
<1>9. InOrder(stToMain, StHas, StWants)'
  <2>1. has = StHas' /\ now = StWants' /\ queue = stToMain'
    BY <1>2, <1>3, <1>4, <1>7
  <2>2. InTurn(queue, has) /\ Says(queue, has, now)
    BY <1>8 DEF InOrder
  <2>3. InTurn(stToMain, StHas)'
    BY <2>1, <2>2
  <2>4. Says(stToMain, StHas, StWants)'
    BY <2>1, <2>2, Zenon DEF Says
  <2> QED
    BY <2>3, <2>4 DEF InOrder
<1>10. stToMain' \in Seq(StCallRecord)
  BY <1>6
<1>11. StTypeOK' /\ StObjects' /\ StConnection' /\ ~stMixed'
  BY <1>10 DEF StInv, StTypeOK, StObjects, StConnection
<1>12. StServed'
  <2>1. ASSUME stUp', stClosing' = "no", stToWindow' = <<>>, NEW v \in View,
               \A i \in DOMAIN queue : queue[i].view # v
        PROVE  has[v] = now[v]
    <3>1. has[v] \in {None, now[v]}
      BY <1>8, <2>1 DEF InOrder, Says
    <3>2. ASSUME NEW i \in DOMAIN s PROVE s[i].view # v
      <4>1. Len(stToMain) + i \in DOMAIN queue /\ queue[Len(stToMain) + i] = s[i]
        BY <1>1, <1>7
      <4> QED
        BY <2>1, <4>1
    <3>3. ASSUME NEW i \in DOMAIN stToMain PROVE stToMain[i].view # v
      <4>1. i \in DOMAIN queue /\ queue[i] = stToMain[i]
        BY <1>1, <1>7
      <4> QED
        BY <2>1, <4>1
    <3>4. CASE stToWindow' = stToWindow
      BY <1>3, <1>4, <2>1, <3>2, <3>3, <3>4 DEF StInv, StServed
    <3>5. CASE now[v] = None
      BY <3>1, <3>5
    <3> QED
      BY <1>3, <3>2, <3>4, <3>5
  <2> QED
    BY <1>2, <1>3, <1>4, <1>7, <2>1 DEF StServed
<1> QED
  BY <1>9, <1>11, <1>12 DEF StInv

\* The first call is answered.
LEMMA StCallAnswered ==
    ASSUME StInv, stToMain # <<>>, stToMain' = Tail(stToMain),
           UNCHANGED <<stUp, stClosing, stBoot, stView, stSeen, stToWindow, stMixed>>,
           stObject' \in Objects, stListed' \in Object \cup {None}, StObjects', StConnection',
           StHas'[Head(stToMain).view] \in {None, Head(stToMain).mode},
           \A v \in View : v # Head(stToMain).view => StHas'[v] \in {None, StHas[v]},
           stUp => /\ StHas'[Head(stToMain).view] = Head(stToMain).mode
                   /\ \A v \in View : v # Head(stToMain).view => StHas'[v] = StHas[v]
    PROVE  StInv'
<1>1. /\ StHas \in Modes /\ StWants \in Modes /\ stToMain \in Seq(StCallRecord)
      /\ InOrder(stToMain, StHas, StWants)
  BY StFacts DEF StInv, StTypeOK
<1>2. StWants' = StWants /\ StHas' \in Modes
  <2>1. HasOf(stListed', stObject') \in Modes
    BY HasFacts, Zenon DEF StObjects, ObjectsFit
  <2> QED
    BY <2>1 DEF StWants, StHas
<1>3. PICK now \in Modes : now = StHas'
  BY <1>2
<1>4. PICK wants \in Modes : wants = StWants
  BY <1>1
<1>5. Tail(stToMain) \in Seq(StCallRecord) /\ InOrder(Tail(stToMain), now, wants)
  <2>1. PICK q \in Seq(StCallRecord) : q = stToMain
    BY <1>1
  <2>2. PICK has \in Modes : has = StHas
    BY <1>1
  <2>3. /\ q # <<>> /\ InOrder(q, has, wants) /\ now[Head(q).view] \in {None, Head(q).mode}
        /\ \A v \in View : v # Head(q).view => now[v] \in {None, has[v]}
    BY <1>1, <1>3, <1>4, <2>1, <2>2
  <2>4. Tail(q) \in Seq(StCallRecord) /\ InOrder(Tail(q), now, wants)
    BY <2>3, CallTaken
  <2> QED
    BY <2>1, <2>4
<1>6. PICK queue \in Seq(StCallRecord) : queue = stToMain'
  BY <1>5
<1>7. InOrder(queue, now, wants)
  BY <1>5, <1>6
<1>8. InOrder(stToMain, StHas, StWants)'
  BY <1>2, <1>3, <1>4, <1>6, <1>7 DEF InOrder, InTurn, Says
<1>9. StTypeOK' /\ StEvents' /\ ~stMixed'
  BY <1>5 DEF StInv, StTypeOK, StEvents, Objects
<1>10. StServed'
  <2>1. ASSUME stUp, stClosing = "no", stToWindow = <<>>, NEW v \in View,
               \A i \in DOMAIN queue : queue[i].view # v
        PROVE  now[v] = wants[v]
    <3>1. \A i \in DOMAIN stToMain : i = 1 \/ (i - 1 \in DOMAIN queue /\ queue[i - 1] = stToMain[i])
      BY <1>1, <1>6
    <3>2. \A i \in DOMAIN stToMain : 1 < i => stToMain[i].view # v
      BY <2>1, <3>1
    <3>3. Head(stToMain) = stToMain[1] /\ 1 \in DOMAIN stToMain
      BY <1>1
    <3>4. CASE stToMain[1].view = v
      <4>1. stToMain[1].mode = StWants[v]
        BY <1>1, <3>2, <3>3, <3>4 DEF InOrder, Says
      <4> QED
        BY <1>3, <1>4, <2>1, <3>3, <3>4, <4>1
    <3>5. CASE stToMain[1].view # v
      <4>1. \A i \in DOMAIN stToMain : stToMain[i].view # v
        BY <2>1, <3>1, <3>5
      <4>2. StHas[v] = StWants[v]
        BY <2>1, <4>1 DEF StInv, StServed
      <4> QED
        BY <1>3, <1>4, <2>1, <3>3, <3>5, <4>2
    <3> QED
      BY <3>4, <3>5
  <2> QED
    BY <1>2, <1>3, <1>4, <1>6, <2>1 DEF StServed
<1> QED
  BY <1>8, <1>9, <1>10 DEF StInv

(***************************************************************************)
(* The window.                                                             *)
(***************************************************************************)
LEMMA StMountsKeeps ==
    ASSUME StInv, NEW v \in View, StUnmounts(v) \/ \E mode \in Mode : StMounts(v, mode)
    PROVE  StInv'
<1>1. PICK mode \in Mode \cup {None}, op \in {"subscribe", "unsubscribe"} :
          /\ stView' = [stView EXCEPT ![v] = mode]
          /\ (mode = None) # (stView[v] = None)
          /\ Call(op, v, mode) \in StCallRecord
          /\ stToMain' = IF stSeen THEN Append(stToMain, Call(op, v, mode)) ELSE stToMain
  <2>1. CASE StUnmounts(v)
    <3>1. Call("unsubscribe", v, None) \in StCallRecord
      BY DEF StCallRecord
    <3> QED
      BY <2>1, <3>1, Zenon DEF StUnmounts
  <2>2. ASSUME NEW mode \in Mode, StMounts(v, mode)
        PROVE  /\ stView' = [stView EXCEPT ![v] = mode] /\ mode # None /\ stView[v] = None
               /\ Call("subscribe", v, mode) \in StCallRecord
               /\ stToMain' = IF stSeen THEN Append(stToMain, Call("subscribe", v, mode))
                              ELSE stToMain
    BY <2>2, StNoneAssumption DEF StMounts, StCallRecord, Mode
  <2> QED
    BY <2>1, <2>2
<1>2. UNCHANGED <<stUp, stClosing, stBoot, stListed, stObject, stSeen, stToWindow, stMixed>>
  BY DEF StMounts, StUnmounts
<1>3. /\ stView \in [View -> Mode \cup {None}] /\ stToMain \in Seq(StCallRecord)
      /\ stSeen \in BOOLEAN /\ stToWindow \in Seq(BOOLEAN)
  BY DEF StInv, StTypeOK
<1>4. /\ stView' \in [View -> Mode \cup {None}] /\ stView'[v] = mode
      /\ \A u \in View : u # v => stView'[u] = stView[u]
  BY <1>1, <1>3
<1>5. StEvents'
  BY <1>2 DEF StInv, StEvents
<1>6. CASE stSeen
  <2> DEFINE s == <<Call(op, v, mode)>>
  <2>1. /\ s \in Seq(StCallRecord) /\ DOMAIN s = {1} /\ s[1] = Call(op, v, mode)
        /\ s[1].view = v /\ s[1].mode = mode
    BY <1>1 DEF Call
  <2>2. stToMain' = stToMain \o s
    BY <1>1, <1>3, <1>6, <2>1
  <2> HIDE DEF s
  <2>3. /\ StWants[v] = stView[v] /\ StWants'[v] = mode
        /\ \A u \in View : u # v => StWants'[u] = StWants[u]
    BY <1>2, <1>4, <1>6 DEF StWants
  <2>4. /\ \A i, j \in DOMAIN s : s[i].view = s[j].view => i = j
        /\ \A i \in DOMAIN s : /\ s[i].mode = StWants'[s[i].view]
                               /\ (StWants'[s[i].view] = None) # (StWants[s[i].view] = None)
        /\ \A u \in View : (\A i \in DOMAIN s : s[i].view # u) => StWants'[u] = StWants[u]
    BY <1>1, <2>1, <2>3
  <2> QED
    BY <1>2, <1>3, <1>4, <1>5, <2>1, <2>2, <2>4, StCallsMade, Zenon
<1>7. CASE ~stSeen
  <2> DEFINE s == <<>>
  <2>1. s \in Seq(StCallRecord) /\ DOMAIN s = {} /\ stToMain' = stToMain \o s
    BY <1>1, <1>3, <1>7
  <2> HIDE DEF s
  <2>2. \A u \in View : StWants'[u] = StWants[u]
    BY <1>2, <1>7 DEF StWants
  <2> QED
    BY <1>2, <1>3, <1>4, <1>5, <2>1, <2>2, StCallsMade, Zenon
<1> QED
  BY <1>6, <1>7

LEMMA CallIsRecord ==
    ASSUME NEW v \in View
    PROVE  /\ Call("unsubscribe", v, None) \in StCallRecord
           /\ Call("unsubscribe", v, None).view = v
           /\ Call("unsubscribe", v, None).mode = None
           /\ \A mode \in Mode : /\ Call("subscribe", v, mode) \in StCallRecord
                                 /\ Call("subscribe", v, mode).view = v
                                 /\ Call("subscribe", v, mode).mode = mode
<1>1. /\ Call("unsubscribe", v, None) \in StCallRecord
      /\ \A mode \in Mode : Call("subscribe", v, mode) \in StCallRecord
  BY DEF StCallRecord
<1> QED
  BY <1>1 DEF Call

\* Calls that are made one after the other are a queue of calls.
LEMMA CallsAreQueued ==
    ASSUME NEW n \in Nat, NEW s, DOMAIN s = 1..n, s = [i \in 1..n |-> s[i]],
           \A i \in 1..n : s[i] \in StCallRecord
    PROVE  s \in Seq(StCallRecord)
OBVIOUS

\* An order of the mounted views names every one of them.
LEMMA OrderFacts ==
    ASSUME NEW mounted \in SUBSET View, NEW order \in [1..Cardinality(mounted) -> mounted],
           \A i, j \in DOMAIN order : order[i] = order[j] => i = j
    PROVE  /\ Cardinality(mounted) \in Nat
           /\ \A v \in mounted : \E i \in 1..Cardinality(mounted) : order[i] = v
<1> DEFINE n == Cardinality(mounted)
<1>1. IsFiniteSet(mounted)
  BY StViewAssumption, FS_Subset
<1>2. n \in Nat
  BY <1>1, FS_CardinalityType
<1>3. Cardinality(1..n) = n
  BY <1>2, FS_Interval
<1>4. order \in Injection(1..n, mounted)
  <2>1. DOMAIN order = 1..n
    OBVIOUS
  <2> QED
    BY <2>1 DEF Injection, IsInjective
<1>5. order \in Surjection(1..n, mounted)
  BY <1>1, <1>3, <1>4, FS_Injection
<1> QED
  BY <1>2, <1>5 DEF Surjection

LEMMA StWindowLearnsKeeps ==
    ASSUME StInv, StWindowLearns
    PROVE  StInv'
<1> DEFINE mounted == {v \in View : stView[v] # None}
           up == Head(stToWindow)
<1>1. /\ stView \in [View -> Mode \cup {None}] /\ stToMain \in Seq(StCallRecord)
      /\ stSeen \in BOOLEAN /\ stToWindow \in Seq(BOOLEAN) /\ stToWindow # <<>>
      /\ stSeen' = up /\ stToWindow' = Tail(stToWindow)
      /\ UNCHANGED <<stUp, stClosing, stBoot, stListed, stObject, stView, stMixed>>
  BY DEF StInv, StTypeOK, StWindowLearns
<1>2. /\ up = stToWindow[1] /\ up \in BOOLEAN /\ 1 \in DOMAIN stToWindow
      /\ Len(stToWindow) \in Nat \ {0} /\ DOMAIN stToWindow = 1..Len(stToWindow)
      /\ Tail(stToWindow) \in Seq(BOOLEAN)
      /\ DOMAIN Tail(stToWindow) = 1..(Len(stToWindow) - 1)
      /\ Len(Tail(stToWindow)) = Len(stToWindow) - 1
      /\ \A i \in 1..(Len(stToWindow) - 1) : Tail(stToWindow)[i] = stToWindow[i + 1]
  BY <1>1
<1>3. up = ~stSeen
  BY <1>1, <1>2, Zenon DEF StInv, StEvents
<1>4. StEvents'
  <2>1. ASSUME NEW i \in 1..(Len(stToWindow) - 1)
        PROVE  stToWindow'[i] = ~(IF i = 1 THEN stSeen' ELSE stToWindow'[i - 1])
    <3>1. /\ i + 1 \in DOMAIN stToWindow /\ i + 1 # 1 /\ (i + 1) - 1 = i
          /\ stToWindow'[i] = stToWindow[i + 1]
      BY <1>1, <1>2
    <3>2. stToWindow[i + 1] = ~stToWindow[i]
      BY <3>1, Zenon DEF StInv, StEvents
    <3>3. CASE i = 1
      BY <1>1, <1>2, <3>1, <3>2, <3>3
    <3>4. CASE i # 1
      <4>1. i - 1 \in 1..(Len(stToWindow) - 1) /\ (i - 1) + 1 = i
        BY <1>2, <3>4
      <4>2. stToWindow'[i - 1] = stToWindow[i]
        BY <1>1, <1>2, <4>1
      <4> QED
        BY <3>1, <3>2, <3>4, <4>2
    <3> QED
      BY <3>3, <3>4
  <2>2. stUp = stToWindow[Len(stToWindow)]
    BY <1>1 DEF StInv, StEvents
  <2>3. stUp' = IF stToWindow' = <<>> THEN stSeen' ELSE stToWindow'[Len(stToWindow')]
    <3>1. CASE Len(stToWindow) = 1
      BY <1>1, <1>2, <2>2, <3>1
    <3>2. CASE Len(stToWindow) # 1
      <4>1. /\ Len(stToWindow) - 1 \in 1..(Len(stToWindow) - 1)
            /\ (Len(stToWindow) - 1) + 1 = Len(stToWindow) /\ Len(stToWindow') # 0
        BY <1>1, <1>2, <3>2
      <4>2. stToWindow'[Len(stToWindow')] = stToWindow[Len(stToWindow)] /\ stToWindow' # <<>>
        BY <1>1, <1>2, <4>1
      <4> QED
        BY <1>1, <2>2, <4>2
    <3> QED
      BY <3>1, <3>2
  <2>4. DOMAIN stToWindow' = 1..(Len(stToWindow) - 1)
    BY <1>1, <1>2
  <2> QED
    BY <2>1, <2>3, <2>4 DEF StEvents
<1>5. PICK order \in [1..Cardinality(mounted) -> mounted] :
          /\ \A i, j \in DOMAIN order : order[i] = order[j] => i = j
          /\ stToMain' = stToMain \o [i \in DOMAIN order |-> EffectCall(order[i], up)]
  <2>1. stSeen' # stSeen
    BY <1>1, <1>3
  <2> QED
    BY <1>1, <2>1, Zenon DEF StWindowLearns
<1> DEFINE n == Cardinality(mounted)
           s == [i \in 1..n |-> EffectCall(order[i], up)]
<1>6. /\ n \in Nat /\ DOMAIN order = 1..n
      /\ \A v \in mounted : \E i \in 1..n : order[i] = v
  <2>1. mounted \in SUBSET View
    BY Zenon
  <2> HIDE DEF mounted
  <2> QED
    BY <1>5, <2>1, OrderFacts, Zenon
<1>7. ASSUME NEW i \in 1..n
      PROVE  /\ order[i] \in View /\ stView[order[i]] \in Mode
             /\ EffectCall(order[i], up) \in StCallRecord
             /\ EffectCall(order[i], up).view = order[i]
             /\ EffectCall(order[i], up).mode = IF up THEN stView[order[i]] ELSE None
  <2>1. order[i] \in View /\ stView[order[i]] \in Mode
    BY <1>1
  <2>2. CASE up
    <3>1. EffectCall(order[i], up) = Call("subscribe", order[i], stView[order[i]])
      BY <2>2, Zenon DEF EffectCall
    <3> HIDE DEF up, mounted
    <3>2. /\ Call("subscribe", order[i], stView[order[i]]) \in StCallRecord
          /\ Call("subscribe", order[i], stView[order[i]]).view = order[i]
          /\ Call("subscribe", order[i], stView[order[i]]).mode = stView[order[i]]
      BY <2>1, CallIsRecord
    <3> QED
      BY <2>1, <2>2, <3>1, <3>2, Zenon
  <2>3. CASE ~up
    <3>1. EffectCall(order[i], up) = Call("unsubscribe", order[i], None)
      BY <2>3, Zenon DEF EffectCall
    <3> QED
      BY <2>1, <2>3, <3>1, CallIsRecord, Zenon
  <2> QED
    BY <1>2, <2>2, <2>3, Zenon
<1>8. /\ s \in Seq(StCallRecord) /\ DOMAIN s = 1..n
      /\ stToMain' = stToMain \o s
      /\ \A i \in 1..n : /\ s[i].view = order[i] /\ order[i] \in View /\ stView[order[i]] # None
                         /\ s[i].mode = IF up THEN stView[order[i]] ELSE None
  <2>1. DOMAIN s = 1..n /\ \A i \in 1..n : s[i] = EffectCall(order[i], up)
    BY Zenon
  <2>2. s = [i \in 1..n |-> s[i]]
    BY Zenon
  <2>3. s \in Seq(StCallRecord)
    <3> HIDE DEF s, n, mounted, up
    <3> QED
      BY <1>6, <1>7, <2>1, <2>2, CallsAreQueued
  <2> QED
    <3>1. stToMain' = stToMain \o s
      BY <1>5, <1>6
    <3> HIDE DEF s, n, mounted, up
    <3>2. \A i \in 1..n : order[i] \in View /\ stView[order[i]] \in Mode
      BY <1>7
    <3>3. \A m \in Mode : m # None
      BY StNoneAssumption DEF Mode
    <3> QED
      BY <1>7, <2>1, <2>3, <3>1, <3>2, <3>3
<1>9. \A v \in View : v \in mounted <=> stView[v] # None
  BY Zenon
<1> HIDE DEF s, n, mounted, up
<1>10. \A v \in View : /\ StWants[v] = IF up THEN None ELSE stView[v]
                       /\ StWants'[v] = IF up THEN stView[v] ELSE None
  BY <1>1, <1>3, Zenon DEF StWants
<1>11. \A i, j \in DOMAIN s : s[i].view = s[j].view => i = j
  BY <1>5, <1>6, <1>8
<1>12. \A i \in DOMAIN s : /\ s[i].mode = StWants'[s[i].view]
                           /\ (StWants'[s[i].view] = None) # (StWants[s[i].view] = None)
  BY <1>8, <1>10
<1>13. ASSUME NEW v \in View, \A i \in DOMAIN s : s[i].view # v
       PROVE  StWants'[v] = None /\ StWants[v] = None
  <2>1. ASSUME v \in mounted PROVE FALSE
    <3>1. PICK i \in 1..n : order[i] = v
      BY <1>6, <2>1
    <3> QED
      BY <1>8, <1>13, <3>1, Zenon
  <2> QED
    BY <1>9, <1>10, <2>1
<1>14. stSeen' \in BOOLEAN /\ stToWindow' \in Seq(BOOLEAN) /\ stView' = stView
  BY <1>1, <1>2
<1>15. \A v \in View : (\A i \in DOMAIN s : s[i].view # v) => StWants'[v] = StWants[v]
  BY <1>13
<1>16. \A v \in View : (\A i \in DOMAIN s : s[i].view # v) => StWants'[v] = None
  BY <1>13
<1>17. UNCHANGED <<stUp, stClosing, stBoot, stListed, stObject, stMixed>>
  BY <1>1
<1>18. stView' \in [View -> Mode \cup {None}]
  BY <1>1
<1>19. s \in Seq(StCallRecord) /\ stToMain' = stToMain \o s
  BY <1>8
<1> QED
  BY <1>4, <1>11, <1>12, <1>14, <1>15, <1>16, <1>17, <1>18, <1>19, StCallsMade, Zenon

(***************************************************************************)
(* The service.                                                            *)
(***************************************************************************)
\* One object changes, and perhaps whether it is the listed one.
LEMMA OneObject ==
    ASSUME NEW listed \in Object \cup {None}, NEW object \in Objects, NEW boot,
           ObjectsFit(listed, object, boot),
           NEW o \in Object, NEW after \in Object \cup {None}, NEW now \in Objects,
           \A p \in Object : p # o => now[p] = object[p] /\ (p = after <=> p = listed),
           after = o => now[o] # Gone,
           now[o] # Gone => /\ Sane(now[o], boot)
                            /\ IF o = after THEN Fits(now[o]) ELSE Held(now[o])
    PROVE  ObjectsFit(after, now, boot)
BY DEF ObjectsFit

LEMMA NewObjectFacts == NewObject \in StObjectRecord /\ NewObject.previous = NoSample
BY DEF NewObject, StObjectRecord

\* A view subscribes with an object that was listed, or with a new one.
LEMMA SubscribesFacts ==
    ASSUME NEW object \in Objects, NEW o \in Object, object[o] \in StObjectRecord,
           NEW call \in StCallRecord, call.op = "subscribe", Subscribes(o, object, call)
    PROVE  /\ stListed' = o /\ stObject' \in Objects /\ stObject'[o] \in StObjectRecord
           /\ Fits(stObject'[o]) /\ stObject'[o].previous = object[o].previous
           /\ \A p \in Object : p # o => stObject'[p] = object[p]
           /\ stObject'[o].subscribers[call.view] = call.mode
           /\ \A v \in View : v # call.view =>
                  stObject'[o].subscribers[v] = object[o].subscribers[v]
<1>1. call.view \in View /\ call.mode \in Mode \cup {None} /\ call.mode # None
  BY CallParts
<1>2. PICK first : first = Watched(object[o], call.view, call.mode)
  OBVIOUS
<1>3. /\ first \in StObjectRecord /\ first.previous = object[o].previous
      /\ first.subscribers[call.view] = call.mode
      /\ \A v \in View : v # call.view => first.subscribers[v] = object[o].subscribers[v]
  BY <1>1, <1>2, WatchedFacts
<1>4. PICK second : second = Rescheduled(first)
  OBVIOUS
<1>5. /\ second \in StObjectRecord /\ second.previous = first.previous
      /\ second.subscribers = first.subscribers /\ Fits(second)
  BY <1>1, <1>3, <1>4, RescheduledFacts
<1>6. PICK third : third = Polling(second, TRUE)
  BY Zenon
<1>7. /\ third \in StObjectRecord /\ third.previous = second.previous
      /\ third.subscribers = second.subscribers /\ third.timer = second.timer
  BY <1>5, <1>6, PollingFacts, Zenon
<1>8. Fits(third)
  BY <1>5, <1>7 DEF Fits
<1>9. stListed' = o /\ stObject' = [object EXCEPT ![o] = third]
  BY <1>2, <1>4, <1>6 DEF Subscribes
<1>10. /\ stObject' \in Objects /\ stObject'[o] = third
       /\ \A p \in Object : p # o => stObject'[p] = object[p]
  BY <1>7, <1>9 DEF Objects
<1> QED
  BY <1>3, <1>5, <1>7, <1>8, <1>9, <1>10

LEMMA StSubscribedKeeps ==
    ASSUME StInv, StSubscribed
    PROVE  StInv'
<1>1. /\ stToMain \in Seq(StCallRecord) /\ stToMain # <<>> /\ stToMain' = Tail(stToMain)
      /\ UNCHANGED <<stUp, stClosing, stBoot, stView, stSeen, stToWindow, stMixed>>
  BY DEF StInv, StTypeOK, StSubscribed
<1>2. /\ stObject \in Objects /\ stListed \in Object \cup {None}
      /\ ObjectsFit(stListed, stObject, stBoot) /\ StConnection
      /\ stListed # None => stListed \in Object /\ stObject[stListed] \in StObjectRecord
  BY StFacts DEF StInv, StTypeOK, StObjects
<1>3. PICK call \in StCallRecord :
          call = Head(stToMain) /\ call = stToMain[1] /\ 1 \in DOMAIN stToMain
  BY <1>1
<1>4. call.op = "subscribe" /\ call.view \in View /\ call.mode \in Mode
  BY <1>3, CallParts DEF StSubscribed
<1>5. StHas[call.view] = None
  <2>1. \A k \in DOMAIN stToMain : ~(k < 1)
    BY <1>1
  <2> QED
    BY <1>3, <1>4, <2>1 DEF StInv, InOrder, InTurn
<1>6. CASE ~stUp
  <2>1. stListed' = stListed /\ stObject' = stObject
    BY <1>6 DEF StSubscribed
  <2>2. StHas' = StHas /\ StObjects' /\ StConnection'
    BY <1>1, <1>2, <2>1 DEF StHas, StObjects, StConnection
  <2>3. stObject' \in Objects /\ stListed' \in Object \cup {None}
    BY <1>2, <2>1
  <2> QED
    BY <1>1, <1>3, <1>5, <1>6, <2>2, <2>3, StCallAnswered
<1>7. CASE stUp
  <2>1. PICK o \in Object, object \in Objects :
            /\ Subscribes(o, object, call) /\ object[o] \in StObjectRecord
            /\ \A p \in Object : p # o => object[p] = stObject[p] /\ p # stListed
            /\ Sane(object[o], stBoot)
            /\ \A v \in View : object[o].subscribers[v] = StHas[v]
    <3>1. CASE stListed # None
      <4>1. Subscribes(stListed, stObject, call)
        BY <1>3, <1>7, <3>1 DEF StSubscribed
      <4>2. Sane(stObject[stListed], stBoot)
        BY <1>2, <3>1 DEF ObjectsFit
      <4>3. \A v \in View : StHas[v] = stObject[stListed].subscribers[v]
        BY <3>1 DEF StHas, HasOf
      <4> QED
        BY <1>2, <3>1, <4>1, <4>2, <4>3
    <3>2. CASE stListed = None
      <4>1. PICK o \in Object :
                stObject[o] = Gone /\ Subscribes(o, [stObject EXCEPT ![o] = NewObject], call)
        BY <1>3, <1>7, <3>2 DEF StSubscribed
      <4>2. PICK object : object = [stObject EXCEPT ![o] = NewObject]
        BY Zenon
      <4>3. /\ object \in Objects /\ object[o] = NewObject
            /\ \A p \in Object : p # o => object[p] = stObject[p]
        BY <1>2, <4>2, NewObjectFacts DEF Objects
      <4>4. \A v \in View : StHas[v] = None /\ NewObject.subscribers[v] = None
        BY <3>2 DEF StHas, HasOf, NewObject
      <4>5. \A p \in Object : p # stListed
        BY <3>2, StNoneAssumption
      <4> QED
        BY <4>1, <4>2, <4>3, <4>4, <4>5, NewObjectFacts, Zenon DEF Sane
    <3> QED
      BY <3>1, <3>2
  <2>2. /\ stListed' = o /\ stObject' \in Objects /\ stObject'[o] \in StObjectRecord
        /\ Fits(stObject'[o]) /\ stObject'[o].previous = object[o].previous
        /\ \A p \in Object : p # o => stObject'[p] = object[p]
        /\ stObject'[o].subscribers[call.view] = call.mode
        /\ \A v \in View : v # call.view =>
               stObject'[o].subscribers[v] = object[o].subscribers[v]
    BY <1>4, <2>1, SubscribesFacts
  <2>3. Sane(stObject'[o], stBoot) /\ stObject'[o] # Gone
    BY <2>1, <2>2, GoneFacts DEF Sane
  <2>4. StObjects'
    <3>1. PICK now \in Objects : now = stObject'
      BY <2>2
    <3>2. ObjectsFit(o, now, stBoot)
      BY <1>2, <2>1, <2>2, <2>3, <3>1, OneObject
    <3> QED
      BY <1>1, <2>2, <3>1, <3>2 DEF StObjects
  <2>5. StConnection'
    BY <1>1, <1>2, <1>7 DEF StConnection
  <2>6. o # None
    BY StNoneAssumption
  <2>7. /\ StHas'[call.view] = call.mode
        /\ \A v \in View : v # call.view => StHas'[v] = StHas[v]
    BY <1>4, <2>1, <2>2, <2>6 DEF StHas, HasOf
  <2> QED
    BY <1>1, <1>3, <2>2, <2>4, <2>5, <2>7, StCallAnswered
<1> QED
  BY <1>6, <1>7

LEMMA StUnsubscribedKeeps ==
    ASSUME StInv, StUnsubscribed
    PROVE  StInv'
<1>1. /\ stToMain \in Seq(StCallRecord) /\ stToMain # <<>> /\ stToMain' = Tail(stToMain)
      /\ UNCHANGED <<stUp, stClosing, stBoot, stView, stSeen, stToWindow, stMixed>>
  BY DEF StInv, StTypeOK, StUnsubscribed
<1>2. /\ stObject \in Objects /\ stListed \in Object \cup {None}
      /\ ObjectsFit(stListed, stObject, stBoot) /\ StConnection
      /\ stListed # None => stListed \in Object /\ stObject[stListed] \in StObjectRecord
  BY StFacts DEF StInv, StTypeOK, StObjects
<1>3. PICK call \in StCallRecord : call = Head(stToMain)
  BY <1>1
<1>4. call.view \in View /\ call.mode = None
  BY <1>3, CallParts DEF StUnsubscribed
<1>5. CASE stListed = None
  <2>1. stListed' = stListed /\ stObject' = stObject
    BY <1>5 DEF StUnsubscribed
  <2>2. StHas' = StHas /\ StObjects' /\ StConnection'
    BY <1>1, <1>2, <2>1 DEF StHas, StObjects, StConnection
  <2>3. stObject' \in Objects /\ stListed' \in Object \cup {None}
    BY <1>2, <2>1
  <2>4. \A v \in View : StHas[v] = None
    BY <1>5 DEF StHas, HasOf
  <2> QED
    BY <1>1, <1>3, <1>4, <2>2, <2>3, <2>4, StCallAnswered
<1>6. CASE stListed # None
  <2>1. PICK o \in Object : o = stListed /\ stObject[o] \in StObjectRecord
    BY <1>2, <1>6
  <2>2. Sane(stObject[o], stBoot)
    BY <1>2, <2>1, GoneFacts DEF ObjectsFit
  <2>3. PICK left : left = Watched(stObject[o], call.view, None)
    OBVIOUS
  <2>4. /\ left \in StObjectRecord /\ left.previous = stObject[o].previous
        /\ left.subscribers[call.view] = None
        /\ \A v \in View : v # call.view => left.subscribers[v] = stObject[o].subscribers[v]
    BY <1>4, <2>1, <2>3, WatchedFacts
  <2>5. \A v \in View : StHas[v] = stObject[o].subscribers[v]
    BY <1>6, <2>1 DEF StHas, HasOf
  <2>6. CASE \A v \in View : left.subscribers[v] = None
    <3>1. PICK object : object = [stObject EXCEPT ![o] = left]
      BY Zenon
    <3>2. stListed' = None /\ stObject' = DroppedObject(object, o)
      BY <1>3, <1>6, <2>1, <2>3, <2>6, <3>1 DEF StUnsubscribed
    <3>3. /\ object \in Objects /\ object[o] = left /\ object[o] # Gone
          /\ \A p \in Object : p # o => object[p] = stObject[p]
      BY <1>2, <2>4, <3>1, GoneFacts DEF Objects
    <3>4. PICK now : now = DroppedObject(object, o)
      OBVIOUS
    <3>5. /\ now \in Objects
          /\ \A p \in Object : p # o => now[p] = stObject[p]
          /\ now[o] # Gone => Held(now[o]) /\ now[o].previous = left.previous
      BY <3>3, <3>4, DropFacts
    <3>6. ObjectsFit(None, now, stBoot)
      <4>1. now[o] # Gone => Sane(now[o], stBoot)
        BY <2>2, <2>4, <3>5 DEF Sane
      <4>2. \A p \in Object : p # None
        BY StNoneAssumption
      <4> QED
        BY <1>2, <2>1, <3>5, <4>1, <4>2, OneObject
    <3>7. stObject' = now /\ StObjects'
      <4>1. stObject' = now
        BY <3>2, <3>4
      <4> QED
        BY <1>1, <3>2, <3>6, <4>1 DEF StObjects
    <3>8. StConnection'
      BY <1>1, <1>2, <3>2 DEF StConnection
    <3>9. \A v \in View : StHas'[v] = None
      BY <3>2 DEF StHas, HasOf
    <3>10. \A v \in View : v # call.view => StHas[v] = None
      BY <2>4, <2>5, <2>6
    <3> QED
      BY <1>1, <1>3, <1>4, <3>2, <3>5, <3>7, <3>8, <3>9, <3>10, StCallAnswered
  <2>7. CASE \E v \in View : left.subscribers[v] # None
    <3>1. PICK state : state = Rescheduled(left)
      OBVIOUS
    <3>2. /\ state \in StObjectRecord /\ Fits(state) /\ state.previous = left.previous
          /\ state.subscribers = left.subscribers
      BY <2>4, <2>7, <3>1, RescheduledFacts
    <3>3. stListed' = o /\ stObject' = [stObject EXCEPT ![o] = state]
      BY <1>3, <1>6, <2>1, <2>3, <2>7, <3>1 DEF StUnsubscribed
    <3>4. PICK now : now = [stObject EXCEPT ![o] = state]
      BY Zenon
    <3>5. /\ now \in Objects /\ now[o] = state /\ state # Gone
          /\ \A p \in Object : p # o => now[p] = stObject[p]
      BY <1>2, <3>2, <3>4, GoneFacts DEF Objects
    <3>6. ObjectsFit(o, now, stBoot)
      <4>1. Sane(now[o], stBoot)
        BY <2>2, <2>4, <3>2, <3>5 DEF Sane
      <4> QED
        BY <1>2, <2>1, <3>2, <3>5, <4>1, OneObject
    <3>7. stObject' = now /\ StObjects'
      <4>1. stObject' = now
        BY <3>3, <3>4
      <4> QED
        BY <1>1, <3>3, <3>6, <4>1, Zenon DEF StObjects
    <3>8. StConnection'
      BY <1>1, <1>2, <2>1, <3>3 DEF StConnection
    <3>9. o # None
      BY StNoneAssumption
    <3>10. /\ StHas'[call.view] = None
           /\ \A v \in View : v # call.view => StHas'[v] = StHas[v]
      <4>1. stListed' # None /\ stObject'[stListed'] = state
        BY <3>3, <3>5, <3>7, <3>9, Zenon
      <4>2. \A v \in View : StHas'[v] = state.subscribers[v]
        BY <4>1 DEF StHas, HasOf
      <4> QED
        BY <1>4, <2>4, <2>5, <3>2, <4>2
    <3> QED
      BY <1>1, <1>3, <1>4, <3>3, <3>5, <3>7, <3>8, <3>10, StCallAnswered, Zenon
  <2> QED
    BY <2>6, <2>7
<1> QED
  BY <1>5, <1>6

\* One object changes outside of a call, or is no longer listed.
LEMMA StObjectChanges ==
    ASSUME StInv,
           UNCHANGED <<stUp, stClosing, stBoot, stView, stSeen, stToMain, stToWindow>>,
           stMixed' = FALSE,
           NEW o \in Object, stListed' \in Object \cup {None}, stObject' \in Objects,
           \A p \in Object : p # o =>
               stObject'[p] = stObject[p] /\ (p = stListed' <=> p = stListed),
           stListed' = o => /\ stListed = o /\ stObject'[o] # Gone /\ Fits(stObject'[o])
                            /\ stObject'[o].subscribers = stObject[o].subscribers,
           stObject'[o] # Gone => /\ Sane(stObject'[o], stBoot)
                                  /\ stListed' # o => Held(stObject'[o]),
           stUp => stListed' = stListed
    PROVE  StInv'
<1>1. /\ stObject \in Objects /\ stListed \in Object \cup {None}
      /\ ObjectsFit(stListed, stObject, stBoot) /\ StConnection /\ StEvents
      /\ stListed # None => stListed \in Object
      /\ StTypeOK /\ StHas \in Modes
  BY StFacts DEF StInv, StTypeOK, StObjects
<1>2. PICK after \in Object \cup {None}, now \in Objects : after = stListed' /\ now = stObject'
  OBVIOUS
<1>3. StObjects'
  <2>1. ObjectsFit(after, now, stBoot)
    BY <1>1, <1>2, OneObject
  <2> QED
    BY <1>2, <2>1 DEF StObjects
<1>4. StTypeOK' /\ StConnection' /\ StEvents'
  <2>1. StTypeOK'
    BY <1>1, Zenon DEF StTypeOK, Objects
  <2>2. stListed = None => stListed' = None
    BY <1>1, StNoneAssumption
  <2>3. StConnection'
    BY <1>1, <2>2 DEF StConnection
  <2>4. StEvents'
    BY <1>1 DEF StEvents
  <2> QED
    BY <2>1, <2>3, <2>4
<1>5. \A v \in View : StHas'[v] = StHas[v] \/ (~stUp /\ StHas'[v] = None)
  <2>1. CASE stListed' = stListed
    BY <1>1, <2>1, StNoneAssumption DEF StHas, HasOf
  <2>2. CASE stListed' # stListed
    <3>1. stListed' = None /\ ~stUp
      BY <1>1, <2>2
    <3> QED
      BY <3>1 DEF StHas, HasOf
  <2> QED
    BY <2>1, <2>2
<1> QED
  BY <1>1, <1>3, <1>4, <1>5, StNoCall

\* A poll begins, or finds no connection.
LEMMA StTicksKeeps ==
    ASSUME StInv, NEW o \in Object, StTicks(o)
    PROVE  StInv'
<1>1. /\ stObject \in Objects /\ stListed = o /\ stObject[o] \in StObjectRecord
      /\ stObject[o] # Gone /\ Sane(stObject[o], stBoot) /\ Fits(stObject[o])
  BY StFacts DEF StInv, StTicks, StObjects, ObjectsFit, Objects
<1>2. /\ UNCHANGED <<stUp, stClosing, stBoot, stView, stSeen, stToMain, stToWindow>>
      /\ stMixed' = FALSE
  BY DEF StInv, StTypeOK, StTicks
<1>3. CASE stUp
  <2>1. PICK state : state = Polling(stObject[o], TRUE)
    BY Zenon
  <2>2. /\ state \in StObjectRecord /\ state.timer = stObject[o].timer
        /\ state.previous = stObject[o].previous
        /\ state.subscribers = stObject[o].subscribers
    BY <1>1, <2>1, PollingFacts, Zenon
  <2>3. PICK now : now = [stObject EXCEPT ![o] = state]
    BY Zenon
  <2>4. stObject' = now /\ stListed' = o
    BY <1>1, <1>3, <2>1, <2>3, Zenon DEF StTicks
  <2>5. /\ now \in Objects /\ now[o] = state /\ state # Gone
        /\ \A p \in Object : p # o => now[p] = stObject[p]
    BY <1>1, <2>2, <2>3, GoneFacts DEF Objects
  <2>6. Sane(state, stBoot) /\ Fits(state)
    BY <1>1, <2>2 DEF Sane, Fits
  <2>7. /\ \A p \in Object : p # o =>
               stObject'[p] = stObject[p] /\ (p = stListed' <=> p = stListed)
        /\ stObject'[o] = state /\ stListed' \in Object \cup {None} /\ stObject' \in Objects
    BY <1>1, <2>4, <2>5
  <2> QED
    BY <1>1, <1>2, <1>3, <2>2, <2>4, <2>5, <2>6, <2>7, StObjectChanges, Zenon
<1>4. CASE ~stUp
  <2>1. PICK now : now = DroppedObject(stObject, o)
    OBVIOUS
  <2>2. stObject' = now /\ stListed' = None
    BY <1>4, <2>1 DEF StTicks
  <2>3. /\ now \in Objects /\ \A p \in Object : p # o => now[p] = stObject[p]
        /\ now[o] # Gone => Held(now[o]) /\ now[o].previous = stObject[o].previous
    BY <1>1, <2>1, DropFacts
  <2>4. now[o] # Gone => Sane(now[o], stBoot) /\ Held(now[o])
    BY <1>1, <2>3 DEF Sane
  <2>5. \A p \in Object : p # None
    BY StNoneAssumption
  <2>6. /\ \A p \in Object : p # o =>
               stObject'[p] = stObject[p] /\ (p = stListed' <=> p = stListed)
        /\ stListed' # o /\ stListed' \in Object \cup {None} /\ stObject' \in Objects
        /\ stObject'[o] # Gone => Sane(stObject'[o], stBoot) /\ Held(stObject'[o])
    BY <1>1, <2>2, <2>3, <2>4, <2>5
  <2> QED
    BY <1>2, <1>4, <2>6, StObjectChanges, Zenon
<1> QED
  BY <1>3, <1>4

\* A poll that ends goes on with its listed object; another one is forgotten.
LEMMA PollEnds ==
    ASSUME StInv, NEW o \in Object, stObject[o].polling, NEW state \in StObjectRecord,
           state.timer = stObject[o].timer, state.subscribers = stObject[o].subscribers,
           Sane(state, stBoot),
           stObject' = [stObject EXCEPT ![o] = IF o = stListed THEN state ELSE Gone],
           UNCHANGED <<stUp, stClosing, stBoot, stListed, stView, stSeen, stToMain, stToWindow>>,
           stMixed' = FALSE
    PROVE  StInv'
<1>1. /\ stObject \in Objects /\ stListed \in Object \cup {None}
      /\ stObject[o] \in StObjectRecord
      /\ o = stListed => Fits(stObject[o])
  BY StFacts, GoneFacts DEF StInv, StTypeOK, StObjects, ObjectsFit, Objects
<1>2. PICK now : now = [stObject EXCEPT ![o] = IF o = stListed THEN state ELSE Gone]
  OBVIOUS
<1>3. /\ now \in Objects /\ now[o] = IF o = stListed THEN state ELSE Gone
      /\ \A p \in Object : p # o => now[p] = stObject[p]
  BY <1>1, <1>2 DEF Objects
<1>4. o = stListed => now[o] # Gone /\ Fits(now[o])
  BY <1>1, <1>3, GoneFacts DEF Fits
<1>5. stObject' = now /\ stListed' = stListed
  BY <1>2
<1>6. /\ \A p \in Object : p # o =>
             stObject'[p] = stObject[p] /\ (p = stListed' <=> p = stListed)
      /\ stListed' = o => /\ stListed = o /\ stObject'[o] # Gone /\ Fits(stObject'[o])
                          /\ stObject'[o].subscribers = stObject[o].subscribers
      /\ stObject'[o] # Gone => /\ Sane(stObject'[o], stBoot)
                                /\ stListed' # o => Held(stObject'[o])
      /\ stListed' \in Object \cup {None} /\ stObject' \in Objects
  BY <1>1, <1>3, <1>4, <1>5, Zenon
<1> QED
  BY <1>5, <1>6, StObjectChanges, Zenon

LEMMA StPolledKeeps ==
    ASSUME StInv, NEW o \in Object, StPolled(o) \/ StPollFails(o)
    PROVE  StInv'
<1>1. /\ stObject[o] \in StObjectRecord /\ stObject[o].polling /\ stBoot \in {0, 1}
      /\ Sane(stObject[o], stBoot)
      /\ UNCHANGED <<stUp, stClosing, stBoot, stListed, stView, stSeen, stToMain, stToWindow>>
  BY StFacts, GoneFacts DEF StInv, StTypeOK, StObjects, ObjectsFit, Objects, StPolled, StPollFails
<1>2. PICK sampled : sampled = Sampled(stObject[o])
  OBVIOUS
<1>3. PICK failed : failed = Polling(stObject[o], FALSE)
  BY Zenon
<1>4. /\ sampled \in StObjectRecord /\ sampled.timer = stObject[o].timer
      /\ sampled.previous = <<stBoot>> /\ sampled.subscribers = stObject[o].subscribers
  BY <1>1, <1>2, SampledFacts
<1>5. /\ failed \in StObjectRecord /\ failed.timer = stObject[o].timer
      /\ failed.previous = stObject[o].previous /\ failed.subscribers = stObject[o].subscribers
  BY <1>1, <1>3, PollingFacts, Zenon
<1>6. Sane(sampled, stBoot) /\ Sane(failed, stBoot)
  BY <1>1, <1>4, <1>5 DEF Sane
<1>7. stMixed' = FALSE
  BY <1>1 DEF StInv, StTypeOK, Sane, StPolled, StPollFails
<1>8. \/ stObject' = [stObject EXCEPT ![o] = IF o = stListed THEN sampled ELSE Gone]
      \/ stObject' = [stObject EXCEPT ![o] = IF o = stListed THEN failed ELSE Gone]
  BY <1>2, <1>3, Zenon DEF StPolled, StPollFails, Polled
<1> QED
  BY <1>1, <1>4, <1>5, <1>6, <1>7, <1>8, PollEnds, Zenon

(***************************************************************************)
(* The connection.                                                         *)
(***************************************************************************)
LEMMA ClearedKeeps ==
    ASSUME StInv, Cleared, stBoot' = stBoot
    PROVE  /\ stListed' = None /\ stObject' \in Objects /\ StObjects'
           /\ \A v \in View : StHas'[v] = None
<1>1. /\ stObject \in Objects /\ stListed \in Object \cup {None}
      /\ ObjectsFit(stListed, stObject, stBoot)
  BY StFacts DEF StInv, StTypeOK, StObjects
<1>2. stListed' = None /\ \A v \in View : StHas'[v] = None
  BY DEF Cleared, StHas, HasOf
<1>3. CASE stListed = None
  <2>1. stObject' = stObject
    BY <1>3 DEF Cleared
  <2> QED
    BY <1>1, <1>2, <1>3, <2>1 DEF StObjects
<1>4. CASE stListed # None
  <2>1. PICK o \in Object : o = stListed /\ stObject[o] # Gone /\ Sane(stObject[o], stBoot)
    BY <1>1, <1>4 DEF ObjectsFit
  <2>2. PICK now : now = DroppedObject(stObject, o)
    OBVIOUS
  <2>3. /\ now \in Objects /\ \A p \in Object : p # o => now[p] = stObject[p]
        /\ now[o] # Gone => Held(now[o]) /\ now[o].previous = stObject[o].previous
    BY <1>1, <2>1, <2>2, DropFacts
  <2>4. stObject' = now
    BY <1>4, <2>1, <2>2 DEF Cleared
  <2>5. now[o] # Gone => Sane(now[o], stBoot)
    BY <2>1, <2>3 DEF Sane
  <2>6. \A p \in Object : p # None
    BY StNoneAssumption
  <2>7. ObjectsFit(None, now, stBoot)
    BY <1>1, <2>1, <2>3, <2>5, <2>6, OneObject
  <2> QED
    BY <1>2, <2>3, <2>4, <2>7 DEF StObjects
<1> QED
  BY <1>3, <1>4

LEMMA StEventAdded ==
    ASSUME StInv, NEW up \in BOOLEAN, up = ~stUp, stUp' = up, stSeen' = stSeen,
           stToWindow' = Append(stToWindow, up)
    PROVE  StEvents' /\ stToWindow' \in Seq(BOOLEAN) /\ stToWindow' # <<>>
<1> DEFINE n == Len(stToWindow)
<1>1. stToWindow \in Seq(BOOLEAN) /\ n \in Nat /\ DOMAIN stToWindow = 1..n /\ stUp \in BOOLEAN
  BY DEF StInv, StTypeOK
<1>2. /\ stToWindow' \in Seq(BOOLEAN) /\ DOMAIN stToWindow' = 1..(n + 1)
      /\ Len(stToWindow') = n + 1 /\ stToWindow'[n + 1] = up /\ stToWindow' # <<>>
      /\ \A i \in 1..n : stToWindow'[i] = stToWindow[i]
  BY <1>1
<1>3. /\ \A i \in 1..n : stToWindow[i] = ~(IF i = 1 THEN stSeen ELSE stToWindow[i - 1])
      /\ stUp = IF stToWindow = <<>> THEN stSeen ELSE stToWindow[n]
  BY <1>1, Zenon DEF StInv, StEvents
<1>4. stToWindow = <<>> <=> n = 0
  BY <1>1
<1> HIDE DEF n
<1>5. ASSUME NEW i \in 1..(n + 1)
      PROVE  stToWindow'[i] = ~(IF i = 1 THEN stSeen ELSE stToWindow'[i - 1])
  <2>1. CASE i = n + 1
    <3>1. CASE i = 1
      BY <1>1, <1>2, <1>3, <1>4, <2>1, <3>1
    <3>2. CASE i # 1
      <4>1. n \in 1..n /\ i - 1 = n /\ n # 0
        BY <1>1, <2>1, <3>2
      <4> QED
        BY <1>2, <1>3, <1>4, <2>1, <3>2, <4>1
    <3> QED
      BY <3>1, <3>2, Zenon
  <2>2. CASE i # n + 1
    <3>1. i \in 1..n /\ (i # 1 => i - 1 \in 1..n)
      BY <1>1, <2>2
    <3> QED
      BY <1>2, <1>3, <3>1
  <2> QED
    BY <2>1, <2>2, Zenon
<1>6. \A i \in DOMAIN stToWindow' :
          stToWindow'[i] = ~(IF i = 1 THEN stSeen' ELSE stToWindow'[i - 1])
  BY <1>2, <1>5
<1>7. stUp' = IF stToWindow' = <<>> THEN stSeen' ELSE stToWindow'[Len(stToWindow')]
  BY <1>2
<1> QED
  BY <1>2, <1>6, <1>7 DEF StEvents

LEMMA StLostKeeps ==
    ASSUME StInv, StLost
    PROVE  StInv'
<1>1. /\ UNCHANGED <<stClosing, stBoot, stView, stSeen, stToMain, stMixed>> /\ Cleared
      /\ stUp /\ stClosing = "no" /\ stUp' = FALSE /\ stToWindow' = Append(stToWindow, FALSE)
      /\ stUp \in BOOLEAN /\ ~stMixed'
  BY DEF StInv, StTypeOK, StLost
<1>2. StEvents' /\ stToWindow' \in Seq(BOOLEAN) /\ stToWindow' # <<>>
  BY <1>1, StEventAdded, Zenon
<1>3. /\ stListed' = None /\ stObject' \in Objects /\ StObjects'
      /\ \A v \in View : StHas'[v] = None
  BY <1>1, ClearedKeeps
<1>4. StTypeOK'
  BY <1>1, <1>2, <1>3, Zenon DEF StInv, StTypeOK, Objects
<1>5. StConnection'
  BY <1>1, <1>3 DEF StConnection
<1> QED
  BY <1>1, <1>2, <1>3, <1>4, <1>5, StNoCall, Zenon

LEMMA StTearsDownKeeps ==
    ASSUME StInv, StTearsDown
    PROVE  StInv'
<1>1. /\ UNCHANGED <<stUp, stBoot, stView, stSeen, stToMain, stToWindow, stMixed>> /\ Cleared
      /\ stUp /\ stClosing' = "torn" /\ ~stMixed'
  BY DEF StInv, StTearsDown
<1>2. StEvents'
  BY <1>1, Zenon DEF StInv, StEvents
<1>3. /\ stListed' = None /\ stObject' \in Objects /\ StObjects'
      /\ \A v \in View : StHas'[v] = None
  BY <1>1, ClearedKeeps
<1>4. StTypeOK'
  BY <1>1, <1>3 DEF StInv, StTypeOK, Objects
<1>5. StConnection'
  BY <1>1 DEF StConnection
<1> QED
  BY <1>1, <1>2, <1>3, <1>4, <1>5, StNoCall

LEMMA StClosesKeeps ==
    ASSUME StInv, StCloses
    PROVE  StInv'
<1>1. /\ UNCHANGED <<stBoot, stListed, stObject, stView, stSeen, stToMain, stMixed>>
      /\ stClosing' = "closed" /\ stUp' = FALSE /\ stToWindow' = Append(stToWindow, FALSE)
      /\ stUp = TRUE /\ ~stMixed'
  BY DEF StInv, StTypeOK, StCloses, StConnection
<1>2. StEvents' /\ stToWindow' \in Seq(BOOLEAN) /\ stToWindow' # <<>>
  BY <1>1, StEventAdded, Zenon
<1>3. StTypeOK'
  BY <1>1, <1>2, Zenon DEF StInv, StTypeOK
<1>4. StConnection' /\ StObjects' /\ StHas' = StHas
  BY <1>1 DEF StInv, StConnection, StObjects, StHas
<1> QED
  BY <1>1, <1>2, <1>3, <1>4, StNoCall

LEMMA StReconnectsKeeps ==
    ASSUME StInv, NEW reboot \in BOOLEAN, StReconnects(reboot)
    PROVE  StInv'
<1>1. /\ UNCHANGED <<stListed, stObject, stView, stSeen, stToMain, stMixed>>
      /\ stClosing' = "no" /\ stUp' = TRUE /\ stToWindow' = Append(stToWindow, TRUE)
      /\ stUp = FALSE /\ ~stMixed' /\ stBoot' \in {0, 1}
      /\ \A o \in Object : ~stObject[o].polling
      /\ stClosing = "closed" => ~stSeen /\ stToMain = <<>>
  BY DEF StInv, StTypeOK, StReconnects
<1>2. StEvents' /\ stToWindow' \in Seq(BOOLEAN) /\ stToWindow' # <<>>
  BY <1>1, StEventAdded, Zenon
<1>3. StTypeOK'
  BY <1>1, <1>2 DEF StInv, StTypeOK
<1>4. /\ stListed \in Object \cup {None} /\ ObjectsFit(stListed, stObject, stBoot)
      /\ stClosing \in {"no", "torn", "closed"} /\ StConnection
  BY DEF StInv, StTypeOK, StObjects
\* Nothing is listed: a subscription after the teardown is taken back before.
<1>5. ASSUME stListed # None PROVE FALSE
  <2>1. stClosing = "closed"
    BY <1>1, <1>4, <1>5 DEF StConnection
  <2>2. \A v \in View : StWants[v] = None
    BY <1>1, <2>1 DEF StWants
  <2>3. \A v \in View : StHas[v] = None
    BY <1>1, <2>1, <2>2 DEF StInv, InOrder, Says
  <2>4. Fits(stObject[stListed])
    BY <1>4, <1>5 DEF ObjectsFit
  <2> QED
    BY <1>5, <2>3, <2>4 DEF Fits, StHas, HasOf
<1>6. \A o \in Object : stObject[o] = Gone
  BY <1>1, <1>4, <1>5, StNoneAssumption DEF ObjectsFit, Held
<1>7. StObjects'
  BY <1>1, <1>5, <1>6 DEF StObjects, ObjectsFit
<1>8. StConnection' /\ StHas' = StHas
  BY <1>1 DEF StConnection, StHas
<1> QED
  BY <1>1, <1>2, <1>3, <1>7, <1>8, StNoCall

(***************************************************************************)
(* The invariant holds.                                                    *)
(***************************************************************************)
LEMMA StInitInv ==
    ASSUME StInit
    PROVE  StInv
<1>1. StTypeOK
  <2>1. stToMain \in Seq(StCallRecord) /\ stToWindow \in Seq(BOOLEAN)
    BY DEF StInit
  <2>2. stObject \in [Object -> StObjectRecord \cup {Gone}]
    BY DEF StInit
  <2> QED
    BY <2>1, <2>2, Zenon DEF StInit, StTypeOK
<1>2. StObjects /\ StConnection /\ StEvents /\ ~stMixed
  <2>1. StObjects
    <3>1. stListed = None /\ \A o \in Object : stObject[o] = Gone
      BY DEF StInit
    <3> QED
      BY <3>1 DEF StObjects, ObjectsFit
  <2>2. DOMAIN stToWindow = {}
    BY DEF StInit
  <2> QED
    BY <2>1, <2>2, Zenon DEF StInit, StConnection, StEvents
<1>3. \A v \in View : StHas[v] = None /\ StWants[v] = None
  BY DEF StInit, StHas, HasOf, StWants
<1>4. DOMAIN stToMain = {}
  BY DEF StInit
<1>5. InOrder(stToMain, StHas, StWants)
  BY <1>3, <1>4 DEF InOrder, InTurn, Says
<1>6. StServed
  BY <1>3 DEF StServed
<1> QED
  BY <1>1, <1>2, <1>5, <1>6 DEF StInv

LEMMA StStepInv ==
    ASSUME StInv, StNext \/ UNCHANGED stVars
    PROVE  StInv'
<1>1. CASE UNCHANGED stVars
  <2>1. /\ StTypeOK' /\ StObjects' /\ StConnection' /\ StEvents' /\ ~stMixed'
        /\ UNCHANGED <<stUp, stClosing, stToWindow, stToMain, stView, stSeen>> /\ StHas' = StHas
    BY <1>1 DEF StInv, StTypeOK, StObjects, StConnection, StEvents, StHas, stVars
  <2>2. StWants' = StWants
    BY <2>1 DEF StWants
  <2>3. InOrder(stToMain, StHas, StWants)'
    BY <2>1, <2>2 DEF StInv
  <2>4. StServed'
    BY <2>1, <2>2 DEF StInv, StServed
  <2> QED
    BY <2>1, <2>3, <2>4 DEF StInv
<1>2. CASE StNext
  <2>1. CASE StWindowLearns
    BY <2>1, StWindowLearnsKeeps
  <2>2. CASE StSubscribed
    BY <2>2, StSubscribedKeeps
  <2>3. CASE StUnsubscribed
    BY <2>3, StUnsubscribedKeeps
  <2>4. CASE StLost
    BY <2>4, StLostKeeps
  <2>5. CASE StTearsDown
    BY <2>5, StTearsDownKeeps
  <2>6. CASE StCloses
    BY <2>6, StClosesKeeps
  <2>7. ASSUME NEW v \in View, StUnmounts(v) \/ \E mode \in Mode : StMounts(v, mode)
        PROVE  StInv'
    BY <2>7, StMountsKeeps
  <2>8. ASSUME NEW o \in Object, StTicks(o) PROVE StInv'
    BY <2>8, StTicksKeeps
  <2>9. ASSUME NEW o \in Object, StPolled(o) \/ StPollFails(o) PROVE StInv'
    BY <2>9, StPolledKeeps
  <2>10. ASSUME NEW reboot \in BOOLEAN, StReconnects(reboot) PROVE StInv'
    BY <2>10, StReconnectsKeeps
  <2> QED
    BY <1>2, <2>1, <2>2, <2>3, <2>4, <2>5, <2>6, <2>7, <2>8, <2>9, <2>10 DEF StNext
<1> QED
  BY <1>1, <1>2

\* What a timer, a view and a rate may rely on.
LEMMA StInvPromises ==
    ASSUME StInv
    PROVE  StTypeOK /\ StTimerFits /\ StViewsAreServed /\ StRatesAreSane
<1>1. StTypeOK /\ StRatesAreSane
  BY DEF StInv, StRatesAreSane
<1>2. StTimerFits
  <2>1. ObjectsFit(stListed, stObject, stBoot)
    BY DEF StInv, StObjects
  <2> QED
    BY <2>1 DEF StTimerFits, ObjectsFit, Fits, Held, Subscribed
<1>3. StViewsAreServed
  <2>1. ASSUME stUp, stClosing = "no", stToMain = <<>>, stToWindow = <<>>,
               NEW v \in View, stView[v] # None
        PROVE  stListed # None /\ stObject[stListed].subscribers[v] = stView[v]
    <3>1. stSeen
      BY <2>1 DEF StInv, StEvents
    <3>2. StHas[v] = StWants[v] /\ StWants[v] = stView[v]
      BY <2>1, <3>1 DEF StInv, StServed, StWants
    <3> QED
      BY <2>1, <3>2 DEF StHas, HasOf
  <2> QED
    BY <2>1 DEF StViewsAreServed
<1> QED
  BY <1>1, <1>2, <1>3

(***************************************************************************)
(* The certificates.                                                       *)
(***************************************************************************)
\* What a discovery has listed is the server, but for the renewals since.
SdListedFrom(s) ==
    /\ s.certbot = sdServer.certbot /\ s.managed = sdServer.managed
    /\ s.linked = sdServer.linked /\ s.cron = sdServer.cron
    /\ s.timer # "none" => sdServer.timer # "none"

\* What an overview says of validity and renewal is so.
SdSays(x) ==
    /\ \A row \in x.rows : row.path \in CertPath
    /\ Len(SdPaths(sdServer)) <= 1 =>
           \A row \in x.rows :
               row.status \in {"valid", "renewal-failed"} => sdServer.expires[row.path] # "past"
    /\ x.method # "none" =>
           sdServer.timer # "none" \/ sdServer.cron \/ (sdServer.certbot /\ sdServer.managed # {})

SdOverviewsTrue ==
    /\ \A i \in DOMAIN sdLookups : sdLookups[i].listed # None => SdListedFrom(sdLookups[i].listed)
    /\ sdCache # None => SdSays(sdCache.overview)
    /\ sdPanel.shows # None => SdSays(sdPanel.shows)

\* Nothing read since the last change, unless its discovery overlapped the change.
SdReadAfterChange ==
    ~sdCrossed /\ (sdAction = None \/ sdAction.at # "done") =>
        /\ sdCache # None => sdCache.overview.changes = sdServer.changes
        /\ \A i \in DOMAIN sdLookups :
               sdLookups[i].listed # None => sdLookups[i].listed.changes = sdServer.changes

\* An operation is checked by one discovery.
SdOneCheck ==
    \A i, j \in DOMAIN sdLookups :
        sdLookups[i].for = "action" /\ sdLookups[j].for = "action" => i = j

SdShape ==
    /\ DOMAIN sdPanel = {"shows", "paused"}
    /\ sdCache # None => DOMAIN sdCache = {"overview", "fresh"}

SdInv == SdTypeOK /\ SdShape /\ SdOneCheck /\ SdOverviewsTrue /\ SdReadAfterChange

SdLookupRecord == [for : {"panel", "action"}, listed : ServerRecord \cup {None}]

\* A finite set as a sequence.
LEMMA SetToSeqFacts ==
    ASSUME NEW S, IsFiniteSet(S)
    PROVE  SetToSeq(S) \in Seq(S)
<1>1. Cardinality(S) \in Nat
  BY FS_CardinalityType
<1>2. \E g \in [1..Cardinality(S) -> S] : IsInjective(g)
  BY FS_CardinalityType DEF ExistsBijection, Bijection, Injection, IsInjective
<1>3. SetToSeq(S) \in [1..Cardinality(S) -> S]
  BY <1>2 DEF SetToSeq
<1> QED
  BY <1>1, <1>3, SeqDef

LEMMA SdEntriesFacts ==
    ASSUME NEW s \in ServerRecord
    PROVE  SdEntries(s) \in Seq(CertPath) /\ SdBlocks(s) \in Seq(CertPath)
<1>1. IsFiniteSet(s.managed) /\ s.managed \subseteq CertPath
  BY SdPathsAssumption, FS_Subset DEF ServerRecord
<1>2. IsFiniteSet(s.linked \ ToSet(SdEntries(s))) /\ s.linked \ ToSet(SdEntries(s)) \subseteq CertPath
  BY SdPathsAssumption, FS_Subset DEF ServerRecord
<1>3. SetToSeq(s.managed) \in Seq(CertPath)
  BY <1>1, SetToSeqFacts
<1>4. SdEntries(s) \in Seq(CertPath)
  BY <1>3 DEF SdEntries
<1>5. SetToSeq(s.linked \ ToSet(SdEntries(s))) \in Seq(CertPath)
  BY <1>2, SetToSeqFacts
<1> QED
  BY <1>4, <1>5 DEF SdBlocks

\* The paths depend on what certbot and the sites name.
LEMMA SdSamePaths ==
    ASSUME NEW s, NEW t, s.certbot = t.certbot, s.managed = t.managed, s.linked = t.linked
    PROVE  SdEntries(s) = SdEntries(t) /\ SdPaths(s) = SdPaths(t)
<1>1. SdEntries(s) = SdEntries(t)
  BY DEF SdEntries, SdInstalled, CertbotLines
<1>2. SdBlocks(s) = SdBlocks(t)
  BY <1>1 DEF SdBlocks
<1> QED
  BY <1>1, <1>2 DEF SdPaths

\* A single certificate that is shown as valid was inspected, and not past.
LEMMA SdRowSays ==
    ASSUME NEW listed \in ServerRecord, NEW inspected \in ServerRecord,
           NEW i \in DOMAIN SdEntries(listed)
    PROVE  /\ SdRow(listed, inspected, i).path \in CertPath
           /\ Len(SdPaths(listed)) <= 1
              /\ SdRow(listed, inspected, i).status \in {"valid", "renewal-failed"} =>
                     inspected.expires[SdRow(listed, inspected, i).path] # "past"
<1> DEFINE a == SdEntries(listed)
           b == SdBlocks(listed)
           paths == SdPaths(listed)
           row == SdRow(listed, inspected, i)
           date == IF SdOpenssl(listed) THEN SdInspected(inspected, paths, i) ELSE None
           expires == IF date = None THEN listed.expires[paths[i]] ELSE date
<1>1. a \in Seq(CertPath) /\ b \in Seq(CertPath) /\ paths = a \o b
  BY SdEntriesFacts DEF SdPaths
<1>2. /\ paths \in Seq(CertPath) /\ Len(paths) = Len(a) + Len(b)
      /\ Len(a) \in Nat /\ Len(b) \in Nat /\ i \in 1..Len(a)
  <2> HIDE DEF a, b, paths
  <2>1. i \in DOMAIN a
    BY DEF a
  <2> QED
    BY <1>1, <2>1, ConcatProperties
<1>3. row.path = paths[i] /\ paths[i] \in CertPath
  <2>1. i \in 1..Len(paths)
    BY <1>2
  <2>2. paths[i] \in CertPath
    BY <1>2, <2>1, ElementOfSeq
  <2> QED
    BY <2>2 DEF SdRow
<1>4. row.status = DeriveStatus(expires, date = None, TRUE, LastResult(listed))
  BY DEF SdRow
<1>5. ASSUME Len(paths) <= 1, row.status \in {"valid", "renewal-failed"}
      PROVE  inspected.expires[row.path] # "past"
  <2>1. date # None /\ date # "past"
    <3> HIDE DEF date, row
    <3> QED
      BY <1>4, <1>5 DEF DeriveStatus
  <2>2. date = SdInspected(inspected, paths, i) /\ SdInspected(inspected, paths, i) # None
    BY <2>1
  <2>3. i = 1 /\ Len(paths) = 1
    <3> HIDE DEF a, b, paths
    <3> QED
      BY <1>2, <1>5
  <2> DEFINE seen == {k \in i..Len(paths) : paths[k] \in inspected.readable}
  <2>4. seen # {} /\ date = inspected.expires[paths[Max(seen)]]
    BY <2>2 DEF SdInspected
  <2>5. seen = {1}
    <3> HIDE DEF paths
    <3> QED
      BY <2>3, <2>4
  <2>6. Max(seen) = 1
    BY <2>5 DEF Max
  <2> QED
    BY <1>3, <2>1, <2>3, <2>4, <2>6
<1> QED
  BY <1>3, <1>5

LEMMA SdOverviewSays ==
    ASSUME NEW listed \in ServerRecord, sdServer \in ServerRecord, SdListedFrom(listed)
    PROVE  /\ SdSays(SdOverview(listed, sdServer))
           /\ SdOverview(listed, sdServer).changes = listed.changes
<1> DEFINE x == SdOverview(listed, sdServer)
<1>1. SdPaths(listed) = SdPaths(sdServer)
  BY SdSamePaths DEF SdListedFrom
<1>2. x.rows = {SdRow(listed, sdServer, i) : i \in DOMAIN SdEntries(listed)}
      /\ x.method = SdMethod(listed) /\ x.changes = listed.changes
  BY DEF SdOverview
<1>3. ASSUME NEW row \in x.rows
      PROVE  /\ row.path \in CertPath
             /\ Len(SdPaths(sdServer)) <= 1 /\ row.status \in {"valid", "renewal-failed"} =>
                    sdServer.expires[row.path] # "past"
  <2>1. PICK i \in DOMAIN SdEntries(listed) : row = SdRow(listed, sdServer, i)
    BY <1>2, <1>3
  <2> QED
    BY <1>1, <2>1, SdRowSays
<1>4. x.method # "none" =>
          sdServer.timer # "none" \/ sdServer.cron \/ (sdServer.certbot /\ sdServer.managed # {})
  BY <1>2 DEF SdMethod, SdHasTimer, SdListedFrom
<1> QED
  BY <1>2, <1>3, <1>4 DEF SdSays

\* What an overview says stays so while the server only gets better.
LEMMA SdSaysStays ==
    ASSUME NEW x, SdSays(x),
           sdServer'.certbot = sdServer.certbot, sdServer'.managed = sdServer.managed,
           sdServer'.linked = sdServer.linked, sdServer'.cron = sdServer.cron,
           sdServer.timer # "none" => sdServer'.timer # "none",
           \A p \in CertPath : sdServer'.expires[p] \in {sdServer.expires[p], "later"}
    PROVE  SdSays(x)'
<1>1. SdPaths(sdServer)' = SdPaths(sdServer)
  BY SdSamePaths
<1> QED
  BY <1>1 DEF SdSays

LEMMA SdAppends ==
    ASSUME SdTypeOK, NEW by \in {"panel", "action"},
           sdLookups' = Append(sdLookups, [for |-> by, listed |-> None])
    PROVE  /\ sdLookups' \in Seq(SdLookupRecord)
           /\ DOMAIN sdLookups' = 1..(Len(sdLookups) + 1) /\ Len(sdLookups) \in Nat
           /\ DOMAIN sdLookups = 1..Len(sdLookups)
           /\ \A j \in DOMAIN sdLookups : sdLookups'[j] = sdLookups[j]
           /\ sdLookups'[Len(sdLookups) + 1] = [for |-> by, listed |-> None]
<1> DEFINE new == [for |-> by, listed |-> None]
<1>1. new \in SdLookupRecord /\ sdLookups \in Seq(SdLookupRecord)
  BY DEF SdTypeOK, SdLookupRecord
<1> HIDE DEF new
<1>2. sdLookups' = Append(sdLookups, new)
  BY DEF new
<1>3. /\ sdLookups' \in Seq(SdLookupRecord) /\ DOMAIN sdLookups' = 1..(Len(sdLookups) + 1)
      /\ Len(sdLookups) \in Nat /\ DOMAIN sdLookups = 1..Len(sdLookups)
      /\ \A j \in DOMAIN sdLookups : sdLookups'[j] = sdLookups[j]
      /\ sdLookups'[Len(sdLookups) + 1] = new
  BY <1>1, <1>2
<1> QED
  BY <1>3 DEF new

LEMMA SdRemoves ==
    ASSUME SdTypeOK, NEW i \in DOMAIN sdLookups, sdLookups' = RemoveAt(sdLookups, i)
    PROVE  /\ sdLookups' \in Seq(SdLookupRecord)
           /\ \A j \in DOMAIN sdLookups' :
                  /\ (IF j < i THEN j ELSE j + 1) \in DOMAIN sdLookups \ {i}
                  /\ sdLookups'[j] = sdLookups[IF j < i THEN j ELSE j + 1]
           /\ i \in Nat /\ DOMAIN sdLookups' \subseteq Nat
<1>1. sdLookups \in Seq(SdLookupRecord)
  BY DEF SdTypeOK, SdLookupRecord
<1>2. /\ sdLookups' \in Seq(SdLookupRecord) /\ Len(sdLookups') = Len(sdLookups) - 1
      /\ \A j \in DOMAIN sdLookups' :
             sdLookups'[j] = IF j < i THEN sdLookups[j] ELSE sdLookups[j + 1]
  BY <1>1, RemoveAtFacts
<1>3. /\ DOMAIN sdLookups' = 1..(Len(sdLookups) - 1) /\ DOMAIN sdLookups = 1..Len(sdLookups)
      /\ Len(sdLookups) \in Nat
  BY <1>1, <1>2
<1> QED
  BY <1>2, <1>3

LEMMA SdInitInv == SdInit => SdInv
<1> SUFFICES ASSUME SdInit PROVE SdInv
  OBVIOUS
<1>1. PICK s \in [certbot : BOOLEAN,
                  programs : {Program, Program \ {"openssl"}},
                  managed : SUBSET CertPath, linked : SUBSET CertPath,
                  readable : {CertPath, {}},
                  expires : [CertPath -> {"past", "later"}],
                  timer : {"none", "failure"}, cron : BOOLEAN, changes : {0}] : sdServer = s
  BY DEF SdInit
<1>2. sdServer \in ServerRecord
  BY <1>1 DEF ServerRecord, Expiry, Program
<1>3. sdCache = None /\ sdLookups = <<>> /\ sdAction = None
      /\ sdPanel = [shows |-> None, paused |-> FALSE] /\ sdCrossed = FALSE
  BY DEF SdInit
<1>4. DOMAIN sdLookups = {} /\ sdLookups \in Seq(SdLookupRecord)
  BY <1>3
<1> QED
  BY <1>2, <1>3, <1>4
     DEF SdInv, SdTypeOK, SdShape, SdOneCheck, SdOverviewsTrue, SdReadAfterChange, SdLookupRecord

\* Nothing but the lists of the panel changes.
LEMMA SdPanelSteps ==
    ASSUME SdInv, SdServesCached \/ SdCacheAges \/ SdSelects
    PROVE  SdInv'
<1>1. CASE SdServesCached
  <2>1. /\ sdPanel'.shows = sdCache.overview /\ sdPanel'.paused = sdPanel.paused
        /\ DOMAIN sdPanel' = {"shows", "paused"} /\ sdCache # None
        /\ UNCHANGED <<sdServer, sdCache, sdLookups, sdAction, sdCrossed>>
    BY <1>1 DEF SdServesCached, SdFresh, SdInv, SdShape
  <2> QED
    BY <2>1 DEF SdInv, SdTypeOK, SdShape, SdOneCheck, SdOverviewsTrue, SdReadAfterChange, SdSays,
                SdListedFrom, SdPaths, SdEntries, SdBlocks
<1>2. CASE SdCacheAges
  <2>1. /\ sdCache # None /\ sdCache'.overview = sdCache.overview /\ sdCache'.fresh = FALSE
        /\ DOMAIN sdCache' = {"overview", "fresh"}
        /\ UNCHANGED <<sdServer, sdLookups, sdAction, sdPanel, sdCrossed>>
    BY <1>2 DEF SdCacheAges, SdFresh, SdInv, SdShape
  <2> QED
    BY <2>1 DEF SdInv, SdTypeOK, SdShape, SdOneCheck, SdOverviewsTrue, SdReadAfterChange, SdSays,
                SdListedFrom
<1>3. CASE SdSelects
  <2>1. /\ sdPanel'.shows = sdPanel.shows /\ sdPanel'.paused = ~sdPanel.paused
        /\ DOMAIN sdPanel' = {"shows", "paused"}
        /\ UNCHANGED <<sdServer, sdCache, sdLookups, sdAction, sdCrossed>>
    BY <1>3 DEF SdSelects, SdInv, SdShape
  <2>2. sdPanel'.paused \in BOOLEAN
    BY <2>1
  <2> QED
    BY <2>1, <2>2 DEF SdInv, SdTypeOK, SdShape, SdOneCheck, SdOverviewsTrue, SdReadAfterChange, SdSays,
                SdListedFrom
<1> QED
  BY <1>1, <1>2, <1>3

\* A discovery is started, for the panel or to check an operation.
LEMMA SdStartSteps ==
    ASSUME SdInv, SdStarts \/ \E command \in CertPath \cup {"enable"} : SdAsks(command)
    PROVE  SdInv'
<1> USE DEF SdInv
<1>1. ASSUME NEW by \in {"panel", "action"},
             sdLookups' = Append(sdLookups, [for |-> by, listed |-> None]),
             by = "action" => sdAction = None /\ sdAction' \in SdActionRecord
                                 /\ sdAction'.at = "checking",
             by = "panel" => UNCHANGED sdAction,
             UNCHANGED <<sdServer, sdCache, sdPanel, sdCrossed>>
      PROVE  SdInv'
  <2>1. /\ sdLookups' \in Seq(SdLookupRecord)
        /\ DOMAIN sdLookups' = 1..(Len(sdLookups) + 1) /\ Len(sdLookups) \in Nat
        /\ DOMAIN sdLookups = 1..Len(sdLookups)
        /\ \A j \in DOMAIN sdLookups : sdLookups'[j] = sdLookups[j]
        /\ sdLookups'[Len(sdLookups) + 1] = [for |-> by, listed |-> None]
    BY <1>1, SdAppends
  <2> DEFINE last == Len(sdLookups) + 1
  <2>2. \A j \in DOMAIN sdLookups' : j \in DOMAIN sdLookups \/ j = last
    BY <2>1
  <2>3. sdLookups'[last].for = by /\ sdLookups'[last].listed = None
    BY <2>1
  <2>4. (\E j \in DOMAIN sdLookups : sdLookups[j].for = "action") => sdAction # None /\ by = "panel"
    BY <1>1 DEF SdTypeOK
  <2>5. by = "action" => sdAction' # None
    BY <1>1, SdNoneAssumption
  <2> HIDE DEF last
  <2>6. SdTypeOK'
    <3>1. (\E j \in DOMAIN sdLookups' : sdLookups'[j].for = "action") =>
              sdAction' # None /\ sdAction'.at = "checking"
      BY <1>1, <2>1, <2>2, <2>3, <2>4, <2>5 DEF SdTypeOK
    <3>2. sdAction' # None => sdAction' \in SdActionRecord
      BY <1>1 DEF SdTypeOK
    <3> QED
      BY <1>1, <2>1, <3>1, <3>2 DEF SdTypeOK, SdLookupRecord
  <2>7. SdShape'
    BY <1>1 DEF SdShape
  <2>8. SdOneCheck'
    BY <2>1, <2>2, <2>3, <2>4 DEF SdOneCheck
  <2>9. SdOverviewsTrue'
    BY <1>1, <2>1, <2>2, <2>3 DEF SdOverviewsTrue, SdSays, SdListedFrom
  <2>10. SdReadAfterChange'
    BY <1>1, <2>1, <2>2, <2>3 DEF SdReadAfterChange
  <2> QED
    BY <2>6, <2>7, <2>8, <2>9, <2>10
<1>2. CASE SdStarts
  BY <1>1, <1>2 DEF SdStarts
<1>3. ASSUME NEW command \in CertPath \cup {"enable"}, SdAsks(command), ~SdFresh
      PROVE  SdInv'
  <2>1. /\ sdAction = None /\ sdAction' = [does |-> command, at |-> "checking"]
        /\ sdLookups' = Append(sdLookups, [for |-> "action", listed |-> None])
        /\ UNCHANGED <<sdServer, sdCache, sdPanel, sdCrossed>>
    BY <1>3 DEF SdAsks
  <2>2. sdAction' \in SdActionRecord /\ sdAction'.at = "checking"
    BY <2>1 DEF SdActionRecord
  <2> QED
    BY <1>1, <2>1, <2>2
<1>4. ASSUME NEW command \in CertPath \cup {"enable"}, SdAsks(command), SdFresh
      PROVE  SdInv'
  <2> DEFINE asked == [does |-> command, at |-> "checking"]
  <2>1. /\ sdAction = None /\ sdAction' = Checked(sdCache.overview, asked)
        /\ UNCHANGED <<sdServer, sdCache, sdLookups, sdPanel, sdCrossed>>
    BY <1>4 DEF SdAsks
  <2>2. sdAction' = None \/ sdAction' = [does |-> command, at |-> "sent"]
    BY <2>1 DEF Checked
  <2>3. sdAction' # None => sdAction' \in SdActionRecord /\ sdAction'.at = "sent"
    BY <2>2 DEF SdActionRecord
  <2> QED
    BY <2>1, <2>3 DEF SdTypeOK, SdShape, SdOneCheck, SdOverviewsTrue, SdReadAfterChange, SdSays,
                      SdListedFrom
<1> QED
  BY <1>2, <1>3, <1>4

LEMMA SdListSteps ==
    ASSUME SdInv, NEW i \in DOMAIN sdLookups, SdLists(i)
    PROVE  SdInv'
<1> DEFINE new == [for |-> sdLookups[i].for, listed |-> sdServer]
<1>1. /\ sdLookups \in Seq(SdLookupRecord) /\ sdServer \in ServerRecord
      /\ sdLookups' = [sdLookups EXCEPT ![i] = new]
      /\ UNCHANGED <<sdServer, sdCache, sdAction, sdPanel, sdCrossed>>
  BY DEF SdInv, SdTypeOK, SdLookupRecord, SdLists
<1>2. new \in SdLookupRecord
  <2>1. sdLookups[i] \in SdLookupRecord
    BY <1>1, ElementOfSeq
  <2> QED
    BY <1>1, <2>1 DEF SdLookupRecord
<1>3. new.for = sdLookups[i].for /\ new.listed = sdServer
  OBVIOUS
<1> HIDE DEF new
<1>4. /\ sdLookups' \in Seq(SdLookupRecord) /\ DOMAIN sdLookups' = DOMAIN sdLookups
      /\ \A j \in DOMAIN sdLookups : sdLookups'[j] = IF j = i THEN new ELSE sdLookups[j]
  BY <1>1, <1>2
<1>5. \A j \in DOMAIN sdLookups : sdLookups'[j].for = sdLookups[j].for
  BY <1>3, <1>4
<1>6. \A j \in DOMAIN sdLookups : sdLookups'[j].listed \in {sdLookups[j].listed, sdServer}
  BY <1>3, <1>4
<1>7. SdTypeOK'
  <2>1. (\E j \in DOMAIN sdLookups' : sdLookups'[j].for = "action") =>
            sdAction # None /\ sdAction.at = "checking"
    BY <1>4, <1>5 DEF SdInv, SdTypeOK
  <2> QED
    BY <1>1, <1>4, <2>1 DEF SdInv, SdTypeOK, SdLookupRecord
<1>8. SdShape' /\ SdOneCheck'
  BY <1>1, <1>4, <1>5 DEF SdInv, SdShape, SdOneCheck
<1>9. SdOverviewsTrue'
  <2>1. SdListedFrom(sdServer)
    BY DEF SdListedFrom
  <2> QED
    BY <1>1, <1>4, <1>6, <2>1 DEF SdInv, SdOverviewsTrue, SdSays, SdListedFrom
<1>10. SdReadAfterChange'
  BY <1>1, <1>4, <1>6 DEF SdInv, SdReadAfterChange
<1> QED
  BY <1>7, <1>8, <1>9, <1>10 DEF SdInv

\* A discovery ends: the cache holds what it read, and whoever asked gets it.
LEMMA SdEndSteps ==
    ASSUME SdInv, NEW i \in DOMAIN sdLookups, SdStores(i) \/ SdFails(i)
    PROVE  SdInv'
<1>1. /\ sdLookups' = RemoveAt(sdLookups, i) /\ UNCHANGED <<sdServer, sdCrossed>>
      /\ sdLookups \in Seq(SdLookupRecord) /\ sdServer \in ServerRecord
  BY DEF SdStores, SdFails, SdInv, SdTypeOK, SdLookupRecord
<1>2. /\ sdLookups' \in Seq(SdLookupRecord)
      /\ \A j \in DOMAIN sdLookups' :
             /\ (IF j < i THEN j ELSE j + 1) \in DOMAIN sdLookups \ {i}
             /\ sdLookups'[j] = sdLookups[IF j < i THEN j ELSE j + 1]
      /\ i \in Nat /\ DOMAIN sdLookups' \subseteq Nat
  BY <1>1, SdRemoves DEF SdInv
<1>3. \A j \in DOMAIN sdLookups' : \E k \in DOMAIN sdLookups \ {i} : sdLookups'[j] = sdLookups[k]
  BY <1>2
<1>4. SdOneCheck'
  <2> SUFFICES ASSUME NEW j \in DOMAIN sdLookups', NEW k \in DOMAIN sdLookups',
                      sdLookups'[j].for = "action", sdLookups'[k].for = "action"
               PROVE  j = k
    BY DEF SdOneCheck
  <2>1. (IF j < i THEN j ELSE j + 1) = (IF k < i THEN k ELSE k + 1)
    BY <1>2 DEF SdInv, SdOneCheck
  <2> QED
    BY <1>2, <2>1
<1>5. sdLookups[i] \in SdLookupRecord
  BY <1>1, ElementOfSeq
<1>6. sdLookups[i].for \in {"panel", "action"} /\ sdLookups[i].listed \in ServerRecord \cup {None}
  BY <1>5 DEF SdLookupRecord
<1>7. ASSUME sdLookups[i].for = "action"
      PROVE  /\ \A j \in DOMAIN sdLookups' : sdLookups'[j].for # "action"
             /\ sdAction \in SdActionRecord /\ sdAction.at = "checking"
  BY <1>3, <1>7 DEF SdInv, SdOneCheck, SdTypeOK
<1>8. CASE SdFails(i)
  <2>1. /\ sdAction' = (IF sdLookups[i].for = "panel" THEN sdAction ELSE None)
        /\ UNCHANGED <<sdServer, sdCache, sdPanel, sdCrossed>>
    BY <1>8 DEF SdFails
  <2>2. SdTypeOK'
    <3>1. (\E j \in DOMAIN sdLookups' : sdLookups'[j].for = "action") =>
              sdAction' # None /\ sdAction'.at = "checking"
      BY <1>3, <1>6, <1>7, <2>1 DEF SdInv, SdTypeOK
    <3> QED
      BY <1>2, <2>1, <3>1 DEF SdInv, SdTypeOK, SdLookupRecord
  <2>3. SdOverviewsTrue'
    BY <1>3, <2>1 DEF SdInv, SdOverviewsTrue, SdSays, SdListedFrom
  <2>4. SdReadAfterChange'
    <3>1. sdAction' = None \/ sdAction'.at # "done" => sdAction = None \/ sdAction.at # "done"
      BY <1>6, <1>7, <2>1
    <3> QED
      BY <1>3, <2>1, <3>1 DEF SdInv, SdReadAfterChange
  <2>5. SdShape'
    BY <2>1 DEF SdInv, SdShape
  <2> QED
    BY <1>4, <2>2, <2>3, <2>4, <2>5 DEF SdInv
<1>9. CASE SdStores(i)
  <2> DEFINE listed == sdLookups[i].listed
             x == SdOverview(listed, sdServer)
  <2>1. /\ listed # None /\ sdCache' = [overview |-> x, fresh |-> TRUE]
        /\ \/ sdLookups[i].for = "panel" /\ sdPanel' = [sdPanel EXCEPT !.shows = x]
              /\ UNCHANGED sdAction
           \/ sdLookups[i].for = "action" /\ sdAction' = Checked(x, sdAction) /\ UNCHANGED sdPanel
        /\ UNCHANGED <<sdServer, sdCrossed>>
    BY <1>6, <1>9 DEF SdStores
  <2>2. SdListedFrom(listed) /\ listed \in ServerRecord
    BY <1>6, <2>1 DEF SdInv, SdOverviewsTrue
  <2>3. SdSays(x) /\ x.changes = listed.changes
    BY <1>1, <2>2, SdOverviewSays
  <2> HIDE DEF x
  <2>4. sdCache'.overview = x /\ sdCache'.fresh = TRUE /\ DOMAIN sdCache' = {"overview", "fresh"}
    BY <2>1
  <2>5. /\ sdPanel'.shows \in {sdPanel.shows, x} /\ sdPanel'.paused = sdPanel.paused
        /\ DOMAIN sdPanel' = {"shows", "paused"}
    BY <2>1 DEF SdInv, SdShape
  <2>6. \/ UNCHANGED sdAction /\ sdLookups[i].for = "panel"
        \/ sdLookups[i].for = "action" /\ sdAction' = None
        \/ /\ sdLookups[i].for = "action" /\ sdAction' \in SdActionRecord
           /\ sdAction'.at = "sent"
    <3>1. CASE sdLookups[i].for = "panel"
      BY <2>1, <3>1
    <3>2. CASE sdLookups[i].for = "action"
      <4>1. sdAction \in SdActionRecord /\ sdAction' = Checked(x, sdAction)
        BY <1>7, <2>1, <3>2
      <4>2. sdAction' = None \/ sdAction' = [sdAction EXCEPT !.at = "sent"]
        BY <4>1 DEF Checked
      <4> QED
        BY <3>2, <4>1, <4>2 DEF SdActionRecord
    <3> QED
      BY <1>6, <3>1, <3>2
  <2>7. SdTypeOK'
    <3>1. (\E j \in DOMAIN sdLookups' : sdLookups'[j].for = "action") =>
              sdAction' # None /\ sdAction'.at = "checking"
      BY <1>3, <1>7, <2>6 DEF SdInv, SdTypeOK
    <3>2. sdAction' # None => sdAction' \in SdActionRecord
      BY <2>6 DEF SdInv, SdTypeOK
    <3>3. sdCache'.fresh \in BOOLEAN /\ sdPanel'.paused \in BOOLEAN
      BY <2>4, <2>5 DEF SdInv, SdTypeOK
    <3> QED
      BY <1>1, <1>2, <3>1, <3>2, <3>3 DEF SdInv, SdTypeOK, SdLookupRecord
  <2>8. SdOverviewsTrue'
    <3>1. \A j \in DOMAIN sdLookups' :
              sdLookups'[j].listed # None => SdListedFrom(sdLookups[j].listed)'
      BY <1>1, <1>3 DEF SdInv, SdOverviewsTrue, SdListedFrom
    <3>2. SdSays(sdCache.overview)'
      BY <2>3, <2>4, <1>1 DEF SdSays
    <3>3. sdPanel'.shows # None => SdSays(sdPanel.shows)'
      BY <2>3, <2>5, <1>1 DEF SdInv, SdOverviewsTrue, SdSays
    <3> QED
      BY <3>1, <3>2, <3>3 DEF SdOverviewsTrue
  <2>9. SdReadAfterChange'
    <3>1. (sdAction' = None \/ sdAction'.at # "done") => sdAction = None \/ sdAction.at # "done"
      BY <1>7, <2>6
    <3> QED
      BY <1>1, <1>3, <2>1, <2>3, <2>4, <3>1 DEF SdInv, SdReadAfterChange
  <2>10. SdShape'
    BY <2>4, <2>5 DEF SdShape
  <2> QED
    BY <1>4, <2>7, <2>8, <2>9, <2>10 DEF SdInv
<1> QED
  BY <1>8, <1>9

\* The operation changes the server, which only gets better.
LEMMA SdRunStep ==
    ASSUME SdInv, SdRuns
    PROVE  SdInv'
<1>1. /\ sdAction # None /\ sdAction.at = "sent" /\ sdAction \in SdActionRecord
      /\ sdAction' = [sdAction EXCEPT !.at = "done"]
      /\ sdServer \in ServerRecord
      /\ UNCHANGED <<sdCache, sdLookups, sdPanel, sdCrossed>>
  BY DEF SdRuns, SdInv, SdTypeOK
<1> DEFINE expires == [p \in CertPath |-> IF p = sdAction.does THEN "later" ELSE sdServer.expires[p]]
           timer == IF sdAction.does = "enable" THEN "success" ELSE sdServer.timer
<1>2. expires \in [CertPath -> Expiry] /\ timer \in {"none", "success", "failure"}
      /\ sdServer.changes + 1 \in Nat
  BY <1>1 DEF ServerRecord, Expiry
<1>3. sdServer' = [sdServer EXCEPT !.changes = sdServer.changes + 1, !.expires = expires,
                                   !.timer = timer]
  BY DEF SdRuns
<1>4. \A p \in CertPath : expires[p] \in {sdServer.expires[p], "later"}
  OBVIOUS
<1>5. sdServer.timer # "none" => timer # "none"
  OBVIOUS
<1> HIDE DEF expires, timer
<1>6. /\ sdServer' \in ServerRecord
      /\ sdServer'.certbot = sdServer.certbot /\ sdServer'.managed = sdServer.managed
      /\ sdServer'.linked = sdServer.linked /\ sdServer'.cron = sdServer.cron
      /\ sdServer'.timer = timer /\ sdServer'.expires = expires
  BY <1>1, <1>2, <1>3 DEF ServerRecord
<1>7. sdAction' \in SdActionRecord /\ sdAction'.at = "done"
  BY <1>1 DEF SdActionRecord
<1>8. sdAction' # None
  BY <1>7, SdNoneAssumption
<1>9. SdTypeOK'
  <2>1. ~ \E j \in DOMAIN sdLookups : sdLookups[j].for = "action"
    BY <1>1 DEF SdInv, SdTypeOK
  <2> QED
    BY <1>1, <1>6, <1>7, <2>1 DEF SdInv, SdTypeOK
<1>10. SdShape' /\ SdOneCheck'
  BY <1>1 DEF SdInv, SdShape, SdOneCheck
<1>11. SdOverviewsTrue'
  <2>1. \A s : SdListedFrom(s) => SdListedFrom(s)'
    BY <1>5, <1>6 DEF SdListedFrom
  <2>2. ASSUME NEW x, SdSays(x) PROVE SdSays(x)'
    BY <1>4, <1>5, <1>6, <2>2, SdSaysStays
  <2>3. sdCache' # None => SdSays(sdCache.overview)'
    BY <1>1, <2>2 DEF SdInv, SdOverviewsTrue
  <2>4. sdPanel'.shows # None => SdSays(sdPanel.shows)'
    BY <1>1, <2>2 DEF SdInv, SdOverviewsTrue
  <2> QED
    BY <1>1, <2>1, <2>3, <2>4 DEF SdInv, SdOverviewsTrue
<1>12. SdReadAfterChange'
  BY <1>7, <1>8 DEF SdReadAfterChange
<1> QED
  BY <1>9, <1>10, <1>11, <1>12 DEF SdInv

\* The operation ends.
LEMMA SdDoneSteps ==
    ASSUME SdInv, SdDone \/ SdActionFails
    PROVE  SdInv'
<1>1. /\ sdAction # None /\ sdAction.at # "checking" /\ sdAction' = None
      /\ sdCache' \in {None, sdCache} /\ sdCrossed' \in BOOLEAN
      /\ UNCHANGED <<sdServer, sdLookups, sdPanel>>
  BY DEF SdDone, SdActionFails, SdInv, SdTypeOK
<1>2. ~ \E j \in DOMAIN sdLookups : sdLookups[j].for = "action"
  BY <1>1 DEF SdInv, SdTypeOK
<1>3. SdReadAfterChange'
  <2> SUFFICES ASSUME ~sdCrossed'
               PROVE  /\ sdCache' # None => sdCache'.overview.changes = sdServer.changes
                      /\ \A i \in DOMAIN sdLookups :
                             sdLookups[i].listed # None => sdLookups[i].listed.changes = sdServer.changes
    BY <1>1 DEF SdReadAfterChange
  <2>1. CASE SdDone
    <3>1. sdCache' = None /\ sdLookups = <<>>
      BY <2>1 DEF SdDone
    <3> QED
      BY <3>1
  <2>2. CASE SdActionFails
    <3>1. ~sdCrossed /\ sdAction.at # "done" /\ sdCache' = sdCache
      BY <2>2 DEF SdActionFails
    <3> QED
      BY <3>1 DEF SdInv, SdReadAfterChange
  <2> QED
    BY <2>1, <2>2
<1>4. SdTypeOK' /\ SdShape' /\ SdOneCheck'
  BY <1>1, <1>2 DEF SdInv, SdTypeOK, SdShape, SdOneCheck
<1>5. SdOverviewsTrue'
  BY <1>1 DEF SdInv, SdOverviewsTrue, SdSays, SdListedFrom
<1> QED
  BY <1>3, <1>4, <1>5 DEF SdInv

LEMMA SdStepInv == SdInv /\ [SdNext]_sdVars => SdInv'
<1> SUFFICES ASSUME SdInv, [SdNext]_sdVars
             PROVE  SdInv'
  OBVIOUS
<1>1. CASE UNCHANGED sdVars
  BY <1>1 DEF sdVars, SdInv, SdTypeOK, SdShape, SdOneCheck, SdOverviewsTrue, SdReadAfterChange,
              SdSays, SdListedFrom
<1>2. CASE SdNext
  BY <1>2, SdPanelSteps, SdStartSteps, SdListSteps, SdEndSteps, SdRunStep, SdDoneSteps
     DEF SdNext
<1> QED
  BY <1>1, <1>2

LEMMA SdInvTells == SdInv => SdTypeOK /\ SdTellsTheTruth
<1> SUFFICES ASSUME SdInv
             PROVE  SdTypeOK /\ SdTellsTheTruth
  OBVIOUS
<1>1. SdCacheTellsChanges
  BY DEF SdInv, SdReadAfterChange, SdCacheTellsChanges
<1>2. SdExpiredNotValid /\ SdConfiguredIsReal
  BY DEF SdInv, SdOverviewsTrue, SdSays, SdExpiredNotValid, SdConfiguredIsReal
<1> QED
  BY <1>1, <1>2 DEF SdInv, SdTellsTheTruth

(***************************************************************************)
(* The lists of packages.                                                  *)
(***************************************************************************)
\* What dpkg would list, whole or up to a line.
InstalledOf(query) ==
    {Row(p) : p \in {q \in Packages : pvServer[q] \in InstalledState /\ query \in {None, q}}}
InstalledUpTo(query, line) ==
    {Row(p) : p \in {q \in Matching(query) :
                        pvServer[q] \in InstalledState /\ dpkgQuery(query)[q] <= line}}

PvPanelIs(panel) ==
    /\ DOMAIN panel = {"available", "overview", "installed", "query", "updates", "results",
                       "searched", "intent", "selected", "detail", "dialog", "pending",
                       "operation", "loading"}
    /\ panel.available \in {"unknown", "yes", "no"} /\ panel.updates \subseteq Packages
    /\ panel.query \in Packages \cup {None} /\ panel.intent \in Packages \cup {None}
    /\ panel.searched \in Packages \cup {None}
    /\ panel.pending # None => panel.pending.version = None
    /\ panel.operation \notin {None, Finished} => panel.operation.version \in {None, "old"}

PvParts == {"overview", "installed", "updates", "results", "detail", "dialog"}
PvCallIs(c) ==
    /\ DOMAIN c = {"parts", "todo", "of", "offset", "got", "stale"} /\ DOMAIN c.got = PvParts
    /\ c.parts \subseteq PvParts /\ c.offset \in Nat /\ c.got.updates \subseteq Packages
    /\ c.of \in Packages \cup {None} /\ ("detail" \in c.parts => c.of # None)
    /\ c.todo \subseteq c.parts \/ (c.todo = {"available"} /\ c.parts = Lists)

\* What a call has read is what the server says, unless it is marked as stale.
PvReadIs(c) ==
    LET read == (c.parts \ c.todo) \ c.stale
    IN  /\ "overview" \in read => c.got.overview = overview
        /\ "updates" \in read => c.got.updates = listUpdates
        /\ "results" \in read => c.got.results = search(c.of)
        /\ "detail" \in read => c.got.detail = getInfo(c.of)
        /\ "installed" \in read => c.got.installed = InstalledOf(c.of)
        /\ "installed" \in c.todo \ c.stale => c.got.installed = InstalledUpTo(c.of, c.offset)
PvReads == \A c \in pvCalls : PvCallIs(c) /\ (c.todo # {"available"} => PvReadIs(c))

\* A part of the panel that is not known to be off is right, or a call under way brings it.
Comes(part) == \E c \in pvCalls : part \in c.parts
PvKept(part, right) == part \in pvOff \/ Comes(part) \/ right
PvWorks == pvUp /\ pvPanel.available = "yes"
PvOver == pvPanel.operation = Finished

PvFollowed ==
    /\ PvWorks /\ ~PvOver =>
           /\ PvKept("installed", pvPanel.installed = InstalledOf(pvPanel.query))
           /\ PvKept("updates", pvPanel.updates = listUpdates)
           /\ PvKept("overview", pvPanel.overview = overview)
    /\ PvWorks => PvKept("results", pvPanel.results = search(pvPanel.searched))

\* The detail stays when an intent selects another package, until there is a manager again.
PvDetailFollowed ==
    /\ pvPanel.selected = None /\ pvPanel.detail # None => "detail" \in pvOff
    /\ (PvWorks \/ pvPanel.intent = None) /\ ~PvOver /\ DetailShown =>
           PvKept("detail", pvPanel.detail = getInfo(pvPanel.selected))

PvInv ==
    /\ pvServer \in [Packages -> PackageState] /\ pvUp \in BOOLEAN
    /\ PvPanelIs(pvPanel) /\ PvReads /\ PvFollowed /\ PvDetailFollowed

(***************************************************************************)
(* A page after the other.                                                 *)
(***************************************************************************)
Query == Packages \cup {None}

\* The lines of dpkg's output are numbered from 1 on.
LEMMA LineFacts ==
    ASSUME NEW query
    PROVE  /\ IsFiniteSet(Matching(query)) /\ Cardinality(Matching(query)) \in Nat
           /\ DOMAIN dpkgQuery(query) = Matching(query) /\ Matching(query) \subseteq Packages
           /\ \A p \in Matching(query) :
                  dpkgQuery(query)[p] \in 1..(EntryLines(query) * Cardinality(Matching(query)))
<1> DEFINE M == Matching(query)
           n == Cardinality(M)
<1>1. M \subseteq Packages /\ IsFiniteSet(Packages) /\ Packages \subseteq Nat
  BY PvPackagesAssumption DEF Matching, PvPackagesAssumption
<1> HIDE DEF M
<1>2. IsFiniteSet(M) /\ n \in Nat
  BY <1>1, FS_Subset, FS_CardinalityType
<1>3. ASSUME NEW p \in M
      PROVE  /\ Cardinality({q \in M : q < p}) \in Nat
             /\ Cardinality({q \in M : q < p}) + 1 <= n
  <2> DEFINE B == {q \in M : q < p}
  <2>1. B \in SUBSET (M \ {p})
    <3>1. p \in Nat /\ ~(p < p)
      BY <1>1
    <3> QED
      BY <3>1
  <2>2. IsFiniteSet(M \ {p}) /\ Cardinality(M \ {p}) = n - 1
    BY <1>2, FS_RemoveElement
  <2> HIDE DEF B
  <2>3. IsFiniteSet(B) /\ Cardinality(B) <= n - 1
    BY <2>1, <2>2, FS_Subset
  <2>4. Cardinality(B) \in Nat
    BY <2>3, FS_CardinalityType
  <2>5. Cardinality(B) + 1 <= n
    BY <2>3, <2>4, <1>2
  <2> QED
    BY <2>4, <2>5 DEF B
<1>4. DOMAIN dpkgQuery(query) = M
  BY DEF dpkgQuery, M
<1>5. ASSUME NEW p \in M
      PROVE  dpkgQuery(query)[p] \in 1..(EntryLines(query) * n)
  <2> DEFINE k == Cardinality({q \in M : q < p})
  <2>1. k \in Nat /\ k + 1 <= n
    BY <1>3
  <2>2. dpkgQuery(query)[p] = EntryLines(query) * k + 1
    BY DEF dpkgQuery, M
  <2> HIDE DEF k
  <2>3. EntryLines(query) \in {1, 2}
    BY DEF EntryLines
  <2>4. EntryLines(query) * k + 1 \in 1..(EntryLines(query) * n)
    <3>1. 1 * k + 1 \in 1..(1 * n) /\ 2 * k + 1 \in 1..(2 * n)
      BY <2>1, <1>2
    <3> QED
      BY <3>1, <2>3
  <2> QED
    BY <2>2, <2>4
<1> QED
  BY <1>1, <1>2, <1>4, <1>5 DEF M

LEMMA NothingBeforeTheFirstLine == \A query : InstalledUpTo(query, 0) = {}
<1>1. \A query : \A p \in Matching(query) : ~(dpkgQuery(query)[p] <= 0)
  BY LineFacts
<1> QED
  BY <1>1 DEF InstalledUpTo

\* A page adds the packages of its lines.
LEMMA PvPageFacts ==
    ASSUME NEW query, NEW offset \in Nat
    PROVE  InstalledUpTo(query, offset) \cup listInstalled(query, offset).items
               = InstalledUpTo(query, offset + LIST_CHUNK_SIZE)
<1> DEFINE M == Matching(query)
           line == dpkgQuery(query)
           is(q) == pvServer[q] \in InstalledState
<1>1. \A p \in M : line[p] \in Nat
  BY LineFacts
<1>2. DOMAIN line = M /\ LIST_CHUNK_SIZE \in Nat
  BY LineFacts, PvPackagesAssumption DEF PvPackagesAssumption
<1> HIDE DEF M, line
<1>3. listInstalled(query, offset).items =
          {Row(p) : p \in {q \in {x \in DOMAIN line :
                                      line[x] \in (offset + 1)..(offset + LIST_CHUNK_SIZE)} :
                               is(q)}}
  BY DEF listInstalled, parseDpkgQueryOutput, line
<1>4. /\ InstalledUpTo(query, offset) = {Row(p) : p \in {q \in M : is(q) /\ line[q] <= offset}}
      /\ InstalledUpTo(query, offset + LIST_CHUNK_SIZE) =
             {Row(p) : p \in {q \in M : is(q) /\ line[q] <= offset + LIST_CHUNK_SIZE}}
  BY DEF InstalledUpTo, M, line
<1> DEFINE A == {q \in {x \in DOMAIN line : line[x] \in (offset + 1)..(offset + LIST_CHUNK_SIZE)} :
                     is(q)}
           B == {q \in M : is(q) /\ line[q] <= offset}
           C == {q \in M : is(q) /\ line[q] <= offset + LIST_CHUNK_SIZE}
<1>5. A \cup B = C
  <2>1. ASSUME NEW q \in M
        PROVE  line[q] <= offset + LIST_CHUNK_SIZE <=>
                   line[q] <= offset \/ line[q] \in (offset + 1)..(offset + LIST_CHUNK_SIZE)
    BY <1>1, <1>2
  <2> QED
    BY <2>1, <1>2
<1> HIDE DEF A, B, C
<1>6. {Row(p) : p \in A} \cup {Row(p) : p \in B} = {Row(p) : p \in C}
  BY <1>5
<1> QED
  BY <1>3, <1>4, <1>6 DEF A, B, C

\* When the last page is there, and was not taken for it too early, the list is whole.
LEMMA LastPageFacts ==
    ASSUME NEW query, query \in Query, NEW offset \in Nat,
           LastPage(listInstalled(query, offset), InstalledUpTo(query, offset + LIST_CHUNK_SIZE)),
           ~EndsEarly(listInstalled(query, offset), offset)
    PROVE  InstalledUpTo(query, offset + LIST_CHUNK_SIZE) = InstalledOf(query)
<1> DEFINE M == Matching(query)
           n == Cardinality(M)
           line == dpkgQuery(query)
           is(q) == pvServer[q] \in InstalledState
           S == {q \in M : is(q) /\ line[q] <= offset + LIST_CHUNK_SIZE}
           T == {q \in M : is(q)}
           page == listInstalled(query, offset)
<1>1. InstalledUpTo(query, offset + LIST_CHUNK_SIZE) = {Row(p) : p \in S}
  BY DEF InstalledUpTo
<1>2. InstalledOf(query) = {Row(p) : p \in T}
  <2>1. {q \in Packages : is(q) /\ query \in {None, q}} = T
    BY PvPackagesAssumption DEF Matching, PvPackagesAssumption
  <2> QED
    BY <2>1 DEF InstalledOf
<1>3. IsFiniteSet(M) /\ n \in Nat /\ \A q \in M : line[q] \in 1..(EntryLines(query) * n)
  BY LineFacts
<1>4. page.total = EntryLines(query) * n /\ LIST_CHUNK_SIZE \in Nat
  BY LineFacts, PvPackagesAssumption DEF listInstalled, PvPackagesAssumption
<1>5. n <= EntryLines(query) * n
  <2>1. EntryLines(query) \in {1, 2} /\ n <= 1 * n /\ n <= 2 * n
    BY <1>3 DEF EntryLines
  <2> QED
    BY <2>1
<1>6. CASE Cardinality({Row(p) : p \in S}) >= page.total
  <2> DEFINE R == {Row(p) : p \in S}
             f == [p \in S |-> Row(p)]
  <2>1. S \in SUBSET M
    OBVIOUS
  <2> HIDE DEF M, S, n
  <2>2. IsFiniteSet(S) /\ Cardinality(S) <= n /\ (Cardinality(M) = Cardinality(S) => M = S)
    BY <2>1, <1>3, FS_Subset DEF n
  <2>3. f \in Surjection(S, R)
    BY DEF Surjection
  <2> HIDE DEF f
  <2>4. IsFiniteSet(R) /\ Cardinality(R) <= Cardinality(S)
    BY <2>2, <2>3, FS_Surjection
  <2> HIDE DEF R
  <2>5. Cardinality(R) \in Nat /\ Cardinality(S) \in Nat
    BY <2>2, <2>4, FS_CardinalityType
  <2>6. Cardinality(R) >= n
    <3>1. EntryLines(query) * n \in Nat
      <4>1. EntryLines(query) \in {1, 2} /\ 1 * n \in Nat /\ 2 * n \in Nat
        BY <1>3 DEF EntryLines
      <4> QED
        BY <4>1
    <3> QED
      BY <1>6, <1>4, <1>5, <1>3, <2>5, <3>1 DEF R
  <2>7. Cardinality(S) = n
    BY <2>2, <2>4, <2>5, <2>6, <1>3
  <2>8. M = S
    BY <2>7, <2>2 DEF n
  <2>9. S = T
    BY <2>8, <2>1 DEF S, M
  <2> QED
    BY <2>9, <1>1, <1>2
<1>7. CASE ~(offset + LIST_CHUNK_SIZE < page.total)
  <2>1. ASSUME NEW q \in M
        PROVE  line[q] <= offset + LIST_CHUNK_SIZE
    <3>1. line[q] \in Nat /\ line[q] <= page.total /\ page.total \in Nat
      <4>1. EntryLines(query) * n \in Nat
        <5>1. EntryLines(query) \in {1, 2} /\ 1 * n \in Nat /\ 2 * n \in Nat
          BY <1>3 DEF EntryLines
        <5> QED
          BY <5>1
      <4> HIDE DEF M, line, n
      <4> QED
        BY <4>1, <1>3, <1>4
    <3> HIDE DEF M, line, n, page
    <3> QED
      BY <3>1, <1>7, <1>4
  <2>2. S = T
    BY <2>1
  <2> QED
    BY <2>2, <1>1, <1>2
<1> QED
  BY <1>1, <1>6, <1>7 DEF LastPage, EndsEarly

(***************************************************************************)
(* The panel and the calls that are made.                                  *)
(***************************************************************************)
\* What the lists say is the server's: it stays as long as the server does.
LEMMA ServerSame ==
    ASSUME pvServer' = pvServer
    PROVE  /\ overview' = overview /\ listUpdates' = listUpdates
           /\ \A q : /\ InstalledOf(q)' = InstalledOf(q) /\ getInfo(q)' = getInfo(q)
                     /\ search(q)' = search(q)
           /\ \A q, n : InstalledUpTo(q, n)' = InstalledUpTo(q, n)
<1>1. listUpdates' = listUpdates
  BY DEF listUpdates
<1>2. \A q : Matching(q)' = Matching(q)
  BY DEF Matching
<1>3. overview' = overview
  BY <1>1, <1>2 DEF overview, listInstalled, dpkgQuery
<1>4. \A q : search(q)' = search(q) /\ getInfo(q)' = getInfo(q)
  BY DEF search, getInfo
<1>5. \A q : Row(q)' = Row(q)
  BY DEF Row
<1>6. \A q : InstalledOf(q)' = InstalledOf(q)
  BY <1>5 DEF InstalledOf
<1>7. \A q : dpkgQuery(q)' = dpkgQuery(q)
  BY <1>2 DEF dpkgQuery
<1>8. \A q, n : InstalledUpTo(q, n)' = InstalledUpTo(q, n)
  BY <1>5, <1>2, <1>7 DEF InstalledUpTo
<1> QED
  BY <1>1, <1>3, <1>4, <1>6, <1>8

\* Panels that show the same.
Alike(p, q) ==
    /\ p.available = q.available /\ p.overview = q.overview /\ p.installed = q.installed
    /\ p.query = q.query /\ p.updates = q.updates /\ p.results = q.results
    /\ p.searched = q.searched /\ p.intent = q.intent /\ p.selected = q.selected
    /\ p.detail = q.detail

LEMMA LoadsFacts ==
    ASSUME NEW panel, PvPanelIs(panel), NEW calls
    PROVE  /\ PvPanelIs(Loads(panel, calls)) /\ Alike(Loads(panel, calls), panel)
           /\ Loads(panel, calls).operation = panel.operation
BY DEF PvPanelIs, Loads, Alike

\* A call as it is made.
PvAsked(c) ==
    \/ c = reloadAll
    \/ \E parts \in SUBSET PvParts, of \in Query :
           c = PvReload(parts, of) /\ ("detail" \in parts => of # None)

LEMMA PvAskedFacts ==
    ASSUME NEW c, PvAsked(c)
    PROVE  PvCallIs(c) /\ (c.todo # {"available"} => PvReadIs(c))
<1>1. DOMAIN Got = PvParts /\ Got.updates = {} /\ Got.installed = {} /\ None \in Query
  BY DEF Got, PvParts, Query
<1>2. CASE c = reloadAll
  <2>1. /\ DOMAIN c = {"parts", "todo", "of", "offset", "got", "stale"}
        /\ c.parts = Lists /\ c.todo = {"available"} /\ c.of = None /\ c.offset = 0 /\ c.got = Got
    BY <1>2 DEF reloadAll, PvReload
  <2> QED
    BY <2>1, <1>1 DEF PvCallIs, Lists, PvParts, Query
<1>3. ASSUME NEW parts \in SUBSET PvParts, NEW of \in Query,
             c = PvReload(parts, of), "detail" \in parts => of # None
      PROVE  PvCallIs(c) /\ PvReadIs(c)
  <2>1. /\ DOMAIN c = {"parts", "todo", "of", "offset", "got", "stale"}
        /\ c.parts = parts /\ c.todo = parts /\ c.of = of /\ c.offset = 0 /\ c.got = Got
        /\ c.stale = {}
    BY <1>3 DEF PvReload
  <2>2. PvCallIs(c)
    BY <2>1, <1>1, <1>3 DEF PvCallIs, Query
  <2>3. InstalledUpTo(c.of, 0) = {}
    BY NothingBeforeTheFirstLine
  <2> QED
    BY <2>1, <2>2, <2>3, <1>1 DEF PvReadIs
<1> QED
  BY <1>2, <1>3 DEF PvAsked

\* The calls stay, others may be made.
LEMMA ReadsKept ==
    ASSUME PvReads, pvServer' = pvServer,
           \A c \in pvCalls' : c \in pvCalls \/ PvAsked(c)
                               \/ (PvCallIs(c) /\ (c.todo # {"available"} => PvReadIs(c)))
    PROVE  PvReads'
<1>1. ASSUME NEW c, PvReadIs(c)
      PROVE  PvReadIs(c)'
  BY <1>1, ServerSame DEF PvReadIs
<1>2. ASSUME NEW c \in pvCalls'
      PROVE  PvCallIs(c) /\ (c.todo # {"available"} => PvReadIs(c))
  BY <1>2, PvAskedFacts DEF PvReads
<1>3. \A c : PvCallIs(c)' <=> PvCallIs(c)
  BY DEF PvCallIs
<1> QED
  BY <1>1, <1>2, <1>3 DEF PvReads

LEMMA MoreCome ==
    ASSUME NEW part, \A c \in pvCalls : part \in c.parts => \E d \in pvCalls' : part \in d.parts
    PROVE  Comes(part) => Comes(part)'
BY DEF Comes

\* Steps of the server's side of a call leave the panel alone.
LEMMA PanelStays ==
    ASSUME PvInv, UNCHANGED <<pvServer, pvUp, pvPanel, pvOff>>, PvReads',
           \A part \in PvParts : Comes(part) => Comes(part)'
    PROVE  PvInv'
<1>1. PvPanelIs(pvPanel)'
  BY DEF PvInv, PvPanelIs
<1>2. PvFollowed'
  <2>1. /\ PvWorks' = PvWorks /\ PvOver' = PvOver
        /\ InstalledOf(pvPanel.query)' = InstalledOf(pvPanel.query)
        /\ search(pvPanel.searched)' = search(pvPanel.searched)
    BY ServerSame DEF PvWorks, PvOver
  <2>2. {"installed", "updates", "overview", "results"} \subseteq PvParts
    BY DEF PvParts
  <2> QED
    BY <2>1, <2>2, ServerSame DEF PvInv, PvFollowed, PvKept
<1>3. PvDetailFollowed'
  <2>1. /\ PvWorks' = PvWorks /\ PvOver' = PvOver /\ DetailShown' = DetailShown
        /\ getInfo(pvPanel.selected)' = getInfo(pvPanel.selected)
    BY ServerSame DEF PvWorks, PvOver, DetailShown
  <2>2. "detail" \in PvParts
    BY DEF PvParts
  <2> QED
    BY <2>1, <2>2 DEF PvInv, PvDetailFollowed, PvKept
<1> QED
  BY <1>1, <1>2, <1>3 DEF PvInv

(***************************************************************************)
(* The user.                                                               *)
(***************************************************************************)
LEMMA DoesFacts ==
    ASSUME PvReads, NEW panel, PvPanelIs(panel), NEW more, \A c \in more : PvAsked(c),
           pvPanel' = Loads(panel, more), pvCalls' = pvCalls \cup more, pvServer' = pvServer
    PROVE  /\ PvReads' /\ PvPanelIs(pvPanel)' /\ Alike(pvPanel', panel)
           /\ pvPanel'.operation = panel.operation
           /\ \A part : Comes(part) \/ (\E c \in more : part \in c.parts) => Comes(part)'
<1>1. PvReads'
  BY ReadsKept
<1>2. PvPanelIs(pvPanel')
  BY LoadsFacts
<1>3. PvPanelIs(pvPanel)'
  BY <1>2 DEF PvPanelIs
<1> QED
  BY <1>1, <1>3, LoadsFacts DEF Comes

\* The parts of a call that is made.
LEMMA ReloadParts ==
    ASSUME NEW parts, NEW of
    PROVE  PvReload(parts, of).parts = parts
BY DEF PvReload

\* The lists stay as they are, or a call brings them.
LEMMA FollowedKept ==
    ASSUME PvInv, pvServer' = pvServer, pvOff \subseteq pvOff' \cup {"detail"},
           PvWorks' => PvWorks, PvOver => PvOver',
           \A part \in PvParts : Comes(part) => Comes(part)',
           pvPanel'.updates = pvPanel.updates, pvPanel'.overview = pvPanel.overview,
           \/ Comes("installed")'
           \/ pvPanel'.installed = pvPanel.installed /\ pvPanel'.query = pvPanel.query,
           \/ Comes("results")'
           \/ pvPanel'.results = pvPanel.results /\ pvPanel'.searched = pvPanel.searched
    PROVE  PvFollowed'
<1>1. {"installed", "updates", "overview", "results"} \subseteq PvParts
  BY DEF PvParts
<1>2. \A part \in {"installed", "updates", "overview", "results"} : part \in pvOff => part \in pvOff'
  OBVIOUS
<1> QED
  BY <1>1, <1>2, ServerSame DEF PvInv, PvFollowed, PvKept

\* The panel shows the same, and more calls are made.
LEMMA AlikeKeeps ==
    ASSUME PvInv, pvServer' = pvServer, pvUp' = pvUp, pvOff' = pvOff, PvReads',
           PvPanelIs(pvPanel)', Alike(pvPanel', pvPanel), PvOver => PvOver',
           \A part \in PvParts : Comes(part) => Comes(part)'
    PROVE  PvInv'
<1>1. PvWorks' = PvWorks /\ DetailShown' = DetailShown
  BY DEF PvWorks, DetailShown, Alike
<1>2. PvFollowed'
  BY <1>1, FollowedKept DEF Alike
<1>3. PvDetailFollowed'
  <2>1. getInfo(pvPanel.selected)' = getInfo(pvPanel.selected)
    BY ServerSame DEF Alike
  <2>2. "detail" \in PvParts
    BY DEF PvParts
  <2> QED
    BY <1>1, <2>1, <2>2 DEF PvInv, PvDetailFollowed, PvKept, Alike
<1> QED
  BY <1>2, <1>3 DEF PvInv

LEMMA PvFiltersKeeps ==
    ASSUME PvInv, NEW query \in Query, PvFilters(query)
    PROVE  PvInv'
<1>1. PICK panel : panel = [pvPanel EXCEPT !.query = query]
  OBVIOUS
<1>2. PICK more : more = IF panel.available = "yes" THEN {reloadInstalled(panel)} ELSE {}
  OBVIOUS
<1>3. /\ pvPanel' = Loads(panel, more) /\ pvCalls' = pvCalls \cup more
      /\ UNCHANGED <<pvServer, pvUp, pvOff>> /\ pvUp /\ pvPanel.operation = None
  BY <1>1, <1>2 DEF PvFilters, PvDoes, ShowsPanel
<1>4. PvPanelIs(panel) /\ panel.query = query /\ panel.operation = None
  BY <1>1, <1>3 DEF PvInv, PvPanelIs, Query
<1>5. /\ panel.available = pvPanel.available /\ panel.overview = pvPanel.overview
      /\ panel.installed = pvPanel.installed /\ panel.updates = pvPanel.updates
      /\ panel.results = pvPanel.results /\ panel.searched = pvPanel.searched
      /\ panel.intent = pvPanel.intent /\ panel.selected = pvPanel.selected
      /\ panel.detail = pvPanel.detail
  BY <1>1 DEF PvInv, PvPanelIs
<1>6. \A c \in more : PvAsked(c)
  BY <1>2, <1>4 DEF PvAsked, reloadInstalled, PvParts
<1>7. /\ PvReads' /\ PvPanelIs(pvPanel)' /\ Alike(pvPanel', panel)
      /\ pvPanel'.operation = panel.operation
      /\ \A part : Comes(part) \/ (\E c \in more : part \in c.parts) => Comes(part)'
  BY <1>3, <1>4, <1>6, DoesFacts DEF PvInv
<1>8. PvWorks' = PvWorks /\ DetailShown' = DetailShown /\ ~PvOver /\ ~PvOver'
  BY <1>3, <1>4, <1>5, <1>7, PvPackagesAssumption
     DEF PvWorks, DetailShown, PvOver, Alike, PvPackagesAssumption
<1>9. PvFollowed'
  <2>1. CASE PvWorks'
    <3>1. Comes("installed")'
      BY <2>1, <1>8, <1>2, <1>5, <1>7, ReloadParts DEF PvWorks, reloadInstalled
    <3> QED
      BY <3>1, <1>3, <1>5, <1>7, <1>8, FollowedKept DEF Alike
  <2> QED
    BY <2>1 DEF PvFollowed
<1>10. PvDetailFollowed'
  <2>1. getInfo(pvPanel.selected)' = getInfo(pvPanel.selected)
    BY <1>3, <1>5, <1>7, ServerSame DEF Alike
  <2> QED
    BY <1>3, <1>5, <1>7, <1>8, <2>1 DEF PvInv, PvDetailFollowed, PvKept, Alike
<1> QED
  BY <1>3, <1>7, <1>9, <1>10 DEF PvInv

LEMMA PvSearchesKeeps ==
    ASSUME PvInv, NEW query \in Query, PvSearches(query)
    PROVE  PvInv'
<1>1. PICK panel : panel = [pvPanel EXCEPT !.searched = query,
                                           !.results = IF query = None THEN {}
                                                       ELSE pvPanel.results]
  OBVIOUS
<1>2. PICK more : more = IF panel.available = "yes" THEN reloadSearch(panel) ELSE {}
  OBVIOUS
<1>3. /\ pvPanel' = Loads(panel, more) /\ pvCalls' = pvCalls \cup more
      /\ UNCHANGED <<pvServer, pvUp, pvOff>> /\ pvUp /\ pvPanel.operation = None
  BY <1>1, <1>2 DEF PvSearches, PvDoes, ShowsPanel
<1>4. PvPanelIs(panel) /\ panel.searched = query /\ panel.operation = None
  BY <1>1, <1>3 DEF PvInv, PvPanelIs, Query
<1>5. /\ panel.available = pvPanel.available /\ panel.overview = pvPanel.overview
      /\ panel.installed = pvPanel.installed /\ panel.updates = pvPanel.updates
      /\ panel.query = pvPanel.query /\ (query = None => panel.results = {})
      /\ panel.intent = pvPanel.intent /\ panel.selected = pvPanel.selected
      /\ panel.detail = pvPanel.detail
  BY <1>1 DEF PvInv, PvPanelIs
<1>6. \A c \in more : PvAsked(c)
  BY <1>2, <1>4 DEF PvAsked, reloadSearch, PvParts
<1>7. /\ PvReads' /\ PvPanelIs(pvPanel)' /\ Alike(pvPanel', panel)
      /\ pvPanel'.operation = panel.operation
      /\ \A part : Comes(part) \/ (\E c \in more : part \in c.parts) => Comes(part)'
  BY <1>3, <1>4, <1>6, DoesFacts DEF PvInv
<1>8. PvWorks' = PvWorks /\ DetailShown' = DetailShown /\ ~PvOver /\ ~PvOver'
  BY <1>3, <1>4, <1>5, <1>7, PvPackagesAssumption
     DEF PvWorks, DetailShown, PvOver, Alike, PvPackagesAssumption
<1>9. PvFollowed'
  <2>1. CASE PvWorks'
    <3>1. Comes("results")' \/ pvPanel'.results = search(pvPanel'.searched)
      <4>1. CASE query = None
        BY <4>1, <1>4, <1>5, <1>7, PvPackagesAssumption DEF search, Alike, PvPackagesAssumption
      <4>2. CASE query # None
        BY <4>2, <2>1, <1>8, <1>2, <1>4, <1>5, <1>7, ReloadParts DEF PvWorks, reloadSearch
      <4> QED
        BY <4>1, <4>2
    <3>2. search(pvPanel.searched)' = search(pvPanel'.searched)
      BY DEF search
    <3> QED
      BY <2>1, <3>1, <3>2, <1>3, <1>5, <1>7, <1>8, ServerSame
         DEF PvInv, PvFollowed, PvKept, Alike
  <2> QED
    BY <2>1 DEF PvFollowed
<1>10. PvDetailFollowed'
  <2>1. getInfo(pvPanel.selected)' = getInfo(pvPanel.selected)
    BY <1>3, <1>5, <1>7, ServerSame DEF Alike
  <2> QED
    BY <1>3, <1>5, <1>7, <1>8, <2>1 DEF PvInv, PvDetailFollowed, PvKept, Alike
<1> QED
  BY <1>3, <1>7, <1>9, <1>10 DEF PvInv

\* Another package is opened: its detail is asked for where there is a manager.
LEMMA SelectsKeeps ==
    ASSUME PvInv, NEW name \in Packages, NEW panel, NEW more,
           PvPanelIs(panel), Alike(panel, [pvPanel EXCEPT !.selected = name,
                                                          !.intent = panel.intent]),
           panel.operation = pvPanel.operation,
           more = loadDetail(panel, name), PvDoes(panel, more),
           \/ panel.intent = name
           \/ panel.intent = pvPanel.intent /\ ~DetailShown
    PROVE  PvInv'
<1>1. /\ panel.available = pvPanel.available /\ panel.overview = pvPanel.overview
      /\ panel.installed = pvPanel.installed /\ panel.updates = pvPanel.updates
      /\ panel.query = pvPanel.query /\ panel.results = pvPanel.results
      /\ panel.searched = pvPanel.searched /\ panel.selected = name
      /\ panel.detail = pvPanel.detail
  BY DEF PvInv, PvPanelIs, Alike
<1>2. /\ pvPanel' = Loads(panel, more) /\ pvCalls' = pvCalls \cup more
      /\ UNCHANGED <<pvServer, pvUp, pvOff>>
  BY DEF PvDoes
<1>3. name # None /\ name \in Query
  BY PvPackagesAssumption DEF PvPackagesAssumption, Query
<1>4. \A c \in more : PvAsked(c)
  BY <1>3 DEF PvAsked, loadDetail, PvParts
<1>5. /\ PvReads' /\ PvPanelIs(pvPanel)' /\ Alike(pvPanel', panel)
      /\ pvPanel'.operation = panel.operation
      /\ \A part : Comes(part) \/ (\E c \in more : part \in c.parts) => Comes(part)'
  BY <1>2, <1>4, DoesFacts DEF PvInv
<1>6. PvWorks' = PvWorks /\ PvOver' = PvOver
  BY <1>2, <1>1, <1>5 DEF PvWorks, PvOver, Alike
<1>7. PvFollowed'
  BY <1>1, <1>2, <1>5, <1>6, FollowedKept DEF Alike
<1>8. PvDetailFollowed'
  <2>1. pvPanel'.selected = name /\ pvPanel'.detail = pvPanel.detail /\ pvPanel'.intent = panel.intent
    BY <1>1, <1>5 DEF Alike
  <2>2. CASE PvWorks
    <3>1. Comes("detail")'
      BY <2>2, <1>1, <1>5, ReloadParts DEF PvWorks, loadDetail
    <3> QED
      BY <3>1, <2>1, <1>3 DEF PvDetailFollowed, PvKept
  <2>3. CASE ~PvWorks /\ panel.intent = name
    BY <2>3, <2>1, <1>3, <1>6 DEF PvDetailFollowed
  <2>4. CASE ~DetailShown
    <3>1. pvPanel.detail = None \/ "detail" \in pvOff
      BY <2>4 DEF DetailShown, PvInv, PvDetailFollowed
    <3> QED
      BY <3>1, <2>1, <1>2, <1>3 DEF PvDetailFollowed, PvKept, DetailShown
  <2> QED
    BY <2>2, <2>3, <2>4
<1> QED
  BY <1>2, <1>5, <1>7, <1>8 DEF PvInv

LEMMA PvOpensKeeps ==
    ASSUME PvInv, NEW name \in Packages, PvOpens(name) \/ PvIntends(name)
    PROVE  PvInv'
<1>1. CASE PvOpens(name)
  <2>1. PICK panel : panel = Opens(pvPanel, name)
    OBVIOUS
  <2>2. PvPanelIs(panel) /\ panel.operation = pvPanel.operation
    BY <2>1 DEF PvInv, PvPanelIs, Opens
  <2>3. /\ Alike(panel, [pvPanel EXCEPT !.selected = name, !.intent = panel.intent])
        /\ panel.intent = pvPanel.intent /\ panel.available = pvPanel.available
    BY <2>1 DEF PvInv, PvPanelIs, Opens, Alike
  <2>4. PvDoes(panel, loadDetail(pvPanel, name)) /\ ~DetailShown
    BY <1>1, <2>1 DEF PvOpens
  <2>5. loadDetail(pvPanel, name) = loadDetail(panel, name)
    BY <2>3 DEF loadDetail
  <2> QED
    BY <2>2, <2>3, <2>4, <2>5, SelectsKeeps
<1>2. CASE PvIntends(name)
  <2>1. PICK panel : panel = Follows([pvPanel EXCEPT !.intent = name])
    OBVIOUS
  <2>2. panel = [[pvPanel EXCEPT !.intent = name] EXCEPT !.selected = name]
    BY <2>1, PvPackagesAssumption DEF PvInv, PvPanelIs, Follows, Opens, PvPackagesAssumption
  <2>3. PvPanelIs(panel) /\ panel.operation = pvPanel.operation
    BY <2>2 DEF PvInv, PvPanelIs
  <2>4. /\ Alike(panel, [pvPanel EXCEPT !.selected = name, !.intent = panel.intent])
        /\ panel.intent = name /\ panel.available = pvPanel.available
    BY <2>2 DEF PvInv, PvPanelIs, Alike
  <2>5. PvDoes(panel, loadDetail([pvPanel EXCEPT !.intent = name], name))
    BY <1>2, <2>1 DEF PvIntends
  <2>6. [pvPanel EXCEPT !.intent = name].available = pvPanel.available
    BY DEF PvInv, PvPanelIs
  <2>7. loadDetail([pvPanel EXCEPT !.intent = name], name) = loadDetail(panel, name)
    BY <2>4, <2>6 DEF loadDetail
  <2> QED
    BY <2>3, <2>4, <2>5, <2>7, SelectsKeeps
<1> QED
  BY <1>1, <1>2

\* The panel shows the same but for a dialog, and calls are made.
OnlyAsks(panel, more) ==
    /\ PvPanelIs(panel) /\ Alike(panel, pvPanel) /\ panel.operation = pvPanel.operation
    /\ \A c \in more : PvAsked(c)
    /\ pvPanel' = Loads(panel, more) \/ (pvPanel' = panel /\ more = {})
    /\ pvCalls' = pvCalls \cup more /\ UNCHANGED <<pvServer, pvUp, pvOff>>

LEMMA PvAsksKeeps ==
    ASSUME PvInv,
           \/ PvPolls \/ PvDismisses
           \/ \E name \in Packages : PvAsksToInstall(name)
           \/ \E kind, of : PvRequests(kind, of)
    PROVE  PvInv'
<1>1. PICK panel, more : OnlyAsks(panel, more)
  <2>1. PvPanelIs(pvPanel) /\ Alike(pvPanel, pvPanel)
    BY DEF PvInv, Alike
  <2>2. CASE PvPolls
    <3>1. \A c \in {PvReload({"overview"}, None), PvReload({"updates"}, None)} : PvAsked(c)
      BY DEF PvAsked, PvParts, Query
    <3> QED
      BY <2>1, <2>2, <3>1 DEF PvPolls, PvDoes, OnlyAsks
  <2>3. CASE \E name \in Packages : PvAsksToInstall(name)
    <3>1. \A name \in Packages : PvAsked(PvReload({"dialog"}, name))
      BY DEF PvAsked, PvParts, Query
    <3> QED
      BY <2>1, <2>3, <3>1 DEF PvAsksToInstall, PvDoes, OnlyAsks
  <2>4. ASSUME NEW kind, NEW of, PvRequests(kind, of)
        PROVE  \E panel, more : OnlyAsks(panel, more)
    <3>1. PICK panel : panel = [pvPanel EXCEPT !.pending = Pending(kind, of)]
      OBVIOUS
    <3>2. PvPanelIs(panel) /\ Alike(panel, pvPanel) /\ panel.operation = pvPanel.operation
      BY <3>1 DEF PvInv, PvPanelIs, Alike, Pending
    <3>3. /\ pvPanel' = Loads(panel, {}) /\ pvCalls' = pvCalls \cup {}
          /\ UNCHANGED <<pvServer, pvUp, pvOff>> /\ \A c \in {} : PvAsked(c)
      BY <2>4, <3>1 DEF PvRequests, PvDoes
    <3> WITNESS panel, {}
    <3> QED
      BY <3>2, <3>3 DEF OnlyAsks
  <2>5. ASSUME PvDismisses
        PROVE  \E panel, more : OnlyAsks(panel, more)
    <3>1. PICK panel : panel = [pvPanel EXCEPT !.dialog = None, !.pending = None]
      OBVIOUS
    <3>2. PvPanelIs(panel) /\ Alike(panel, pvPanel) /\ panel.operation = pvPanel.operation
      BY <3>1 DEF PvInv, PvPanelIs, Alike
    <3>3. /\ pvPanel' = panel /\ pvCalls' = pvCalls \cup {}
          /\ UNCHANGED <<pvServer, pvUp, pvOff>> /\ \A c \in {} : PvAsked(c)
      BY <2>5, <3>1 DEF PvDismisses, PvBecomes
    <3> WITNESS panel, {}
    <3> QED
      BY <3>2, <3>3 DEF OnlyAsks
  <2> QED
    BY <2>2, <2>3, <2>4, <2>5
<1>2. PvReads'
  BY <1>1, ReadsKept DEF PvInv, OnlyAsks
<1>3. PvPanelIs(pvPanel') /\ Alike(pvPanel', pvPanel) /\ pvPanel'.operation = pvPanel.operation
  BY <1>1, LoadsFacts DEF Alike, OnlyAsks
<1>4. PvPanelIs(pvPanel)'
  BY <1>3 DEF PvPanelIs
<1>5. \A part \in PvParts : Comes(part) => Comes(part)'
  BY <1>1 DEF Comes, OnlyAsks
<1> QED
  BY <1>1, <1>2, <1>3, <1>4, <1>5, AlikeKeeps DEF PvOver, OnlyAsks

\* An operation starts, or could not be started.
LEMMA PvStartsKeeps ==
    ASSUME PvInv, PvCannotStart \/ \E version \in {None, "old"} : PvConfirms(version)
    PROVE  PvInv'
<1>1. ~PvOver
  BY PvPackagesAssumption
     DEF PvCannotStart, PvConfirms, ShowsPanel, PvOver, PvPackagesAssumption
<1>2. PICK op : /\ \/ pvPanel' = [pvPanel EXCEPT !.operation = op]
                   \/ pvPanel' = [pvPanel EXCEPT !.dialog = None, !.pending = None, !.operation = op]
                /\ UNCHANGED <<pvServer, pvUp, pvCalls, pvOff>>
                /\ op = None \/ op.version \in {None, "old"}
  <2>1. CASE PvCannotStart
    BY <2>1 DEF PvCannotStart
  <2>2. ASSUME NEW version \in {None, "old"}, PvConfirms(version)
        PROVE  \E op : /\ pvPanel' = [pvPanel EXCEPT !.dialog = None, !.pending = None,
                                                     !.operation = op]
                       /\ UNCHANGED <<pvServer, pvUp, pvCalls, pvOff>>
                       /\ op.version \in {None, "old"}
    <3>1. PICK op \in {[kind |-> "install", of |-> pvPanel.dialog.name, version |-> version] :
                          d \in {pvPanel.dialog} \ {None}} \cup ({pvPanel.pending} \ {None}) :
              PvBecomes([pvPanel EXCEPT !.dialog = None, !.pending = None, !.operation = op])
      BY <2>2 DEF PvConfirms
    <3>2. op.version \in {None, "old"}
      BY <3>1 DEF PvInv, PvPanelIs
    <3> QED
      BY <3>1, <3>2 DEF PvBecomes
  <2> QED
    BY <2>1, <2>2
<1>3. PvPanelIs(pvPanel') /\ Alike(pvPanel', pvPanel)
  BY <1>2 DEF PvInv, PvPanelIs, Alike
<1>4. PvPanelIs(pvPanel)'
  BY <1>3 DEF PvPanelIs
<1>5. PvReads' /\ \A part \in PvParts : Comes(part) => Comes(part)'
  BY <1>2, ReadsKept DEF PvInv, Comes
<1> QED
  BY <1>1, <1>2, <1>3, <1>4, <1>5, AlikeKeeps

LEMMA PvGoesBackKeeps ==
    ASSUME PvInv, PvGoesBack
    PROVE  PvInv'
<1>1. /\ pvPanel' = [pvPanel EXCEPT !.selected = None, !.detail = None]
      /\ pvOff' = pvOff \ {"detail"} /\ UNCHANGED <<pvServer, pvUp, pvCalls>>
  BY DEF PvGoesBack
<1>2. PvPanelIs(pvPanel') /\ pvPanel'.selected = None /\ pvPanel'.detail = None
  BY <1>1 DEF PvInv, PvPanelIs
<1>3. /\ pvPanel'.updates = pvPanel.updates /\ pvPanel'.overview = pvPanel.overview
      /\ pvPanel'.installed = pvPanel.installed /\ pvPanel'.query = pvPanel.query
      /\ pvPanel'.results = pvPanel.results /\ pvPanel'.searched = pvPanel.searched
      /\ pvPanel'.available = pvPanel.available /\ pvPanel'.operation = pvPanel.operation
  BY <1>1 DEF PvInv, PvPanelIs
<1>4. PvPanelIs(pvPanel)' /\ PvReads' /\ \A part : Comes(part) => Comes(part)'
  BY <1>1, <1>2, ReadsKept DEF PvInv, PvPanelIs, Comes
<1>5. PvFollowed'
  BY <1>1, <1>3, <1>4, FollowedKept DEF PvWorks, PvOver
<1>6. PvDetailFollowed'
  BY <1>2 DEF PvDetailFollowed, DetailShown
<1> QED
  BY <1>1, <1>4, <1>5, <1>6 DEF PvInv

(***************************************************************************)
(* The server changes.                                                     *)
(***************************************************************************)
\* Whatever was read before is marked.
LEMMA OutdatedFacts ==
    ASSUME PvReads, pvCalls' = Outdated(pvCalls)
    PROVE  PvReads' /\ \A part : Comes(part) => Comes(part)'
<1> DEFINE old(c) == [c EXCEPT !.stale = c.stale \cup (c.parts \ c.todo)
                                        \cup (IF c.offset > 0 THEN {"installed"} ELSE {})]
<1>1. pvCalls' = {old(c) : c \in pvCalls}
  BY DEF Outdated
<1>2. ASSUME NEW c \in pvCalls
      PROVE  /\ PvCallIs(old(c)) /\ old(c).parts = c.parts
             /\ old(c).todo # {"available"} => PvReadIs(old(c))'
  <2>1. PvCallIs(c) /\ (c.todo # {"available"} => PvReadIs(c))
    BY DEF PvReads
  <2>2. PICK d : d = old(c)
    OBVIOUS
  <2>3. /\ DOMAIN d = DOMAIN c /\ d.parts = c.parts /\ d.todo = c.todo /\ d.of = c.of
        /\ d.offset = c.offset /\ d.got = c.got
        /\ d.stale = c.stale \cup (c.parts \ c.todo)
                     \cup (IF c.offset > 0 THEN {"installed"} ELSE {})
    BY <2>1, <2>2 DEF PvCallIs
  <2>4. PvCallIs(d)
    BY <2>1, <2>3 DEF PvCallIs
  <2>5. ASSUME d.todo # {"available"}
        PROVE  PvReadIs(d)'
    <3>1. (d.parts \ d.todo) \ d.stale = {}
      BY <2>3
    <3>2. ASSUME "installed" \in d.todo \ d.stale
          PROVE  d.got.installed = {} /\ d.offset = 0
      <4>1. "installed" \in c.todo \ c.stale /\ c.offset = 0
        BY <3>2, <2>1, <2>3 DEF PvCallIs
      <4>2. c.got.installed = InstalledUpTo(c.of, c.offset)
        BY <2>1, <2>3, <2>5, <4>1 DEF PvReadIs
      <4> QED
        BY <4>1, <4>2, <2>3, NothingBeforeTheFirstLine
    <3>3. InstalledUpTo(d.of, 0)' = {}
      <4>1. (\A query : InstalledUpTo(query, 0) = {})'
        BY NothingBeforeTheFirstLine, PTL
      <4> QED
        BY <4>1
    <3> QED
      BY <3>1, <3>2, <3>3 DEF PvReadIs
  <2> QED
    BY <2>2, <2>3, <2>4, <2>5
<1>3. \A d \in pvCalls' : PvCallIs(d) /\ (d.todo # {"available"} => PvReadIs(d)')
  BY <1>1, <1>2
<1>4. \A d : PvCallIs(d)' <=> PvCallIs(d)
  BY DEF PvCallIs
<1>5. PvReads'
  BY <1>3, <1>4 DEF PvReads
<1>6. \A part : Comes(part) => Comes(part)'
  BY <1>1, <1>2 DEF Comes
<1> QED
  BY <1>5, <1>6

LEMMA PvServerChangesKeeps ==
    ASSUME PvInv, NEW name \in Packages, NEW state \in PackageState, PvServerChanges(name, state)
    PROVE  PvInv'
<1>1. /\ pvServer' = [pvServer EXCEPT ![name] = state] /\ pvCalls' = Outdated(pvCalls)
      /\ pvOff' = pvOff \cup Lists \cup {"detail"} /\ UNCHANGED <<pvUp, pvPanel>>
  BY DEF PvServerChanges
<1>2. PvReads' /\ \A part : Comes(part) => Comes(part)'
  BY <1>1, OutdatedFacts DEF PvInv
<1>3. pvServer' \in [Packages -> PackageState] /\ PvPanelIs(pvPanel)'
  BY <1>1 DEF PvInv, PvPanelIs
<1>4. PvFollowed'
  <2>1. {"installed", "updates", "overview", "detail"} \subseteq pvOff'
    BY <1>1 DEF Lists
  <2>2. PvWorks' = PvWorks /\ search(pvPanel.searched)' = search(pvPanel.searched)
    BY <1>1 DEF PvWorks, search
  <2> QED
    BY <1>1, <1>2, <2>1, <2>2 DEF PvInv, PvFollowed, PvKept
<1>5. PvDetailFollowed'
  BY <1>1 DEF PvDetailFollowed, PvKept
<1> QED
  BY <1>1, <1>2, <1>3, <1>4, <1>5 DEF PvInv

LEMMA PvOperationRunsKeeps ==
    ASSUME PvInv, PvOperationRuns
    PROVE  PvInv'
<1>1. /\ pvServer' \in {pvServer, AfterOperation(pvPanel.operation)}
      /\ pvCalls' = Outdated(pvCalls) /\ pvPanel' = [pvPanel EXCEPT !.operation = Finished]
      /\ UNCHANGED <<pvUp, pvOff>>
  BY DEF PvOperationRuns
<1>2. PvReads' /\ \A part : Comes(part) => Comes(part)'
  BY <1>1, OutdatedFacts DEF PvInv
<1>3. PvPanelIs(pvPanel') /\ Alike(pvPanel', pvPanel) /\ pvPanel'.operation = Finished
  BY <1>1 DEF PvInv, PvPanelIs, Alike
<1>4. PvPanelIs(pvPanel)' /\ PvOver'
  BY <1>3 DEF PvPanelIs, PvOver
<1>5. pvServer' \in [Packages -> PackageState]
  <2>1. pvPanel.operation.version \in {None, "old"}
    BY DEF PvInv, PvPanelIs, PvOperationRuns
  <2> QED
    BY <1>1, <2>1 DEF PvInv, AfterOperation, PackageState
<1>6. PvFollowed'
  <2>1. PvWorks' = PvWorks /\ search(pvPanel.searched)' = search(pvPanel.searched)
    BY <1>1, <1>3 DEF PvWorks, search, Alike
  <2> QED
    BY <1>1, <1>2, <1>3, <1>4, <2>1 DEF PvInv, PvFollowed, PvKept, Alike
<1>7. PvDetailFollowed'
  BY <1>1, <1>3, <1>4 DEF PvInv, PvDetailFollowed, PvKept, Alike
<1> QED
  BY <1>1, <1>2, <1>4, <1>5, <1>6, <1>7 DEF PvInv

\* The lists are read again when the operation is over.
LEMMA PvDoneKeeps ==
    ASSUME PvInv, PvDone
    PROVE  PvInv'
<1>1. PICK panel : panel = [pvPanel EXCEPT !.operation = None, !.selected = None, !.detail = None]
  OBVIOUS
<1>2. /\ pvPanel' = Loads(panel, {reloadAll}) /\ pvCalls' = pvCalls \cup {reloadAll}
      /\ pvOff' = pvOff \ {"detail"} /\ UNCHANGED <<pvServer, pvUp>>
  BY <1>1 DEF PvDone, FinishedReloads
<1>3. PvPanelIs(panel) /\ panel.selected = None /\ panel.detail = None
  BY <1>1 DEF PvInv, PvPanelIs
<1>4. /\ panel.results = pvPanel.results /\ panel.searched = pvPanel.searched
      /\ panel.available = pvPanel.available
  BY <1>1 DEF PvInv, PvPanelIs
<1>5. /\ PvReads' /\ PvPanelIs(pvPanel)' /\ Alike(pvPanel', panel)
      /\ \A part : Comes(part) \/ (\E c \in {reloadAll} : part \in c.parts) => Comes(part)'
  <2>1. \A c \in {reloadAll} : PvAsked(c)
    BY DEF PvAsked
  <2> QED
    BY <1>2, <1>3, <2>1, DoesFacts DEF PvInv
<1>6. PvFollowed'
  <2>1. reloadAll.parts = Lists
    BY DEF reloadAll, PvReload
  <2>2. Comes("installed")' /\ Comes("updates")' /\ Comes("overview")'
    BY <1>5, <2>1 DEF Lists
  <2>3. PvWorks' = PvWorks /\ search(pvPanel.searched)' = search(pvPanel.searched)
    BY <1>2, <1>4, <1>5, ServerSame DEF PvWorks, Alike
  <2> QED
    BY <1>2, <1>4, <1>5, <2>2, <2>3 DEF PvInv, PvFollowed, PvKept, Alike
<1>7. PvDetailFollowed'
  BY <1>3, <1>5 DEF PvDetailFollowed, DetailShown, Alike
<1> QED
  BY <1>2, <1>5, <1>6, <1>7 DEF PvInv

(***************************************************************************)
(* The main process answers.                                               *)
(***************************************************************************)
\* A call is replaced by one for the same parts.
LEMMA GoesOnKeeps ==
    ASSUME PvInv, NEW call \in pvCalls, NEW next, PvCallIs(next), next.parts = call.parts,
           next.todo # {"available"} => PvReadIs(next),
           pvCalls' = (pvCalls \ {call}) \cup {next},
           UNCHANGED <<pvServer, pvUp, pvPanel, pvOff>>
    PROVE  PvInv'
<1>1. PvReads'
  BY ReadsKept DEF PvInv
<1>2. \A part : Comes(part) => Comes(part)'
  BY DEF Comes
<1> QED
  BY <1>1, <1>2, PanelStays

LEMMA PvMainReadsKeeps ==
    ASSUME PvInv, NEW call \in pvCalls, NEW part \in call.todo, PvMainReads(call, part)
    PROVE  PvInv'
<1>1. PICK next : next = [call EXCEPT !.todo = call.todo \ {part},
                                      !.got = [call.got EXCEPT ![part] = Answer(call, part)]]
  OBVIOUS
<1>2. /\ pvCalls' = (pvCalls \ {call}) \cup {next} /\ UNCHANGED <<pvServer, pvUp, pvPanel, pvOff>>
      /\ part # "available" /\ part # "installed"
  BY <1>1 DEF PvMainReads
<1>3. PvCallIs(call) /\ call.todo # {"available"} /\ PvReadIs(call)
  BY <1>2 DEF PvInv, PvReads
<1>4. call.todo \subseteq call.parts /\ part \in PvParts
  BY <1>3 DEF PvCallIs
<1>5. /\ DOMAIN next = DOMAIN call /\ next.parts = call.parts /\ next.of = call.of
      /\ next.offset = call.offset /\ next.stale = call.stale /\ next.todo = call.todo \ {part}
      /\ DOMAIN next.got = PvParts /\ next.got[part] = Answer(call, part)
      /\ \A f \in PvParts \ {part} : next.got[f] = call.got[f]
  BY <1>1, <1>3, <1>4 DEF PvCallIs
<1>6. /\ part = "overview" => Answer(call, part) = overview
      /\ part = "updates" => Answer(call, part) = listUpdates
      /\ part = "results" => Answer(call, part) = search(call.of)
      /\ part = "detail" => Answer(call, part) = getInfo(call.of)
  BY DEF Answer
<1>7. {"overview", "updates", "results", "detail", "installed"} \subseteq PvParts
  BY DEF PvParts
<1>8. PvCallIs(next)
  <2>1. next.got.updates \subseteq Packages
    BY <1>3, <1>5, <1>6, <1>7 DEF PvCallIs, listUpdates
  <2> QED
    BY <1>3, <1>4, <1>5, <2>1 DEF PvCallIs
<1>9. PvReadIs(next)
  BY <1>2, <1>3, <1>5, <1>6, <1>7 DEF PvReadIs
<1> QED
  BY <1>2, <1>5, <1>8, <1>9, GoesOnKeeps

LEMMA PvMainListsKeeps ==
    ASSUME PvInv, NEW call \in pvCalls, PvMainLists(call)
    PROVE  PvInv'
<1>1. PICK page : page = listInstalled(call.of, call.offset)
  OBVIOUS
<1>2. PICK items : items = call.got.installed \cup page.items
  OBVIOUS
<1>3. PICK next :
        next = [call EXCEPT !.got = [call.got EXCEPT !.installed = items],
                            !.offset = call.offset + LIST_CHUNK_SIZE,
                            !.stale = call.stale \cup (IF EndsEarly(page, call.offset)
                                                      THEN {"installed"} ELSE {}),
                            !.todo = call.todo \ (IF LastPage(page, items)
                                                 THEN {"installed"} ELSE {})]
  OBVIOUS
<1>4. /\ pvCalls' = (pvCalls \ {call}) \cup {next} /\ UNCHANGED <<pvServer, pvUp, pvPanel, pvOff>>
      /\ "installed" \in call.todo
  BY <1>1, <1>2, <1>3 DEF PvMainLists
<1>5. PvCallIs(call) /\ call.todo # {"available"} /\ PvReadIs(call)
  BY <1>4 DEF PvInv, PvReads
<1>6. call.todo \subseteq call.parts /\ call.of \in Query /\ call.offset \in Nat
  BY <1>4, <1>5 DEF PvCallIs, Query
<1>7. /\ DOMAIN next = DOMAIN call /\ next.parts = call.parts /\ next.of = call.of
      /\ next.offset = call.offset + LIST_CHUNK_SIZE
      /\ next.stale = call.stale \cup (IF EndsEarly(page, call.offset) THEN {"installed"} ELSE {})
      /\ next.todo = call.todo \ (IF LastPage(page, items) THEN {"installed"} ELSE {})
      /\ DOMAIN next.got = PvParts /\ next.got.installed = items
      /\ \A f \in PvParts \ {"installed"} : next.got[f] = call.got[f]
  BY <1>3, <1>5 DEF PvCallIs, PvParts
<1>8. {"overview", "updates", "results", "detail", "installed"} \subseteq PvParts
  BY DEF PvParts
<1>9. PvCallIs(next)
  <2>1. next.offset \in Nat
    BY <1>6, <1>7, PvPackagesAssumption DEF PvPackagesAssumption
  <2> QED
    BY <1>5, <1>6, <1>7, <1>8, <2>1 DEF PvCallIs
<1>10. ASSUME "installed" \notin next.stale
       PROVE  /\ items = InstalledUpTo(call.of, call.offset + LIST_CHUNK_SIZE)
              /\ LastPage(page, items) => items = InstalledOf(call.of)
  <2>1. "installed" \notin call.stale /\ ~EndsEarly(page, call.offset)
    BY <1>7, <1>10
  <2>2. call.got.installed = InstalledUpTo(call.of, call.offset)
    BY <1>4, <1>5, <2>1 DEF PvReadIs
  <2>3. items = InstalledUpTo(call.of, call.offset + LIST_CHUNK_SIZE)
    BY <1>1, <1>2, <1>6, <2>2, PvPageFacts
  <2> QED
    BY <1>1, <1>6, <2>1, <2>3, LastPageFacts
<1>11. PvReadIs(next)
  <2>1. /\ next.got.overview = call.got.overview /\ next.got.updates = call.got.updates
        /\ next.got.results = call.got.results /\ next.got.detail = call.got.detail
    BY <1>7, <1>8
  <2> QED
    BY <1>5, <1>7, <1>10, <2>1 DEF PvReadIs
<1> QED
  BY <1>4, <1>7, <1>9, <1>11, GoesOnKeeps

(***************************************************************************)
(* The window hears of the manager and of the connection.                  *)
(***************************************************************************)
LEMMA FollowsFacts ==
    ASSUME NEW panel, PvPanelIs(panel)
    PROVE  /\ PvPanelIs(Follows(panel))
           /\ Alike(Follows(panel), [panel EXCEPT !.selected = IF panel.intent = None
                                                              THEN panel.selected
                                                              ELSE panel.intent])
           /\ Follows(panel).operation = panel.operation
<1>1. CASE panel.intent = None
  BY <1>1 DEF Follows, PvPanelIs, Alike
<1>2. CASE panel.intent # None
  BY <1>2 DEF Follows, Opens, PvPanelIs, Alike
<1> QED
  BY <1>1, <1>2

\* Where there is a manager again, everything is asked for.
LEMMA ArrivesKeeps ==
    ASSUME PvInv, UNCHANGED <<pvServer, pvOff>>, pvUp' \in BOOLEAN, PvReads',
           \A part : Comes(part) => Comes(part)',
           NEW panel, PvPanelIs(panel), pvPanel' = Follows(panel),
           panel.selected = pvPanel.selected, panel.intent = pvPanel.intent,
           panel.detail = pvPanel.detail, panel.operation = pvPanel.operation,
           pvUp' /\ panel.available = "yes" =>
               /\ Comes("installed")' /\ Comes("updates")' /\ Comes("overview")'
               /\ Comes("results")' \/ panel.results = search(panel.searched)
               /\ panel.intent = None \/ Comes("detail")'
    PROVE  PvInv'
<1>1. /\ PvPanelIs(pvPanel')
      /\ pvPanel'.available = panel.available /\ pvPanel'.results = panel.results
      /\ pvPanel'.searched = panel.searched /\ pvPanel'.intent = panel.intent
      /\ pvPanel'.detail = panel.detail /\ pvPanel'.operation = panel.operation
      /\ pvPanel'.selected = IF panel.intent = None THEN panel.selected ELSE panel.intent
  <2>1. [panel EXCEPT !.selected = IF panel.intent = None THEN panel.selected
                                   ELSE panel.intent].selected
            = IF panel.intent = None THEN panel.selected ELSE panel.intent
    BY DEF PvPanelIs
  <2> QED
    BY <2>1, FollowsFacts DEF Alike, PvPanelIs
<1>2. PvPanelIs(pvPanel)'
  BY <1>1 DEF PvPanelIs
<1>3. PvFollowed'
  <2>1. search(pvPanel.searched)' = search(panel.searched)
    BY <1>1 DEF search
  <2> QED
    BY <1>1, <2>1 DEF PvFollowed, PvWorks, PvKept
<1>4. PvDetailFollowed'
  <2>1. CASE panel.intent = None
    <3>1. getInfo(pvPanel.selected)' = getInfo(pvPanel.selected)
      BY <2>1, <1>1, ServerSame
    <3> QED
      BY <2>1, <3>1, <1>1 DEF PvInv, PvDetailFollowed, PvKept, DetailShown, PvOver
  <2>2. CASE panel.intent # None
    BY <2>2, <1>1 DEF PvDetailFollowed, PvKept, PvWorks
  <2> QED
    BY <2>1, <2>2
<1> QED
  BY <1>2, <1>3, <1>4 DEF PvInv

LEMMA UnsearchedFacts ==
    ASSUME NEW panel, PvPanelIs(panel)
    PROVE  /\ PvPanelIs(Unsearched(panel))
           /\ Alike(Unsearched(panel), [panel EXCEPT !.results = Unsearched(panel).results])
           /\ Unsearched(panel).operation = panel.operation
           /\ panel.searched = None => Unsearched(panel).results = search(panel.searched)
<1>1. CASE panel.searched = None
  <2>1. search(None) = {}
    BY PvPackagesAssumption DEF search, PvPackagesAssumption
  <2> QED
    BY <1>1, <2>1 DEF Unsearched, PvPanelIs, Alike
<1>2. CASE panel.searched # None
  BY <1>2 DEF Unsearched, PvPanelIs, Alike
<1> QED
  BY <1>1, <1>2

LEMMA WaitsForFacts ==
    ASSUME NEW panel, PvPanelIs(panel)
    PROVE  /\ \A c \in WaitsFor(panel) : PvAsked(c)
           /\ panel.searched # None => \E c \in WaitsFor(panel) : "results" \in c.parts
           /\ panel.intent # None => \E c \in WaitsFor(panel) : "detail" \in c.parts
<1>1. /\ panel.query \in Query /\ panel.searched \in Query /\ panel.intent \in Query
  BY DEF PvPanelIs, Query
<1>2. PvAsked(PvReload({"installed"}, panel.query)) /\ PvAsked(PvReload({"results"}, panel.searched))
  BY <1>1 DEF PvAsked, PvParts
<1>3. panel.intent # None => PvAsked(PvReload({"detail"}, panel.intent))
  BY <1>1 DEF PvAsked, PvParts
<1>4. \A c \in WaitsFor(panel) : PvAsked(c)
  BY <1>2, <1>3 DEF WaitsFor, reloadInstalled, reloadSearch
<1>5. panel.searched # None => PvReload({"results"}, panel.searched) \in WaitsFor(panel)
  BY DEF WaitsFor, reloadSearch
<1>6. panel.intent # None => PvReload({"detail"}, panel.intent) \in WaitsFor(panel)
  BY DEF WaitsFor
<1> QED
  BY <1>4, <1>5, <1>6, ReloadParts

LEMMA PvAvailableKeeps ==
    ASSUME PvInv, NEW call \in pvCalls, PvAvailable(call)
    PROVE  PvInv'
<1>1. PICK panel : panel = [pvPanel EXCEPT !.available = "yes"]
  OBVIOUS
<1>2. PICK more : more = IF pvPanel.available # "yes" /\ pvUp THEN WaitsFor(panel) ELSE {}
  OBVIOUS
<1>3. PICK lists : lists = PvReload(Lists, panel.query)
  OBVIOUS
<1>4. /\ "available" \in call.todo /\ UNCHANGED <<pvServer, pvUp, pvOff>>
      /\ pvCalls' = (pvCalls \ {call}) \cup {lists} \cup more
      /\ pvPanel' = IF ~(pvPanel.available # "yes") THEN panel
                    ELSE Follows(Loads(IF pvUp THEN Unsearched(panel) ELSE panel, more))
  BY <1>1, <1>2, <1>3 DEF PvAvailable
<1>5. /\ PvPanelIs(panel) /\ panel.available = "yes" /\ panel.operation = pvPanel.operation
      /\ Alike(panel, [pvPanel EXCEPT !.available = "yes"])
      /\ panel.selected = pvPanel.selected /\ panel.intent = pvPanel.intent
      /\ panel.detail = pvPanel.detail
  BY <1>1 DEF PvInv, PvPanelIs, Alike
<1>6. call.parts = Lists
  BY <1>4 DEF PvInv, PvReads, PvCallIs, PvParts
<1>7. PvAsked(lists) /\ lists.parts = Lists /\ lists \in pvCalls'
  <2>1. panel.query \in Query /\ Lists \in SUBSET PvParts /\ "detail" \notin Lists
    BY <1>5 DEF PvPanelIs, Query, Lists, PvParts
  <2> QED
    BY <1>3, <1>4, <2>1, ReloadParts DEF PvAsked
<1>8. \A c \in more : PvAsked(c)
  BY <1>2, <1>5, WaitsForFacts
<1>9. PvReads'
  BY <1>4, <1>7, <1>8, ReadsKept DEF PvInv
<1>10. \A part : Comes(part) => Comes(part)'
  BY <1>4, <1>6, <1>7 DEF Comes
<1>11. CASE pvPanel.available = "yes"
  <2>1. Alike(pvPanel', pvPanel) /\ PvPanelIs(pvPanel') /\ pvPanel'.operation = pvPanel.operation
    BY <1>1, <1>4, <1>5, <1>11 DEF PvInv, PvPanelIs, Alike
  <2>2. PvPanelIs(pvPanel)'
    BY <2>1 DEF PvPanelIs
  <2> QED
    BY <1>4, <1>9, <1>10, <2>1, <2>2, AlikeKeeps DEF PvOver
<1>12. CASE pvPanel.available # "yes"
  <2>1. PICK old : old = IF pvUp THEN Unsearched(panel) ELSE panel
    OBVIOUS
  <2>2. /\ PvPanelIs(old) /\ old.operation = pvPanel.operation /\ old.available = "yes"
        /\ old.selected = pvPanel.selected /\ old.intent = pvPanel.intent
        /\ old.detail = pvPanel.detail /\ old.searched = panel.searched
        /\ pvUp /\ panel.searched = None => old.results = search(old.searched)
    <3>1. CASE pvUp
      BY <3>1, <2>1, <1>5, UnsearchedFacts DEF Alike, PvPanelIs
    <3>2. CASE ~pvUp
      BY <3>2, <2>1, <1>5
    <3> QED
      BY <3>1, <3>2
  <2>3. PICK new : new = Loads(old, more)
    OBVIOUS
  <2>4. PvPanelIs(new) /\ Alike(new, old) /\ new.operation = old.operation
    BY <2>2, <2>3, LoadsFacts
  <2>5. pvPanel' = Follows(new)
    BY <1>4, <1>12, <2>1, <2>3
  <2>6. Comes("installed")' /\ Comes("updates")' /\ Comes("overview")'
    BY <1>7 DEF Comes, Lists
  <2>7. ASSUME pvUp
        PROVE  /\ Comes("results")' \/ new.results = search(new.searched)
               /\ new.intent = None \/ Comes("detail")'
    <3>1. more = WaitsFor(panel) /\ more \subseteq pvCalls'
      BY <2>7, <1>2, <1>4, <1>12
    <3>2. panel.searched # None => Comes("results")'
      BY <3>1, <1>5, WaitsForFacts DEF Comes
    <3>3. panel.intent # None => Comes("detail")'
      BY <3>1, <1>5, WaitsForFacts DEF Comes
    <3> QED
      BY <3>2, <3>3, <2>2, <2>4, <2>7, <1>5 DEF Alike
  <2> QED
    BY <1>4, <1>9, <1>10, <2>2, <2>4, <2>5, <2>6, <2>7, ArrivesKeeps DEF Alike, PvInv
<1> QED
  BY <1>11, <1>12

LEMMA PvConnectsKeeps ==
    ASSUME PvInv, PvConnects
    PROVE  PvInv'
<1>1. PICK more : more = {reloadAll} \cup (IF pvPanel.available = "yes" THEN WaitsFor(pvPanel)
                                          ELSE {})
  OBVIOUS
<1>2. PICK old : old = IF pvPanel.available = "yes" THEN Unsearched(pvPanel) ELSE pvPanel
  OBVIOUS
<1>3. PICK new : new = Loads(old, more)
  OBVIOUS
<1>4. /\ pvUp' = TRUE /\ pvPanel' = Follows(new) /\ pvCalls' = pvCalls \cup more
      /\ UNCHANGED <<pvServer, pvOff>>
  BY <1>1, <1>2, <1>3 DEF PvConnects
<1>5. /\ PvPanelIs(old) /\ old.operation = pvPanel.operation
      /\ old.available = pvPanel.available
      /\ old.selected = pvPanel.selected /\ old.intent = pvPanel.intent
      /\ old.detail = pvPanel.detail /\ old.searched = pvPanel.searched
      /\ pvPanel.available = "yes" /\ pvPanel.searched = None => old.results = search(old.searched)
  <2>1. PvPanelIs(pvPanel)
    BY DEF PvInv
  <2>2. CASE pvPanel.available = "yes"
    BY <2>1, <2>2, <1>2, UnsearchedFacts DEF Alike, PvPanelIs
  <2>3. CASE pvPanel.available # "yes"
    BY <2>1, <2>3, <1>2
  <2> QED
    BY <2>2, <2>3
<1>6. PvPanelIs(new) /\ Alike(new, old) /\ new.operation = old.operation
  BY <1>3, <1>5, LoadsFacts
<1>7. \A c \in more : PvAsked(c)
  BY <1>1, WaitsForFacts DEF PvAsked, PvInv
<1>8. PvReads' /\ \A part : Comes(part) => Comes(part)'
  BY <1>4, <1>7, ReadsKept DEF PvInv, Comes
<1>9. Comes("installed")' /\ Comes("updates")' /\ Comes("overview")'
  <2>1. reloadAll \in pvCalls' /\ reloadAll.parts = Lists
    BY <1>1, <1>4 DEF reloadAll, PvReload
  <2> QED
    BY <2>1 DEF Comes, Lists
<1>10. ASSUME pvPanel.available = "yes"
       PROVE  /\ Comes("results")' \/ new.results = search(new.searched)
              /\ new.intent = None \/ Comes("detail")'
  <2>1. WaitsFor(pvPanel) \subseteq pvCalls' /\ PvPanelIs(pvPanel)
    BY <1>1, <1>4, <1>10 DEF PvInv
  <2>2. pvPanel.searched # None => Comes("results")'
    BY <2>1, WaitsForFacts DEF Comes
  <2>3. pvPanel.intent # None => Comes("detail")'
    BY <2>1, WaitsForFacts DEF Comes
  <2> QED
    BY <2>2, <2>3, <1>5, <1>6, <1>10 DEF Alike
<1> QED
  BY <1>4, <1>5, <1>6, <1>8, <1>9, <1>10, ArrivesKeeps DEF Alike

\* Without a connection, or without a manager, nothing is promised.
LEMMA PvLeavesKeeps ==
    ASSUME PvInv, PvLost \/ \E call \in pvCalls : PvUnavailable(call)
    PROVE  PvInv'
<1>1. CASE PvLost
  <2>1. PICK panel : panel = [pvPanel EXCEPT !.available = "unknown"]
    OBVIOUS
  <2>2. /\ pvUp' = FALSE /\ pvPanel' = Follows(panel) /\ UNCHANGED <<pvServer, pvCalls, pvOff>>
    BY <1>1, <2>1 DEF PvLost
  <2>3. /\ PvPanelIs(panel) /\ panel.selected = pvPanel.selected
        /\ panel.intent = pvPanel.intent /\ panel.detail = pvPanel.detail
        /\ panel.operation = pvPanel.operation
    BY <2>1 DEF PvInv, PvPanelIs
  <2>4. PvReads' /\ \A part : Comes(part) => Comes(part)'
    BY <2>2, ReadsKept DEF PvInv, Comes
  <2> QED
    BY <2>2, <2>3, <2>4, ArrivesKeeps
<1>2. ASSUME NEW call \in pvCalls, PvUnavailable(call)
      PROVE  PvInv'
  <2>1. PICK panel : panel = [pvPanel EXCEPT !.available = "no", !.overview = None,
                                             !.installed = {}, !.updates = {}, !.results = {},
                                             !.loading = pvPanel.loading \ {"all"}]
    OBVIOUS
  <2>2. /\ pvPanel' = Follows(panel) /\ pvCalls' = pvCalls \ {call} /\ "available" \in call.todo
        /\ UNCHANGED <<pvServer, pvUp, pvOff>>
    BY <1>2, <2>1 DEF PvUnavailable
  <2>3. /\ PvPanelIs(panel) /\ panel.selected = pvPanel.selected
        /\ panel.intent = pvPanel.intent /\ panel.detail = pvPanel.detail
        /\ panel.operation = pvPanel.operation /\ panel.available = "no"
    BY <2>1 DEF PvInv, PvPanelIs
  <2>4. PvReads' /\ call.parts = Lists
    BY <2>2, ReadsKept DEF PvInv, PvReads, PvCallIs, PvParts
  <2>5. \A part : Comes(part) => Comes(part)' \/ part \in Lists
    BY <2>2, <2>4 DEF Comes
  <2>6. /\ PvPanelIs(pvPanel') /\ pvPanel'.available = "no" /\ pvPanel'.intent = panel.intent
        /\ pvPanel'.detail = panel.detail /\ pvPanel'.operation = panel.operation
        /\ pvPanel'.selected = IF panel.intent = None THEN panel.selected ELSE panel.intent
    <3>1. [panel EXCEPT !.selected = IF panel.intent = None THEN panel.selected
                                     ELSE panel.intent].selected
              = IF panel.intent = None THEN panel.selected ELSE panel.intent
      BY <2>3 DEF PvPanelIs
    <3> QED
      BY <3>1, <2>2, <2>3, FollowsFacts DEF Alike, PvPanelIs
  <2>7. PvPanelIs(pvPanel)' /\ PvFollowed'
    BY <2>6 DEF PvPanelIs, PvFollowed, PvWorks
  <2>8. PvDetailFollowed'
    <3>1. CASE panel.intent = None
      <4>1. getInfo(pvPanel.selected)' = getInfo(pvPanel.selected)
        BY <3>1, <2>2, <2>3, <2>6, ServerSame
      <4>2. Comes("detail") => Comes("detail")'
        BY <2>5 DEF Lists
      <4> QED
        BY <3>1, <4>1, <4>2, <2>2, <2>3, <2>6
           DEF PvInv, PvDetailFollowed, PvKept, DetailShown, PvOver
    <3>2. CASE panel.intent # None
      BY <3>2, <2>6 DEF PvDetailFollowed, PvWorks
    <3> QED
      BY <3>1, <3>2
  <2> QED
    BY <2>2, <2>4, <2>7, <2>8 DEF PvInv
<1> QED
  BY <1>1, <1>2

(***************************************************************************)
(* The window hears the answers.                                           *)
(***************************************************************************)
LEMMA PvFailsKeeps ==
    ASSUME PvInv, NEW call \in pvCalls, PvFails(call)
    PROVE  PvInv'
<1>1. /\ pvCalls' = pvCalls \ {call} /\ pvOff' = pvOff \cup call.parts
      /\ pvPanel' = [pvPanel EXCEPT !.loading = pvPanel.loading \ FlagOf(call)]
      /\ UNCHANGED <<pvServer, pvUp>>
  BY DEF PvFails
<1>2. PvPanelIs(pvPanel') /\ Alike(pvPanel', pvPanel) /\ pvPanel'.operation = pvPanel.operation
  BY <1>1 DEF PvInv, PvPanelIs, Alike
<1>3. PvPanelIs(pvPanel)' /\ PvReads'
  BY <1>1, <1>2, ReadsKept DEF PvInv, PvPanelIs
<1>4. \A part : part \in pvOff \/ Comes(part) => part \in pvOff' \/ Comes(part)'
  BY <1>1 DEF Comes
<1>5. /\ PvWorks' = PvWorks /\ PvOver' = PvOver /\ DetailShown' = DetailShown
      /\ InstalledOf(pvPanel.query)' = InstalledOf(pvPanel.query)
      /\ search(pvPanel.searched)' = search(pvPanel.searched)
      /\ getInfo(pvPanel.selected)' = getInfo(pvPanel.selected)
      /\ overview' = overview /\ listUpdates' = listUpdates
  BY <1>1, <1>2, ServerSame DEF PvWorks, PvOver, DetailShown, Alike
<1>6. PvFollowed'
  BY <1>2, <1>4, <1>5 DEF PvInv, PvFollowed, PvKept, Alike
<1>7. PvDetailFollowed'
  BY <1>1, <1>2, <1>4, <1>5 DEF PvInv, PvDetailFollowed, PvKept, Alike
<1> QED
  BY <1>1, <1>3, <1>6, <1>7 DEF PvInv

\* What is shown is right, or is marked because the call was overtaken.
LEMMA PvShownKeeps ==
    ASSUME PvInv, NEW call \in pvCalls, PvShown(call)
    PROVE  PvInv'
<1>1. /\ call.todo = {} /\ pvCalls' = pvCalls \ {call} /\ UNCHANGED <<pvServer, pvUp>>
      /\ pvOff' = (pvOff \ call.parts) \cup (call.parts \cap (call.stale \cup Overtaken(call)))
      /\ pvPanel' = [f \in DOMAIN pvPanel |->
                        IF f \in call.parts THEN call.got[f]
                        ELSE IF f = "loading" THEN pvPanel.loading \ FlagOf(call) ELSE pvPanel[f]]
  BY DEF PvShown
<1>2. PvCallIs(call) /\ PvReadIs(call)
  BY <1>1 DEF PvInv, PvReads
<1>3. /\ call.parts \subseteq PvParts /\ DOMAIN call.got = PvParts
      /\ call.got.updates \subseteq Packages /\ ("detail" \in call.parts => call.of # None)
  BY <1>2 DEF PvCallIs
<1>4. /\ DOMAIN pvPanel' = DOMAIN pvPanel
      /\ \A f \in DOMAIN pvPanel \ {"loading"} :
             pvPanel'[f] = IF f \in call.parts THEN call.got[f] ELSE pvPanel[f]
  BY <1>1
<1>5. /\ pvPanel'.available = pvPanel.available /\ pvPanel'.query = pvPanel.query
      /\ pvPanel'.searched = pvPanel.searched /\ pvPanel'.intent = pvPanel.intent
      /\ pvPanel'.selected = pvPanel.selected /\ pvPanel'.operation = pvPanel.operation
      /\ pvPanel'.pending = pvPanel.pending
  BY <1>3, <1>4 DEF PvInv, PvPanelIs, PvParts
<1>6. /\ pvPanel'.overview = IF "overview" \in call.parts THEN call.got.overview
                             ELSE pvPanel.overview
      /\ pvPanel'.installed = IF "installed" \in call.parts THEN call.got.installed
                              ELSE pvPanel.installed
      /\ pvPanel'.updates = IF "updates" \in call.parts THEN call.got.updates ELSE pvPanel.updates
      /\ pvPanel'.results = IF "results" \in call.parts THEN call.got.results ELSE pvPanel.results
      /\ pvPanel'.detail = IF "detail" \in call.parts THEN call.got.detail ELSE pvPanel.detail
  BY <1>4 DEF PvInv, PvPanelIs
<1>7. PvPanelIs(pvPanel)' /\ PvReads'
  <2>1. PvReads'
    BY <1>1, ReadsKept DEF PvInv
  <2> QED
    BY <2>1, <1>3, <1>4, <1>5, <1>6 DEF PvInv, PvPanelIs
<1>8. \A part : part \notin call.parts /\ Comes(part) => Comes(part)'
  BY <1>1 DEF Comes
<1>9. /\ "installed" \in call.parts \ pvOff' => call.got.installed = InstalledOf(pvPanel.query)
      /\ "updates" \in call.parts \ pvOff' => call.got.updates = listUpdates
      /\ "overview" \in call.parts \ pvOff' => call.got.overview = overview
      /\ "results" \in call.parts \ pvOff' => call.got.results = search(pvPanel.searched)
      /\ "detail" \in call.parts \ pvOff' =>
             call.got.detail = getInfo(pvPanel.selected) /\ call.of = pvPanel.selected
  <2>1. \A part \in call.parts \ pvOff' :
            part \in (call.parts \ call.todo) \ call.stale /\ part \notin Overtaken(call)
    BY <1>1
  <2>2. /\ "installed" \notin Overtaken(call) => call.of = pvPanel.query
        /\ "results" \notin Overtaken(call) => call.of = pvPanel.searched
        /\ "detail" \notin Overtaken(call) => call.of = pvPanel.selected
    BY DEF Overtaken
  <2> QED
    BY <2>1, <2>2, <1>2 DEF PvReadIs
<1>10. /\ PvWorks' = PvWorks /\ PvOver' = PvOver
       /\ InstalledOf(pvPanel.query)' = InstalledOf(pvPanel.query)
       /\ search(pvPanel.searched)' = search(pvPanel.searched)
       /\ getInfo(pvPanel.selected)' = getInfo(pvPanel.selected)
       /\ overview' = overview /\ listUpdates' = listUpdates
  BY <1>1, <1>5, ServerSame DEF PvWorks, PvOver
<1>11. \A part : part \notin call.parts => (part \in pvOff <=> part \in pvOff')
  BY <1>1
<1>12. PvFollowed'
  BY <1>6, <1>8, <1>9, <1>10, <1>11 DEF PvInv, PvFollowed, PvKept
<1>13. PvDetailFollowed'
  <2>1. CASE "detail" \in call.parts
    BY <2>1, <1>3, <1>5, <1>6, <1>9, <1>10 DEF PvDetailFollowed, PvKept
  <2>2. CASE "detail" \notin call.parts
    <3>1. DetailShown' = DetailShown
      BY <2>2, <1>5, <1>6 DEF DetailShown
    <3> QED
      BY <2>2, <3>1, <1>5, <1>6, <1>8, <1>10, <1>11 DEF PvInv, PvDetailFollowed, PvKept
  <2> QED
    BY <2>1, <2>2
<1> QED
  BY <1>1, <1>7, <1>12, <1>13 DEF PvInv

(***************************************************************************)
(* The invariant holds.                                                    *)
(***************************************************************************)
LEMMA PvInitInv == PvInit => PvInv
<1> SUFFICES ASSUME PvInit PROVE PvInv
  OBVIOUS
<1>1. pvServer \in [Packages -> PackageState] /\ pvUp = FALSE /\ pvCalls = {}
  BY DEF PvInit, PackageState
<1>2. PvPanelIs(pvPanel) /\ pvPanel.detail = None
  BY DEF PvInit, PvPanel, PvPanelIs
<1>3. PvFollowed /\ PvDetailFollowed
  BY <1>1, <1>2 DEF PvFollowed, PvDetailFollowed, PvWorks, DetailShown
<1> QED
  BY <1>1, <1>2, <1>3 DEF PvInv, PvReads

LEMMA PvStepInv == PvInv /\ [PvNext]_pvVars => PvInv'
<1> SUFFICES ASSUME PvInv, [PvNext]_pvVars PROVE PvInv'
  OBVIOUS
<1>1. CASE UNCHANGED pvVars
  <2>1. UNCHANGED <<pvServer, pvUp, pvPanel, pvCalls, pvOff>>
    BY <1>1 DEF pvVars
  <2>2. PvReads' /\ \A part : Comes(part) => Comes(part)'
    BY <2>1, ReadsKept DEF PvInv, Comes
  <2> QED
    BY <2>1, <2>2, PanelStays
<1>2. ASSUME NEW query \in Packages \cup {None}, PvFilters(query) \/ PvSearches(query)
      PROVE  PvInv'
  BY <1>2, PvFiltersKeeps, PvSearchesKeeps DEF Query
<1>3. ASSUME NEW name \in Packages, PvOpens(name) \/ PvIntends(name) \/ PvAsksToInstall(name)
      PROVE  PvInv'
  BY <1>3, PvOpensKeeps, PvAsksKeeps
<1>4. CASE PvGoesBack
  BY <1>4, PvGoesBackKeeps
<1>5. CASE PvPolls \/ PvDismisses
  BY <1>5, PvAsksKeeps
<1>6. ASSUME NEW kind, NEW of, PvRequests(kind, of)
      PROVE  PvInv'
  BY <1>6, PvAsksKeeps
<1>7. CASE PvCannotStart \/ \E version \in {None, "old"} : PvConfirms(version)
  BY <1>7, PvStartsKeeps
<1>8. CASE PvOperationRuns
  BY <1>8, PvOperationRunsKeeps
<1>9. CASE PvDone
  BY <1>9, PvDoneKeeps
<1>10. ASSUME NEW call \in pvCalls, NEW part \in call.todo, PvMainReads(call, part)
       PROVE  PvInv'
  BY <1>10, PvMainReadsKeeps
<1>11. ASSUME NEW call \in pvCalls,
              \/ PvMainLists(call) \/ PvAvailable(call) \/ PvUnavailable(call)
              \/ PvShown(call) \/ PvFails(call)
       PROVE  PvInv'
  BY <1>11, PvMainListsKeeps, PvAvailableKeeps, PvLeavesKeeps, PvShownKeeps, PvFailsKeeps
<1>12. ASSUME NEW name \in Packages, NEW state \in PackageState, PvServerChanges(name, state)
       PROVE  PvInv'
  BY <1>12, PvServerChangesKeeps
<1>13. CASE PvLost \/ PvConnects
  BY <1>13, PvLeavesKeeps, PvConnectsKeeps
<1> QED
  BY <1>1, <1>2, <1>3, <1>4, <1>5, <1>6, <1>7, <1>8, <1>9, <1>10, <1>11, <1>12, <1>13 DEF PvNext

\* With nothing under way, nothing comes: what is not off is right.
LEMMA PvInvPromises ==
    ASSUME PvInv
    PROVE  PvTypeOK /\ PvListsAreTrue
<1>1. PvTypeOK
  BY DEF PvInv, PvPanelIs, PvReads, PvCallIs, PvTypeOK
<1>2. ASSUME pvUp, pvCalls = {}, pvPanel.available = "yes", pvPanel.operation = None
      PROVE  /\ "installed" \notin pvOff => pvPanel.installed = InstalledOf(pvPanel.query)
             /\ "updates" \notin pvOff => pvPanel.updates = listUpdates
             /\ "overview" \notin pvOff => pvPanel.overview = overview
             /\ "results" \notin pvOff => pvPanel.results = search(pvPanel.searched)
             /\ "detail" \notin pvOff /\ DetailShown =>
                    pvPanel.detail = getInfo(pvPanel.selected)
  <2>1. PvWorks /\ ~PvOver /\ \A part : ~Comes(part)
    BY <1>2, PvPackagesAssumption DEF PvWorks, PvOver, Comes, PvPackagesAssumption
  <2> QED
    BY <2>1 DEF PvInv, PvFollowed, PvDetailFollowed, PvKept
<1>3. PvListsAreTrue
  BY <1>2 DEF PvListsAreTrue, InstalledOf
<1> QED
  BY <1>1, <1>3

(***************************************************************************)
(* The types that the invariants above do not have.                        *)
(***************************************************************************)
\* What an operation learns of the server.
PkgLinkTyped == pkgLink \in BOOLEAN /\ pkgManager \in {None, "apt", "failed"}

LEMMA PkgLinkTypedInv ==
    /\ PkgInit => PkgLinkTyped
    /\ PkgLinkTyped /\ [PkgNext]_pkgVars => PkgLinkTyped'
<1>1. PkgInit => PkgLinkTyped
  BY DEF PkgInit, PkgLinkTyped
<1> SUFFICES ASSUME PkgLinkTyped, [PkgNext]_pkgVars
             PROVE  PkgLinkTyped'
  BY <1>1
<1>2. ASSUME NEW o \in Operation,
             PkgStart(o) \/ PkgCancel(o) \/ PkgDetects(o) \/ PkgOpens(o) \/ PkgCannotOpen(o)
                 \/ PkgWorks(o) \/ PkgFails(o) \/ PkgCloses(o)
      PROVE  PkgLinkTyped'
  <2>1. \A report, record : PkgEnds(o, report, record) => pkgManager' = None
    BY Zenon DEF PkgEnds
  <2>2. \A record : PkgGoesOn(o, record) => pkgManager' \in {None, pkgManager}
    BY <2>1, Zenon DEF PkgGoesOn
  <2>3. pkgLink' = pkgLink
    BY <1>2 DEF PkgStart, PkgCancel, PkgDetects, PkgOpens, PkgCannotOpen, PkgWorks, PkgFails,
                PkgCloses
  <2>4. pkgManager' \in {None, pkgManager} \cup PkgManagerFound
    BY <1>2, <2>1, <2>2, Zenon
       DEF PkgStart, PkgCancel, PkgDetects, PkgOpens, PkgCannotOpen, PkgWorks, PkgFails, PkgCloses
  <2> QED
    BY <2>3, <2>4 DEF PkgManagerFound, PkgLinkTyped
<1>3. CASE PkgListAsks \/ PkgLeave \/ PkgLoseServer \/ PkgConnect
  <2>1. pkgLink' \in {TRUE, FALSE, pkgLink} /\ pkgManager' \in {None, pkgManager} \cup PkgManagerFound
    BY <1>3, Zenon DEF PkgListAsks, PkgLeave, PkgLoseServer, PkgConnect
  <2> QED
    BY <2>1 DEF PkgManagerFound, PkgLinkTyped
<1>4. CASE UNCHANGED pkgVars
  BY <1>4 DEF pkgVars, PkgLinkTyped
<1> QED
  BY <1>2, <1>3, <1>4 DEF PkgNext

LEMMA PkgInvTyped == PkgInv /\ PkgLinkTyped => PkgTypeOK
<1> SUFFICES ASSUME PkgInv, PkgLinkTyped
             PROVE  PkgTypeOK
  OBVIOUS
<1>1. ASSUME NEW t \in Todo
      PROVE  t \in Seq({"simulate", "change", "verify"}) /\ t # <<>>
  <2>1. CASE t = <<"simulate", "change", "verify">>
    BY <2>1
  <2>2. CASE t = <<"change", "verify">>
    BY <2>2
  <2>3. CASE t = <<"change">>
    BY <2>3
  <2>4. CASE t = <<"verify">>
    BY <2>4
  <2> QED
    BY <2>1, <2>2, <2>3, <2>4 DEF Todo
<1>2. ASSUME NEW r \in Report
      PROVE  r \in Seq({"success", "failure"})
  <2>1. CASE r = <<>>
    BY <2>1
  <2>2. CASE r = <<"success">>
    BY <2>2
  <2>3. CASE r = <<"failure">>
    BY <2>3
  <2> QED
    BY <2>1, <2>2, <2>3 DEF Report
<1>3. \A r \in RunInOrder : r \in RunState /\ r.todo # <<>>
  BY <1>1, <1>2 DEF RunInOrder, RunState
<1> QED
  BY <1>3 DEF PkgInv, PkgLinkTyped, PkgTypeOK

(***************************************************************************)
(* The tools side by side.                                                 *)
(***************************************************************************)
ToolsInv ==
    /\ SslInv /\ NgxInv /\ SdInv /\ PkgInv /\ PkgLinkTyped /\ FwInv /\ TlInv /\ StInv /\ PrInv
    /\ CtInv /\ PvInv

LEMMA ToolsInitInv == Init => ToolsInv
<1> SUFFICES ASSUME Init PROVE ToolsInv
  OBVIOUS
<1>1. /\ SslInit /\ NgxInit /\ SdInit /\ PkgInit /\ FwInit /\ TlInit /\ StInit /\ PrInit
      /\ CtInit /\ PvInit
  BY DEF Init
<1> QED
  BY <1>1, SslInitInv, NgxInitInv, SdInitInv, PkgInitInv, PkgLinkTypedInv, FwInitInv, TlInitInv,
     StInitInv, PrInitInv, CtInitInv, PvInitInv DEF ToolsInv

\* A step of one tool is a step of its own module, or leaves it alone.
LEMMA ToolsStepInv == ToolsInv /\ [Next]_toolsVars => ToolsInv'
<1> SUFFICES ASSUME ToolsInv, [Next]_toolsVars
             PROVE  ToolsInv'
  OBVIOUS
<1>1. /\ [SslNext]_sslVars /\ [NgxNext]_ngxVars /\ [PkgNext]_pkgVars /\ [FwNext]_fwVars
      /\ [TlNext]_tlVars /\ [StNext]_stVars /\ [PrNext]_prVars /\ [CtNext]_ctVars
      /\ [SdNext]_sdVars /\ [PvNext]_pvVars
  <2>1. CASE Next
    BY <2>1 DEF Next
  <2>2. CASE UNCHANGED toolsVars
    BY <2>2 DEF toolsVars
  <2> QED
    BY <2>1, <2>2
<1>2. SslInv' /\ NgxInv' /\ PkgInv' /\ PkgLinkTyped'
  BY <1>1, SslStepInv, NgxStepInv, PkgStepInv, PkgLinkTypedInv DEF ToolsInv
<1>3. FwInv' /\ TlInv' /\ StInv'
  BY <1>1, FwStepInv, TlStepInv, StStepInv DEF ToolsInv
<1>4. PrInv' /\ CtInv'
  BY <1>1, PrStepInv, CtStepInv DEF ToolsInv
<1>5. SdInv' /\ PvInv'
  BY <1>1, SdStepInv, PvStepInv DEF ToolsInv
<1> QED
  BY <1>2, <1>3, <1>4, <1>5 DEF ToolsInv

\* nginx is only ever reloaded with a configuration that passed nginx -t: by the reload
\* of the Nginx tool (NginxService.runAction) and by the workflow that enables HTTPS
\* (SSLService.runEnableHttpsWorkflow), except where an edit the tracker cannot see, or
\* the certbot of another run, came in between.
THEOREM ReloadsOnlyTested == Spec => []ReloadsAreTested
<1>1. ToolsInv => ReloadsAreTested
  BY DEF ToolsInv, SslInv, SslOrdered, RunOrdered, NgxInv, NgxOrdered, ReloadsAreTested,
         SslReloadsTested, NgxReloadsTested
<1> QED
  BY ToolsInitInv, ToolsStepInv, <1>1, PTL DEF Spec

\* Every HTTPS workflow and every package operation that ends says so, once, and the
\* view in front hears it; certbot never touches a site without a backup; a package
\* operation is reported as done only when its command ended well and nobody had
\* cancelled it, unless the server was lost (PackageService.runOperation).
THEOREM RunsEndAloud == Spec => []RunsTellTheirEnd
<1>1. SslInv => SslEndIsReported /\ SslViewHearsEnd /\ SslBackedUpBeforeCertbot
  BY DEF SslInv, SslOrdered, RunOrdered, SslViewsHear, SslEndIsReported,
         SslBackedUpBeforeCertbot
<1>2. PkgInv => PkgOneEnd /\ PkgViewHearsEnd /\ PkgSuccessIsReal /\ PkgCancelledFails
  <2> SUFFICES ASSUME PkgInv
               PROVE  PkgOneEnd /\ PkgViewHearsEnd /\ PkgSuccessIsReal /\ PkgCancelledFails
    OBVIOUS
  <2>1. \A o \in Operation : PkgOrdered(pkgRun[o]) /\ pkgRun[o].reports \in Report
    BY DEF PkgInv, RunInOrder
  <2>2. PkgOneEnd
    <3> SUFFICES ASSUME NEW o \in Operation
                 PROVE  Len(pkgRun[o].reports) = IF pkgRun[o].at = "over" THEN 1 ELSE 0
      BY DEF PkgOneEnd
    <3>1. CASE pkgRun[o].reports = <<>>
      BY <3>1, <2>1 DEF PkgOrdered
    <3>2. CASE pkgRun[o].reports \in {<<"success">>, <<"failure">>}
      <4>1. PICK s \in {"success", "failure"} : pkgRun[o].reports = <<s>>
        BY <3>2
      <4>2. Len(pkgRun[o].reports) = 1 /\ pkgRun[o].reports # <<>>
        BY <4>1
      <4> QED
        BY <4>2, <2>1 DEF PkgOrdered
    <3> QED
      BY <3>1, <3>2, <2>1 DEF Report
  <2>3. PkgSuccessIsReal
    BY <2>1 DEF PkgSuccessIsReal, PkgOrdered
  <2>4. PkgCancelledFails
    BY <2>1 DEF PkgCancelledFails, PkgOrdered, Report
  <2> QED
    BY <2>2, <2>3, <2>4 DEF PkgInv
<1>3. ToolsInv => RunsTellTheirEnd
  BY <1>1, <1>2 DEF ToolsInv, RunsTellTheirEnd
<1> QED
  BY ToolsInitInv, ToolsStepInv, <1>3, PTL DEF Spec
\* Nothing but what the user named is stopped or deleted: the port check of PortService
\* keeps the rule that lets this session in, unless the list shifted between the check and
\* the command; a signal goes to the program the user chose, or to its successor under the
\* same number; the docker dialog removes what it names.
THEOREM OnlyNamedGo == Spec => []OnlyTheNamedGo
<1>1. ToolsInv => OnlyTheNamedGo
  BY PrInvMeant DEF ToolsInv, FwInv, CtInv, OnlyTheNamedGo
<1> QED
  BY ToolsInitInv, ToolsStepInv, <1>1, PTL DEF Spec

\* A tail the window cannot stop, a timer nobody watches, a view in front of a connected
\* server without its figures, a process table that is polled for nobody: none of them
\* stays when the calls under way have been answered, however many views come and go.
THEOREM StreamsMatch == Spec => []StreamsMatchViews
<1>1. ToolsInv => StreamsMatchViews
  BY StInvPromises, PrInvLive DEF ToolsInv, TlInv, StreamsMatchViews
<1> QED
  BY ToolsInitInv, ToolsStepInv, <1>1, PTL DEF Spec

\* Figures, lists and certificates are those of the server as it is: the certificates are
\* listed again after an operation of this tool, one that has expired is not shown as valid
\* (SSLService.runDiscovery), rates compare counters of one start (LinuxStatsService), a
\* docker list has nothing its page has removed, and the packages are listed whole, chunk
\* after chunk, filter after filter, and as the last operation left them (usePackages).
THEOREM ToolsTellWhatIs == Spec => []ToolsTellTheTruth
<1>1. ToolsInv => ToolsTellTheTruth
  BY SdInvTells, StInvPromises, CtInvGone, PvInvPromises DEF ToolsInv, ToolsTellTheTruth
<1> QED
  BY ToolsInitInv, ToolsStepInv, <1>1, PTL DEF Spec

\* Every variable of every tool keeps its type.
THEOREM ToolsTypesHold == Spec => []ToolsTypeOK
<1>1. SslInv /\ NgxInv /\ TlInv /\ StInv => SslTypeOK /\ NgxTypeOK /\ TlTypeOK /\ StTypeOK
  BY DEF SslInv, NgxInv, TlInv, StInv
<1>2. ToolsInv => ToolsTypeOK
  BY <1>1, SdInvTells, PkgInvTyped, FwInvTyped, PrInvTyped, CtInvTyped, PvInvPromises
     DEF ToolsInv, ToolsTypeOK
<1> QED
  BY ToolsInitInv, ToolsStepInv, <1>2, PTL DEF Spec
================================================================================
