----------------------------- MODULE PageProofs -----------------------------
(***************************************************************************)
(* Theorems about the page, for any number of jobs, whatever the network   *)
(* loses and whatever the server does within JobLifecycle.                 *)
(***************************************************************************)
EXTENDS Page, TLAPS

(***************************************************************************)
(* The inductive invariant.                                                *)
(***************************************************************************)
PTypeOK ==
  /\ phase \in [Jobs -> Phases] /\ told \in [Jobs -> Outcome]
  /\ btn \in Jobs \cup {"idle", "posting"}
  /\ currentJobId \in Jobs \cup {NoJob} /\ box \in Jobs \cup {NoJob}
  /\ live \subseteq Jobs /\ open \subseteq live
  /\ fetch \in [Jobs -> {"none", "sent", "full", "bare", "shown", "lost"}]
  /\ overtaken \in BOOLEAN

\* A job is new to the page until its POST has returned.
IdsTrack ==
  /\ evtSource = currentJobId
  /\ currentJobId # NoJob => phase[currentJobId] # "none"
  /\ btn \in Jobs => phase[btn] # "none" /\ btn # currentJobId /\ fetch[btn] = "none"
  /\ \A j \in Jobs : phase[j] = "none" => fetch[j] = "none"

\* Only a job whose result was announced is asked for it.
FetchesTrack ==
  \A j \in Jobs : fetch[j] \in {"sent", "full", "bare", "shown"} => told[j] = "result"

\* The one source that is not closed is the one in the global, which is that of
\* the current job, and what was fetched was announced before: this is what
\* every handler of the page and every step of the server keeps.
PInv == PTypeOK /\ IdsTrack /\ FetchesTrack /\ LineIsCurrent /\ BoxIsRight

-----------------------------------------------------------------------------
USE PageAssumption DEF lifecycleVars, page

\* A page that has just been loaded.
LEMMA PInitOK == PInit => PInv
<1> SUFFICES ASSUME PInit PROVE PInv
  OBVIOUS
<1>1. overtaken \in BOOLEAN
  BY Zenon DEF PInit
<1>2. PTypeOK
  BY <1>1 DEF PInit, LInit, PTypeOK, Phases, Outcome
<1>3. IdsTrack /\ FetchesTrack /\ LineIsCurrent /\ BoxIsRight
  BY DEF PInit, LInit, IdsTrack, FetchesTrack, LineIsCurrent, BoxIsRight
<1> QED
  BY <1>2, <1>3 DEF PInv

\* The server moves its jobs on and takes back no announcement of a result.
LEMMA ServerPreserves ==
  ASSUME PInv, ServerStep
  PROVE  PInv'
<1> USE DEF PInv, PTypeOK
<1>1. /\ UNCHANGED page
      /\ phase' \in [Jobs -> Phases] /\ told' \in [Jobs -> Outcome]
      /\ \A j \in Jobs : phase[j] = "none" <=> phase'[j] = "none"
      /\ \A j \in Jobs : told[j] = "result" => told'[j] = "result"
  BY DEF ServerStep, Advance, Complete, Fail, Announce, Cancel, Become, Tell,
     NextStage, Phases, Stages, Outcome
<1> QED
  BY <1>1 DEF IdsTrack, FetchesTrack, LineIsCurrent, BoxIsRight

\* The handlers of the button.
LEMMA ButtonPreserves ==
  ASSUME PInv, NEW j \in Jobs, upload \/ UploadFails \/ Posted(j) \/ UploadReturns(j)
  PROVE  PInv'
<1> USE DEF PInv, PTypeOK, IdsTrack, FetchesTrack, LineIsCurrent, BoxIsRight
<1>1. CASE upload
  BY <1>1 DEF upload
<1>2. CASE UploadFails
  BY <1>2 DEF UploadFails
<1>3. CASE Posted(j)
  BY <1>3 DEF Posted, Submit, Become, Phases, Stages
<1>4. CASE UploadReturns(j)
  BY <1>4 DEF UploadReturns, listen
<1> QED
  BY <1>1, <1>2, <1>3, <1>4

\* The event sources: whatever opens, ends or breaks is the current job's.
LEMMA SourcePreserves ==
  ASSUME PInv, NEW j \in Jobs,
         job_events(j) \/ StreamEnds(j) \/ StreamDrops(j) \/ StatusEvent(j) \/ CompletedEvent(j)
  PROVE  PInv'
<1> USE DEF PInv, PTypeOK, IdsTrack, FetchesTrack, LineIsCurrent, BoxIsRight
<1>1. CASE job_events(j)
  BY <1>1 DEF job_events
<1>2. CASE StreamEnds(j)
  BY <1>2 DEF StreamEnds
<1>3. CASE StreamDrops(j)
  BY <1>3 DEF StreamDrops
<1>4. CASE StatusEvent(j)
  BY <1>4 DEF StatusEvent
<1>5. CASE CompletedEvent(j)
  BY <1>5 DEF CompletedEvent
<1> QED
  BY <1>1, <1>2, <1>3, <1>4, <1>5

\* The requests for a result.
LEMMA FetchPreserves ==
  ASSUME PInv, NEW j \in Jobs, get_job(j) \/ FetchLost(j) \/ fetchResult(j)
  PROVE  PInv'
<1> USE DEF PInv, PTypeOK, IdsTrack, FetchesTrack, LineIsCurrent, BoxIsRight
<1>1. CASE get_job(j)
  BY <1>1 DEF get_job
<1>2. CASE FetchLost(j)
  BY <1>2 DEF FetchLost
<1>3. CASE fetchResult(j)
  BY <1>3 DEF fetchResult
<1> QED
  BY <1>1, <1>2, <1>3

-----------------------------------------------------------------------------
\* The invariant of the page.
THEOREM PageInvariant == PSpec => []PInv
<1>1. PInit => PInv
  BY PInitOK
<1>2. PInv /\ [PNext]_pvars => PInv'
  <2> SUFFICES ASSUME PInv, [PNext]_pvars PROVE PInv'
    OBVIOUS
  <2>1. CASE UNCHANGED pvars
    BY <2>1 DEF pvars, PInv, PTypeOK, IdsTrack, FetchesTrack, LineIsCurrent, BoxIsRight
  <2>2. CASE upload \/ UploadFails
    BY <2>2 DEF upload, UploadFails, PInv, PTypeOK, IdsTrack, FetchesTrack, LineIsCurrent, BoxIsRight
  <2> QED
    BY <2>1, <2>2, ServerPreserves, ButtonPreserves, SourcePreserves, FetchPreserves
       DEF PNext, PageStep
<1> QED
  BY <1>1, <1>2, PTL DEF PSpec

\* The status line is about the job submitted last, and so is the only source.
THEOREM LineStaysCurrent == PSpec => []LineIsCurrent
<1>1. PInv => LineIsCurrent
  BY DEF PInv
<1> QED
  BY <1>1, PageInvariant, PTL

\* The result box shows a completed job's features, the current job's once its
\* answer is in, unless a late answer for an earlier job has taken the box.
THEOREM BoxStaysRight == PSpec => []BoxIsRight
<1>1. PInv => BoxIsRight
  BY DEF PInv
<1> QED
  BY <1>1, PageInvariant, PTL
=============================================================================
