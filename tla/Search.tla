------------------------------- MODULE Search -------------------------------
\* Searching the Soulseek network: the searches the client runs at slskd and deletes later,
\* the results the discovery service keeps for half an hour, browsing the directory of a
\* result, and the covers that requests for artwork fetch together.  Browsing and covers
\* are operations with a peer.  Every request is made once; which are made and what
\* else happens, the scenario says.
EXTENDS PeerOperations

CONSTANTS
  Nobody,
  Results,          \* ids of search results
  ResultOf,         \* the result a preview is of
  Covers, CoverOf,  \* the cover a request for artwork is of
  StartAttempts,    \* searchStartRetryAttempts
  MonitorErrors,    \* consecutive errors the monitor of a cover endures
  Scenarios         \* pairs of the kinds of the requests and of the events that happen

ASSUME SearchAssumption ==
  /\ ResultOf \in [Requests -> Results] /\ CoverOf \in [Requests -> Covers]
  /\ Nobody \notin Requests /\ StartAttempts \in Nat \ {0} /\ MonitorErrors \in Nat \ {0}
  /\ \A s \in Scenarios : s.kinds \in [Requests -> {"search", "preview", "artwork", "lookup", "ended"}]

VARIABLES
  scenario,
  pc,          \* where each request is
  round,       \* a search: 1, and 2 when one word is searched for
  tries,       \* attempts to start the search of this round
  searches,    \* the searches at slskd, one per request and round
  results,     \* DiscoveryService.results
  collections, \* DiscoveryService.collections
  artworkJobs, \* the job of every cover, named by the request that leads it
  job,         \* the jobs: outcome, monitor, its errors, the transfer at slskd
  leader,      \* the job a request for artwork waits for
  file,        \* the covers on disk
  closing      \* how far Client.Close is

searchVars == <<round, tries, searches>>
discoveryVars == <<results, collections>>
artworkVars == <<artworkJobs, job, leader, file>>
vars == <<peerVars, scenario, pc, searchVars, discoveryVars, artworkVars, closing>>

NewJob == [outcome |-> "open", monitor |-> "none", errors |-> 0, transfer |-> "none"]

Init ==
  /\ PeerInit
  /\ scenario \in Scenarios
  /\ pc = [r \in Requests |-> scenario.kinds[r]]
  /\ round = [r \in Requests |-> 1]
  /\ tries = [r \in Requests |-> 1]
  /\ searches = [s \in Requests \X {1, 2} |-> "none"]
  /\ results \in [Results -> IF "found" \in scenario.events THEN {"fresh"} ELSE {"none"}]
  /\ collections = [d \in Results |-> "none"]
  /\ artworkJobs = [c \in Covers |-> Nobody]
  /\ job = [r \in Requests |-> NewJob]
  /\ leader = [r \in Requests |-> Nobody]
  /\ file = [c \in Covers |-> "absent"]
  /\ closing = "no"

Happens(event) == event \in scenario.events
Goto(r, there) == pc' = [pc EXCEPT ![r] = there]

-----------------------------------------------------------------------------
(* Client.Search and DiscoveryService.Search.                                  *)

\* startSearch: slskd names the search, refuses it, or fails for a while.
SearchStarts(r) ==
  /\ pc[r] = "search"
  /\ searches' = [searches EXCEPT ![<<r, round[r]>>] = "open"]
  /\ Goto(r, "polling")
  /\ UNCHANGED <<round, tries>>

SearchRefused(r) ==
  /\ pc[r] = "search"
  /\ Goto(r, "ended")
  /\ UNCHANGED searchVars

SearchDelayed(r) ==
  /\ pc[r] = "search"
  /\ IF tries[r] < StartAttempts
     THEN Goto(r, "search") /\ tries' = [tries EXCEPT ![r] = @ + 1]
     ELSE Goto(r, "ended") /\ tries' = tries
  /\ UNCHANGED <<round, searches>>

\* scheduleDeleteSearch: deferred, so it comes with every way to leave searchOnce.
ScheduleDelete(r) ==
  searches' = [searches EXCEPT ![<<r, round[r]>>] = IF closing = "no" THEN "scheduled" ELSE "left"]

\* A search that found nothing is repeated with its longest word, if it has several.
SearchOver(r) ==
  /\ ScheduleDelete(r)
  /\ \/ Goto(r, "found") /\ UNCHANGED <<round, tries>>
     \/ /\ round[r] = 1
        /\ round' = [round EXCEPT ![r] = 2] /\ tries' = [tries EXCEPT ![r] = 1]
        /\ Goto(r, "search")

PollComplete(r) ==
  /\ pc[r] = "polling"
  /\ SearchOver(r)

PollIncomplete(r) ==
  /\ pc[r] = "polling"
  /\ Goto(r, "selecting")
  /\ UNCHANGED searchVars

\* Mutant: only searches with results are deleted.
PollFailsQuietly(r) ==
  /\ pc[r] = "polling"
  /\ Goto(r, "ended")
  /\ UNCHANGED searchVars

\* slskd does not answer the poll, or the client of the request has gone away.
PollFails(r) ==
  /\ pc[r] = "polling"
  /\ ScheduleDelete(r)
  /\ Goto(r, "ended")
  /\ UNCHANGED <<round, tries>>

SearchTick(r) ==
  /\ pc[r] = "selecting"
  /\ Goto(r, "polling")
  /\ UNCHANGED searchVars

\* searchMaxWait: what has come in is the result.
SearchDeadline(r) ==
  /\ pc[r] = "selecting"
  /\ SearchOver(r)

SearchCancelled(r) ==
  /\ pc[r] = "selecting"
  /\ ScheduleDelete(r)
  /\ Goto(r, "ended")
  /\ UNCHANGED <<peerVars, scenario, round, tries, discoveryVars, artworkVars, closing>>

\* The goroutine scheduleDeleteSearch starts: the timer (slskd is asked once, its answer is
\* not looked at), or the end of the client.
DeleteSearch(s) ==
  /\ searches[s] = "scheduled"
  /\ searches' = [searches EXCEPT ![s] = "deleted"]
  /\ UNCHANGED <<peerVars, scenario, pc, round, tries, discoveryVars, artworkVars, closing>>

CleanupCancelled(s) ==
  /\ searches[s] = "scheduled"
  /\ closing # "no"
  /\ searches' = [searches EXCEPT ![s] = "left"]
  /\ UNCHANGED <<peerVars, scenario, pc, round, tries, discoveryVars, artworkVars, closing>>

SearchStep(r) ==
  /\ \/ SearchStarts(r) \/ SearchRefused(r) \/ SearchDelayed(r) \/ PollComplete(r)
     \/ PollIncomplete(r) \/ PollFails(r) \/ SearchTick(r) \/ SearchDeadline(r)
  /\ UNCHANGED <<peerVars, scenario, discoveryVars, artworkVars, closing>>

-----------------------------------------------------------------------------
(* The results kept by the discovery service.                                  *)

Forget(d, known) == [x \in Results |-> IF x \in d THEN "none" ELSE known[x]]
Aged == {d \in Results : results[d] = "aged"}

\* The new results replace the old ones of the same id, and the old collections go.
KeepResults(r) ==
  /\ pc[r] = "found"
  /\ \E new \in SUBSET Results :
       /\ results' = [d \in Results |-> IF d \in new THEN "fresh" ELSE Forget(Aged, results)[d]]
       /\ collections' = Forget(Aged \cup new, collections)
  /\ Goto(r, "ended")
  /\ UNCHANGED <<peerVars, scenario, searchVars, artworkVars, closing>>

\* DiscoveryService.Result, which forgets a result that is too old.
Lookup(r) ==
  /\ pc[r] = "lookup"
  /\ results' = Forget(Aged \cap {ResultOf[r]}, results)
  /\ collections' = Forget(Aged \cap {ResultOf[r]}, collections)
  /\ Goto(r, "ended")
  /\ UNCHANGED <<peerVars, scenario, searchVars, artworkVars, closing>>

\* PreviewCollection: nothing without a result, the collection in the cache, or the
\* directory of the peer.
PreviewKnown(r) ==
  /\ pc[r] = "preview"
  /\ results[ResultOf[r]] = "none" \/ collections[ResultOf[r]] = "fresh"
  /\ Goto(r, "ended")
  /\ UNCHANGED <<peerVars, scenario, searchVars, discoveryVars, artworkVars, closing>>

\* BrowseCollection refuses a result that needs the peer's approval or names no directory.
PreviewRefused(r) ==
  /\ pc[r] = "preview"
  /\ results[ResultOf[r]] # "none" /\ collections[ResultOf[r]] # "fresh"
  /\ Goto(r, "ended")
  /\ UNCHANGED <<peerVars, scenario, searchVars, discoveryVars, artworkVars, closing>>

PreviewBrowse(r) ==
  /\ pc[r] = "preview"
  /\ results[ResultOf[r]] # "none" /\ collections[ResultOf[r]] # "fresh"
  /\ AcquirePeer(r)
  /\ Goto(r, "browse")
  /\ UNCHANGED <<scenario, searchVars, discoveryVars, artworkVars, closing>>

\* The answer is kept under the id whatever searches have done to its result meanwhile; a
\* directory without tracks is an error and is not kept.
PreviewKeep(r) ==
  /\ pc[r] = "browse"
  /\ op[r].at = "done"
  /\ \/ op[r].answer = "ok" /\ collections' = [collections EXCEPT ![ResultOf[r]] = "fresh"]
     \/ UNCHANGED collections
  /\ Goto(r, "ended")
  /\ UNCHANGED <<peerVars, scenario, searchVars, results, artworkVars, closing>>

\* discoveryRetention passes, for a result or for a collection: each has its own time.
Age(d) ==
  /\ Happens("age")
  /\ \/ /\ results[d] = "fresh" /\ results' = [results EXCEPT ![d] = "aged"]
        /\ UNCHANGED collections
     \/ /\ collections[d] = "fresh" /\ collections' = [collections EXCEPT ![d] = "aged"]
        /\ UNCHANGED results
  /\ UNCHANGED <<peerVars, scenario, pc, searchVars, artworkVars, closing>>

-----------------------------------------------------------------------------
(* Client.OpenArtwork.                                                         *)

\* The cover is on disk, with the size it should have or without.
ArtworkCached(r) ==
  /\ pc[r] = "artwork"
  /\ file[CoverOf[r]] # "absent"
  /\ Goto(r, "ended")
  /\ UNCHANGED <<peerVars, scenario, searchVars, discoveryVars, artworkVars, closing>>

ArtworkMissing(r) ==
  /\ pc[r] = "artwork"
  /\ file[CoverOf[r]] = "absent"
  /\ Goto(r, "ensure")
  /\ UNCHANGED <<peerVars, scenario, searchVars, discoveryVars, artworkVars, closing>>

\* ensureArtworkDownload: whoever finds no job leads one and asks slskd for the file.
ArtworkJoin(r) ==
  /\ pc[r] = "ensure"
  /\ artworkJobs[CoverOf[r]] # Nobody
  /\ leader' = [leader EXCEPT ![r] = artworkJobs[CoverOf[r]]]
  /\ Goto(r, "wait")
  /\ UNCHANGED <<peerVars, scenario, searchVars, discoveryVars, artworkJobs, job, file, closing>>

ArtworkLead(r) ==
  /\ pc[r] = "ensure"
  /\ artworkJobs[CoverOf[r]] = Nobody
  /\ artworkJobs' = [artworkJobs EXCEPT ![CoverOf[r]] = r]
  /\ leader' = [leader EXCEPT ![r] = r]
  /\ AcquirePeer(r)
  /\ Goto(r, "enqueue")
  /\ UNCHANGED <<scenario, searchVars, discoveryVars, job, file, closing>>

\* finishArtworkDownload: the waiters are told first, then a failed job is forgotten.
Finished(j, outcome) == [job EXCEPT ![j].outcome = outcome, ![j].monitor = "done"]
Failed(j) == [job EXCEPT ![j].outcome = "failed", ![j].monitor = "forgetting"]

ArtworkEnqueued(r) ==
  /\ pc[r] = "enqueue"
  /\ op[r].at = "done" /\ op[r].answer = "ok"
  /\ job' = [job EXCEPT ![r].monitor = "polling", ![r].transfer = "queued"]
  /\ Goto(r, "wait")
  /\ UNCHANGED <<peerVars, scenario, searchVars, discoveryVars, artworkJobs, leader, file, closing>>

\* Mutant: the leader alone learns that its cover was refused.
ArtworkRefusedSilently(r) ==
  /\ pc[r] = "enqueue"
  /\ op[r].at = "done"
  /\ UNCHANGED job
  /\ Goto(r, "ended")
  /\ UNCHANGED <<peerVars, scenario, searchVars, discoveryVars, artworkJobs, leader, file, closing>>

\* slskd fails, has no such transfer, or the leader's own client has gone away: whoever has
\* joined is refused with the leader.
ArtworkRefused(r) ==
  /\ pc[r] = "enqueue"
  /\ op[r].at = "done"
  /\ job' = Failed(r)
  /\ Goto(r, "ended")
  /\ UNCHANGED <<peerVars, scenario, searchVars, discoveryVars, artworkJobs, leader, file, closing>>

\* The job is over: its error, or the file (which is opened again, and may be gone).
ArtworkAnswered(r) ==
  /\ pc[r] = "wait"
  /\ job[leader[r]].outcome # "open"
  /\ Goto(r, "ended")
  /\ UNCHANGED <<peerVars, scenario, searchVars, discoveryVars, artworkVars, closing>>

ArtworkCancelled(r) ==
  /\ pc[r] = "wait"
  /\ Goto(r, "ended")
  /\ UNCHANGED <<peerVars, scenario, searchVars, discoveryVars, artworkVars, closing>>

ForgetJob(j) ==
  /\ job[j].monitor = "forgetting"
  /\ job' = [job EXCEPT ![j].monitor = "done"]
  /\ artworkJobs' = IF artworkJobs[CoverOf[j]] = j
                    THEN [artworkJobs EXCEPT ![CoverOf[j]] = Nobody] ELSE artworkJobs
  /\ UNCHANGED <<leader, file>>

\* monitorArtworkDownload: one poll of the batch.
PollArtwork(j) ==
  /\ job[j].monitor = "polling"
  /\ job' = CASE job[j].transfer = "queued" -> [job EXCEPT ![j].monitor = "pausing", ![j].errors = 0]
              [] job[j].transfer = "succeeded" -> [job EXCEPT ![j].monitor = "saving", ![j].errors = 0]
              [] job[j].transfer = "failed" -> Failed(j)
  /\ UNCHANGED <<artworkJobs, leader, file>>

PollArtworkFails(j) ==
  /\ job[j].monitor = "polling"
  /\ job' = IF closing \in {"downloads", "done"} \/ job[j].errors + 1 = MonitorErrors THEN Failed(j)
            ELSE [job EXCEPT ![j].monitor = "pausing", ![j].errors = @ + 1]
  /\ UNCHANGED <<artworkJobs, leader, file>>

MonitorTick(j) ==
  /\ job[j].monitor = "pausing"
  /\ job' = [job EXCEPT ![j].monitor = "polling"]
  /\ UNCHANGED <<artworkJobs, leader, file>>

MonitorEnds(j) ==
  /\ job[j].monitor = "pausing"
  /\ closing \in {"downloads", "done"}
  /\ job' = Failed(j)
  /\ UNCHANGED <<artworkJobs, leader, file>>

\* waitForFinalFile: slskd moves the file into place, or does not within ten seconds.
ArtworkSaved(j) ==
  /\ job[j].monitor = "saving"
  /\ \E f \in {"good", "bad"} : file' = [file EXCEPT ![CoverOf[j]] = f]
  /\ job' = Finished(j, "ok")
  /\ UNCHANGED <<artworkJobs, leader>>

ArtworkNotSaved(j) ==
  /\ job[j].monitor = "saving"
  /\ job' = Failed(j)
  /\ UNCHANGED <<artworkJobs, leader, file>>

MonitorStep(j) ==
  /\ \/ ForgetJob(j) \/ PollArtwork(j) \/ PollArtworkFails(j) \/ MonitorTick(j)
     \/ MonitorEnds(j) \/ ArtworkSaved(j) \/ ArtworkNotSaved(j)
  /\ UNCHANGED <<peerVars, scenario, pc, searchVars, discoveryVars, closing>>

\* External: slskd's transfer ends.
TransferEnds(j) ==
  /\ job[j].transfer = "queued"
  /\ \E end \in {"succeeded", "failed"} : job' = [job EXCEPT ![j].transfer = end]
  /\ UNCHANGED <<peerVars, scenario, pc, searchVars, discoveryVars, artworkJobs, leader, file, closing>>

-----------------------------------------------------------------------------
(* Client.Close.                                                               *)

CloseSearches ==
  /\ Happens("close")
  /\ closing = "no"
  /\ closing' = "searches"
  /\ UNCHANGED <<peerVars, scenario, pc, searchVars, discoveryVars, artworkVars>>

CloseDownloads ==
  /\ closing = "searches"
  /\ \A s \in DOMAIN searches : searches[s] # "scheduled"
  /\ closing' = "downloads"
  /\ UNCHANGED <<peerVars, scenario, pc, searchVars, discoveryVars, artworkVars>>

CloseDone ==
  /\ closing = "downloads"
  /\ \A j \in Requests : job[j].monitor \in {"none", "done"}
  /\ closing' = "done"
  /\ UNCHANGED <<peerVars, scenario, pc, searchVars, discoveryVars, artworkVars>>

-----------------------------------------------------------------------------
\* The operation with the peer a request is in.
PeerOperation(r) ==
  /\ PeerProgress(r)
  /\ UNCHANGED <<scenario, pc, searchVars, discoveryVars, artworkVars, closing>>

PeerCancelled(r) ==
  /\ LeaveQueue(r) \/ LeavePause(r)
  /\ UNCHANGED <<scenario, pc, searchVars, discoveryVars, artworkVars, closing>>

\* The client of a request goes away where the request looks.
ClientGone(r) ==
  /\ Happens("cancel")
  /\ SearchCancelled(r) \/ ArtworkCancelled(r) \/ PeerCancelled(r)

\* What a request does by itself.
RequestStep(r) ==
  \/ SearchStep(r) \/ KeepResults(r) \/ Lookup(r)
  \/ PreviewKnown(r) \/ PreviewRefused(r) \/ PreviewBrowse(r) \/ PreviewKeep(r)
  \/ ArtworkCached(r) \/ ArtworkMissing(r) \/ ArtworkJoin(r) \/ ArtworkLead(r)
  \/ ArtworkEnqueued(r) \/ ArtworkRefused(r) \/ ArtworkAnswered(r)
  \/ PeerOperation(r)

CloseStep == CloseDownloads \/ CloseDone

\* Nothing is left to do.
Quiet ==
  /\ \A r \in Requests : pc[r] = "ended" /\ job[r].monitor \in {"none", "done"}
  /\ \A s \in DOMAIN searches : searches[s] # "scheduled"
  /\ closing \in {"no", "done"}
  /\ UNCHANGED vars

Next ==
  \/ \E r \in Requests : RequestStep(r) \/ ClientGone(r) \/ MonitorStep(r) \/ TransferEnds(r)
  \/ \E s \in DOMAIN searches : DeleteSearch(s) \/ CleanupCancelled(s)
  \/ \E d \in Results : Age(d)
  \/ CloseSearches \/ CloseStep \/ Quiet

Spec == Init /\ [][Next]_vars

\* Goroutines proceed, calls of slskd end (the HTTP client has a timeout) and timers fire; the
\* deadline of a search stays ready, so one of the selects after it takes it.  slskd ends
\* every transfer.
Fairness ==
  /\ \A r \in Requests :
       /\ WF_vars(RequestStep(r)) /\ WF_vars(MonitorStep(r)) /\ WF_vars(TransferEnds(r))
       /\ SF_vars(SearchStep(r) /\ SearchDeadline(r))
  /\ \A s \in Requests \X {1, 2} : WF_vars(DeleteSearch(s))
  /\ WF_vars(CloseStep)

FairSpec == Spec /\ Fairness
-----------------------------------------------------------------------------
(* Properties.                                                                 *)

TypeOK ==
  /\ scenario \in Scenarios
  /\ pc \in [Requests -> {"search", "polling", "selecting", "found", "lookup", "preview", "browse",
                          "artwork", "ensure", "enqueue", "wait", "ended"}]
  /\ searches \in [Requests \X {1, 2} -> {"none", "open", "scheduled", "deleted", "left"}]
  /\ results \in [Results -> {"none", "fresh", "aged"}]
  /\ collections \in [Results -> {"none", "fresh", "aged"}]
  /\ artworkJobs \in [Covers -> Requests \cup {Nobody}]
  /\ leader \in [Requests -> Requests \cup {Nobody}]
  /\ file \in [Covers -> {"absent", "good", "bad"}]
  /\ closing \in {"no", "searches", "downloads", "done"}

\* slskd is asked to delete every search it has named, however its request ends (results, nothing,
\* an error, its client gone) and in both rounds, unless the client is closed before.
SearchesDeleted ==
  \A s \in Requests \X {1, 2} : searches[s] = "open" ~> (searches[s] = "deleted" \/ closing # "no")

\* The requests whose job fetches a cover, and those that have joined one that is not over.
MonitoredAt == {"polling", "pausing", "saving"}
Fetching(j) == pc[j] = "enqueue" \/ job[j].monitor \in MonitoredAt
Awaiting(r) == pc[r] = "wait" /\ leader[r] # r /\ job[leader[r]].outcome = "open"
Fetchers(c) == {j \in Requests : Fetching(j) /\ CoverOf[j] = c}
Awaiters(c) == {r \in Requests : Awaiting(r) /\ CoverOf[r] = c}

CoverFlights == INSTANCE SingleFlight WITH Keys <- Covers,
                                           leader <- [c \in Covers |-> Fetchers(c)],
                                           waiters <- [c \in Covers |-> Awaiters(c)]

\* The jobs of the covers are flights too: a cover is fetched once at a time, and the end of
\* a job, whoever led it and is gone, releases all that have joined it.
CoversShared == CoverFlights!Spec

\* Every request ends: nobody waits for a gate that is never free, for the job of a leader
\* that was refused or has gone away, or for a cover whose job is over; closing ends too.
RequestsEnd ==
  /\ \A r \in Requests : <>(pc[r] = "ended")
  /\ closing = "searches" ~> closing = "done"
=============================================================================
