---------------------------- MODULE ClientVersion ----------------------------
(***************************************************************************)
(* The Codex client version the process reports: a file, a copy in memory, *)
(* and a refresh that asks GitHub's API for the latest release and its web *)
(* page when that fails.  Both answers are fetched by fetchRemoteText,     *)
(* which follows redirects itself.  Other processes write the file too,    *)
(* without a lock.  Times to live end at any time.                         *)
(***************************************************************************)
EXTENDS Integers, Sequences, FiniteSets

CONSTANTS Allowed, Foreign,  \* hosts
          MaxRedirects,      \* redirects followed
          MaxRelease,        \* bound: releases published
          NoVersion          \* no file; 0 is the built-in default

ASSUME VersionConstants ==
  /\ Allowed \cap Foreign = {} /\ Allowed # {} /\ "none" \notin Allowed
  /\ MaxRedirects \in Nat /\ MaxRelease \in Nat \ {0}
  /\ NoVersion \notin Nat
  /\ NoVersion \notin [version : 1..MaxRelease, fresh : BOOLEAN]

VARIABLES release,   \* the latest release
          saved,     \* the file: a version and whether it is fresh
          cached,    \* cachedCodexClientVersion; NoVersion when unset
          fetch,     \* the request under way
          callers,   \* callers that wait for codexClientVersionRefreshPromise
          asked,     \* hosts asked for the page under way
          lost,      \* history: a write of the file failed, or the file went
          peered     \* history: another process wrote the file since this one last wrote
                     \* it, read it with no refresh under way, or started
versionVars == <<release, saved, cached, fetch, callers, asked, lost, peered>>

Default == 0
NoFetch == [page |-> "none", hops |-> 0, host |-> "none", was |-> Default, since |-> Default]
\* What a failed refresh falls back to is what the file said when it began; an
\* answer may be as old as the request.
Page(page, was) == \E host \in Allowed :
  /\ fetch' = [page |-> page, hops |-> 0, host |-> host, was |-> was, since |-> release]
  /\ asked' = <<host>>

\* resolveCodexClientVersion, and the start of a refresh: the first reader fills memory.
Known == IF saved # NoVersion THEN saved.version ELSE Default
Resolve ==
  /\ cached = NoVersion
  /\ cached' = Known
  /\ UNCHANGED <<release, saved, fetch, callers, asked, lost, peered>>
\* Refreshes share one run; a fresh file needs none.
Refresh ==
  /\ callers < 2
  /\ IF saved # NoVersion /\ saved.fresh
     THEN /\ cached' = saved.version /\ peered' = (peered /\ fetch # NoFetch)
          /\ UNCHANGED <<fetch, callers, asked>>
     ELSE /\ callers' = callers + 1
          /\ IF fetch = NoFetch THEN Page("api", Known) ELSE UNCHANGED <<fetch, asked>>
          /\ UNCHANGED <<cached, peered>>
  /\ UNCHANGED <<release, saved, lost>>

\* Faulty: the callers are not told.
OverSilently == fetch' = NoFetch /\ asked' = <<>> /\ UNCHANGED callers
Over == fetch' = NoFetch /\ callers' = 0 /\ asked' = <<>>
FallsBack ==
  /\ cached' = fetch.was
  /\ Over
  /\ UNCHANGED <<release, saved, lost, peered>>
\* No page, or none that could be read: on to the web page, or back.
PageFails ==
  /\ fetch # NoFetch
  /\ IF fetch.page = "api"
     THEN Page("html", fetch.was) /\ UNCHANGED <<release, saved, cached, callers, lost, peered>>
     ELSE FallsBack

\* A redirect is followed to an allowed host, so many times.
Follow(host) ==
  IF fetch.hops < MaxRedirects /\ host \in Allowed
  THEN /\ fetch' = [fetch EXCEPT !.hops = @ + 1, !.host = host]
       /\ asked' = Append(asked, host)
       /\ UNCHANGED <<release, saved, cached, callers, lost, peered>>
  ELSE PageFails
Redirected(host) == fetch # NoFetch /\ Follow(host)

\* The release is saved, best effort, and remembered.
Answered ==
  /\ fetch # NoFetch
  /\ \E version \in fetch.since..release :
       /\ cached' = version
       /\ \/ saved' = [version |-> version, fresh |-> TRUE] /\ UNCHANGED lost
          \/ lost' = TRUE /\ UNCHANGED saved
  /\ Over /\ peered' = FALSE
  /\ UNCHANGED release

Publish == /\ release < MaxRelease
           /\ release' = release + 1
           /\ UNCHANGED <<saved, cached, fetch, callers, asked, lost, peered>>
\* Another process saves a release, the latest one or one it was answered before.
PeerSaves == /\ \E version \in 1..release : saved' = [version |-> version, fresh |-> TRUE]
             /\ peered' = TRUE
             /\ UNCHANGED <<release, cached, fetch, callers, asked, lost>>
Age == /\ saved # NoVersion
       /\ \/ saved' = [saved EXCEPT !.fresh = FALSE] /\ UNCHANGED lost
          \/ saved' = NoVersion /\ lost' = TRUE
       /\ UNCHANGED <<release, cached, fetch, callers, asked, peered>>
\* The process restarts: memory goes.
Reboot == /\ cached' = NoVersion
          /\ Over /\ peered' = FALSE
          /\ UNCHANGED <<release, saved, lost>>

VersionInit == /\ release = 1 /\ saved = NoVersion /\ cached = NoVersion
               /\ fetch = NoFetch /\ callers = 0 /\ asked = <<>> /\ lost = FALSE
               /\ peered = FALSE
FetchStep == Answered \/ PageFails \/ \E host \in Allowed \cup Foreign : Redirected(host)
VersionNext == Resolve \/ Refresh \/ FetchStep \/ Publish \/ PeerSaves \/ Age \/ Reboot

-----------------------------------------------------------------------------
\* Every part of the state has its type.
VersionTypeOK ==
  /\ release \in 1..MaxRelease /\ cached \in (0..MaxRelease) \cup {NoVersion}
  /\ saved # NoVersion => saved.version \in 1..MaxRelease
  /\ fetch.page \in {"none", "api", "html"} /\ callers \in 0..2
  /\ {lost, peered} \subseteq BOOLEAN

\* Whatever redirects say, only the allowed hosts are asked, and no more often
\* than the limit of redirects has it (fetchRemoteText).
AsksAllowedHosts == /\ \A i \in DOMAIN asked : asked[i] \in Allowed
                    /\ Len(asked) =< MaxRedirects + 1

\* While the file can be kept, a version once reported is replaced by an older
\* one only if another process has written the file since this one knew it, be
\* it that the other one was slower or that a failed refresh puts back what the
\* file said before; failed refreshes and restarts alone never do it.
VersionIsKept ==
  [][~lost' /\ NoVersion \notin {cached, cached'} /\ cached' < cached => peered]_versionVars

\* Whoever waits for a refresh gets its outcome.
RefreshesEnd == callers > 0 ~> callers = 0
=============================================================================
