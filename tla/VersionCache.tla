---------------------------- MODULE VersionCache ----------------------------
(***************************************************************************)
(* The cache of the release feed: CheckVersion and LastCheckTime of        *)
(* src/server-src/internal/version/checker.go, called by versionHandler.   *)
(*                                                                         *)
(* Requests run concurrently and hold no lock while they ask the feed.     *)
(* Releases are numbered in the order of their versions; 0 is the empty    *)
(* tag.  Time is the age of the cached value, up to the cache timeout.     *)
(***************************************************************************)
EXTENDS Naturals

CONSTANTS
    Callers,      \* requests that may be in flight at once
    MaxRelease,   \* bound: releases 1..MaxRelease appear in the feed
    Timeout,      \* DSD_VERSION_CHECK_CACHE_TIMEOUT_MINUTES, in ticks
    Local         \* the running version; 0 when it is not a semantic version

ASSUME VersionAssumption ==
    /\ MaxRelease \in Nat \ {0}
    /\ Timeout \in Nat
    /\ Local \in 0..MaxRelease

NoTag == 0

VARIABLES
    enabled,      \* DSD_VERSION_CHECK_ENABLED
    latest,       \* the latest release in the feed
    healthy,      \* the feed answers requests with that release
    checked,      \* lastCheckTime is not zero
    age,          \* time since lastCheckTime, at most Timeout
    cached,       \* cachedRemoteVersion
    stage,        \* where each request is
    remote,       \* the remoteVersion each request has
    reply,        \* the answer each request was given last
    since         \* history: time since each request stored a release, capped

cacheVars == <<checked, age, cached>>
feedVars  == <<latest, healthy>>
versionVars == <<enabled, feedVars, cacheVars, stage, remote, reply, since>>

NoReply == [remote |-> NoTag, update |-> FALSE, lastChecked |-> FALSE]

\* Mutant of UpdateAvailable: any other release counts as an update.
UpdateOnDifference(tag) == Local # tag

\* localSemver.LT(remoteSemver); an empty tag or a local version that is no
\* semantic version never claims an update.
UpdateAvailable(tag) == Local # 0 /\ Local < tag

VersionInit ==
    /\ enabled \in BOOLEAN
    /\ latest = 1
    /\ healthy \in BOOLEAN
    /\ checked = FALSE
    /\ age = Timeout
    /\ cached = NoTag
    /\ stage = [r \in Callers |-> "idle"]
    /\ remote = [r \in Callers |-> NoTag]
    /\ reply = [r \in Callers |-> NoReply]
    /\ since = [r \in Callers |-> Timeout]

-----------------------------------------------------------------------------

Goto(r, to, tag) ==
    /\ stage' = [stage EXCEPT ![r] = to]
    /\ remote' = [remote EXCEPT ![r] = tag]

Fresh == checked /\ age < Timeout

\* Mutant of UseCache: the age of the cached value is not looked at.
UseCacheForEver(r) ==
    /\ stage[r] = "idle"
    /\ enabled /\ checked
    /\ Goto(r, "stamp", cached)
    /\ UNCHANGED <<enabled, feedVars, cacheVars, reply, since>>

UseCache(r) ==
    /\ stage[r] = "idle"
    /\ enabled /\ Fresh
    /\ Goto(r, "stamp", cached)
    /\ UNCHANGED <<enabled, feedVars, cacheVars, reply, since>>

CheckDisabled(r) ==
    /\ stage[r] = "idle"
    /\ ~enabled
    /\ Goto(r, "stamp", NoTag)
    /\ UNCHANGED <<enabled, feedVars, cacheVars, reply, since>>

AskFeed(r) ==
    /\ stage[r] = "idle"
    /\ enabled /\ ~Fresh
    /\ Goto(r, "fetch", NoTag)
    /\ UNCHANGED <<enabled, feedVars, cacheVars, reply, since>>

\* Mutant of FeedAnswers: a failure clears the cache.
FeedAnswersOrClears(r) ==
    /\ stage[r] = "fetch"
    /\ \/ healthy /\ Goto(r, "store", latest) /\ UNCHANGED cacheVars
       \/ /\ ~healthy /\ Goto(r, "stamp", NoTag)
          /\ checked' = FALSE /\ cached' = NoTag /\ age' = Timeout
    /\ UNCHANGED <<enabled, feedVars, reply, since>>

\* The feed answers: with the latest release; or, when it is not healthy, with
\* no answer or no JSON, which fails, or with JSON that is not a release (the
\* status code is not looked at), which gives the empty tag.
FeedAnswers(r) ==
    /\ stage[r] = "fetch"
    /\ \/ healthy /\ Goto(r, "store", latest)
       \/ ~healthy /\ Goto(r, "store", NoTag)
       \/ ~healthy /\ Goto(r, "stamp", NoTag)
    /\ UNCHANGED <<enabled, feedVars, cacheVars, reply, since>>

\* Mutant of Store: the time is not set.
StoreTagOnly(r) ==
    /\ stage[r] = "store"
    /\ cached' = remote[r]
    /\ since' = [since EXCEPT ![r] = 0]
    /\ Goto(r, "stamp", remote[r])
    /\ UNCHANGED <<enabled, feedVars, checked, age, reply>>

Store(r) ==
    /\ stage[r] = "store"
    /\ checked' = TRUE
    /\ age' = 0
    /\ cached' = remote[r]
    /\ since' = [since EXCEPT ![r] = 0]
    /\ Goto(r, "stamp", remote[r])
    /\ UNCHANGED <<enabled, feedVars, reply>>

\* versionHandler: LastCheckTime, under a lock of its own, and the answer.
Stamp(r) ==
    /\ stage[r] = "stamp"
    /\ reply' = [reply EXCEPT ![r] = [remote |-> remote[r],
                                      update |-> UpdateAvailable(remote[r]),
                                      lastChecked |-> checked]]
    /\ Goto(r, "idle", NoTag)
    /\ UNCHANGED <<enabled, feedVars, cacheVars, since>>

Request(r) ==
    \/ UseCache(r) \/ CheckDisabled(r) \/ AskFeed(r)
    \/ FeedAnswers(r) \/ Store(r) \/ Stamp(r)

Tick ==
    /\ checked /\ age < Timeout
    /\ age' = age + 1
    /\ since' = [r \in Callers |-> IF since[r] < Timeout THEN since[r] + 1 ELSE Timeout]
    /\ UNCHANGED <<enabled, feedVars, checked, cached, stage, remote, reply>>

Publish ==
    /\ latest < MaxRelease
    /\ latest' = latest + 1
    /\ UNCHANGED <<enabled, healthy, cacheVars, stage, remote, reply, since>>

FeedChanges ==
    /\ healthy' = ~healthy
    /\ UNCHANGED <<enabled, latest, cacheVars, stage, remote, reply, since>>

VersionNext ==
    \/ \E r \in Callers : Request(r)
    \/ Tick \/ Publish \/ FeedChanges

VersionSpec == VersionInit /\ [][VersionNext]_versionVars

\* Browsers keep asking (the page does on every load), time passes, and a
\* request to the feed ends.
FairVersionSpec == VersionSpec /\ WF_versionVars(Tick) /\ \A r \in Callers : WF_versionVars(Request(r))

-----------------------------------------------------------------------------
(* Properties.                                                             *)

\* Every variable has its type, and no request or cache holds a release that
\* has not been published.
VersionTypeOK ==
    /\ enabled \in BOOLEAN
    /\ latest \in 1..MaxRelease
    /\ healthy \in BOOLEAN
    /\ checked \in BOOLEAN
    /\ age \in 0..Timeout
    /\ cached \in 0..latest
    /\ stage \in [Callers -> {"idle", "fetch", "store", "stamp"}]
    /\ remote \in [Callers -> 0..latest]
    /\ reply \in [Callers -> [remote : 0..latest, update : BOOLEAN,
                               lastChecked : BOOLEAN]]
    /\ since \in [Callers -> 0..Timeout]

\* An answer that names a release says when the feed was read, although the two
\* are read under separate locks while other requests write them.
ReleaseHasDate ==
    \A r \in Callers : reply[r].remote # NoTag => reply[r].lastChecked

\* An answer claims an update only for a release that is newer than the running
\* version and has been published.
UpdateIsReal ==
    \A r \in Callers :
        reply[r].update => Local < reply[r].remote /\ reply[r].remote <= latest

\* The feed is spared: a request that has stored the feed's answer turns to the
\* feed again only after the cache timeout, whatever other requests stored, failed
\* or held in the meantime.
OneCallPerTimeout ==
    [][\A r \in Callers :
          stage[r] = "idle" /\ stage'[r] = "fetch" => since[r] = Timeout]_versionVars

\* A release is noticed: once the feed stays healthy and the last release is out,
\* every answer names it from some time on.  A slow request that still holds an
\* older release may overwrite the cache, but not for good.
ReleaseIsNoticed ==
    enabled /\ <>[]healthy /\ <>[](latest = MaxRelease) =>
        \A r \in Callers : <>[](reply[r].remote = MaxRelease /\ reply[r].lastChecked)

\* The inductive invariant behind ReleaseHasDate and OneCallPerTimeout: whoever
\* holds a release to answer with got it from the cache or has stored it, and the
\* cache is never older than what a request stored last.
VersionInv ==
    /\ VersionTypeOK
    /\ cached # NoTag => checked
    /\ \A r \in Callers : stage[r] = "stamp" /\ remote[r] # NoTag => checked
    /\ ReleaseHasDate
    /\ UpdateIsReal
    /\ \A r \in Callers : since[r] < Timeout => checked /\ age <= since[r]

-----------------------------------------------------------------------------
(* What a comment of the source says and the code does not do.             *)

\* "LastCheckTime returns the time of the most recent successful remote version
\* fetch": when it is set, a release was fetched.
CheckedMeansFetched == checked => cached # NoTag
=============================================================================
