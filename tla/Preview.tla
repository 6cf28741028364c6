------------------------------- MODULE Preview -------------------------------
(***************************************************************************)
(* The public preview (preview.module.ts) behind the rate limiter of every *)
(* request (rate-limit.guard.ts), in one process: sliding windows of the   *)
(* requests and of the scans a client started, and a bounded cache of      *)
(* results with an expiry, filled by concurrent scans.  All of it is in    *)
(* memory.  Hits carry a serial number, for two may have the same time.    *)
(***************************************************************************)
EXTENDS Naturals, FiniteSets

CONSTANTS
    Clients, Repos,
    GuardWindow, GuardMax,      \* a minute, RATE_LIMIT_PER_MIN
    Window, MaxPerWindow,       \* an hour, PREVIEW_LIMIT_PER_HOUR
    Ttl, CacheMax,              \* CACHE_TTL_MS, 200 results
    MaxScanTime,                \* the timeouts of the collector's calls bound a scan
    MaxTime, MaxRequests,       \* bounds: the clock, the requests
    None

ASSUME PreviewAssumption ==
    /\ GuardWindow \in Nat /\ Window \in Nat /\ Ttl \in Nat \ {0} /\ MaxScanTime \in Nat
    /\ GuardMax \in Nat \ {0} /\ MaxPerWindow \in Nat \ {0} /\ CacheMax \in Nat \ {0}
    /\ MaxTime \in Nat /\ MaxRequests \in Nat

VARIABLES
    now,       \* the clock
    requests,  \* how many requests there were
    guard,     \* hits of the rate limiter
    hits,      \* hits of the preview quota
    cache,     \* repository -> its result and when it was stored, or None
    running,     \* scans in progress
    (* Observed: the scans started in this life of the process, and how    *)
    (* long before the last answer its repository had been read.           *)
    begun, age

previewVars == <<now, requests, guard, hits, cache, running, begun, age>>

Times == 0 .. MaxTime
Hits == [n : 1 .. MaxRequests, client : Clients, at : Times]
Running == [n : 1 .. MaxRequests, client : Clients, repo : Repos, read : Times]
Entries == [read : Times, at : Times]

(* The types of the windows, of the cache and of the scans.                *)
PreviewTypeOK ==
    /\ now \in Times /\ requests \in 0 .. MaxRequests
    /\ guard \subseteq Hits /\ hits \subseteq Hits /\ begun \subseteq Hits
    /\ cache \in [Repos -> Entries \cup {None}]
    /\ running \subseteq Running
    /\ age \in Times \cup {None}

PreviewInit ==
    /\ now = 0 /\ requests = 0
    /\ guard = {} /\ hits = {} /\ begun = {}
    /\ cache = [r \in Repos |-> None]
    /\ running = {} /\ age = None

-----------------------------------------------------------------------------
Of(client, S) == {h \in S : h.client = client}
Recent(client, S, window) == {h \in Of(client, S) : now - h.at < window}

(* A client's hits with the old ones dropped and this one added.           *)
Pushed(client, S, window, hit) ==
    (S \ Of(client, S)) \cup Recent(client, S, window) \cup {hit}

(* RateLimitGuard: the request counts, also when it is refused.            *)
Refused(client) == Cardinality(Recent(client, guard, GuardWindow)) + 1 > GuardMax

(* assertQuota: charged when the scan starts.                              *)
(* Mutant: charged when it ends.                                           *)
WithinQuotaEnded(client) ==
    Cardinality({h \in Recent(client, hits, Window) : \A s \in running : s.n # h.n}) < MaxPerWindow
WithinQuota(client) == Cardinality(Recent(client, hits, Window)) < MaxPerWindow

(* Mutant: a result is counted from its last use, so it never expires.     *)
FreshForever(repo) == cache[repo] # None
Fresh(repo) == cache[repo] # None /\ now - cache[repo].at < Ttl

(* POST preview/scan, up to the collector's first call.                    *)
Request(client, repo) ==
    /\ requests < MaxRequests /\ requests' = requests + 1
    /\ LET hit == [n |-> requests', client |-> client, at |-> now]
       IN  /\ guard' = Pushed(client, guard, GuardWindow, hit)
           /\ \/ /\ Refused(client)
                 /\ UNCHANGED <<hits, running, begun, age>>
              \/ /\ ~Refused(client) /\ Fresh(repo)
                 /\ age' = now - cache[repo].read
                 /\ UNCHANGED <<hits, running, begun>>
              \/ /\ ~Refused(client) /\ ~Fresh(repo) /\ ~WithinQuota(client)
                 /\ UNCHANGED <<hits, running, begun, age>>
              \/ /\ ~Refused(client) /\ ~Fresh(repo) /\ WithinQuota(client)
                 /\ hits' = Pushed(client, hits, Window, hit)
                 /\ begun' = begun \cup {hit}
                 /\ running' = running \cup
                      {[n |-> requests', client |-> client, repo |-> repo, read |-> now]}
                 /\ UNCHANGED age
    /\ UNCHANGED <<now, cache>>

(* remember: a full cache drops its oldest entry, also for a repository    *)
(* that it already holds; the entry's age counts from the end of the scan. *)
Cached == {r \in Repos : cache[r] # None}
Oldest == CHOOSE r \in Cached : \A q \in Cached : cache[r].at <= cache[q].at
Evicted == IF Cardinality(Cached) >= CacheMax THEN [cache EXCEPT ![Oldest] = None] ELSE cache

Succeeds(s) ==
    /\ s \in running /\ running' = running \ {s}
    /\ cache' = [Evicted EXCEPT ![s.repo] = [read |-> s.read, at |-> now]]
    /\ age' = now - s.read
    /\ UNCHANGED <<now, requests, guard, hits, begun>>

(* The repository is unreadable or empty: nothing is stored.               *)
Fails(s) ==
    /\ s \in running /\ running' = running \ {s}
    /\ UNCHANGED <<now, requests, guard, hits, cache, begun, age>>

Tick ==
    /\ now < MaxTime /\ now' = now + 1
    /\ \A s \in running : now - s.read < MaxScanTime
    /\ UNCHANGED <<requests, guard, hits, cache, running, begun, age>>

Restart ==
    /\ guard' = {} /\ hits' = {} /\ begun' = {} /\ running' = {}
    /\ cache' = [r \in Repos |-> None]
    /\ UNCHANGED <<now, requests, age>>

PreviewNext ==
    \/ \E client \in Clients, repo \in Repos : Request(client, repo)
    \/ \E s \in running : Succeeds(s) \/ Fails(s)
    \/ Tick \/ Restart

PreviewSpec == PreviewInit /\ [][PreviewNext]_previewVars

-----------------------------------------------------------------------------
(* "Results are capped per IP": however many requests of a client are in   *)
(* progress at once, no window holds more than its quota of started scans  *)
(* (the whole work a preview costs).                                       *)
QuotaHolds ==
    \A client \in Clients : Cardinality(Recent(client, begun, Window)) <= MaxPerWindow

(* The cache holds CacheMax results at most, refreshed ones included, and  *)
(* no visitor gets one older than the expiry and one scan, whichever scans *)
(* of a repository overlap and store last.                                 *)
CacheBounded == Cardinality(Cached) <= CacheMax
AnswersAreRecent == age # None => age < Ttl + MaxScanTime
CacheIsSound == CacheBounded /\ AnswersAreRecent
=============================================================================
