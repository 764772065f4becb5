--------------------------- MODULE ManifestCache ---------------------------
(***************************************************************************)
(* The manifest cache and the mode selection of client/ModeRouter.ts, for  *)
(* one provider: a process-wide entry with the lifetime its response       *)
(* names, and one fetch shared by the callers that miss it.                *)
(*                                                                         *)
(* The provider publishes manifests one after the other; a fetch brings    *)
(* back the one it found.  Waiters of a fetch resume in the same microtask *)
(* queue run that fills the cache, so they do in the same step.            *)
(***************************************************************************)
EXTENDS Integers, Sequences

CONSTANTS
  Callers,         \* calls of pay(), estimateCost() or openSession(), one each
  Anchor,          \* each caller's expectedPayee, or NoAnchor
  Options,         \* each caller's ModeSelectOptions; the method is "any" if none is given
  Manifests,       \* what the provider may publish
  NoAnchor, NoBudget, Absent,
  Lifetimes,       \* what response headers may say
  FetchTime,       \* manifestTimeoutMs
  MaxVersions, MaxTime, MaxInvalidations  \* bounds

PayModes == {"x402", "mpp-charge"}
AllModes == PayModes \cup {"mpp-session", "mpp-session-ws"}

ASSUME CacheAssumption ==
  /\ Absent \notin Int /\ NoBudget \notin Int
  /\ Anchor \in [Callers -> {m.payee : m \in Manifests} \cup {NoAnchor}]
  /\ \A m \in Manifests :
       /\ m.price \in [AllModes -> Nat \cup {Absent}] /\ m.deprecated \subseteq AllModes
       /\ m.supported \in BOOLEAN /\ m.sunset \in Nat \cup {Absent}
       /\ \A d \in m.endpoints : d.sunset \in Nat \cup {Absent}
  /\ Lifetimes \subseteq Nat /\ (\E t \in Lifetimes : \A u \in Lifetimes : u <= t) /\ FetchTime \in Nat \ {0}
  /\ MaxVersions \in Nat \ {0} /\ MaxTime \in Nat /\ MaxInvalidations \in Nat

VARIABLES
  now,
  site,            \* the manifests published so far, with the time of each
  entry,           \* the cache: a version, 0 for none, and when it expires
  fetch,           \* the shared fetch: "off", "asked" or "answered" with a version
  caller,          \* each call: when it was made, what it returned
  invalidations,
  floor            \* the version that the last invalidation outside a fetch found

cacheVars == <<now, site, entry, fetch, caller, invalidations, floor>>

Version == Len(site)
NoEntry == [ver |-> 0, expires |-> 0]
NoFetch == [st |-> "off", ver |-> 0, at |-> 0]

CacheInit ==
  /\ now = 0 /\ \E m \in Manifests : site = <<[manifest |-> m, since |-> 0]>>
  /\ entry = NoEntry /\ fetch = NoFetch
  /\ caller = [c \in Callers |-> [st |-> "idle", at |-> 0, ver |-> 0, least |-> 0]]
  /\ invalidations = 0 /\ floor = 0

----------------------------------------------------------------------------
\* selectMode

Offered(m) == {mode \in AllModes : m.price[mode] # Absent}

\* The cheapest, x402 before mpp-charge.
Cheapest(modes, m) ==
  CHOOSE a \in modes :
    \A b \in modes : m.price[a] < m.price[b] \/ (m.price[a] = m.price[b] /\ (a = "x402" \/ a = b))

\* "over-budget" stands for the error.
SelectFromModes(modes, m, o) ==
  LET affordable == {a \in modes \cap PayModes : o.budget = NoBudget \/ m.price[a] <= o.budget}
  IN IF o.session /\ modes \ PayModes # {} THEN
       IF modes \ PayModes = AllModes \ PayModes
         THEN IF o.websocket THEN "mpp-session-ws" ELSE "mpp-session"
         ELSE CHOOSE a \in modes \ PayModes : TRUE
     ELSE IF o.cost /\ affordable # {} THEN Cheapest(affordable, m)
     ELSE IF o.cost /\ modes \cap PayModes # {} THEN "over-budget"
     ELSE IF "mpp-charge" \in modes THEN "mpp-charge"
     ELSE IF "x402" \in modes THEN "x402" ELSE "none"

SelectMode(m, o) ==
  LET active == SelectFromModes(Offered(m) \ m.deprecated, m, o)
  IN IF o.force # "none" THEN IF o.force \in Offered(m) THEN o.force ELSE "none"
     ELSE IF active # "none" THEN active
     ELSE SelectFromModes(Offered(m) \cap m.deprecated, m, o)

----------------------------------------------------------------------------
\* fetchManifest

Manifest(ver) == site[ver].manifest

MeetsAnchor(c, m) == Anchor[c] = NoAnchor \/ Anchor[c] = m.payee

\* By time t, of a manifest or of one of its endpoints.
HasSunset(what, t) == what.sunset # Absent /\ what.sunset <= t

\* A path is refused when every descriptor of it that speaks for the method has
\* sunset; one that the manifest does not list is not refused.
EndpointActive(m, method, t) ==
  LET matches == {d \in m.endpoints : method \in {"any", d.method}}
  IN matches # {} => \E d \in matches : ~HasSunset(d, t)

\* What does not depend on the caller: both versions, and the manifest's own sunset.
Usable(m) == m.supported /\ ~HasSunset(m, now)

\* What every caller checks for itself: of the manifest, and of the endpoint it uses.
Accepts(c, m) == MeetsAnchor(c, m) /\ Usable(m) /\ EndpointActive(m, Options[c].method, now)

Returned(asked, c, ver) ==
  [asked EXCEPT !.st = IF Accepts(c, Manifest(ver)) THEN "returned" ELSE "rejected", !.ver = ver]

\* Mutant: an entry never expires.
Cached == entry.ver # 0

Fresh == entry.ver # 0 /\ now < entry.expires

\* What the cache keeps of an answer, for as long as its headers allow.
EntryFor(ver, lifetime) == [ver |-> ver, expires |-> now + lifetime]

\* Mutant: a caller that finds a fetch under way does one of its own, here at once.
CallUnshared(c) ==
  /\ caller[c].st = "idle"
  /\ LET asked == [st |-> "waiting", at |-> now, ver |-> 0, least |-> floor]
     IN IF Fresh
          THEN caller' = [caller EXCEPT ![c] = Returned(asked, c, entry.ver)] /\ UNCHANGED <<entry, fetch>>
        ELSE IF fetch.st = "off" THEN
          /\ caller' = [caller EXCEPT ![c] = asked]
          /\ fetch' = [st |-> "asked", ver |-> 0, at |-> now] /\ UNCHANGED entry
        ELSE
          /\ Usable(Manifest(Version)) /\ caller' = [caller EXCEPT ![c] = Returned(asked, c, Version)]
          /\ \E lifetime \in Lifetimes : entry' = EntryFor(Version, lifetime)
          /\ UNCHANGED fetch
  /\ UNCHANGED <<now, site, invalidations, floor>>

\* A fresh entry, under the caller's own checks, or else the fetch, shared.
Call(c) ==
  /\ caller[c].st = "idle"
  /\ LET asked == [st |-> "waiting", at |-> now, ver |-> 0, least |-> floor]
     IN IF Fresh
          THEN caller' = [caller EXCEPT ![c] = Returned(asked, c, entry.ver)] /\ UNCHANGED fetch
          ELSE /\ caller' = [caller EXCEPT ![c] = asked]
               /\ fetch' = IF fetch.st = "off" THEN [st |-> "asked", ver |-> 0, at |-> now] ELSE fetch
  /\ UNCHANGED <<now, site, entry, invalidations, floor>>

\* The provider answers with what it publishes.
Answer ==
  /\ fetch.st = "asked"
  /\ fetch' = [fetch EXCEPT !.st = "answered", !.ver = Version]
  /\ UNCHANGED <<now, site, entry, caller, invalidations, floor>>

Waiting(c) == caller[c].st = "waiting"

\* The answer is in.  One that nobody could use fails the fetch; another fills the
\* cache, and every waiter checks it.
Arrive ==
  /\ fetch.st = "answered" /\ Usable(Manifest(fetch.ver))
  /\ \E lifetime \in Lifetimes : entry' = EntryFor(fetch.ver, lifetime)
  /\ caller' = [c \in Callers |-> IF Waiting(c) THEN Returned(caller[c], c, fetch.ver) ELSE caller[c]]
  /\ fetch' = NoFetch
  /\ UNCHANGED <<now, site, invalidations, floor>>

\* An error or a timeout: the fetch is tried again ...
Refetch ==
  /\ fetch.st # "off" /\ fetch' = [st |-> "asked", ver |-> 0, at |-> now]
  /\ UNCHANGED <<now, site, entry, caller, invalidations, floor>>

\* ... or given up, or its answer refused: nothing is cached, and every waiter fails.
FetchFails ==
  /\ fetch.st # "off" /\ fetch' = NoFetch
  /\ caller' = [c \in Callers |-> IF Waiting(c) THEN [caller[c] EXCEPT !.st = "rejected"] ELSE caller[c]]
  /\ UNCHANGED <<now, site, entry, invalidations, floor>>

\* Mutant: the entry is looked for under another key.
InvalidateNothing ==
  /\ invalidations < MaxInvalidations /\ invalidations' = invalidations + 1
  /\ floor' = IF fetch.st = "off" THEN Version ELSE floor
  /\ UNCHANGED <<now, site, entry, fetch, caller>>

\* invalidateManifest.
Invalidate ==
  /\ invalidations < MaxInvalidations /\ invalidations' = invalidations + 1
  /\ entry' = NoEntry
  /\ floor' = IF fetch.st = "off" THEN Version ELSE floor
  /\ UNCHANGED <<now, site, fetch, caller>>

\* The entries of other providers push this one out.
EvictManifest ==
  /\ entry # NoEntry /\ entry' = NoEntry
  /\ UNCHANGED <<now, site, fetch, caller, invalidations, floor>>

----------------------------------------------------------------------------
\* The provider and the clock

Publish ==
  /\ Version < MaxVersions
  /\ \E m \in Manifests \ {Manifest(Version)} : site' = Append(site, [manifest |-> m, since |-> now])
  /\ UNCHANGED <<now, entry, fetch, caller, invalidations, floor>>

\* A fetch does not outlive its timeout.
Tick ==
  /\ now < MaxTime /\ now' = now + 1
  /\ fetch.st # "off" => now' <= fetch.at + FetchTime
  /\ UNCHANGED <<site, entry, fetch, caller, invalidations, floor>>

CacheStep ==
  Answer \/ Arrive \/ Refetch \/ FetchFails \/ Invalidate \/ EvictManifest \/ Publish \/ Tick

CacheNext == CacheStep \/ \E c \in Callers : Call(c)

CacheSpec == CacheInit /\ [][CacheNext]_cacheVars

----------------------------------------------------------------------------
CacheTypeOK ==
  /\ now \in 0..MaxTime /\ Version \in 1..MaxVersions
  /\ entry.ver \in 0..Version /\ entry.expires \in Nat
  /\ fetch.st \in {"off", "asked", "answered"} /\ fetch.ver \in 0..Version /\ fetch.at \in 0..now
  /\ caller \in [Callers -> [st : {"idle", "waiting", "returned", "rejected"}, at : 0..MaxTime,
                             ver : 0..MaxVersions, least : 0..MaxVersions]]
  /\ \A c \in Callers : Waiting(c) => fetch.st # "off"

HasReturned(c) == caller[c].st = "returned"

NoneOlder ==
  \A c, d \in Callers : HasReturned(c) /\ HasReturned(d)' /\ ~HasReturned(d) => caller[c].ver <= caller'[d].ver

\* No caller gets a manifest older than one that any caller of the process got
\* before: neither a slow or repeated fetch, nor an eviction, an invalidation or an
\* entry that expires, brings a manifest back that was replaced.
NeverAnOlderManifest == [][NoneOlder]_cacheVars

Longest == CHOOSE t \in Lifetimes : \A u \in Lifetimes : u <= t

\* A manifest that is returned was still published at most one lifetime and one
\* fetch before the call.
StalenessBounded ==
  \A c \in Callers : HasReturned(c) /\ caller[c].ver < Version =>
    caller[c].at <= site[caller[c].ver + 1].since + Longest + FetchTime

\* After an invalidation with no fetch under way, no call gets an older manifest
\* than the one published then.
InvalidatedIsNotReturned == \A c \in Callers : HasReturned(c) => caller[c].ver >= caller[c].least
=============================================================================
