------------------------ MODULE AgentProgramsProofs ------------------------
(***************************************************************************)
(* Proofs about the programs around the SDK, for any number of callers,    *)
(* sessions, signals, calls, rows and payments.  Each program has an       *)
(* inductive invariant over its own variables, which the steps of the      *)
(* other programs leave alone.                                             *)
(***************************************************************************)
EXTENDS AgentPrograms, FiniteSetTheorems, TLAPS

----------------------------------------------------------------------------
\* The demo agent and the stress test (DemoAgent)

Places == {"paying", "opening", "streaming", "closing", "closed", "finally", "leaving", "reporting", "completed"}

AgentTypeOK ==
  /\ program \in Programs /\ main \in Places /\ channel \in {"none", "open", "settled"}
  /\ activeSession \in BOOLEAN /\ closingSession \in BOOLEAN
  /\ asker \in [Askers -> {"idle", "closing", "closed", "failed", "nothing"}]
  /\ outcome \in {"none", "result", "error"} /\ exitCode \in {"none", "0", "1"} \cup Signals

\* Before the session is open nobody has anything to close.
NothingToClose ==
  main \in {"paying", "opening"} =>
    /\ ~activeSession /\ ~closingSession /\ outcome # "result"
    /\ \A a \in Askers : asker[a] \in {"idle", "nothing"}
    /\ asker["main"] = "idle"

\* A close() that returned has settled the channel, and so has one that gave a result.
ClosedIsSettled ==
  /\ outcome = "result" => channel = "settled"
  /\ \A a \in Askers : asker[a] = "closed" => channel = "settled"

\* Nobody but main() closes the session of the stress test.
StressClosesItself ==
  program = "stress" =>
    /\ \A s \in Signals : asker[s] = "idle"
    /\ main \in {"streaming", "closing"} =>
         activeSession /\ ~closingSession /\ outcome # "result" /\ asker["main"] = "idle"
    /\ main = "closed" => asker["main"] \in {"closing", "closed", "failed"} /\ outcome # "result"
    /\ main \in {"reporting", "completed"} => outcome # "none"
    /\ main = "completed" /\ outcome = "error" => exitCode = "1"

\* The agent reports what has a result.
AgentReportsResult == program = "agent" /\ main \in {"reporting", "completed"} => outcome = "result"

AgentInv == AgentTypeOK /\ NothingToClose /\ ClosedIsSettled /\ StressClosesItself /\ AgentReportsResult

\* Nothing is open, nothing is closing when a run starts.
LEMMA AgentInitInv == AgentInit => AgentInv
BY AgentAssumption DEF AgentInit, AgentInv, AgentTypeOK, NothingToClose, ClosedIsSettled, StressClosesItself,
   AgentReportsResult, Places, Askers, Signals

\* Each step of main(), of a signal handler and of a close() keeps the invariant.
LEMMA AgentStepInv == AgentInv /\ [AgentStep]_agentVars => AgentInv'
<1> SUFFICES ASSUME AgentInv, [AgentStep]_agentVars PROVE AgentInv' OBVIOUS
<1> USE AgentAssumption DEF AgentInv, AgentTypeOK, NothingToClose, ClosedIsSettled, StressClosesItself,
        AgentReportsResult, Places, Askers, Signals, MainAt, Alive, Throws, GoesOn
<1>1. CASE Pays BY <1>1 DEF Pays
<1>2. CASE Samples BY <1>2 DEF Samples
<1>3. CASE SessionOpens BY <1>3 DEF SessionOpens
<1>4. CASE OpenFails BY <1>4 DEF OpenFails
<1>5. CASE StreamEnds BY <1>5 DEF StreamEnds
<1>6. CASE MainCloses BY <1>6 DEF MainCloses, CloseActiveSession
<1>7. CASE MainClosed
  <2>1. /\ main = "closed" /\ asker["main"] \in {"closed", "failed", "nothing"}
        /\ main' = IF program = "agent" THEN "finally" ELSE "reporting"
        /\ UNCHANGED <<program, channel, activeSession, closingSession, asker, exitCode>>
    BY <1>7 DEF MainClosed, IsOver
  <2>2. \/ asker["main"] = "failed" /\ outcome' = "error"
        \/ asker["main"] = "closed" /\ outcome = "none" /\ outcome' = "result"
        \/ asker["main"] # "failed" /\ UNCHANGED outcome
           /\ (asker["main"] = "closed" => outcome # "none")
    BY <1>7, <2>1 DEF MainClosed
  <2> QED BY <2>1, <2>2
<1>8. CASE Finally BY <1>8 DEF Finally, CloseActiveSession
<1>9. CASE Leaves BY <1>9 DEF Leaves, HasResult
<1>10. CASE Completes BY <1>10 DEF Completes
<1>11. CASE ProcessEnds BY <1>11 DEF ProcessEnds
<1>12. ASSUME NEW s \in Signals, Signal(s) PROVE AgentInv' BY <1>12 DEF Signal, CloseActiveSession
<1>13. ASSUME NEW s \in Signals, SignalExits(s) PROVE AgentInv' BY <1>13 DEF SignalExits
<1>14. ASSUME NEW a \in Askers, CloseEnds(a) PROVE AgentInv' BY <1>14 DEF CloseEnds
<1>15. CASE UNCHANGED agentVars BY <1>15 DEF agentVars
<1> QED BY <1>1, <1>2, <1>3, <1>4, <1>5, <1>6, <1>7, <1>8, <1>9, <1>10, <1>11, <1>12, <1>13, <1>14, <1>15
        DEF AgentStep

\* The agent's invariant says what a run that completed has settled.
LEMMA AgentInvSettles == AgentInv => CompletedMeansSettled
BY AgentAssumption DEF AgentInv, AgentTypeOK, ClosedIsSettled, StressClosesItself, AgentReportsResult,
   CompletedMeansSettled

----------------------------------------------------------------------------
\* The React hooks (ReactHooks)

HookTypeOK ==
  /\ mounted \in BOOLEAN /\ closeAsked \subseteq Opens
  /\ session \in Opens \cup {Nothing} /\ sessionRef \in Opens \cup {Nothing}

HookInv == HookTypeOK /\ OpenIsClosedOnUnmount

\* A hook starts idle and holds nothing.
LEMMA HookInitInv == HookInit => HookInv
BY DEF HookInit, HookInv, HookTypeOK, OpenIsClosedOnUnmount

\* Calls, answers and the unmount keep the session that is shown as open the one held,
\* in whatever order they come.
LEMMA HookStepInv == HookInv /\ [HookStep]_hookVars => HookInv'
<1> SUFFICES ASSUME HookInv, [HookStep]_hookVars PROVE HookInv' OBVIOUS
<1> USE HookAssumption DEF HookInv, HookTypeOK, OpenIsClosedOnUnmount, Shows
<1>1. ASSUME NEW o \in Opens, Open(o) PROVE HookInv' BY <1>1 DEF Open
<1>2. ASSUME NEW o \in Opens, OpenCallAnswers(o) PROVE HookInv' BY <1>2 DEF OpenCallAnswers
<1>3. ASSUME NEW o \in Opens, OpenCallFails(o) PROVE HookInv' BY <1>3 DEF OpenCallFails
<1>4. ASSUME NEW c \in CloseCalls, Close(c) PROVE HookInv' BY <1>4 DEF Close
<1>5. ASSUME NEW c \in CloseCalls, CloseCallAnswers(c) PROVE HookInv' BY <1>5 DEF CloseCallAnswers
<1>6. ASSUME NEW c \in CloseCalls, CloseCallFails(c) PROVE HookInv' BY <1>6 DEF CloseCallFails
<1>7. ASSUME NEW p \in PayCalls, Pay(p) \/ PayAnswers(p) PROVE HookInv'
  BY <1>7 DEF Pay, PayAnswers, sessionHook
<1>8. CASE ComponentUnmounts BY <1>8 DEF ComponentUnmounts
<1>9. CASE UNCHANGED hookVars BY <1>9 DEF hookVars
<1> QED BY <1>1, <1>2, <1>3, <1>4, <1>5, <1>6, <1>7, <1>8, <1>9 DEF HookStep

----------------------------------------------------------------------------
\* The sessions and the shutdown of the MCP server (McpServer)

HandleType ==
  [st : {"new", "reading", "opening", "open", "closed", "refused"},
   on : Channels, bare : BOOLEAN, deposit : Deposits \cup {Absent}]

\* A call of open_session with its arguments is one.
LEMMA AskedIsHandle ==
  ASSUME NEW r \in HandleType, NEW st \in {"reading", "opening"}, NEW bare \in BOOLEAN, NEW deposit \in Deposits
  PROVE  [r EXCEPT !.st = st, !.bare = bare, !.deposit = deposit] \in HandleType
BY DEF HandleType

ServerTypeOK ==
  /\ handle \in [Handles -> HandleType]
  /\ closing \in [Handles -> {"no", "pending", "closed", "error", "timeout"}]
  /\ exit \in {"running", "closing", "0", "1"}

\* What the shutdown counts as closed is settled, and a code 0 leaves nothing else.
ShutdownCounts ==
  /\ \A h \in Handles : closing[h] = "closed" => handle[h].st = "closed"
  /\ exit = "0" => \A h \in Handles : closing[h] \in {"no", "closed"}

ServerInv == ServerTypeOK /\ ShutdownCounts

\* No session is open and no shutdown has begun when the server starts.
LEMMA ServerInitInv == Init => ServerInv
BY DEF Init, ServerInv, ServerTypeOK, HandleType, ShutdownCounts

\* Every tool call, every close() that settles or fails, the shutdown and its timeout
\* keep the count of what is closed.
LEMMA ServerStepInv == ServerInv /\ [Next]_vars => ServerInv'
<1> SUFFICES ASSUME ServerInv, [Next]_vars PROVE ServerInv' OBVIOUS
<1> USE DEF ServerInv, ServerTypeOK, ShutdownCounts
<1> DEFINE SameServer == UNCHANGED <<handle, closing, exit>>
<1>1. SameServer => ServerInv' OBVIOUS
<1>2. CASE CacheStep /\ UNCHANGED <<tools, serverVars>> BY <1>1, <1>2 DEF serverVars
<1>3. ASSUME NEW c \in Callers, CallElsewhere(c) PROVE ServerInv' BY <1>1, <1>3 DEF CallElsewhere, serverVars
<1>4. ASSUME NEW p \in Payers, PayStep(p) PROVE ServerInv'
  BY <1>1, <1>4 DEF PayStep, Estimate, Proceed, Paid, ToolFails, ToolCall
<1>5. ASSUME NEW h \in Handles, HandleStep(h) PROVE ServerInv'
  <2> USE DEF OpenStep, SessionStep, Running
  <2>1. CASE AskToOpen(h)
    <3>1. PICK bare \in BOOLEAN, deposit \in Deposits :
            handle' = [handle EXCEPT ![h] =
              [handle[h] EXCEPT !.st = IF bare \/ deposit # Absent THEN "reading" ELSE "opening",
                                !.bare = bare, !.deposit = deposit]]
      BY <2>1 DEF AskToOpen
    <3>2. handle[h].st = "new" /\ UNCHANGED <<closing, exit>> BY <2>1 DEF AskToOpen
    <3>3. handle' \in [Handles -> HandleType]
      <4> DEFINE st == IF bare \/ deposit # Absent THEN "reading" ELSE "opening"
      <4>1. [handle[h] EXCEPT !.st = st, !.bare = bare, !.deposit = deposit] \in HandleType
        BY AskedIsHandle
      <4> QED BY <3>1, <4>1
    <3>4. \A g \in Handles \ {h} : handle'[g] = handle[g] BY <3>1
    <3>5. ServerTypeOK' BY <3>2, <3>3
    <3>6. closing[h] # "closed" BY <3>2
    <3>7. ShutdownCounts' BY <3>2, <3>4, <3>6
    <3> QED BY <3>5, <3>7
  <2>2. CASE ManifestRead(h) BY <2>2 DEF ManifestRead, HandleType
  <2>3. CASE OpenRefused(h) BY <2>3 DEF OpenRefused, HandleType
  <2>4. CASE Opened(h) BY <2>4 DEF Opened, HandleType
  <2>5. CASE Settles(h) BY <2>5 DEF Settles, HandleType
  <2>6. CASE ShutdownCloses(h) BY <2>6 DEF ShutdownCloses, Tracked
  <2>7. CASE ShutdownFails(h) BY <2>7 DEF ShutdownFails, Tracked
  <2> QED BY <1>5, <2>1, <2>2, <2>3, <2>4, <2>5, <2>6, <2>7 DEF HandleStep
<1>6. ASSUME NEW s \in Streamers, StreamerStep(s) PROVE ServerInv'
  BY <1>1, <1>6 DEF StreamerStep, AskToStream, Pulled, StreamStops, StreamStep
<1>7. ASSUME NEW k \in Closers, CloserStep(k) PROVE ServerInv'
  BY <1>1, <1>7 DEF CloserStep, AskToClose, CloseAnswers, CloseFails
<1>8. CASE Shutdown BY <1>8 DEF Shutdown
<1>9. CASE Exit
  <2> DEFINE ended == [h \in Handles |-> IF closing[h] = "pending" THEN "timeout" ELSE closing[h]]
  <2>1. closing' = ended /\ handle' = handle BY <1>9 DEF Exit
  <2>2. exit' = IF {"error", "timeout"} \cap {closing'[h] : h \in Handles} # {} THEN "1" ELSE "0"
    BY <1>9 DEF Exit, ExitCode
  <2>3. ASSUME exit' = "0", NEW h \in Handles PROVE closing'[h] \in {"no", "closed"}
    <3>1. closing'[h] \notin {"error", "timeout"} BY <2>2, <2>3
    <3> QED BY <2>1, <3>1
  <2> QED BY <2>1, <2>2, <2>3
<1>10. CASE UNCHANGED vars BY <1>1, <1>10 DEF vars, serverVars
<1> QED BY <1>2, <1>3, <1>4, <1>5, <1>6, <1>7, <1>8, <1>9, <1>10 DEF Next

\* The server's invariant says what an exit with code 0 has settled.
LEMMA ServerInvSettles == ServerInv => ExitZeroMeansSettled
BY DEF ServerInv, ShutdownCounts, ExitZeroMeansSettled

----------------------------------------------------------------------------
\* The manifest cache (ManifestCache)

CallType == [st : {"idle", "waiting", "returned", "rejected"}, at : Nat, ver : Nat, least : Nat]

CacheShape ==
  /\ now \in Nat /\ floor \in Nat /\ floor <= Version
  /\ site \in Seq([manifest : Manifests, since : Nat]) /\ site # <<>>
  /\ entry \in [ver : Nat, expires : Nat]
  /\ fetch \in [st : {"off", "asked", "answered"}, ver : Nat, at : Nat]
  /\ caller \in [Callers -> CallType]

\* A version that was published, and what took its place was not before t.
CurrentAt(ver, t) == ver \in 1..Version /\ (ver < Version => t <= site[ver + 1].since)

\* A fetch is within its timeout, and what it brings was published after it was asked for.
FetchIsCurrent ==
  /\ fetch.st # "off" => fetch.at <= now /\ now <= fetch.at + FetchTime
  /\ fetch.st = "answered" => floor <= fetch.ver /\ CurrentAt(fetch.ver, fetch.at)

\* What the cache keeps was current at most its lifetime and a fetch before it expires.
EntryIsCurrent ==
  entry.ver # 0 =>
    /\ floor <= entry.ver /\ entry.expires <= now + Longest
    /\ CurrentAt(entry.ver, entry.expires - Longest - FetchTime)

\* A call waits for a fetch, or has what was current at most as long before it.
CallIsCurrent(c) ==
  /\ caller[c].at <= now
  /\ Waiting(c) => fetch.st # "off" /\ caller[c].least <= floor
  /\ HasReturned(c) =>
       caller[c].least <= caller[c].ver /\ CurrentAt(caller[c].ver, caller[c].at - Longest - FetchTime)

CacheInv == CacheShape /\ FetchIsCurrent /\ EntryIsCurrent /\ \A c \in Callers : CallIsCurrent(c)

\* The longest lifetime is one, and the longest.
LEMMA LongestLifetime == Longest \in Nat /\ \A t \in Lifetimes : t <= Longest
BY CacheAssumption DEF Longest

\* An empty cache has nothing to be late about.
LEMMA CacheInitInv == CacheInit => CacheInv
<1> SUFFICES ASSUME CacheInit PROVE CacheInv OBVIOUS
<1>1. PICK m \in Manifests : site = <<[manifest |-> m, since |-> 0]>> BY DEF CacheInit
<1>2. site \in Seq([manifest : Manifests, since : Nat]) /\ Len(site) = 1 BY <1>1
<1> QED BY <1>2, LongestLifetime DEF CacheInit, CacheInv, CacheShape, FetchIsCurrent, EntryIsCurrent,
    CallIsCurrent, CallType, NoEntry, NoFetch, Version, Waiting, HasReturned

\* A call that returns or rejects has the version it saw.
LEMMA ReturnedCall ==
  ASSUME NEW call \in CallType, NEW c \in Callers, NEW ver \in Nat
  PROVE  /\ Returned(call, c, ver) \in CallType /\ Returned(call, c, ver).st \in {"returned", "rejected"}
         /\ Returned(call, c, ver).at = call.at /\ Returned(call, c, ver).least = call.least
         /\ Returned(call, c, ver).ver = ver
<1> DEFINE st == IF Accepts(c, Manifest(ver)) THEN "returned" ELSE "rejected"
<1>1. st \in {"returned", "rejected"} OBVIOUS
<1>2. Returned(call, c, ver) = [call EXCEPT !.st = st, !.ver = ver] BY DEF Returned
<1> HIDE DEF st
<1> QED BY <1>1, <1>2 DEF CallType

\* Each version was published at some time.
LEMMA SinceIsTime ==
  ASSUME NEW s \in Seq([manifest : Manifests, since : Nat]), NEW i \in 1..Len(s)
  PROVE  s[i].since \in Nat
<1> DEFINE Row == [manifest : Manifests, since : Nat]
<1>1. s[i] \in Row
  <2>1. \A r \in Seq(Row) : \A j \in 1..Len(r) : r[j] \in Row
    <3> HIDE DEF Row
    <3> QED OBVIOUS
  <2> QED BY <2>1
<1> QED BY <1>1

\* What was current at a time was not superseded before an earlier one.
LEMMA CurrentEarlier ==
  ASSUME CacheShape, NEW ver \in Nat, NEW t \in Int, NEW u \in Int, CurrentAt(ver, t), u <= t
  PROVE  CurrentAt(ver, u)
<1>1. SUFFICES ASSUME ver < Len(site) PROVE u <= site[ver + 1].since BY DEF CurrentAt, Version
<1>2. ver + 1 \in 1..Len(site) /\ site \in Seq([manifest : Manifests, since : Nat])
  BY <1>1 DEF CurrentAt, Version, CacheShape
<1>4. site[ver + 1].since \in Nat BY <1>2, SinceIsTime
<1>5. t <= site[ver + 1].since BY <1>1 DEF CurrentAt, Version
<1> QED BY <1>4, <1>5

\* Publishing takes the place of the last version, now.
LEMMA PublishSupersedes ==
  ASSUME CacheInv, Publish
  PROVE  /\ site' \in Seq([manifest : Manifests, since : Nat]) /\ site' # <<>> /\ Version' = Version + 1
         /\ \A ver \in Nat, t \in Int : CurrentAt(ver, t) /\ t <= now => CurrentAt(ver, t)'
<1>1. PICK m \in Manifests : site' = Append(site, [manifest |-> m, since |-> now]) BY DEF Publish
<1>2. now \in Nat /\ site \in Seq([manifest : Manifests, since : Nat]) BY DEF CacheInv, CacheShape
<1>3. Len(site') = Len(site) + 1 /\ site' # <<>> /\ site' \in Seq([manifest : Manifests, since : Nat]) BY <1>1, <1>2
<1>4. site'[Len(site) + 1].since = now /\ \A i \in 1..Len(site) : site'[i] = site[i] BY <1>1, <1>2
<1>5. ASSUME NEW ver \in Nat, NEW t \in Int, CurrentAt(ver, t), t <= now PROVE CurrentAt(ver, t)'
  <2>1. ver \in 1..Len(site) BY <1>5 DEF CurrentAt, Version
  <2>2. CASE ver = Len(site) BY <1>2, <1>3, <1>4, <1>5, <2>1, <2>2 DEF CurrentAt, Version
  <2>3. CASE ver < Len(site)
    <3>1. ver + 1 \in 1..Len(site) /\ t <= site[ver + 1].since BY <1>2, <1>5, <2>1, <2>3 DEF CurrentAt, Version
    <3> QED BY <1>2, <1>3, <1>4, <2>1, <3>1 DEF CurrentAt, Version
  <2> QED BY <1>2, <2>1, <2>2, <2>3
<1> QED BY <1>3, <1>5 DEF Version

\* Each step of the cache, of the provider and of the clock keeps what is known of the
\* age of the entry, of the fetch and of what the calls returned.
LEMMA CacheStepInv == CacheInv /\ [CacheNext]_cacheVars => CacheInv'
<1> SUFFICES ASSUME CacheInv, [CacheNext]_cacheVars PROVE CacheInv' OBVIOUS
<1> USE CacheAssumption, LongestLifetime
<1> USE DEF CacheInv, Version, CallType
<1>1. ASSUME NEW c \in Callers, Call(c) PROVE CacheInv'
  <2> DEFINE asked == [st |-> "waiting", at |-> now, ver |-> 0, least |-> floor]
  <2>1. UNCHANGED <<now, site, entry, floor>> BY <1>1 DEF Call
  <2>2. CASE Fresh
    <3>1. fetch' = fetch /\ caller' = [caller EXCEPT ![c] = Returned(asked, c, entry.ver)]
      BY <1>1, <2>2 DEF Call
    <3> DEFINE came == Returned(asked, c, entry.ver)
    <3>2. asked \in CallType /\ entry.ver \in Nat BY DEF CallType, CacheShape
    <3>3. /\ came \in CallType /\ came.st \in {"returned", "rejected"}
          /\ came.at = now /\ came.least = floor /\ came.ver = entry.ver
      BY <3>2, ReturnedCall
    <3> HIDE DEF came, asked
    <3>8. caller' = [caller EXCEPT ![c] = came] /\ fetch' = fetch BY <3>1 DEF came, asked
    <3>4. CacheShape' BY <2>1, <3>3, <3>8 DEF CacheShape
    <3>5. FetchIsCurrent' /\ EntryIsCurrent' BY <2>1, <3>1 DEF FetchIsCurrent, EntryIsCurrent, CurrentAt
    <3>6. CallIsCurrent(c)'
      <4>1. CurrentAt(entry.ver, entry.expires - Longest - FetchTime) /\ floor <= entry.ver /\ now < entry.expires
        BY <2>2 DEF Fresh, EntryIsCurrent
      <4>2. CurrentAt(entry.ver, now - Longest - FetchTime)
        BY <4>1, CurrentEarlier DEF CacheShape
      <4>3. caller'[c] = came BY <3>8 DEF CacheShape
      <4> QED BY <2>1, <3>3, <4>1, <4>2, <4>3 DEF CallIsCurrent, CurrentAt, CacheShape, Waiting, HasReturned
    <3>7. ASSUME NEW d \in Callers \ {c} PROVE CallIsCurrent(d)'
      <4>1. caller'[d] = caller[d] /\ CallIsCurrent(d) BY <3>8 DEF CacheShape
      <4> QED BY <2>1, <3>8, <4>1 DEF CallIsCurrent, CurrentAt, Waiting, HasReturned
    <3> QED BY <3>4, <3>5, <3>6, <3>7
  <2>3. CASE ~Fresh
    <3>1. caller' = [caller EXCEPT ![c] = asked] /\ fetch' = IF fetch.st = "off" THEN [st |-> "asked", ver |-> 0, at |-> now] ELSE fetch
      BY <1>1, <2>3 DEF Call
    <3>2. CacheShape' BY <2>1, <3>1 DEF CacheShape
    <3>3. FetchIsCurrent' BY <2>1, <3>1 DEF FetchIsCurrent, CurrentAt, CacheShape
    <3>4. EntryIsCurrent' BY <2>1 DEF EntryIsCurrent, CurrentAt
    <3>5. \A d \in Callers : CallIsCurrent(d)'
      BY <2>1, <3>1 DEF CallIsCurrent, CurrentAt, CacheShape, Waiting, HasReturned
    <3> QED BY <3>2, <3>3, <3>4, <3>5
  <2> QED BY <2>2, <2>3
<1>2. CASE Answer
  <2>1. UNCHANGED <<now, site, entry, caller, floor>> BY <1>2 DEF Answer
  <2>2. fetch.st = "asked" /\ fetch' = [fetch EXCEPT !.st = "answered", !.ver = Len(site)] BY <1>2 DEF Answer
  <2>3. Len(site) \in Nat /\ floor <= Len(site) BY DEF CacheShape
  <2>4. fetch' = [st |-> "answered", ver |-> Len(site), at |-> fetch.at] BY <2>2 DEF CacheShape
  <2>5. CacheShape' BY <2>1, <2>3, <2>4 DEF CacheShape
  <2>6. FetchIsCurrent' BY <2>1, <2>2, <2>3, <2>4 DEF FetchIsCurrent, CurrentAt, CacheShape
  <2>7. EntryIsCurrent' BY <2>1 DEF EntryIsCurrent, CurrentAt
  <2>8. \A d \in Callers : CallIsCurrent(d)'
    BY <2>1, <2>4 DEF CallIsCurrent, CurrentAt, CacheShape, Waiting, HasReturned
  <2> QED BY <2>5, <2>6, <2>7, <2>8
<1>3. CASE Arrive
  <2>1. UNCHANGED <<now, site, floor>> /\ fetch.st = "answered" /\ fetch' = NoFetch BY <1>3 DEF Arrive
  <2>2. PICK lifetime \in Lifetimes : entry' = [ver |-> fetch.ver, expires |-> now + lifetime]
    BY <1>3 DEF Arrive, EntryFor
  <2>3. caller' = [c \in Callers |-> IF Waiting(c) THEN Returned(caller[c], c, fetch.ver) ELSE caller[c]]
    BY <1>3 DEF Arrive
  <2>4. lifetime \in Nat /\ lifetime <= Longest BY <2>2
  <2>5. floor <= fetch.ver /\ CurrentAt(fetch.ver, fetch.at) /\ fetch.at <= now /\ now <= fetch.at + FetchTime
    BY <2>1 DEF FetchIsCurrent
  <2>6. ASSUME NEW t \in Int, t <= fetch.at PROVE CurrentAt(fetch.ver, t)
    <3> QED BY <2>5, <2>6, CurrentEarlier DEF CacheShape
  <2>7. ASSUME NEW c \in Callers, Waiting(c)
        PROVE  /\ caller'[c] \in CallType /\ caller'[c].st \in {"returned", "rejected"}
               /\ caller'[c].at = caller[c].at /\ caller'[c].least = caller[c].least /\ caller'[c].ver = fetch.ver
    <3> HIDE DEF CallType
    <3>1. caller'[c] = Returned(caller[c], c, fetch.ver) BY <2>3, <2>7
    <3>2. caller[c] \in CallType /\ fetch.ver \in Nat BY DEF CacheShape
    <3> QED BY <3>1, <3>2, ReturnedCall
  <2>8. \A c \in Callers : ~Waiting(c) => caller'[c] = caller[c] BY <2>3
  <2>9. CacheShape'
    <3>1. entry' \in [ver : Nat, expires : Nat] BY <2>2, <2>4 DEF CacheShape
    <3>2. \A c \in Callers : caller'[c] \in CallType
      BY <2>7, <2>8 DEF CacheShape
    <3>3. caller' \in [Callers -> CallType]
      BY <2>3, <3>2
    <3> QED BY <2>1, <3>1, <3>3 DEF CacheShape, NoFetch
  <2>10. FetchIsCurrent' BY <2>1 DEF FetchIsCurrent, NoFetch
  <2>11. EntryIsCurrent'
    <3>1. CurrentAt(fetch.ver, now + lifetime - Longest - FetchTime) BY <2>4, <2>5, <2>6 DEF CacheShape
    <3> QED BY <2>1, <2>2, <2>4, <2>5, <3>1 DEF EntryIsCurrent, CurrentAt, CacheShape
  <2>12. ASSUME NEW c \in Callers PROVE CallIsCurrent(c)'
    <3>1. CASE Waiting(c)
      <4>1. CallIsCurrent(c) OBVIOUS
      <4>2. CurrentAt(fetch.ver, caller[c].at - Longest - FetchTime) BY <2>5, <2>6, <4>1 DEF CacheShape, CallIsCurrent
      <4>3. /\ caller'[c].st \in {"returned", "rejected"} /\ caller'[c].at = caller[c].at
            /\ caller'[c].least = caller[c].least /\ caller'[c].ver = fetch.ver
        BY <2>7, <3>1
      <4>4. caller[c].at <= now /\ caller[c].least <= floor BY <3>1, <4>1 DEF CallIsCurrent
      <4>5. caller[c].least <= fetch.ver
        <5>1. caller[c].least \in Nat /\ floor \in Nat /\ fetch.ver \in Nat BY DEF CacheShape
        <5> QED BY <2>5, <4>4, <5>1
      <4> QED BY <2>1, <4>2, <4>3, <4>4, <4>5 DEF CallIsCurrent, CurrentAt, Waiting, HasReturned
    <3>2. CASE ~Waiting(c)
      BY <2>1, <2>8, <3>2 DEF CallIsCurrent, CurrentAt, Waiting, HasReturned
    <3> QED BY <3>1, <3>2
  <2> QED BY <2>9, <2>10, <2>11, <2>12
<1>4. CASE Refetch
  <2>1. UNCHANGED <<now, site, entry, caller, floor>> BY <1>4 DEF Refetch
  <2>2. fetch.st # "off" /\ fetch' = [st |-> "asked", ver |-> 0, at |-> now] BY <1>4 DEF Refetch
  <2> QED BY <2>1, <2>2 DEF CacheShape, FetchIsCurrent, EntryIsCurrent, CallIsCurrent, CurrentAt, Waiting, HasReturned
<1>5. CASE FetchFails
  <2>1. UNCHANGED <<now, site, entry, floor>> /\ fetch' = NoFetch BY <1>5 DEF FetchFails
  <2>2. caller' = [c \in Callers |-> IF Waiting(c) THEN [caller[c] EXCEPT !.st = "rejected"] ELSE caller[c]]
    BY <1>5 DEF FetchFails
  <2>3. CacheShape' BY <2>1, <2>2 DEF CacheShape, NoFetch
  <2>4. FetchIsCurrent' /\ EntryIsCurrent' BY <2>1 DEF FetchIsCurrent, EntryIsCurrent, CurrentAt, NoFetch
  <2>5. ASSUME NEW c \in Callers PROVE CallIsCurrent(c)'
    <3>1. CallIsCurrent(c) /\ caller'[c] = IF Waiting(c) THEN [caller[c] EXCEPT !.st = "rejected"] ELSE caller[c]
      BY <2>2
    <3> QED BY <2>1, <3>1 DEF CallIsCurrent, CurrentAt, CacheShape, Waiting, HasReturned
  <2> QED BY <2>3, <2>4, <2>5
<1>6. CASE Invalidate
  <2>1. UNCHANGED <<now, site, fetch, caller>> /\ entry' = NoEntry BY <1>6 DEF Invalidate
  <2>2. floor' = IF fetch.st = "off" THEN Len(site) ELSE floor BY <1>6 DEF Invalidate
  <2>3. CacheShape' BY <2>1, <2>2 DEF CacheShape, NoEntry
  <2> QED BY <2>1, <2>2, <2>3 DEF CacheShape, FetchIsCurrent, EntryIsCurrent, CallIsCurrent, CurrentAt, Waiting, HasReturned, NoEntry
<1>7. CASE EvictManifest
  <2>1. UNCHANGED <<now, site, fetch, caller, floor>> /\ entry' = NoEntry BY <1>7 DEF EvictManifest
  <2> QED BY <2>1 DEF CacheShape, FetchIsCurrent, EntryIsCurrent, CallIsCurrent, CurrentAt, Waiting, HasReturned, NoEntry
<1>8. CASE Publish
  <2>1. UNCHANGED <<now, entry, fetch, caller, floor>> BY <1>8 DEF Publish
  <2>2. CacheShape' BY <1>8, <2>1, PublishSupersedes DEF CacheShape
  <2>3. FetchIsCurrent' BY <1>8, <2>1, PublishSupersedes DEF FetchIsCurrent, CacheShape
  <2>4. EntryIsCurrent' BY <1>8, <2>1, PublishSupersedes DEF EntryIsCurrent, CacheShape
  <2>5. ASSUME NEW c \in Callers PROVE CallIsCurrent(c)'
    <3>1. CallIsCurrent(c) /\ caller[c] \in CallType /\ now \in Nat BY DEF CacheShape
    <3>2. caller[c].at \in Nat /\ caller[c].ver \in Nat BY <3>1 DEF CallType
    <3>3. caller[c].at - Longest - FetchTime \in Int /\ caller[c].at - Longest - FetchTime <= now
      BY <3>1, <3>2 DEF CallIsCurrent
    <3>4. HasReturned(c) => CurrentAt(caller[c].ver, caller[c].at - Longest - FetchTime)'
      BY <1>8, <2>1, <3>1, <3>2, <3>3, PublishSupersedes DEF CallIsCurrent, HasReturned
    <3> QED BY <2>1, <3>1, <3>4 DEF CallIsCurrent, CurrentAt, Waiting, HasReturned
  <2> QED BY <2>2, <2>3, <2>4, <2>5
<1>9. CASE Tick
  <2>1. UNCHANGED <<site, entry, fetch, caller, floor>> /\ now' = now + 1 BY <1>9 DEF Tick
  <2>2. fetch.st # "off" => now' <= fetch.at + FetchTime BY <1>9 DEF Tick
  <2>3. CacheShape' BY <2>1 DEF CacheShape
  <2>4. FetchIsCurrent' BY <2>1, <2>2 DEF FetchIsCurrent, CurrentAt, CacheShape
  <2>5. EntryIsCurrent' BY <2>1 DEF EntryIsCurrent, CurrentAt, CacheShape
  <2>6. \A c \in Callers : CallIsCurrent(c)' BY <2>1 DEF CallIsCurrent, CurrentAt, CacheShape, Waiting, HasReturned
  <2> QED BY <2>3, <2>4, <2>5, <2>6
<1>10. CASE UNCHANGED cacheVars
  BY <1>10 DEF cacheVars, CacheShape, FetchIsCurrent, EntryIsCurrent, CallIsCurrent, CurrentAt, Waiting, HasReturned
<1> QED BY <1>1, <1>2, <1>3, <1>4, <1>5, <1>6, <1>7, <1>8, <1>9, <1>10 DEF CacheNext, CacheStep

\* What the invariant says of what is returned: no older than a lifetime and a fetch, ...
LEMMA CacheInvBounds == CacheInv => StalenessBounded
<1> SUFFICES ASSUME CacheInv, NEW c \in Callers, HasReturned(c), caller[c].ver < Version
             PROVE  caller[c].at <= site[caller[c].ver + 1].since + Longest + FetchTime
  BY DEF StalenessBounded
<1>1. CurrentAt(caller[c].ver, caller[c].at - Longest - FetchTime) BY DEF CacheInv, CallIsCurrent
<1>2. caller[c].at - Longest - FetchTime <= site[caller[c].ver + 1].since BY <1>1 DEF CurrentAt
<1>3. caller[c].at \in Nat BY DEF CacheInv, CacheShape, CallType
<1>4. caller[c].ver + 1 \in 1..Len(site) /\ site \in Seq([manifest : Manifests, since : Nat])
  BY <1>1 DEF CurrentAt, Version, CacheInv, CacheShape
<1>5. site[caller[c].ver + 1].since \in Nat BY <1>4, SinceIsTime
<1> QED BY <1>2, <1>3, <1>5, LongestLifetime, CacheAssumption

\* ... nor older than an invalidation.
LEMMA CacheInvInvalidates == CacheInv => InvalidatedIsNotReturned
BY DEF CacheInv, CacheShape, CallType, CallIsCurrent, InvalidatedIsNotReturned

\* No call has returned a version after ver.
ReturnedUpTo(ver) == \A c \in Callers : HasReturned(c) => caller[c].ver <= ver

\* The entry and the fetch are not behind what was returned, nor the fetch behind the entry.
InOrder ==
  /\ ReturnedUpTo(Version) /\ (entry.ver # 0 => ReturnedUpTo(entry.ver))
  /\ fetch.st = "answered" => ReturnedUpTo(fetch.ver) /\ entry.ver <= fetch.ver

\* What returns in a step has the version of the entry or of the fetch, which is not
\* behind what had returned before.
LEMMA ReturnsInOrder ==
  ASSUME CacheInv, InOrder, [CacheNext]_cacheVars, NEW c \in Callers, HasReturned(c)', ~HasReturned(c)
  PROVE  \/ Fresh /\ caller'[c].ver = entry.ver /\ UNCHANGED <<site, entry, fetch>>
         \/ fetch.st = "answered" /\ caller'[c].ver = fetch.ver /\ Arrive
<1> USE DEF CacheInv, CacheShape
<1>1. ASSUME NEW d \in Callers, Call(d)
      PROVE  Fresh /\ caller'[c].ver = entry.ver /\ UNCHANGED <<site, entry, fetch>>
  <2> DEFINE asked == [st |-> "waiting", at |-> now, ver |-> 0, least |-> floor]
  <2>1. asked \in CallType BY DEF CallType
  <2>2. Fresh /\ c = d BY <1>1, <2>1 DEF Call, HasReturned, CallType
  <2>3. caller'[c] = Returned(asked, c, entry.ver) /\ UNCHANGED <<site, entry, fetch>> BY <1>1, <2>2 DEF Call
  <2>4. entry.ver \in Nat OBVIOUS
  <2> HIDE DEF asked
  <2> QED BY <2>1, <2>2, <2>3, <2>4, ReturnedCall
<1>2. CASE Arrive
  <2>1. caller'[c] = IF Waiting(c) THEN Returned(caller[c], c, fetch.ver) ELSE caller[c] BY <1>2 DEF Arrive
  <2>2. caller[c] \in CallType /\ fetch.ver \in Nat OBVIOUS
  <2>3. caller'[c] = Returned(caller[c], c, fetch.ver) BY <2>1 DEF HasReturned
  <2>4. caller'[c].ver = fetch.ver
    <3> HIDE DEF CacheInv, CacheShape
    <3> QED BY <2>2, <2>3, ReturnedCall
  <2>5. fetch.st = "answered" BY <1>2 DEF Arrive
  <2> QED BY <1>2, <2>4, <2>5
<1>3. CASE FetchFails BY <1>3 DEF FetchFails, HasReturned, CallType
<1>4. CASE Answer \/ Refetch \/ Invalidate \/ EvictManifest \/ Publish \/ Tick \/ UNCHANGED cacheVars
  BY <1>4 DEF Answer, Refetch, Invalidate, EvictManifest, Publish, Tick, cacheVars, HasReturned
<1> QED BY <1>1, <1>2, <1>3, <1>4 DEF CacheNext, CacheStep

\* A call that had returned keeps its version.
LEMMA ReturnedStays ==
  ASSUME CacheInv, [CacheNext]_cacheVars, NEW c \in Callers, HasReturned(c)
  PROVE  caller'[c] = caller[c]
<1> USE DEF CacheInv, CacheShape, HasReturned
<1>1. ASSUME NEW d \in Callers, Call(d) PROVE caller'[c] = caller[c]
  BY <1>1 DEF Call
<1>2. CASE Arrive \/ FetchFails BY <1>2 DEF Arrive, FetchFails, Waiting
<1>3. CASE Answer \/ Refetch \/ Invalidate \/ EvictManifest \/ Publish \/ Tick \/ UNCHANGED cacheVars
  BY <1>3 DEF Answer, Refetch, Invalidate, EvictManifest, Publish, Tick, cacheVars
<1> QED BY <1>1, <1>2, <1>3 DEF CacheNext, CacheStep

\* A call that returned by now has its version from before, or one that is not behind any.
LEMMA ReturnedStaysUpTo ==
  ASSUME CacheInv, InOrder, [CacheNext]_cacheVars, NEW ver \in Nat, ReturnedUpTo(ver),
         Fresh /\ UNCHANGED <<site, entry, fetch>> => entry.ver <= ver,
         Arrive => fetch.ver <= ver
  PROVE  \A c \in Callers : HasReturned(c)' => caller'[c].ver <= ver
<1> SUFFICES ASSUME NEW c \in Callers, HasReturned(c)' PROVE caller'[c].ver <= ver OBVIOUS
<1>1. CASE HasReturned(c) BY <1>1, ReturnedStays DEF ReturnedUpTo
<1>2. CASE ~HasReturned(c) BY <1>2, ReturnsInOrder
<1> QED BY <1>1, <1>2

\* The order is kept, and so nothing older is returned: only what the one fetch
\* brings enters the cache, and it is asked for after what is there came in.
LEMMA StepInOrder ==
  ASSUME CacheInv, CacheInv', InOrder, [CacheNext]_cacheVars
  PROVE  InOrder' /\ [NoneOlder]_cacheVars
<1>1. /\ entry.ver \in Nat /\ fetch.ver \in Nat /\ Version \in Nat /\ now \in Nat
      /\ entry.ver <= Version /\ (fetch.st = "answered" => fetch.ver <= Version)
  BY DEF CacheInv, CacheShape, EntryIsCurrent, FetchIsCurrent, CurrentAt, Version
<1>2. NoneOlder
  <2>1. SUFFICES ASSUME NEW c \in Callers, NEW d \in Callers, HasReturned(c), HasReturned(d)', ~HasReturned(d)
                 PROVE  caller[c].ver <= caller'[d].ver
    BY DEF NoneOlder
  <2> QED BY <2>1, ReturnsInOrder DEF InOrder, ReturnedUpTo, Fresh
<1>3. Version' \in Nat /\ Version <= Version'
  <2>1. CASE Publish
    <3>1. PICK row : site' = Append(site, row) BY <2>1 DEF Publish
    <3> QED BY <3>1 DEF Version, CacheInv, CacheShape
  <2>2. CASE UNCHANGED site BY <1>1, <2>2 DEF Version
  <2>3. Publish \/ UNCHANGED site
    BY DEF CacheNext, CacheStep, Call, Answer, Arrive, Refetch, FetchFails, Invalidate, EvictManifest, Tick, cacheVars
  <2> QED BY <2>1, <2>2, <2>3
<1>4. ReturnedUpTo(Version)'
  <2>1. ReturnedUpTo(Version')
    <3>1. SUFFICES ASSUME NEW c \in Callers, HasReturned(c) PROVE caller[c].ver <= Version' BY DEF ReturnedUpTo
    <3>2. caller[c].ver \in Nat BY DEF CacheInv, CacheShape, CallType
    <3>3. caller[c].ver <= Version BY <3>1 DEF InOrder, ReturnedUpTo
    <3> HIDE DEF Version
    <3> QED BY <1>1, <1>3, <3>2, <3>3
  <2>2. Arrive => fetch.ver <= Version' BY <1>1, <1>3 DEF Arrive
  <2>3. entry.ver <= Version' BY <1>1, <1>3
  <2> HIDE DEF Version
  <2> QED BY <1>3, <2>1, <2>2, <2>3, ReturnedStaysUpTo DEF ReturnedUpTo
<1>5. ASSUME entry'.ver # 0 PROVE ReturnedUpTo(entry.ver)'
  <2>1. CASE Arrive
    <3>1. PICK lifetime \in Lifetimes : entry' = EntryFor(fetch.ver, lifetime) BY <2>1 DEF Arrive
    <3>2. entry'.ver = fetch.ver /\ ReturnedUpTo(fetch.ver) /\ entry.ver <= fetch.ver
      BY <2>1, <3>1 DEF EntryFor, Arrive, InOrder
    <3> QED BY <1>1, <3>2, ReturnedStaysUpTo DEF ReturnedUpTo
  <2>2. CASE ~Arrive /\ UNCHANGED entry
    <3>1. ReturnedUpTo(entry.ver) /\ entry'.ver = entry.ver BY <1>5, <2>2 DEF InOrder
    <3> QED BY <1>1, <2>2, <3>1, ReturnedStaysUpTo DEF ReturnedUpTo
  <2>3. CASE entry' = NoEntry BY <1>5, <2>3 DEF NoEntry
  <2>4. Arrive \/ UNCHANGED entry \/ entry' = NoEntry
    BY DEF CacheNext, CacheStep, Call, Answer, Refetch, FetchFails, Invalidate, EvictManifest, Publish, Tick, cacheVars
  <2> QED BY <2>1, <2>2, <2>3, <2>4
<1>6. ASSUME fetch'.st = "answered" PROVE ReturnedUpTo(fetch.ver)' /\ entry'.ver <= fetch'.ver
  <2>1. CASE Answer
    <3>1. fetch'.ver = Version /\ UNCHANGED <<entry, caller>> BY <2>1 DEF Answer, CacheInv, CacheShape
    <3> QED BY <1>1, <3>1 DEF InOrder, ReturnedUpTo, HasReturned
  <2>2. CASE ~Arrive /\ UNCHANGED fetch /\ entry' \in {entry, NoEntry}
    <3>1. ReturnedUpTo(fetch.ver) /\ entry.ver <= fetch.ver /\ fetch'.ver = fetch.ver /\ entry'.ver <= fetch'.ver
      BY <1>1, <1>6, <2>2 DEF InOrder, NoEntry
    <3> QED BY <1>1, <2>2, <3>1, ReturnedStaysUpTo DEF ReturnedUpTo
  <2>3. CASE fetch' = NoFetch BY <1>6, <2>3 DEF NoFetch
  <2>4. CASE fetch' = [st |-> "asked", ver |-> 0, at |-> now] BY <1>6, <2>4
  <2>5. ASSUME NEW c \in Callers, Call(c)
        PROVE  \/ fetch' = [st |-> "asked", ver |-> 0, at |-> now]
               \/ UNCHANGED fetch /\ entry' \in {entry, NoEntry}
    BY <2>5 DEF Call
  <2>6. CASE Arrive \/ FetchFails BY <2>3, <2>6 DEF Arrive, FetchFails
  <2>7. CASE Invalidate \/ EvictManifest \/ Publish \/ Tick \/ UNCHANGED cacheVars
    <3>1. UNCHANGED fetch /\ entry' \in {entry, NoEntry}
      BY <2>7 DEF Invalidate, EvictManifest, Publish, Tick, cacheVars
    <3> QED BY <2>2, <2>6, <3>1
  <2> QED BY <2>1, <2>2, <2>4, <2>5, <2>6, <2>7 DEF CacheNext, CacheStep, Refetch
<1> QED BY <1>2, <1>4, <1>5, <1>6 DEF InOrder

\* What the MCP server does is a step of the cache or leaves it alone.
LEMMA ServerUsesCache == [Next]_vars => [CacheNext]_cacheVars
<1> SUFFICES ASSUME [Next]_vars PROVE [CacheNext]_cacheVars OBVIOUS
<1> USE ServerAssumption DEF CacheNext
<1>1. ASSUME NEW p \in Payers, PayStep(p) PROVE [CacheNext]_cacheVars
  BY <1>1 DEF PayStep, Estimate, Proceed, Paid, ToolFails
<1>2. ASSUME NEW h \in Handles, HandleStep(h) PROVE UNCHANGED cacheVars
  BY <1>2 DEF HandleStep, AskToOpen, ManifestRead, OpenRefused, Opened, Settles, ShutdownCloses, ShutdownFails,
     Tracked, OpenStep, SessionStep
<1>3. ASSUME NEW s \in Streamers, StreamerStep(s) PROVE UNCHANGED cacheVars
  BY <1>3 DEF StreamerStep, AskToStream, Pulled, StreamStops, StreamStep, SessionStep
<1>4. ASSUME NEW k \in Closers, CloserStep(k) PROVE UNCHANGED cacheVars
  BY <1>4 DEF CloserStep, AskToClose, CloseAnswers, CloseFails, SessionStep
<1>5. ASSUME NEW c \in Callers, CallElsewhere(c) PROVE CacheNext BY <1>5 DEF CallElsewhere
<1>6. CASE Shutdown \/ Exit BY <1>6 DEF Shutdown, Exit, SessionStep
<1>7. CASE CacheStep BY <1>7
<1>8. CASE UNCHANGED vars BY <1>8 DEF vars, cacheVars
<1> QED BY <1>1, <1>2, <1>3, <1>4, <1>5, <1>6, <1>7, <1>8 DEF Next

----------------------------------------------------------------------------
\* The Nulth vault (NulthVault)

PaymentType ==
  [st : {"new", "ledger", "prepare", "probe", "payload", "sign", "simulate", "sent", "failed"},
   payee : VaultPayees \cup {NoPayee}, price : Nat, asked : Nat, ledger : Ledgers]
ContextType == [payee : VaultPayees \cup {NoPayee}, amount : Nat, ledger : Ledgers]
PolicyType == [day : VaultDays, spend : Nat]
ProofType == [payee : VaultPayees \cup {NoPayee}, amount : Nat, day : VaultDays]

VaultTypeOK ==
  /\ custody \in {"client", "signer"} /\ network \in {"testnet", "mainnet"} /\ latest \in Ledgers
  /\ payment \in [VaultPayments -> PaymentType]
  /\ context \in [VaultPayments -> ContextType]
  /\ policy \in [VaultPayments -> PolicyType]
  /\ proof \in [VaultPayments -> ProofType]
  /\ provenOn \in [VaultPayments -> [VaultDays -> Nat]]
  /\ inOrder \in [VaultPayments -> BOOLEAN]

\* Nothing is proven for a payment before it is signed, and none is under way on mainnet.
SignedOnce(p) ==
  /\ payment[p].st \notin {"simulate", "sent", "failed"} => proof[p] = NoProof
  /\ payment[p].st \notin {"new", "failed"} => network = "testnet"

\* A signer that pay() makes has proven nothing when it starts on its policy.
SignerIsNew(p) ==
  custody = "client" /\ payment[p].st \in {"new", "ledger", "prepare"} => \A d \in VaultDays : provenOn[p][d] = 0

\* The policy counts what was proven for its day; nothing is proven for a later one.
PolicyCounts(s) ==
  inOrder[s] => /\ provenOn[s][policy[s].day] = policy[s].spend
                /\ \A d \in VaultDays : d > policy[s].day => provenOn[s][d] = 0

VaultInv ==
  /\ VaultTypeOK /\ ProvenWithinPolicy
  /\ \A p \in VaultPayments : SignedOnce(p) /\ SignerIsNew(p) /\ PolicyCounts(p)

\* A ledger's day is one of the days.
LEMMA DayOfLedger == \A l \in Ledgers : DayBucket(l) \in VaultDays
BY VaultAssumption DEF Ledgers, DayBucket, VaultDays

\* No payment has begun, and nothing is proven.
LEMMA VaultInitInv == VaultInit => VaultInv
<1> SUFFICES ASSUME VaultInit PROVE VaultInv OBVIOUS
<1> USE VaultAssumption
<1>1. 0 \in Ledgers /\ DayBucket(0) \in VaultDays /\ 0 \in VaultDays
  BY DayOfLedger DEF Ledgers, VaultDays, DayBucket
<1>2. VaultTypeOK
  BY <1>1 DEF VaultInit, VaultTypeOK, PaymentType, ContextType, PolicyType, ProofType, NoPayment, NoContext,
     FreshPolicy, NoProof
<1>3. ProvenWithinPolicy BY DEF VaultInit, ProvenWithinPolicy, ProofNamesItsTransfer, DayWithinCap
<1>4. \A p \in VaultPayments : SignedOnce(p) /\ SignerIsNew(p) /\ PolicyCounts(p)
  BY <1>1 DEF VaultInit, SignedOnce, SignerIsNew, PolicyCounts, NoPayment, FreshPolicy
<1> QED BY <1>2, <1>3, <1>4 DEF VaultInv

\* Whose signer it is, it is one.
LEMMA SignerIsOne == \A p \in VaultPayments : SignerOf(p) \in VaultPayments
BY VaultAssumption DEF SignerOf

\* A payment that goes on or fails without a signature keeps the invariant: only a
\* signature proves, and only while the network is testnet.
LEMMA UnsignedStepInv ==
  ASSUME VaultInv, NEW p \in VaultPayments, NEW became \in PaymentType, Becomes(p, became),
         UNCHANGED <<policy, proof, provenOn, inOrder>>, context' \in [VaultPayments -> ContextType],
         proof[p] = NoProof \/ (became.payee = payment[p].payee /\ became.asked = payment[p].asked),
         became.st \notin {"simulate", "sent", "failed"} => proof[p] = NoProof,
         became.st \notin {"new", "failed"} => network = "testnet",
         became.st \in {"new", "ledger", "prepare"} => payment[p].st \in {"new", "ledger", "prepare"}
  PROVE  VaultInv'
<1>1. payment' = [payment EXCEPT ![p] = became] /\ UNCHANGED <<custody, network, latest>> BY DEF Becomes
<1>2. VaultTypeOK' BY <1>1 DEF VaultInv, VaultTypeOK
<1>3. payment'[p] = became /\ \A q \in VaultPayments \ {p} : payment'[q] = payment[q]
  BY <1>1 DEF VaultInv, VaultTypeOK
<1>4. ASSUME NEW q \in VaultPayments PROVE (ProofNamesItsTransfer(q) /\ DayWithinCap(q))'
  <2>1. ProofNamesItsTransfer(q) /\ DayWithinCap(q) BY DEF VaultInv, ProvenWithinPolicy
  <2>2. DayWithinCap(q)' BY <2>1 DEF DayWithinCap
  <2>3. ProofNamesItsTransfer(q)' BY <1>1, <1>3, <2>1 DEF ProofNamesItsTransfer, NoProof
  <2> QED BY <2>2, <2>3
<1>5. ASSUME NEW q \in VaultPayments PROVE (SignedOnce(q) /\ SignerIsNew(q) /\ PolicyCounts(q))'
  <2>1. SignedOnce(q) /\ SignerIsNew(q) /\ PolicyCounts(q) BY DEF VaultInv
  <2> QED BY <1>1, <1>3, <2>1 DEF SignedOnce, SignerIsNew, PolicyCounts, NoProof
<1> QED BY <1>2, <1>4, <1>5 DEF VaultInv, ProvenWithinPolicy

\* A payment of a manifest's price to its payee is one.
LEMMA PricedPayment ==
  ASSUME NEW payee \in VaultPayees, NEW price \in Nat
  PROVE  LET priced == [NoPayment EXCEPT !.st = "ledger", !.payee = payee, !.price = price]
         IN priced \in PaymentType /\ priced.st = "ledger"
<1>1. NoPayment \in PaymentType BY VaultAssumption DEF NoPayment, PaymentType, Ledgers
<1> QED BY <1>1 DEF PaymentType

\* A payment that fails before it is signed has proven nothing.
LEMMA FailsInv ==
  ASSUME VaultInv, NEW p \in VaultPayments, Fails(p), UNCHANGED <<context, policy, proof, provenOn, inOrder>>,
         payment[p].st \notin {"simulate", "sent", "failed"}
  PROVE  VaultInv'
<1> DEFINE became == [NoPayment EXCEPT !.st = "failed"]
<1>1. became \in PaymentType /\ became.st = "failed" BY VaultAssumption DEF NoPayment, PaymentType, Ledgers
<1>2. proof[p] = NoProof BY DEF VaultInv, SignedOnce
<1>3. context' \in [VaultPayments -> ContextType] BY DEF VaultInv, VaultTypeOK
<1>4. Becomes(p, became) BY DEF Fails
<1> HIDE DEF became
<1> QED BY <1>1, <1>2, <1>3, <1>4, UnsignedStepInv

\* A payment that goes on to another place keeps what it is for; it is sent, or fails of its
\* simulation, when it is signed.
LEMMA GoesOnInv ==
  ASSUME VaultInv, NEW p \in VaultPayments, UNCHANGED <<context, policy, proof, provenOn, inOrder>>,
         NEW became \in PaymentType, Becomes(p, became),
         (became.payee = payment[p].payee /\ became.asked = payment[p].asked) \/ proof[p] = NoProof,
         <<payment[p].st, became.st>> \in
           {<<"new", "ledger">>, <<"ledger", "prepare">>, <<"probe", "payload">>, <<"payload", "sign">>,
            <<"simulate", "sent">>, <<"simulate", "failed">>},
         payment[p].st = "new" => network = "testnet"
  PROVE  VaultInv'
<1>1. context' \in [VaultPayments -> ContextType] BY DEF VaultInv, VaultTypeOK
<1>2. became.st \notin {"simulate", "sent", "failed"} => proof[p] = NoProof BY DEF VaultInv, SignedOnce
<1>3. became.st \notin {"new", "failed"} => network = "testnet" BY DEF VaultInv, SignedOnce
<1>4. became.st \in {"new", "ledger", "prepare"} => payment[p].st \in {"new", "ledger", "prepare"} OBVIOUS
<1> QED BY <1>1, <1>2, <1>3, <1>4, UnsignedStepInv

\* Preparing gives a signer of pay() the policy of its day, of which it has proven nothing.
LEMMA PrepareSignerInv == ASSUME VaultInv, NEW p \in VaultPayments, PrepareSigner(p) PROVE VaultInv'
<1> DEFINE became == [payment[p] EXCEPT !.st = "probe"]
<1>1. /\ payment[p] \in PaymentType /\ payment[p].st = "prepare" /\ SignedOnce(p) /\ SignerIsNew(p)
      /\ context \in [VaultPayments -> ContextType] /\ policy \in [VaultPayments -> PolicyType]
  BY DEF VaultInv, VaultTypeOK, PrepareSigner
<1>2. became \in PaymentType /\ became.st = "probe" /\ became.payee = payment[p].payee /\ became.asked = payment[p].asked
  BY <1>1 DEF PaymentType
<1>3. proof[p] = NoProof /\ network = "testnet" BY <1>1 DEF SignedOnce
<1>4. ContextFromManifest(p) \in ContextType BY <1>1 DEF ContextFromManifest, PaymentType, ContextType
<1>5. context' \in [VaultPayments -> ContextType] BY <1>1, <1>4 DEF PrepareSigner
<1>6. Becomes(p, became) /\ UNCHANGED <<proof, provenOn, inOrder>> BY DEF PrepareSigner, GetsTo
<1> HIDE DEF became
<1>7. CASE custody # "client"
  <2>1. UNCHANGED policy BY <1>7 DEF PrepareSigner
  <2> QED BY <1>1, <1>2, <1>3, <1>5, <1>6, <2>1, UnsignedStepInv
<1>8. CASE custody = "client"
  <2> DEFINE fresh == [day |-> DayBucket(payment[p].ledger), spend |-> 0]
  <2>1. policy' = [policy EXCEPT ![p] = fresh] BY <1>8 DEF PrepareSigner, FreshPolicy
  <2>2. fresh \in PolicyType /\ fresh.spend = 0 /\ fresh.day \in VaultDays
    BY <1>1, DayOfLedger DEF PaymentType, PolicyType
  <2> HIDE DEF fresh
  <2>3. \A d \in VaultDays : provenOn[p][d] = 0 BY <1>1, <1>8 DEF SignerIsNew
  <2>4. payment' = [payment EXCEPT ![p] = became] /\ UNCHANGED <<custody, network, latest>> BY <1>6 DEF Becomes
  <2>5. VaultTypeOK' BY <1>1, <1>2, <1>5, <1>6, <2>1, <2>2, <2>4 DEF VaultInv, VaultTypeOK
  <2>6. /\ payment'[p] = became /\ \A q \in VaultPayments \ {p} : payment'[q] = payment[q]
        /\ policy'[p] = fresh /\ \A q \in VaultPayments \ {p} : policy'[q] = policy[q]
    BY <1>1, <2>1, <2>4 DEF VaultInv, VaultTypeOK
  <2>7. ASSUME NEW q \in VaultPayments
        PROVE (ProofNamesItsTransfer(q) /\ DayWithinCap(q) /\ SignedOnce(q) /\ SignerIsNew(q) /\ PolicyCounts(q))'
    <3>1. ProofNamesItsTransfer(q) /\ DayWithinCap(q) /\ SignedOnce(q) /\ SignerIsNew(q) /\ PolicyCounts(q)
      BY DEF VaultInv, ProvenWithinPolicy
    <3>2. DayWithinCap(q)' BY <1>6, <3>1 DEF DayWithinCap
    <3>3. ProofNamesItsTransfer(q)' BY <1>3, <1>6, <2>4, <2>6, <3>1 DEF ProofNamesItsTransfer, NoProof
    <3>4. SignedOnce(q)' BY <1>2, <1>3, <1>6, <2>4, <2>6, <3>1 DEF SignedOnce, NoProof
    <3>5. SignerIsNew(q)' BY <1>2, <1>6, <2>4, <2>6, <3>1 DEF SignerIsNew
    <3>6. PolicyCounts(q)' BY <1>6, <2>2, <2>3, <2>6, <3>1 DEF PolicyCounts
    <3> QED BY <3>2, <3>3, <3>4, <3>5, <3>6
  <2> QED BY <2>5, <2>7 DEF VaultInv, ProvenWithinPolicy
<1> QED BY <1>7, <1>8

\* A signature is for the transfer of its own payment, and adds it to its day.
LEMMA SignTransferInv == ASSUME VaultInv, NEW p \in VaultPayments, SignTransfer(p) PROVE VaultInv'
<1>0. PICK s \in VaultPayments : s = SignerOf(p) BY SignerIsOne
<1> DEFINE ctx == context[s]
           day == DayBucket(ctx.ledger)
           became == [payment[p] EXCEPT !.st = "simulate"]
<1>2. /\ payment[p] \in PaymentType /\ payment[p].st = "sign" /\ SignedOnce(p) /\ ctx \in ContextType
      /\ policy[s] \in PolicyType /\ provenOn[s] \in [VaultDays -> Nat] /\ inOrder[s] \in BOOLEAN
  BY DEF VaultInv, VaultTypeOK, SignTransfer
<1>3. UNCHANGED context BY DEF SignTransfer
<1>4. CASE ~Authorises(s, p)
  <2>1. Fails(p) /\ UNCHANGED <<policy, proof, provenOn, inOrder>> BY <1>0, <1>4 DEF SignTransfer
  <2> QED BY <1>2, <1>3, <2>1, FailsInv
<1>5. CASE Authorises(s, p)
  <2>1. GetsTo(p, "simulate") /\ Prove(p, s, ctx) BY <1>0, <1>5 DEF SignTransfer
  <2>2. /\ payment[p].payee = ctx.payee /\ payment[p].asked = ctx.amount /\ ctx.payee \in VaultAllowed
        /\ SpendOn(s, day) + ctx.amount <= VaultCap
    BY <1>5 DEF Authorises, AuthEntryMatches, WithinPolicy
  <2>3. /\ became \in PaymentType /\ became.st = "simulate"
        /\ became.payee = payment[p].payee /\ became.asked = payment[p].asked
    BY <1>2 DEF PaymentType
  <2>4. proof[p] = NoProof /\ network = "testnet" BY <1>2 DEF SignedOnce
  <2>5. day \in VaultDays /\ ctx.amount \in Nat /\ policy[s].day \in VaultDays /\ policy[s].spend \in Nat
    BY <1>2, DayOfLedger DEF ContextType, PolicyType
  <2>6. SpendOn(s, day) \in Nat BY <2>5 DEF SpendOn
  <2> DEFINE spent == [day |-> day, spend |-> SpendOn(s, day) + ctx.amount]
             proven == [payee |-> ctx.payee, amount |-> ctx.amount, day |-> day]
  <2>7. spent \in PolicyType /\ spent.day = day /\ spent.spend = SpendOn(s, day) + ctx.amount
    BY <2>5, <2>6 DEF PolicyType
  <2>8. proven \in ProofType /\ proven.payee = ctx.payee /\ proven.amount = ctx.amount
    BY <1>2, <2>5 DEF ProofType, ContextType
  <2>9. /\ payment' = [payment EXCEPT ![p] = became] /\ UNCHANGED <<custody, network, latest>>
        /\ policy' = [policy EXCEPT ![s] = spent] /\ proof' = [proof EXCEPT ![p] = proven]
        /\ provenOn' = [provenOn EXCEPT ![s][day] = @ + ctx.amount]
        /\ inOrder' = [inOrder EXCEPT ![s] = @ /\ policy[s].day <= day]
    BY <2>1 DEF GetsTo, Becomes, Prove, PublicInputs
  <2> HIDE DEF ctx, day, became, spent, proven
  <2>10. VaultTypeOK'
    BY <1>2, <1>3, <2>3, <2>5, <2>7, <2>8, <2>9 DEF VaultInv, VaultTypeOK
  <2>11. /\ payment'[p] = became /\ proof'[p] = proven
         /\ \A q \in VaultPayments \ {p} : payment'[q] = payment[q] /\ proof'[q] = proof[q]
    BY <2>9 DEF VaultInv, VaultTypeOK
  <2>12. /\ policy'[s] = spent /\ provenOn'[s] = [provenOn[s] EXCEPT ![day] = @ + ctx.amount]
         /\ inOrder'[s] = (inOrder[s] /\ policy[s].day <= day)
         /\ \A q \in VaultPayments \ {s} :
              policy'[q] = policy[q] /\ provenOn'[q] = provenOn[q] /\ inOrder'[q] = inOrder[q]
    BY <1>2, <2>5, <2>9 DEF VaultInv, VaultTypeOK
  <2>13. DayWithinCap(s)' /\ PolicyCounts(s)'
    <3>1. DayWithinCap(s) /\ PolicyCounts(s) BY DEF VaultInv, ProvenWithinPolicy
    <3>2. SUFFICES ASSUME inOrder'[s]
                   PROVE  /\ \A d \in VaultDays : provenOn'[s][d] <= VaultCap
                          /\ provenOn'[s][policy'[s].day] = policy'[s].spend
                          /\ \A d \in VaultDays : d > policy'[s].day => provenOn'[s][d] = 0
      BY DEF DayWithinCap, PolicyCounts
    <3>3. inOrder[s] /\ policy[s].day <= day BY <2>12, <3>2
    <3>4. provenOn[s][day] = SpendOn(s, day)
      BY <2>5, <3>1, <3>3 DEF PolicyCounts, SpendOn, VaultDays
    <3>5. \A d \in VaultDays : provenOn'[s][d] = IF d = day THEN provenOn[s][d] + ctx.amount ELSE provenOn[s][d]
      BY <1>2, <2>5, <2>12
    <3>6. \A d \in VaultDays : provenOn'[s][d] <= VaultCap BY <2>2, <3>1, <3>3, <3>4, <3>5 DEF DayWithinCap
    <3>7. provenOn'[s][policy'[s].day] = policy'[s].spend BY <2>5, <2>7, <2>12, <3>4, <3>5
    <3>8. \A d \in VaultDays : d > policy'[s].day => provenOn'[s][d] = 0
      BY <2>5, <2>7, <2>12, <3>1, <3>3, <3>5 DEF PolicyCounts, VaultDays
    <3> QED BY <3>6, <3>7, <3>8
  <2>14. ASSUME NEW q \in VaultPayments
         PROVE (ProofNamesItsTransfer(q) /\ DayWithinCap(q) /\ SignedOnce(q) /\ SignerIsNew(q) /\ PolicyCounts(q))'
    <3>1. ProofNamesItsTransfer(q) /\ DayWithinCap(q) /\ SignedOnce(q) /\ SignerIsNew(q) /\ PolicyCounts(q)
      BY DEF VaultInv, ProvenWithinPolicy
    <3>2. DayWithinCap(q)' /\ PolicyCounts(q)'
      BY <2>12, <2>13, <3>1 DEF DayWithinCap, PolicyCounts
    <3>3. ProofNamesItsTransfer(q)'
      BY <2>2, <2>3, <2>4, <2>8, <2>9, <2>11, <3>1 DEF ProofNamesItsTransfer
    <3>4. SignedOnce(q)' BY <2>3, <2>4, <2>9, <2>11, <3>1 DEF SignedOnce
    <3>5. SignerIsNew(q)'
      <4>1. custody = "client" => s = p BY <1>0 DEF SignerOf
      <4> QED BY <2>3, <2>9, <2>11, <2>12, <3>1, <4>1 DEF SignerIsNew
    <3> QED BY <3>2, <3>3, <3>4, <3>5
  <2> QED BY <2>10, <2>14 DEF VaultInv, ProvenWithinPolicy
<1> QED BY <1>4, <1>5

\* Every step of the payments from Nulth accounts keeps the invariant.
LEMMA VaultStepInv == VaultInv /\ [VaultStep]_vaultVars => VaultInv'
<1> SUFFICES ASSUME VaultInv, [VaultStep]_vaultVars PROVE VaultInv' OBVIOUS
<1>1. ASSUME NEW p \in VaultPayments, PayWithVault(p) PROVE VaultInv'
  <2>1. payment[p].st = "new" /\ UNCHANGED <<context, policy, proof, provenOn, inOrder>>
    BY <1>1 DEF PayWithVault, SignersStay
  <2>2. proof[p] = NoProof BY <2>1 DEF VaultInv, SignedOnce
  <2>3. PICK m \in VaultManifests :
          \/ Fails(p)
          \/ network = "testnet" /\ Becomes(p, [NoPayment EXCEPT !.st = "ledger", !.payee = m.payee, !.price = m.price])
    BY <1>1 DEF PayWithVault, NetworkAllowed
  <2>4. CASE Fails(p) BY <2>1, <2>4, FailsInv
  <2>5. CASE ~Fails(p)
    <3> DEFINE became == [NoPayment EXCEPT !.st = "ledger", !.payee = m.payee, !.price = m.price]
    <3>1. became \in PaymentType /\ became.st = "ledger"
      BY VaultAssumption, PricedPayment DEF VaultManifests
    <3>2. network = "testnet" /\ Becomes(p, became) BY <2>3, <2>5
    <3> HIDE DEF became
    <3> QED BY <2>1, <2>2, <3>1, <3>2, GoesOnInv
  <2> QED BY <2>4, <2>5
<1>2. ASSUME NEW p \in VaultPayments, FetchLedger(p) PROVE VaultInv'
  <2>1. payment[p].st = "ledger" /\ UNCHANGED <<context, policy, proof, provenOn, inOrder>>
    BY <1>2 DEF FetchLedger, SignersStay
  <2> DEFINE became == [payment[p] EXCEPT !.st = "prepare", !.ledger = latest]
  <2>2. /\ became \in PaymentType /\ became.st = "prepare"
        /\ became.payee = payment[p].payee /\ became.asked = payment[p].asked
    BY DEF VaultInv, VaultTypeOK, PaymentType
  <2>3. Becomes(p, became) \/ Fails(p) BY <1>2 DEF FetchLedger
  <2> HIDE DEF became
  <2> QED BY <2>1, <2>2, <2>3, FailsInv, GoesOnInv
<1>3. ASSUME NEW p \in VaultPayments, PrepareSigner(p) PROVE VaultInv' BY <1>3, PrepareSignerInv
<1>4. ASSUME NEW p \in VaultPayments, Challenge(p) PROVE VaultInv'
  <2>1. payment[p].st = "probe" /\ UNCHANGED <<context, policy, proof, provenOn, inOrder>>
    BY <1>4 DEF Challenge, SignersStay
  <2>2. proof[p] = NoProof BY <2>1 DEF VaultInv, SignedOnce
  <2>3. CASE Fails(p) BY <2>1, <2>3, FailsInv
  <2>4. CASE ~Fails(p)
    <3>1. PICK asked \in 1..payment[p].price : Becomes(p, [payment[p] EXCEPT !.st = "payload", !.asked = asked])
      BY <1>4, <2>4 DEF Challenge
    <3> DEFINE became == [payment[p] EXCEPT !.st = "payload", !.asked = asked]
    <3>2. became \in PaymentType /\ became.st = "payload"
      <4>1. payment[p] \in PaymentType BY DEF VaultInv, VaultTypeOK
      <4>2. asked \in Nat BY <4>1 DEF PaymentType
      <4> QED BY <4>1, <4>2 DEF PaymentType
    <3>3. Becomes(p, became) BY <3>1
    <3> HIDE DEF became
    <3> QED BY <2>1, <2>2, <3>2, <3>3, GoesOnInv
  <2> QED BY <2>3, <2>4
<1>5. ASSUME NEW p \in VaultPayments, CreatePaymentPayload(p) PROVE VaultInv'
  <2>1. payment[p].st = "payload" /\ UNCHANGED <<context, policy, proof, provenOn, inOrder>>
    BY <1>5 DEF CreatePaymentPayload, SignersStay
  <2> DEFINE became == [payment[p] EXCEPT !.st = "sign"]
  <2>2. /\ became \in PaymentType /\ became.st = "sign"
        /\ became.payee = payment[p].payee /\ became.asked = payment[p].asked
    BY DEF VaultInv, VaultTypeOK, PaymentType
  <2>3. Becomes(p, became) \/ Fails(p) BY <1>5 DEF CreatePaymentPayload, GetsTo
  <2> HIDE DEF became
  <2> QED BY <2>1, <2>2, <2>3, FailsInv, GoesOnInv
<1>6. ASSUME NEW p \in VaultPayments, SignTransfer(p) PROVE VaultInv' BY <1>6, SignTransferInv
<1>7. ASSUME NEW p \in VaultPayments, Simulated(p) PROVE VaultInv'
  <2>1. payment[p].st = "simulate" /\ UNCHANGED <<context, policy, proof, provenOn, inOrder>>
    BY <1>7 DEF Simulated, SignersStay
  <2>2. PICK st \in {"sent", "failed"} : Becomes(p, [payment[p] EXCEPT !.st = st]) BY <1>7 DEF Simulated, GetsTo
  <2> DEFINE became == [payment[p] EXCEPT !.st = st]
  <2>3. /\ became \in PaymentType /\ became.st \in {"sent", "failed"}
        /\ became.payee = payment[p].payee /\ became.asked = payment[p].asked
    BY DEF VaultInv, VaultTypeOK, PaymentType
  <2>4. Becomes(p, became) BY <2>2
  <2> HIDE DEF became
  <2> QED BY <2>1, <2>3, <2>4, GoesOnInv
<1>8. CASE LedgerCloses
  <2>1. latest' = latest + 1 /\ latest < MaxLedger
        /\ UNCHANGED <<custody, network, payment, context, policy, proof, provenOn, inOrder>>
    BY <1>8 DEF LedgerCloses
  <2>2. VaultTypeOK' BY <2>1, VaultAssumption DEF VaultInv, VaultTypeOK, Ledgers
  <2>3. ProvenWithinPolicy' BY <2>1 DEF VaultInv, ProvenWithinPolicy, ProofNamesItsTransfer, DayWithinCap
  <2> QED BY <2>1, <2>2, <2>3 DEF VaultInv, SignedOnce, SignerIsNew, PolicyCounts
<1>9. CASE UNCHANGED vaultVars
  BY <1>9 DEF vaultVars, VaultInv, VaultTypeOK, ProvenWithinPolicy, ProofNamesItsTransfer, DayWithinCap,
     SignedOnce, SignerIsNew, PolicyCounts
<1> QED BY <1>1, <1>2, <1>3, <1>4, <1>5, <1>6, <1>7, <1>8, <1>9 DEF VaultStep

----------------------------------------------------------------------------
\* Rows, newest first (LiveFeeds)

\* A row's place among the rows of S: how many are no older.
Rank(S, r) == Cardinality({q \in S : q >= r})
Kth(S, i) == CHOOSE r \in S : Rank(S, r) = i

\* A row of S has a place, and a newer one an earlier place.
LEMMA RanksAreOrdered ==
  ASSUME NEW S \in SUBSET Int, IsFiniteSet(S)
  PROVE  /\ \A r \in S : Rank(S, r) \in 1..Cardinality(S)
         /\ \A r, t \in S : r < t => Rank(S, t) < Rank(S, r)
<1>1. ASSUME NEW r \in S PROVE IsFiniteSet({q \in S : q >= r}) /\ Rank(S, r) \in 1..Cardinality(S)
  <2>1. {q \in S : q >= r} \in SUBSET S OBVIOUS
  <2>2. IsFiniteSet({q \in S : q >= r}) /\ Rank(S, r) <= Cardinality(S) BY <2>1, FS_Subset DEF Rank
  <2>3. r \in {q \in S : q >= r} OBVIOUS
  <2>4. Rank(S, r) # 0 BY <2>2, <2>3, FS_EmptySet DEF Rank
  <2>5. Rank(S, r) \in Nat /\ Cardinality(S) \in Nat BY <2>2, FS_CardinalityType DEF Rank
  <2> QED BY <2>2, <2>4, <2>5
<1>2. ASSUME NEW r \in S, NEW t \in S, r < t PROVE Rank(S, t) < Rank(S, r)
  <2> DEFINE R == {q \in S : q >= r}
             T == {q \in S : q >= t}
  <2>4. r \in Int /\ t \in Int /\ \A q \in S : q \in Int OBVIOUS
  <2>5. \A q \in S : q >= t => q >= r BY <1>2, <2>4
  <2>6. r >= r /\ ~(r >= t) BY <1>2, <2>4
  <2>1. T \in SUBSET R /\ r \in R /\ r \notin T BY <2>5, <2>6
  <2>2. Cardinality(T) <= Cardinality(R) /\ Cardinality(T) # Cardinality(R) BY <1>1, <2>1, FS_Subset
  <2>3. Cardinality(T) \in Nat /\ Cardinality(R) \in Nat BY <1>1, FS_CardinalityType
  <2> QED BY <2>2, <2>3 DEF Rank
<1> QED BY <1>1, <1>2

\* Every place is taken, by one row.
LEMMA EveryRankIsTaken ==
  ASSUME NEW S \in SUBSET Int, IsFiniteSet(S), NEW i \in 1..Cardinality(S)
  PROVE  Kth(S, i) \in S /\ Rank(S, Kth(S, i)) = i /\ \A r \in S : Rank(S, r) = i => r = Kth(S, i)
<1> DEFINE T == 1..Cardinality(S)
           f == [r \in S |-> Rank(S, r)]
<1>1. Cardinality(S) \in Nat BY FS_CardinalityType
<1>2. IsFiniteSet(T) /\ Cardinality(T) = Cardinality(S) BY <1>1, FS_Interval
<1>3. \A r, t \in S : Rank(S, r) = Rank(S, t) => r = t
  <2> SUFFICES ASSUME NEW r \in S, NEW t \in S, Rank(S, r) = Rank(S, t) PROVE r = t OBVIOUS
  <2>1. ~(r < t) /\ ~(t < r) BY RanksAreOrdered
  <2> QED BY <2>1
<1>4. f \in [S -> T] BY RanksAreOrdered
<1>5. f \in Injection(S, T) BY <1>3, <1>4 DEF Injection, IsInjective
<1>6. f \in Surjection(S, T) BY <1>2, <1>5, FS_Injection
<1>7. \E r \in S : Rank(S, r) = i BY <1>6 DEF Surjection
<1>8. Kth(S, i) \in S /\ Rank(S, Kth(S, i)) = i BY <1>7 DEF Kth
<1> QED BY <1>3, <1>8

\* NewestFirst is the rows in the order of their places, as many as are kept.
LEMMA NewestFirstByRank ==
  ASSUME NEW S \in SUBSET Int, IsFiniteSet(S)
  PROVE  LET kept == IF Cardinality(S) < MaxEntries THEN Cardinality(S) ELSE MaxEntries
         IN NewestFirst(S) = [i \in 1..kept |-> Kth(S, i)]
<1> DEFINE kept == IF Cardinality(S) < MaxEntries THEN Cardinality(S) ELSE MaxEntries
           sorted == [i \in 1..Cardinality(S) |-> CHOOSE r \in S : Cardinality({q \in S : q >= r}) = i]
<1>1. Cardinality(S) \in Nat /\ MaxEntries \in Nat \ {0} BY FS_CardinalityType, FeedAssumption
<1>2. sorted = [i \in 1..Cardinality(S) |-> Kth(S, i)] BY DEF Kth, Rank
<1>3. Len(sorted) = Cardinality(S) BY <1>1
<1>4. NewestFirst(S) = SubSeq(sorted, 1, kept) BY <1>3 DEF NewestFirst
<1>5. kept \in Nat /\ kept <= Cardinality(S) BY <1>1
<1> HIDE DEF kept, sorted
<1>6. SubSeq(sorted, 1, kept) = [i \in 1..kept |-> sorted[i]] BY <1>5
<1>7. \A i \in 1..kept : sorted[i] = Kth(S, i) BY <1>1, <1>2, <1>5
<1> QED BY <1>4, <1>6, <1>7 DEF kept

\* Of rows up to n, those among the newest are kept.
LEMMA NewestAreKept ==
  ASSUME NEW n \in Nat, NEW S \in SUBSET (1..n), NEW r \in S, r > n - MaxEntries
  PROVE  Rank(S, r) <= MaxEntries
<1> DEFINE T == {q \in S : q >= r}
<1>1. r \in Nat /\ T \in SUBSET (r..n)
  <2>1. r \in 1..n OBVIOUS
  <2>2. ASSUME NEW q \in T PROVE q \in r..n
    <3>1. q \in 1..n /\ q >= r OBVIOUS
    <3> QED BY <2>1, <3>1
  <2> HIDE DEF T
  <2> QED BY <2>1, <2>2
<1>2. IsFiniteSet(r..n) /\ Cardinality(r..n) = n - r + 1
  <2>1. r <= n OBVIOUS
  <2> QED BY <1>1, <2>1, FS_Interval
<1>3. Cardinality(T) <= n - r + 1 /\ IsFiniteSet(T) BY <1>1, <1>2, FS_Subset
<1>4. Cardinality(T) \in Nat BY <1>3, FS_CardinalityType
<1> QED BY <1>1, <1>3, <1>4, FeedAssumption DEF Rank

\* The rows on screen are the first ones of what was merged.
LEMMA ShownByRank ==
  ASSUME NEW S \in SUBSET Int, IsFiniteSet(S)
  PROVE  /\ NewestFirst(S) \in Seq(S)
         /\ {NewestFirst(S)[i] : i \in DOMAIN NewestFirst(S)} = {r \in S : Rank(S, r) <= MaxEntries}
<1> DEFINE kept == IF Cardinality(S) < MaxEntries THEN Cardinality(S) ELSE MaxEntries
           top == NewestFirst(S)
<1>1. Cardinality(S) \in Nat /\ MaxEntries \in Nat \ {0} BY FS_CardinalityType, FeedAssumption
<1>2. top = [i \in 1..kept |-> Kth(S, i)] BY NewestFirstByRank
<1>3. kept \in Nat /\ kept <= Cardinality(S) /\ kept <= MaxEntries BY <1>1
<1>4. \A i \in 1..kept : i \in 1..Cardinality(S) BY <1>1, <1>3
<1>5. \A i \in 1..kept : Kth(S, i) \in S /\ Rank(S, Kth(S, i)) = i BY <1>4, EveryRankIsTaken
<1>6. top \in Seq(S)
  <2> HIDE DEF kept, top
  <2>1. top \in [1..kept -> S] BY <1>2, <1>5
  <2> QED BY <1>3, <2>1
<1>7. ASSUME NEW i \in 1..kept PROVE Kth(S, i) \in S /\ Rank(S, Kth(S, i)) <= MaxEntries
  <2> HIDE DEF kept
  <2>1. i <= MaxEntries BY <1>1, <1>3
  <2> QED BY <1>5, <2>1
<1>8. ASSUME NEW r \in S, Rank(S, r) <= MaxEntries PROVE \E i \in 1..kept : Kth(S, i) = r
  <2>1. Rank(S, r) \in 1..Cardinality(S) BY RanksAreOrdered
  <2>2. Rank(S, r) \in 1..kept BY <1>1, <1>8, <2>1
  <2>3. Kth(S, Rank(S, r)) = r BY <2>1, EveryRankIsTaken
  <2> QED BY <2>2, <2>3
<1> HIDE DEF kept, top
<1>9. DOMAIN top = 1..kept /\ \A i \in 1..kept : top[i] = Kth(S, i) BY <1>2
<1>10. {top[i] : i \in DOMAIN top} = {r \in S : Rank(S, r) <= MaxEntries}
  BY <1>7, <1>8, <1>9
<1> QED BY <1>6, <1>10 DEF top

\* Rows that have all of the newest ones of T are shown as T is.
LEMMA SameNewest ==
  ASSUME NEW T \in SUBSET Int, IsFiniteSet(T), NEW S \in SUBSET T,
         \A r \in T : Rank(T, r) <= MaxEntries => r \in S
  PROVE  NewestFirst(S) = NewestFirst(T)
<1>1. IsFiniteSet(S) /\ S \in SUBSET Int /\ Cardinality(S) <= Cardinality(T) BY FS_Subset
<1>2. Cardinality(S) \in Nat /\ Cardinality(T) \in Nat /\ MaxEntries \in Nat \ {0}
  BY <1>1, FS_CardinalityType, FeedAssumption
<1>3. ASSUME NEW r \in T, Rank(T, r) <= MaxEntries PROVE Rank(S, r) = Rank(T, r)
  <2>1. ASSUME NEW q \in T, q >= r PROVE q \in S
    <3>1. q = r \/ r < q BY <2>1
    <3>2. Rank(T, q) <= Rank(T, r) /\ Rank(T, q) \in Int /\ Rank(T, r) \in Int BY <3>1, RanksAreOrdered
    <3> QED BY <1>2, <1>3, <3>2
  <2>2. {q \in S : q >= r} = {q \in T : q >= r} BY <2>1
  <2> QED BY <2>2 DEF Rank
<1>4. CASE Cardinality(T) <= MaxEntries
  <2>1. \A r \in T : Rank(T, r) <= MaxEntries
    <3> SUFFICES ASSUME NEW r \in T PROVE Rank(T, r) <= MaxEntries OBVIOUS
    <3>1. Rank(T, r) \in 1..Cardinality(T) BY RanksAreOrdered
    <3> QED BY <1>2, <1>4, <3>1
  <2>2. S = T BY <2>1
  <2> QED BY <2>2
<1>5. CASE Cardinality(T) > MaxEntries
  <2> DEFINE last == Kth(T, MaxEntries)
  <2>1. MaxEntries \in 1..Cardinality(T) BY <1>2, <1>5
  <2>2. last \in T /\ Rank(T, last) = MaxEntries BY <2>1, EveryRankIsTaken
  <2> HIDE DEF last
  <2>9. Rank(T, last) <= MaxEntries BY <1>2, <2>2
  <2>3. last \in S /\ Rank(S, last) = MaxEntries BY <1>3, <2>2, <2>9
  <2>4. Rank(S, last) \in 1..Cardinality(S) BY <1>1, <2>3, RanksAreOrdered
  <2>5. MaxEntries <= Cardinality(S) BY <1>2, <2>3, <2>4
  <2>6. ASSUME NEW i \in 1..MaxEntries PROVE Kth(S, i) = Kth(T, i)
    <3>1. i \in 1..Cardinality(S) /\ i \in 1..Cardinality(T) BY <1>2, <1>5, <2>5
    <3>2. Kth(T, i) \in T /\ Rank(T, Kth(T, i)) = i BY <3>1, EveryRankIsTaken
    <3>3. Rank(T, Kth(T, i)) <= MaxEntries BY <1>2, <3>2
    <3>4. Kth(T, i) \in S BY <3>2, <3>3
    <3>5. Rank(S, Kth(T, i)) = i BY <1>3, <3>2, <3>3
    <3>6. \A r \in S : Rank(S, r) = i => r = Kth(S, i) BY <1>1, <3>1, EveryRankIsTaken
    <3> QED BY <3>4, <3>5, <3>6
  <2>7. NewestFirst(S) = [i \in 1..MaxEntries |-> Kth(S, i)] BY <1>1, <1>2, <2>5, NewestFirstByRank
  <2>8. NewestFirst(T) = [i \in 1..MaxEntries |-> Kth(T, i)] BY <1>2, <1>5, NewestFirstByRank
  <2> QED BY <2>6, <2>7, <2>8
<1> QED BY <1>2, <1>4, <1>5

\* The first row on screen is the newest of what was merged.
LEMMA HeadIsNewest ==
  ASSUME NEW S \in SUBSET (Nat \ {0}), IsFiniteSet(S)
  PROVE  /\ \A r \in S : r <= Newest(NewestFirst(S))
         /\ Newest(NewestFirst(S)) \in S \cup {0}
<1> DEFINE top == NewestFirst(S)
           kept == IF Cardinality(S) < MaxEntries THEN Cardinality(S) ELSE MaxEntries
<1>1. Cardinality(S) \in Nat /\ MaxEntries \in Nat \ {0} /\ S \in SUBSET Int
  BY FS_CardinalityType, FeedAssumption
<1>2. top = [i \in 1..kept |-> Kth(S, i)] BY <1>1, NewestFirstByRank
<1>3. CASE S = {}
  <2>1. Cardinality(S) = 0 BY <1>3, FS_EmptySet
  <2>2. top = <<>> BY <1>1, <1>2, <2>1
  <2> QED BY <1>3, <2>2 DEF Newest
<1>4. CASE S # {}
  <2>1. Cardinality(S) # 0 BY <1>4, FS_EmptySet
  <2>2. 1 \in 1..kept /\ 1 \in 1..Cardinality(S) /\ kept \in Nat BY <1>1, <2>1
  <2> HIDE DEF kept, top
  <2>3. top # <<>> /\ Head(top) = Kth(S, 1) BY <1>2, <2>2
  <2>4. Newest(top) = Kth(S, 1) BY <2>3 DEF Newest
  <2>5. Kth(S, 1) \in S /\ Rank(S, Kth(S, 1)) = 1 BY <1>1, <2>2, EveryRankIsTaken
  <2>6. ASSUME NEW r \in S PROVE r <= Kth(S, 1)
    <3>1. Rank(S, r) \in 1..Cardinality(S) BY <1>1, RanksAreOrdered
    <3>2. ~(Kth(S, 1) < r)
      <4> SUFFICES ASSUME Kth(S, 1) < r PROVE FALSE OBVIOUS
      <4>1. Rank(S, r) < Rank(S, Kth(S, 1)) BY <1>1, <2>5, RanksAreOrdered
      <4> QED BY <2>5, <3>1, <4>1
    <3>3. r \in Int /\ Kth(S, 1) \in Int BY <1>1, <2>5
    <3> QED BY <3>2, <3>3
  <2> QED BY <2>4, <2>5, <2>6 DEF top
<1> QED BY <1>3, <1>4

----------------------------------------------------------------------------
\* The views that follow the table (LiveFeeds)

Reads == [st : {"none", "asked", "read"}, rows : Nat]

FeedTypeOK ==
  /\ view \in Views /\ onPage \in BOOLEAN /\ rows \in Nat /\ gap \in BOOLEAN
  /\ reads \in [1..MaxReads -> Reads]
  /\ realtime \in {"off", "joining", "joined", "live", "down"}
  /\ events \in SUBSET (1..rows)
  /\ \A i \in 1..MaxReads : reads[i].rows <= rows

\* Only a view on the page with a channel hears of inserts.
HearsOnChannel == ~Listens \/ ~onPage => realtime = "off" /\ events = {}

\* What a view merges or reads is shown newest first.
ShowsNewest == view # "tx-log" => \E S \in SUBSET (1..rows) : shown = NewestFirst(S)

\* What a read brings.
Brings(i, r) == reads[i] = Asked \/ (reads[i].st = "read" /\ r <= reads[i].rows)

\* A live feed has each of the newest rows, hears of it, or reads it.
NothingMissed ==
  view = "tx-feed" /\ realtime = "live" /\ ~gap =>
    \A r \in 1..rows : r > rows - MaxEntries =>
      r \in Shown \/ r \in events \/ \E i \in 1..MaxReads : Brings(i, r)

\* The chart hears nothing, and its one read is not older than what it shows.
ChartReadsInOrder ==
  view = "chart" =>
    /\ \A i, j \in 1..MaxReads : reads[i] # NoRead /\ reads[j] # NoRead => i = j
    /\ \A i \in 1..MaxReads : reads[i].st = "read" => Newest(shown) <= reads[i].rows

FeedInv == FeedTypeOK /\ HearsOnChannel /\ ShowsNewest /\ NothingMissed /\ ChartReadsInOrder

\* Rows up to one are finitely many numbers, and what is shown of them is of them.
LEMMA RowsAreFinite ==
  ASSUME NEW n \in Nat, NEW S \in SUBSET (1..n)
  PROVE  /\ IsFiniteSet(S) /\ S \in SUBSET Int /\ S \in SUBSET (Nat \ {0})
         /\ Newest(NewestFirst(S)) \in 0..n
<1>1. IsFiniteSet(1..n) BY FS_Interval
<1>2. IsFiniteSet(S) BY <1>1, FS_Subset
<1>3. S \in SUBSET Int /\ S \in SUBSET (Nat \ {0}) OBVIOUS
<1>4. Newest(NewestFirst(S)) \in S \cup {0} BY <1>2, <1>3, HeadIsNewest
<1>5. S \cup {0} \subseteq 0..n OBVIOUS
<1> QED BY <1>2, <1>3, <1>4, <1>5

\* What the rows on screen are, of any set of rows that is shown.
LEMMA ShownIs ==
  ASSUME NEW n \in Nat, NEW S \in SUBSET (1..n), shown = NewestFirst(S)
  PROVE  Shown = {r \in S : Rank(S, r) <= MaxEntries}
<1>1. IsFiniteSet(S) /\ S \in SUBSET Int BY RowsAreFinite
<1> QED BY <1>1, ShownByRank DEF Shown

\* A view starts with a snapshot or with nothing.
LEMMA FeedInitInv == FeedInit => FeedInv
<1> SUFFICES ASSUME FeedInit PROVE FeedInv OBVIOUS
<1> USE FeedAssumption
<1>1. rows \in {0, 1} /\ events = {} /\ gap = FALSE /\ view \in Views /\ onPage = TRUE BY DEF FeedInit
<1>2. reads = [i \in 1..MaxReads |-> IF view = "tx-log" /\ i = 1 THEN Asked ELSE NoRead] BY DEF FeedInit
<1>3. realtime = IF Listens THEN "joining" ELSE "off" BY DEF FeedInit
<1>4. FeedTypeOK /\ HearsOnChannel
  <2>1. Asked \in Reads /\ NoRead \in Reads /\ Asked.rows = 0 /\ NoRead.rows = 0 BY DEF Reads, Asked, NoRead
  <2>2. reads \in [1..MaxReads -> Reads] /\ \A i \in 1..MaxReads : reads[i].rows <= rows BY <1>1, <1>2, <2>1
  <2>3. rows \in Nat /\ events \in SUBSET (1..rows) BY <1>1
  <2>6. onPage \in BOOLEAN BY <1>1
  <2>7. gap \in BOOLEAN BY <1>1
  <2>8. realtime \in {"off", "joining", "joined", "live", "down"} BY <1>3
  <2>4. FeedTypeOK BY <1>1, <2>2, <2>3, <2>6, <2>7, <2>8 DEF FeedTypeOK
  <2>5. HearsOnChannel BY <1>1, <1>3 DEF HearsOnChannel
  <2> QED BY <2>4, <2>5
<1>5. ShowsNewest
  <2>1. shown = <<>> \/ shown = NewestFirst(1..rows) BY DEF FeedInit
  <2>2. NewestFirst({}) = <<>>
    <3>1. IsFiniteSet({}) /\ Cardinality({}) = 0 BY FS_EmptySet
    <3> QED BY <3>1, NewestFirstByRank
  <2> QED BY <2>1, <2>2 DEF ShowsNewest
<1>6. NothingMissed BY <1>3 DEF NothingMissed
<1>7. ChartReadsInOrder BY <1>1, <1>2, <1>3 DEF ChartReadsInOrder, Listens, NoRead
<1> QED BY <1>4, <1>5, <1>6, <1>7 DEF FeedInv

\* Merging rows of the table keeps the newest of what was there and of what comes.
LEMMA MergedKeepsNewest ==
  ASSUME FeedInv, view # "tx-log", NEW incoming \in SUBSET (1..rows), shown' = Merged(incoming)
  PROVE  /\ \E S \in SUBSET (1..rows) : shown' = NewestFirst(S)
         /\ \A r \in Shown \cup incoming : r > rows - MaxEntries => r \in Shown'
         /\ Newest(shown) <= Newest(shown')
<1> DEFINE U == Shown \cup incoming
<1>1. rows \in Nat BY DEF FeedInv, FeedTypeOK
<1>2. PICK S \in SUBSET (1..rows) : shown = NewestFirst(S) BY DEF FeedInv, ShowsNewest
<1>3. Shown = {r \in S : Rank(S, r) <= MaxEntries} BY <1>1, <1>2, ShownIs
<1>4. U \in SUBSET (1..rows) BY <1>3
<1>5. shown' = NewestFirst(U) BY DEF Merged
<1>6. IsFiniteSet(U) /\ U \in SUBSET Int /\ U \in SUBSET (Nat \ {0}) BY <1>1, <1>4, RowsAreFinite
<1> HIDE DEF U
<1>7. Shown' = {r \in U : Rank(U, r) <= MaxEntries} BY <1>5, <1>6, ShownByRank DEF Shown
<1>8. ASSUME NEW r \in U, r > rows - MaxEntries PROVE r \in Shown'
  <2>1. Rank(U, r) <= MaxEntries BY <1>1, <1>4, <1>8, NewestAreKept
  <2> QED BY <1>7, <2>1
<1>9. Newest(shown) <= Newest(shown')
  <2>1. Newest(shown') \in 0..rows BY <1>1, <1>4, <1>5, RowsAreFinite
  <2>2. CASE shown = <<>> BY <2>1, <2>2 DEF Newest
  <2>3. CASE shown # <<>>
    <3>1. IsFiniteSet(S) /\ S \in SUBSET Int BY <1>1, RowsAreFinite
    <3>2. shown \in Seq(S) BY <1>2, <3>1, ShownByRank
    <3>3. 1 \in DOMAIN shown /\ Head(shown) = shown[1] BY <2>3, <3>2
    <3>4. Newest(shown) \in Shown BY <2>3, <3>3 DEF Newest, Shown
    <3>5. Newest(shown) \in U BY <3>4 DEF U
    <3> QED BY <1>5, <1>6, <3>5, HeadIsNewest
  <2> QED BY <2>2, <2>3
<1> QED BY <1>4, <1>5, <1>8, <1>9 DEF U

\* One more read is one, in a free place.
LEMMA OneMoreReadIs ==
  ASSUME FeedInv, Free # {}, OneMoreRead
  PROVE  \E i \in 1..MaxReads :
           reads[i] = NoRead /\ reads' = [reads EXCEPT ![i] = Asked] /\ reads'[i] = Asked
             /\ reads' \in [1..MaxReads -> Reads] /\ reads'[i].rows = 0
<1> DEFINE i == CHOOSE j \in Free : TRUE
<1>1. reads \in [1..MaxReads -> Reads] BY DEF FeedInv, FeedTypeOK
<1>2. i \in 1..MaxReads /\ reads[i] = NoRead BY <1>1 DEF Free
<1>3. reads' = [reads EXCEPT ![i] = Asked] BY DEF OneMoreRead
<1>4. Asked \in Reads /\ Asked.rows = 0 BY DEF Asked, Reads
<1> HIDE DEF i
<1> QED BY <1>1, <1>2, <1>3, <1>4

\* Inserts, polls, answers in any order, and a channel that comes and goes: a live feed
\* misses nothing, and neither it nor the chart goes back.
LEMMA FeedStepInv ==
  FeedInv /\ [FeedStep]_feedVars =>
    FeedInv' /\ (view \in {"tx-feed", "chart"} => Newest(shown) <= Newest(shown'))
<1> DEFINE Goal == FeedInv' /\ (view \in {"tx-feed", "chart"} => Newest(shown) <= Newest(shown'))
<1> SUFFICES ASSUME FeedInv, [FeedStep]_feedVars PROVE Goal OBVIOUS
<1> USE FeedAssumption
<1>1. /\ rows \in Nat /\ reads \in [1..MaxReads -> Reads] /\ events \in SUBSET (1..rows) /\ DOMAIN reads = 1..MaxReads
      /\ \A i \in 1..MaxReads : reads[i].rows \in 0..rows
  BY DEF FeedInv, FeedTypeOK, Reads
<1>2. view # "tx-log" => Newest(shown) \in 0..rows
  BY <1>1, RowsAreFinite DEF FeedInv, ShowsNewest
<1>3. UNCHANGED <<view, shown>> => (view \in {"tx-feed", "chart"} => Newest(shown) <= Newest(shown'))
  BY <1>2
<1>4. UNCHANGED shown => Shown' = Shown BY DEF Shown
<1>5. CASE Insert
  <2>1. rows' = rows + 1 /\ UNCHANGED <<view, onPage, shown, reads, realtime, polling, gap, drops>>
    BY <1>5 DEF Insert
  <2>2. events' = IF realtime \in {"joined", "live"} THEN events \cup {rows'} ELSE events BY <1>5 DEF Insert
  <2>3. FeedTypeOK' BY <1>1, <2>1, <2>2 DEF FeedInv, FeedTypeOK
  <2>4. HearsOnChannel' BY <2>1, <2>2 DEF FeedInv, HearsOnChannel, Listens
  <2>5. ShowsNewest' BY <1>1, <2>1 DEF FeedInv, ShowsNewest
  <2>6. NothingMissed'
    <3> SUFFICES ASSUME (view = "tx-feed" /\ realtime = "live" /\ ~gap)', NEW r \in 1..rows', r > rows' - MaxEntries
                 PROVE  (r \in Shown \/ r \in events \/ \E i \in 1..MaxReads : Brings(i, r))'
      BY DEF NothingMissed
    <3>1. Shown' = Shown BY <1>4, <2>1
    <3>2. CASE r = rows + 1 BY <2>1, <2>2, <3>2
    <3>3. CASE r # rows + 1
      <4>1. r \in 1..rows /\ r > rows - MaxEntries BY <1>1, <2>1, <3>3, FeedAssumption
      <4>2. view = "tx-feed" /\ realtime = "live" /\ ~gap BY <2>1
      <4>3. r \in Shown \/ r \in events \/ \E i \in 1..MaxReads : Brings(i, r)
        BY <4>1, <4>2 DEF FeedInv, NothingMissed
      <4> QED BY <2>1, <2>2, <3>1, <4>3 DEF Brings
    <3> QED BY <3>2, <3>3
  <2>7. ChartReadsInOrder' BY <2>1 DEF FeedInv, ChartReadsInOrder
  <2> QED BY <1>3, <2>1, <2>3, <2>4, <2>5, <2>6, <2>7 DEF FeedInv
<1>6. CASE Poll
  <2>1. OneMoreRead /\ MayFetch /\ UNCHANGED <<view, onPage, rows, shown, realtime, events, polling, gap, drops>>
    BY <1>6 DEF Poll
  <2>2. PICK i \in 1..MaxReads :
          /\ reads[i] = NoRead /\ reads' = [reads EXCEPT ![i] = Asked] /\ reads'[i] = Asked
          /\ reads' \in [1..MaxReads -> Reads] /\ reads'[i].rows = 0
    BY <2>1, OneMoreReadIs DEF MayFetch
  <2>3. \A j \in 1..MaxReads \ {i} : reads'[j] = reads[j] BY <1>1, <2>2
  <2>4. FeedTypeOK' BY <1>1, <2>1, <2>2, <2>3 DEF FeedInv, FeedTypeOK
  <2>5. HearsOnChannel' /\ ShowsNewest' BY <2>1 DEF FeedInv, HearsOnChannel, Listens, ShowsNewest
  <2>6. NothingMissed' BY <1>4, <2>1, <2>2, <2>3 DEF FeedInv, NothingMissed, Brings
  <2>7. ChartReadsInOrder'
    <3>1. view = "chart" => \A j \in 1..MaxReads : reads[j] = NoRead
      BY <1>1, <2>1 DEF MayFetch, NoneInFlight, Free
    <3>2. Asked.st # "read" /\ NoRead.st # "read" BY DEF Asked, NoRead
    <3> QED BY <2>1, <2>2, <2>3, <3>1, <3>2 DEF ChartReadsInOrder, NoRead
  <2> QED BY <1>3, <2>1, <2>4, <2>5, <2>6, <2>7 DEF FeedInv
<1>7. ASSUME NEW i \in 1..MaxReads, DatabaseAnswers(i) PROVE Goal
  <2> DEFINE answer == [st |-> "read", rows |-> rows]
  <2>1. /\ reads[i] = Asked /\ reads' = [reads EXCEPT ![i] = answer]
        /\ UNCHANGED <<view, onPage, rows, shown, realtime, events, polling, gap, drops>>
    BY <1>7 DEF DatabaseAnswers
  <2>2. answer \in Reads /\ answer.rows = rows /\ answer.st = "read" BY <1>1 DEF Reads
  <2> HIDE DEF answer
  <2>3. reads'[i] = answer /\ \A j \in 1..MaxReads \ {i} : reads'[j] = reads[j] BY <1>1, <2>1
  <2>4. FeedTypeOK' BY <1>1, <2>1, <2>2, <2>3 DEF FeedInv, FeedTypeOK
  <2>5. HearsOnChannel' /\ ShowsNewest' BY <2>1 DEF FeedInv, HearsOnChannel, Listens, ShowsNewest
  <2>6. NothingMissed' BY <1>1, <1>4, <2>1, <2>2, <2>3 DEF FeedInv, NothingMissed, Brings
  <2>7. ChartReadsInOrder'
    <3>1. Asked # NoRead BY DEF Asked, NoRead
    <3> QED BY <1>1, <1>2, <2>1, <2>2, <2>3, <3>1 DEF FeedInv, ChartReadsInOrder
  <2> QED BY <1>3, <2>1, <2>4, <2>5, <2>6, <2>7 DEF FeedInv
<1>8. ASSUME NEW i \in 1..MaxReads, ReadArrives(i) PROVE Goal
  <2>1. /\ reads[i].st = "read" /\ reads' = [reads EXCEPT ![i] = NoRead]
        /\ UNCHANGED <<view, onPage, rows, realtime, events, polling, gap, drops>>
    BY <1>8 DEF ReadArrives
  <2>2. shown' = IF ~onPage THEN shown
                 ELSE IF view = "tx-feed" THEN Merged(1..reads[i].rows) ELSE NewestFirst(1..reads[i].rows)
    BY <1>8 DEF ReadArrives
  <2>3. NoRead \in Reads /\ NoRead.rows = 0 /\ NoRead.st = "none" BY DEF Reads, NoRead
  <2>4. reads'[i] = NoRead /\ \A j \in 1..MaxReads \ {i} : reads'[j] = reads[j] BY <1>1, <2>1
  <2>5. FeedTypeOK' BY <1>1, <2>1, <2>3, <2>4 DEF FeedInv, FeedTypeOK
  <2>6. HearsOnChannel' BY <2>1 DEF FeedInv, HearsOnChannel, Listens
  <2>7. reads[i].rows \in 0..rows /\ 1..reads[i].rows \in SUBSET (1..rows) BY <1>1
  <2>8. CASE ~onPage
    <3>1. shown' = shown /\ realtime = "off" BY <2>2, <2>8 DEF FeedInv, HearsOnChannel
    <3>2. ShowsNewest' BY <2>1, <3>1 DEF FeedInv, ShowsNewest
    <3>3. NothingMissed' BY <2>1, <3>1 DEF NothingMissed
    <3>4. ChartReadsInOrder' BY <2>1, <2>3, <2>4, <3>1 DEF FeedInv, ChartReadsInOrder
    <3> QED BY <1>3, <2>1, <2>5, <2>6, <3>1, <3>2, <3>3, <3>4 DEF FeedInv
  <2>9. CASE onPage /\ view = "tx-feed"
    <3>1. shown' = Merged(1..reads[i].rows) BY <2>2, <2>9
    <3>2. /\ \E S \in SUBSET (1..rows) : shown' = NewestFirst(S)
          /\ \A r \in Shown \cup 1..reads[i].rows : r > rows - MaxEntries => r \in Shown'
          /\ Newest(shown) <= Newest(shown')
      BY <2>7, <2>9, <3>1, MergedKeepsNewest
    <3>3. ShowsNewest' BY <2>1, <3>2 DEF ShowsNewest
    <3>4. NothingMissed'
      <4> SUFFICES ASSUME realtime = "live", ~gap, NEW r \in 1..rows, r > rows - MaxEntries
                   PROVE  r \in Shown' \/ r \in events \/ \E j \in 1..MaxReads : Brings(j, r)'
        BY <2>1 DEF NothingMissed
      <4>1. r \in Shown \/ r \in events \/ \E j \in 1..MaxReads : Brings(j, r)
        BY <2>9 DEF FeedInv, NothingMissed
      <4>2. CASE r \in Shown BY <3>2, <4>2
      <4>3. ASSUME NEW j \in 1..MaxReads, Brings(j, r) PROVE r \in Shown' \/ Brings(j, r)'
        <5>1. CASE j = i
          <6>1. Asked.st = "asked" BY DEF Asked
          <6>2. r <= reads[i].rows BY <2>1, <4>3, <5>1, <6>1 DEF Brings
          <6>3. r \in 1..reads[i].rows BY <2>7, <6>2
          <6> QED BY <3>2, <6>3
        <5>2. CASE j # i BY <2>4, <4>3, <5>2 DEF Brings
        <5> QED BY <5>1, <5>2
      <4> QED BY <4>1, <4>2, <4>3
    <3>5. ChartReadsInOrder' BY <2>1, <2>9 DEF ChartReadsInOrder
    <3> QED BY <2>5, <2>6, <3>2, <3>3, <3>4, <3>5 DEF FeedInv
  <2>10. CASE onPage /\ view # "tx-feed"
    <3>1. shown' = NewestFirst(1..reads[i].rows) BY <2>2, <2>10
    <3>2. ShowsNewest' BY <2>1, <2>7, <3>1 DEF ShowsNewest
    <3>3. NothingMissed' BY <2>1, <2>10 DEF NothingMissed
    <3>4. Newest(shown') >= reads[i].rows
      <4>0. IsFiniteSet(1..reads[i].rows) /\ 1..reads[i].rows \in SUBSET (Nat \ {0})
        <5>3. 1 \in Int /\ reads[i].rows \in Int BY <1>1, <2>7
        <5>1. IsFiniteSet(1..reads[i].rows) BY <5>3, FS_Interval, Zenon
        <5>2. \A r \in 1..reads[i].rows : r \in Nat \ {0} BY <1>1, <2>7
        <5> QED BY <5>1, <5>2
      <4>4. Newest(NewestFirst(1..reads[i].rows)) \in 0..rows BY <1>1, <2>7, RowsAreFinite
      <4>5. Newest(shown') = Newest(NewestFirst(1..reads[i].rows)) BY <3>1 DEF Newest
      <4>1. Newest(shown') \in 0..rows BY <4>4, <4>5
      <4>2. CASE reads[i].rows = 0 BY <4>1, <4>2
      <4>3. CASE reads[i].rows # 0
        <5>1. reads[i].rows \in 1..reads[i].rows BY <2>7, <4>3
        <5>2. reads[i].rows <= Newest(shown') BY <4>0, <4>5, <5>1, HeadIsNewest
        <5> QED BY <2>7, <4>1, <5>2
      <4> QED BY <4>2, <4>3
    <3>5. Newest(shown') \in 0..rows BY <1>1, <2>7, <3>1, RowsAreFinite
    <3>6. ASSUME view = "chart" PROVE Newest(shown) <= Newest(shown')
      <4>1. Newest(shown) <= reads[i].rows BY <2>1, <3>6 DEF FeedInv, ChartReadsInOrder
      <4>2. Newest(shown) \in 0..rows BY <1>2, <3>6
      <4> QED BY <2>7, <3>4, <3>5, <4>1, <4>2
    <3>7. ChartReadsInOrder'
      <4> SUFFICES ASSUME view = "chart" PROVE \A j \in 1..MaxReads : reads'[j] = NoRead
        BY <2>1, <2>3 DEF ChartReadsInOrder
      <4>1. reads[i] # NoRead BY <2>1, <2>3
      <4> QED BY <2>4, <4>1 DEF FeedInv, ChartReadsInOrder
    <3> QED BY <2>5, <2>6, <2>10, <3>2, <3>3, <3>6, <3>7 DEF FeedInv
  <2> QED BY <2>8, <2>9, <2>10
<1>9. ASSUME NEW i \in 1..MaxReads, ReadFails(i) PROVE Goal
  <2>1. /\ reads' = [reads EXCEPT ![i] = NoRead] /\ gap' = TRUE
        /\ UNCHANGED <<view, onPage, rows, shown, realtime, events, polling, drops>>
    BY <1>9 DEF ReadFails
  <2>2. NoRead \in Reads /\ NoRead.rows = 0 /\ NoRead.st = "none" BY DEF Reads, NoRead
  <2>3. reads'[i] = NoRead /\ \A j \in 1..MaxReads \ {i} : reads'[j] = reads[j] BY <1>1, <2>1
  <2>4. FeedTypeOK' BY <1>1, <2>1, <2>2, <2>3 DEF FeedInv, FeedTypeOK
  <2>5. HearsOnChannel' /\ ShowsNewest' /\ NothingMissed'
    BY <2>1 DEF FeedInv, HearsOnChannel, Listens, ShowsNewest, NothingMissed
  <2>6. ChartReadsInOrder' BY <2>1, <2>2, <2>3 DEF FeedInv, ChartReadsInOrder
  <2> QED BY <1>3, <2>1, <2>4, <2>5, <2>6 DEF FeedInv
<1>10. CASE Joins
  <2>1. realtime' = "joined" /\ realtime \in {"joining", "down"}
        /\ UNCHANGED <<view, onPage, rows, shown, reads, events, polling, gap, drops>>
    BY <1>10 DEF Joins
  <2> QED BY <1>3, <2>1 DEF FeedInv, FeedTypeOK, HearsOnChannel, Listens, ShowsNewest, NothingMissed, ChartReadsInOrder
<1>11. CASE Subscribed
  <2>1. /\ realtime = "joined" /\ realtime' = "live" /\ gap' = (gap /\ view # "tx-feed")
        /\ UNCHANGED <<view, onPage, rows, shown, events, drops>>
    BY <1>11 DEF Subscribed
  <2>2. HearsOnChannel' /\ ShowsNewest' BY <2>1 DEF FeedInv, HearsOnChannel, Listens, ShowsNewest
  <2>3. view # "chart" BY <2>1 DEF FeedInv, HearsOnChannel, Listens
  <2>4. ChartReadsInOrder' BY <2>1, <2>3 DEF ChartReadsInOrder
  <2>5. CASE view = "tx-feed"
    <3>1. PICK i \in 1..MaxReads :
            /\ reads[i] = NoRead /\ reads' = [reads EXCEPT ![i] = Asked] /\ reads'[i] = Asked
            /\ reads' \in [1..MaxReads -> Reads] /\ reads'[i].rows = 0
      BY <1>11, <2>5, OneMoreReadIs DEF Subscribed
    <3>2. \A j \in 1..MaxReads \ {i} : reads'[j] = reads[j] BY <1>1, <3>1
    <3>3. FeedTypeOK' BY <1>1, <2>1, <3>1, <3>2 DEF FeedInv, FeedTypeOK
    <3>4. NothingMissed' BY <3>1 DEF NothingMissed, Brings
    <3> QED BY <1>3, <2>1, <2>2, <2>4, <3>3, <3>4 DEF FeedInv
  <2>6. CASE view # "tx-feed"
    <3>1. UNCHANGED reads BY <1>11, <2>6 DEF Subscribed
    <3>2. FeedTypeOK' BY <1>1, <2>1, <2>6, <3>1 DEF FeedInv, FeedTypeOK
    <3>3. NothingMissed' BY <2>1, <2>6 DEF NothingMissed
    <3> QED BY <1>3, <2>1, <2>2, <2>4, <3>2, <3>3 DEF FeedInv
  <2> QED BY <2>5, <2>6
<1>12. CASE ChannelDrops
  <2>1. /\ realtime \in {"joining", "joined", "live"} /\ realtime' = "down" /\ events' = {}
        /\ UNCHANGED <<view, onPage, rows, shown, reads, gap>>
    BY <1>12 DEF ChannelDrops
  <2> QED BY <1>3, <2>1 DEF FeedInv, FeedTypeOK, HearsOnChannel, Listens, ShowsNewest, NothingMissed, ChartReadsInOrder
<1>13. CASE InsertArrives
  <2>1. PICK row \in events :
          /\ events' = events \ {row}
          /\ shown' = IF view = "tx-feed" THEN Merged({row}) ELSE Prepended(row)
          /\ UNCHANGED <<view, onPage, rows, reads, realtime, polling, gap, drops>>
    BY <1>13 DEF InsertArrives
  <2>2. Listens BY <2>1 DEF FeedInv, HearsOnChannel
  <2>3. FeedTypeOK' /\ HearsOnChannel' BY <2>1 DEF FeedInv, FeedTypeOK, HearsOnChannel, Listens
  <2>4. ChartReadsInOrder' BY <2>1, <2>2 DEF ChartReadsInOrder, Listens
  <2>5. CASE view = "tx-feed"
    <3>1. {row} \in SUBSET (1..rows) /\ shown' = Merged({row}) BY <1>1, <2>1, <2>5
    <3>2. /\ \E S \in SUBSET (1..rows) : shown' = NewestFirst(S)
          /\ \A r \in Shown \cup {row} : r > rows - MaxEntries => r \in Shown'
          /\ Newest(shown) <= Newest(shown')
      BY <2>5, <3>1, MergedKeepsNewest
    <3>3. ShowsNewest' BY <2>1, <3>2 DEF ShowsNewest
    <3>4. NothingMissed'
      <4> SUFFICES ASSUME realtime = "live", ~gap, NEW r \in 1..rows, r > rows - MaxEntries
                   PROVE  r \in Shown' \/ r \in events' \/ \E j \in 1..MaxReads : Brings(j, r)
        BY <2>1 DEF NothingMissed, Brings
      <4>1. r \in Shown \/ r \in events \/ \E j \in 1..MaxReads : Brings(j, r)
        BY <2>5 DEF FeedInv, NothingMissed
      <4> QED BY <2>1, <3>2, <4>1
    <3> QED BY <2>3, <2>4, <3>2, <3>3, <3>4 DEF FeedInv
  <2>6. CASE view # "tx-feed"
    <3>1. view = "tx-log" BY <2>2, <2>6 DEF Listens
    <3> QED BY <2>1, <2>3, <2>4, <3>1 DEF FeedInv, ShowsNewest, NothingMissed
  <2> QED BY <2>5, <2>6
<1>14. CASE Unmount
  <2>1. onPage' = FALSE /\ realtime' = "off" /\ events' = {} /\ UNCHANGED <<view, rows, shown, reads, gap, drops>>
    BY <1>14 DEF Unmount
  <2> QED BY <1>3, <2>1 DEF FeedInv, FeedTypeOK, HearsOnChannel, Listens, ShowsNewest, NothingMissed, ChartReadsInOrder
<1>15. CASE UNCHANGED feedVars
  <2>1. UNCHANGED <<view, onPage, rows, shown, reads, realtime, events, polling, gap, drops>> BY <1>15 DEF feedVars
  <2> QED BY <1>3, <1>4, <2>1 DEF FeedInv, FeedTypeOK, HearsOnChannel, Listens, ShowsNewest, NothingMissed, ChartReadsInOrder, Brings
<1> QED BY <1>1, <1>5, <1>6, <1>7, <1>8, <1>9, <1>10, <1>11, <1>12, <1>13, <1>14, <1>15 DEF FeedStep

\* A live feed that waits for nothing shows the newest rows.
LEMMA FeedInvHasNoGap == FeedInv => FeedHasNoGap
<1> SUFFICES ASSUME FeedInv, view = "tx-feed", realtime = "live", NoneInFlight, events = {}, ~gap
             PROVE  shown = NewestFirst(1..rows)
  BY DEF FeedHasNoGap
<1>1. rows \in Nat /\ reads \in [1..MaxReads -> Reads] BY DEF FeedInv, FeedTypeOK
<1>2. PICK S \in SUBSET (1..rows) : shown = NewestFirst(S) BY DEF FeedInv, ShowsNewest
<1>3. Shown = {r \in S : Rank(S, r) <= MaxEntries} BY <1>1, <1>2, ShownIs
<1>4. ASSUME NEW r \in 1..rows, Rank(1..rows, r) <= MaxEntries PROVE r \in S
  <2>1. Rank(1..rows, r) = rows - r + 1
    <3>1. {q \in 1..rows : q >= r} = r..rows BY <1>1
    <3>2. Cardinality(r..rows) = rows - r + 1 BY <1>1, FS_Interval
    <3> QED BY <3>1, <3>2 DEF Rank
  <2>2. r > rows - MaxEntries BY <1>1, <1>4, <2>1, FeedAssumption
  <2>3. \A i \in 1..MaxReads : ~Brings(i, r)
    <3>1. \A i \in 1..MaxReads : reads[i] = NoRead BY <1>1 DEF NoneInFlight, Free
    <3> QED BY <3>1 DEF Brings, NoRead, Asked
  <2>4. r \in Shown BY <2>2, <2>3 DEF FeedInv, NothingMissed
  <2> QED BY <1>3, <2>4
<1>5. IsFiniteSet(1..rows) /\ 1..rows \in SUBSET Int BY <1>1, RowsAreFinite
<1> QED BY <1>2, <1>4, <1>5, SameNewest

----------------------------------------------------------------------------
\* The programs side by side (AgentPrograms)

\* A step is one of one of the programs, and leaves the others alone.
LEMMA ProgramsStep ==
  [ProgramsNext]_programVars =>
    /\ [Next]_vars /\ [AgentStep]_agentVars /\ [HookStep]_hookVars /\ [FeedStep]_feedVars /\ [VaultStep]_vaultVars
BY DEF ProgramsNext, programVars, vars, mcpVars

\* Each of them starts as it does alone.
LEMMA ProgramsStart == ProgramsInit => Init /\ AgentInit /\ HookInit /\ FeedInit /\ VaultInit
BY DEF ProgramsInit

\* A run of the agent or of the stress test that completes without an error has
\* settled its channel, whatever signals came (index.ts, stress.ts).
THEOREM CompletedHasSettled == ProgramsSpec => []CompletedMeansSettled
<1>1. ProgramsInit => AgentInv BY ProgramsStart, AgentInitInv
<1>2. AgentInv /\ [ProgramsNext]_programVars => AgentInv' BY ProgramsStep, AgentStepInv
<1> QED BY <1>1, <1>2, AgentInvSettles, PTL DEF ProgramsSpec

\* The session a component shows as open is the one it holds, and closes on unmount
\* (useSession.ts).
THEOREM OpenIsHeld == ProgramsSpec => []OpenIsClosedOnUnmount
<1>1. ProgramsInit => HookInv BY ProgramsStart, HookInitInv
<1>2. HookInv /\ [ProgramsNext]_programVars => HookInv' BY ProgramsStep, HookStepInv
<1>3. HookInv => OpenIsClosedOnUnmount BY DEF HookInv
<1> QED BY <1>1, <1>2, <1>3, PTL DEF ProgramsSpec

\* An exit with code 0 of the MCP server has settled every session its shutdown found
\* (shutdown.ts).
THEOREM ExitZeroHasSettled == ProgramsSpec => []ExitZeroMeansSettled
<1>1. ProgramsInit => ServerInv BY ProgramsStart, ServerInitInv
<1>2. ServerInv /\ [ProgramsNext]_programVars => ServerInv' BY ProgramsStep, ServerStepInv
<1> QED BY <1>1, <1>2, ServerInvSettles, PTL DEF ProgramsSpec

\* The cache keeps its invariant through whatever the server does with it.
LEMMA CacheInvAlways == ProgramsSpec => []CacheInv
<1>1. ProgramsInit => CacheInv BY ProgramsStart, CacheInitInv DEF Init
<1>2. CacheInv /\ [ProgramsNext]_programVars => CacheInv' BY ProgramsStep, ServerUsesCache, CacheStepInv
<1> QED BY <1>1, <1>2, PTL DEF ProgramsSpec

\* A manifest that a call returns was current at most one lifetime and one fetch before
\* the call (ModeRouter.ts).
THEOREM StalenessIsBounded == ProgramsSpec => []StalenessBounded
BY CacheInvAlways, CacheInvBounds, PTL

\* No call that comes after an invalidation gets a manifest older than the one it
\* found (ModeRouter.ts).
THEOREM InvalidatedStaysAway == ProgramsSpec => []InvalidatedIsNotReturned
BY CacheInvAlways, CacheInvInvalidates, PTL

\* No caller gets an older manifest than a caller before it, for any number of callers,
\* publications, invalidations, evictions and repeated fetches (ModeRouter.ts).
THEOREM ManifestsGoForward == ProgramsSpec => NeverAnOlderManifest
<1>1. ProgramsInit => InOrder
  <2>1. SUFFICES ASSUME ProgramsInit PROVE InOrder OBVIOUS
  <2>2. CacheInit BY <2>1, ProgramsStart DEF Init
  <2> QED BY <2>2 DEF CacheInit, InOrder, ReturnedUpTo, HasReturned, NoEntry, NoFetch
<1>2. CacheInv /\ CacheInv' /\ InOrder /\ [ProgramsNext]_programVars => InOrder' /\ [NoneOlder]_cacheVars
  BY ProgramsStep, ServerUsesCache, StepInOrder
<1> QED BY <1>1, <1>2, CacheInvAlways, PTL DEF ProgramsSpec, NeverAnOlderManifest

\* The views keep their invariant.
LEMMA FeedInvAlways == ProgramsSpec => []FeedInv
<1>1. ProgramsInit => FeedInv BY ProgramsStart, FeedInitInv
<1>2. FeedInv /\ [ProgramsNext]_programVars => FeedInv' BY ProgramsStep, FeedStepInv
<1> QED BY <1>1, <1>2, PTL DEF ProgramsSpec

\* A live feed whose reads came back shows the newest rows of the table, each once
\* (TxFeed.tsx).
THEOREM LiveFeedIsComplete == ProgramsSpec => []FeedHasNoGap
BY FeedInvAlways, FeedInvHasNoGap, PTL

\* Neither the feed nor the chart goes back to an older newest row (TxFeed.tsx,
\* VoucherChart.tsx).
THEOREM FeedGoesForward == ProgramsSpec => NeverGoesBack
<1>1. FeedInv /\ [ProgramsNext]_programVars =>
        [(view \in {"tx-feed", "chart"}) => Newest(shown) <= Newest(shown')]_feedVars
  BY ProgramsStep, FeedStepInv
<1> QED BY <1>1, FeedInvAlways, PTL DEF ProgramsSpec, NeverGoesBack

\* Every proof a Nulth account signs is for its own transfer to an allowed payee, and
\* within the cap of its day as long as the days do not go back (NulthVault.ts).
THEOREM ProofsKeepPolicy == ProgramsSpec => []ProvenWithinPolicy
<1>1. ProgramsInit => VaultInv BY ProgramsStart, VaultInitInv
<1>2. VaultInv /\ [ProgramsNext]_programVars => VaultInv' BY ProgramsStep, VaultStepInv
<1>3. VaultInv => ProvenWithinPolicy BY DEF VaultInv
<1> QED BY <1>1, <1>2, <1>3, PTL DEF ProgramsSpec
=============================================================================
