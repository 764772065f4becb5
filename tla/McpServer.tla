----------------------------- MODULE McpServer -----------------------------
(***************************************************************************)
(* The tools of the MCP server (packages/mcp-server): pay_for_data, which  *)
(* asks the SDK for the price and then to pay (handlers.ts), over the      *)
(* manifest cache; the sessions of open_session, stream_session and        *)
(* close_session in a table by channel; and the shutdown that closes what  *)
(* the table holds (shutdown.ts).                                          *)
(*                                                                         *)
(* A handle is what one open_session call opens.  Closing is the SDK's     *)
(* close(), which may be asked for twice, hang or fail.  The payment tool  *)
(* and the sessions share nothing but the process, so one behaviour uses   *)
(* one or the other.                                                       *)
(***************************************************************************)
EXTENDS ManifestCache, FiniteSets

CONSTANTS
  Tools,           \* bound: what is in use, "pay", "sessions" or another program
  Payers,          \* pay_for_data calls: the callers <<p, "estimate">> and <<p, "pay">>
  MaxAmount,       \* of each payer
  Handles, Channels, NoHandle,
  Closers,         \* close_session calls
  Streamers,       \* stream_session calls
  Deposits,        \* what initial_deposit may be, or Absent
  Listings,        \* what open_session may read of a manifest: min and endpoints
  MaxMessages,     \* MAX_STREAM_MESSAGES
  MaxFailures      \* bound: close() calls that fail

ASSUME ServerAssumption ==
  /\ MaxMessages \in Nat \ {0} /\ MaxAmount \in [Payers -> Nat \ {0}]
  /\ \A p \in Payers : {<<p, "estimate">>, <<p, "pay">>} \subseteq Callers
  /\ NoHandle \notin Handles /\ MaxFailures \in Nat

VARIABLES
  tools,
  tool,            \* each pay_for_data: "idle", "estimate", "pay", and what it paid
  handle,          \* each open_session: its arguments, the channel it opens, and how far it is
  openSessions,    \* the table: a handle by channel
  closer,          \* each close_session: the handle it awaits
  streamer,        \* each stream_session: the handle it pulls, the messages it has
  closing,         \* the shutdown: the handles it awaits, each "pending", "closed", ...
  exit,            \* "running", "closing", or the code the process ended with
  failures

serverVars == <<tool, handle, openSessions, closer, streamer, closing, exit, failures>>
vars == <<tools, cacheVars, serverVars>>

Init ==
  /\ tools \in Tools /\ CacheInit
  /\ tool = [p \in Payers |-> [st |-> "idle", paid |-> 0]]
  /\ handle \in [Handles -> [st : {"new"}, on : Channels, bare : {FALSE}, deposit : {Absent}]]
  /\ openSessions = [ch \in Channels |-> NoHandle]
  /\ closer = [k \in Closers |-> [st |-> "idle", of |-> NoHandle, on |-> CHOOSE ch \in Channels : TRUE]]
  /\ streamer = [s \in Streamers |-> [st |-> "idle", of |-> NoHandle, limit |-> 0, got |-> 0]]
  /\ closing = [h \in Handles |-> "no"] /\ exit = "running" /\ failures = 0

Running == exit \in {"running", "closing"}

----------------------------------------------------------------------------
\* pay_for_data

Price(c) ==
  LET m == Manifest(caller[c].ver)
      mode == SelectMode(m, Options[c])
  IN IF mode \in AllModes THEN m.price[mode] ELSE Absent

ToolCall(p, st) ==
  /\ tool' = [tool EXCEPT ![p] = [@ EXCEPT !.st = st]]
  /\ UNCHANGED <<tools, handle, openSessions, closer, streamer, closing, exit, failures>>

Estimate(p) ==
  /\ tools = "pay" /\ tool[p].st = "idle" /\ Call(<<p, "estimate">>)
  /\ ToolCall(p, "estimate")

\* A price that is known and within max_amount.
PriceAllowed(p) == Price(<<p, "estimate">>) # Absent /\ Price(<<p, "estimate">>) <= MaxAmount[p]

Proceed(p) ==
  /\ tool[p].st = "estimate" /\ HasReturned(<<p, "estimate">>)
  /\ IF PriceAllowed(p) THEN Call(<<p, "pay">>) /\ ToolCall(p, "pay")
                        ELSE UNCHANGED cacheVars /\ ToolCall(p, "refused")

\* pay() refuses session modes, and pays at the price of its own manifest.
Paid(p) ==
  /\ tool[p].st = "pay" /\ HasReturned(<<p, "pay">>)
  /\ LET mode == SelectMode(Manifest(caller[<<p, "pay">>].ver), Options[<<p, "pay">>])
     IN tool' = [tool EXCEPT ![p] = IF mode \in PayModes THEN [st |-> "paid", paid |-> Price(<<p, "pay">>)]
                                                         ELSE [st |-> "refused", paid |-> 0]]
  /\ UNCHANGED <<tools, cacheVars, handle, openSessions, closer, streamer, closing, exit, failures>>

ToolFails(p) ==
  /\ \E c \in {<<p, "estimate">>, <<p, "pay">>} : tool[p].st = c[2] /\ caller[c].st = "rejected"
  /\ ToolCall(p, "refused") /\ UNCHANGED cacheVars

\* Any other code of the process that fetches the manifest.
CallElsewhere(c) ==
  /\ tools = "pay" /\ c \notin Payers \X {"estimate", "pay"} /\ Call(c)
  /\ UNCHANGED <<tools, serverVars>>

----------------------------------------------------------------------------
\* Sessions

SessionStep == tools = "sessions" /\ UNCHANGED <<tools, cacheVars, tool>>

OpenStep(h, became) ==
  /\ Running /\ handle' = [handle EXCEPT ![h] = became]
  /\ SessionStep /\ UNCHANGED <<closer, streamer, closing, exit, failures>>

\* The stream endpoint, or else the only one.
ChosenEndpoint(endpoints) ==
  IF "stream" \in DOMAIN endpoints THEN {"stream"}
  ELSE IF Cardinality(DOMAIN endpoints) = 1 THEN DOMAIN endpoints ELSE {}

\* A path on the same origin that is read with GET: "get", not "post", "elsewhere" or
\* "no path".
Resolves(endpoints) == \E name \in ChosenEndpoint(endpoints) : endpoints[name] = "get"

DepositEnough(deposit, m) == deposit # Absent /\ m.min # Absent => deposit >= m.min

\* The manifest is only read for a deposit or a bare origin, and not verified.
AskToOpen(h) ==
  /\ handle[h].st = "new"
  /\ \E bare \in BOOLEAN, deposit \in Deposits :
       OpenStep(h, [handle[h] EXCEPT !.st = IF bare \/ deposit # Absent THEN "reading" ELSE "opening",
                                     !.bare = bare, !.deposit = deposit])
  /\ UNCHANGED openSessions

\* Once, for the deposit and for the endpoint.
ManifestRead(h) ==
  /\ handle[h].st = "reading"
  /\ \E m \in Listings :
       LET opens == DepositEnough(handle[h].deposit, m) /\ (handle[h].bare => Resolves(m.endpoints))
       IN OpenStep(h, [handle[h] EXCEPT !.st = IF opens THEN "opening" ELSE "refused"])
  /\ UNCHANGED openSessions

\* No secret, nothing to read, or client.openSession() throws.
OpenRefused(h) ==
  /\ handle[h].st \in {"reading", "opening"} /\ OpenStep(h, [handle[h] EXCEPT !.st = "refused"])
  /\ UNCHANGED openSessions

\* client.openSession() answers; the handle of an earlier call is replaced.
Opened(h) ==
  /\ handle[h].st = "opening" /\ OpenStep(h, [handle[h] EXCEPT !.st = "open"])
  /\ openSessions' = [openSessions EXCEPT ![handle[h].on] = h]

StreamStep(s, became) ==
  /\ Running /\ streamer' = [streamer EXCEPT ![s] = became]
  /\ SessionStep /\ UNCHANGED <<handle, openSessions, closer, closing, exit, failures>>

AskToStream(s, ch) ==
  /\ streamer[s].st = "idle" /\ openSessions[ch] # NoHandle
  /\ \E limit \in 1..MaxMessages :
       StreamStep(s, [st |-> "pulling", of |-> openSessions[ch], limit |-> limit, got |-> 0])

Pulled(s) ==
  /\ streamer[s].st = "pulling"
  /\ LET got == streamer[s].got + 1
     IN StreamStep(s, [streamer[s] EXCEPT !.got = got,
                                          !.st = IF got = streamer[s].limit THEN "answered" ELSE "pulling"])

\* The stream is done, or it throws: the answer has the messages pulled so far.
StreamStops(s) ==
  /\ streamer[s].st = "pulling"
  /\ \E st \in {"answered", "failed"} : StreamStep(s, [streamer[s] EXCEPT !.st = st])

AskToClose(k, ch) ==
  /\ Running /\ closer[k].st = "idle" /\ openSessions[ch] # NoHandle
  /\ closer' = [closer EXCEPT ![k] = [st |-> "closing", of |-> openSessions[ch], on |-> ch]]
  /\ SessionStep /\ UNCHANGED <<handle, openSessions, streamer, closing, exit, failures>>

\* The channel is settled, for whoever asked for it.
Settles(h) ==
  /\ Running /\ handle[h].st = "open"
  /\ closing[h] = "pending" \/ \E k \in Closers : closer[k].st = "closing" /\ closer[k].of = h
  /\ handle' = [handle EXCEPT ![h].st = "closed"]
  /\ SessionStep /\ UNCHANGED <<openSessions, closer, streamer, closing, exit, failures>>

\* The table forgets the channel, whichever handle it holds by now.
CloseAnswers(k) ==
  /\ Running /\ closer[k].st = "closing" /\ handle[closer[k].of].st = "closed"
  /\ closer' = [closer EXCEPT ![k].st = "done"]
  /\ openSessions' = [openSessions EXCEPT ![closer[k].on] = NoHandle]
  /\ SessionStep /\ UNCHANGED <<handle, streamer, closing, exit, failures>>

\* close() throws, settled or not; the handle stays in the table.
CloseFails(k) ==
  /\ Running /\ closer[k].st = "closing" /\ failures < MaxFailures
  /\ closer' = [closer EXCEPT ![k].st = "done"] /\ failures' = failures + 1
  /\ SessionStep /\ UNCHANGED <<handle, openSessions, streamer, closing, exit>>

----------------------------------------------------------------------------
\* Shutdown

InTable(h) == openSessions[handle[h].on] = h

Shutdown ==
  /\ exit = "running" /\ exit' = "closing"
  /\ closing' = [h \in Handles |-> IF InTable(h) THEN "pending" ELSE "no"]
  /\ SessionStep /\ UNCHANGED <<handle, openSessions, closer, streamer, failures>>

Tracked(h, st) ==
  /\ exit = "closing" /\ closing[h] = "pending"
  /\ closing' = [closing EXCEPT ![h] = st]
  /\ openSessions' = [openSessions EXCEPT ![handle[h].on] = NoHandle]
  /\ SessionStep /\ UNCHANGED <<handle, closer, streamer, exit>>

ShutdownCloses(h) == handle[h].st = "closed" /\ Tracked(h, "closed") /\ UNCHANGED failures

ShutdownFails(h) == failures < MaxFailures /\ failures' = failures + 1 /\ Tracked(h, "error")

\* Mutant: failures are logged but do not reach the exit code.
ExitCodeOfTimeouts(statuses) == IF "timeout" \in statuses THEN "1" ELSE "0"

ExitCode(statuses) == IF {"error", "timeout"} \cap statuses # {} THEN "1" ELSE "0"

\* Mutant: without the timeout.
ExitWhenClosed ==
  /\ exit = "closing" /\ \A h \in Handles : closing[h] # "pending"
  /\ exit' = ExitCode({closing[h] : h \in Handles})
  /\ SessionStep /\ UNCHANGED <<handle, openSessions, closer, streamer, closing, failures>>

\* All is closed, or the timeout is over and what is pending counts as failed.
Exit ==
  /\ exit = "closing"
  /\ closing' = [h \in Handles |-> IF closing[h] = "pending" THEN "timeout" ELSE closing[h]]
  /\ exit' = ExitCode({closing'[h] : h \in Handles})
  /\ SessionStep /\ UNCHANGED <<handle, openSessions, closer, streamer, failures>>

----------------------------------------------------------------------------
PayStep(p) == Estimate(p) \/ Proceed(p) \/ Paid(p) \/ ToolFails(p)

HandleStep(h) ==
  AskToOpen(h) \/ ManifestRead(h) \/ OpenRefused(h) \/ Opened(h) \/ Settles(h) \/ ShutdownCloses(h) \/ ShutdownFails(h)

StreamerStep(s) == (\E ch \in Channels : AskToStream(s, ch)) \/ Pulled(s) \/ StreamStops(s)

CloserStep(k) == (\E ch \in Channels : AskToClose(k, ch)) \/ CloseAnswers(k) \/ CloseFails(k)

Next ==
  \/ tools = "pay" /\ CacheStep /\ UNCHANGED <<tools, serverVars>>
  \/ \E c \in Callers : CallElsewhere(c)
  \/ \E p \in Payers : PayStep(p)
  \/ \E h \in Handles : HandleStep(h)
  \/ \E s \in Streamers : StreamerStep(s)
  \/ \E k \in Closers : CloserStep(k)
  \/ Shutdown
  \/ Exit

Spec == Init /\ [][Next]_vars

----------------------------------------------------------------------------
TypeOK ==
  /\ tools \in Tools /\ CacheTypeOK
  /\ tool \in [Payers -> [st : {"idle", "estimate", "pay", "paid", "refused"}, paid : Nat]]
  /\ handle \in [Handles -> [st : {"new", "reading", "opening", "open", "closed", "refused"},
                            on : Channels, bare : BOOLEAN, deposit : Deposits \cup {Absent}]]
  /\ streamer \in [Streamers -> [st : {"idle", "pulling", "answered", "failed"}, limit : 0..MaxMessages,
                                of : Handles \cup {NoHandle}, got : 0..MaxMessages]]
  /\ openSessions \in [Channels -> Handles \cup {NoHandle}]
  /\ closer \in [Closers -> [st : {"idle", "closing", "done"}, of : Handles \cup {NoHandle}, on : Channels]]
  /\ closing \in [Handles -> {"no", "pending", "closed", "error", "timeout"}]
  /\ exit \in {"running", "closing", "0", "1"} /\ failures \in 0..MaxFailures
  /\ \A ch \in Channels : openSessions[ch] # NoHandle => handle[openSessions[ch]].on = ch

\* Code 0 means that every session the shutdown found was settled, also when
\* close_session was closing it, failed to, or opened it again meanwhile.
ExitZeroMeansSettled ==
  exit = "0" => \A h \in Handles : closing[h] # "no" => handle[h].st = "closed"

\* A shutdown ends, whether or not close() ever does.
ShutdownExits == exit = "closing" ~> exit \in {"0", "1"}

\* tools.ts: "Maximum amount in USDC to pay".
PaidWithinMaxAmount == \A p \in Payers : tool[p].st = "paid" => tool[p].paid <= MaxAmount[p]

\* A settled exit leaves no session open.
NothingLeftOpen == exit = "0" => \A h \in Handles : handle[h].st \in {"new", "refused", "closed"}
=============================================================================
