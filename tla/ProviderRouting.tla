-------------------------- MODULE ProviderRouting --------------------------
(***************************************************************************)
(* The three provider adapters, routedock() (provider/                     *)
(* routedockMiddleware.ts), routedockFastify() (provider/fastify.ts) and   *)
(* routedockHono() (provider/hono.ts): which payment handler a request     *)
(* reaches, who answers it, and when the application's route runs.  The    *)
(* other side is a client of the SDK that pays for a mode it read in the   *)
(* manifest (RouteDockClient.ts), while the provider may be deployed again *)
(* with another configuration; or somebody who sends any request at all.   *)
(***************************************************************************)
EXTENDS Naturals, FiniteSets, FiniteSetsExt

CONSTANTS
  Adapters,     \* of "express", "fastify", "hono"
  Prices,       \* base units per request or per voucher
  MaxDeploys,   \* bound: deployments after the first
  MaxChanges,   \* bound: modes that one of them adds, drops or prices anew
  MaxRequests   \* bound: requests after the manifest has been read

ASSUME RoutingAssumption ==
  /\ Adapters \subseteq {"express", "fastify", "hono"}
  /\ Prices \subseteq Nat \ {0}
  /\ MaxDeploys \in Nat /\ MaxChanges \in Nat /\ MaxRequests \in Nat

FlatModes    == {"x402", "mpp-charge"}
SessionModes == {"mpp-session", "mpp-session-ws"}
PaymentModes == FlatModes \cup SessionModes

\* The scheme of a challenge and of the credential that answers it.
Scheme(mode) ==
  IF mode \in SessionModes THEN "channel" ELSE IF mode = "x402" THEN "x402" ELSE "charge"

VARIABLES
  site,     \* what is deployed: adapter, modes served with their prices, manifest
  deploys,  \* deployments after the first
  known,    \* the manifest the client holds: a price for each of its modes
  call,     \* the client's call
  web       \* the request at the adapter

vars == <<site, deploys, known, call, web>>

----------------------------------------------------------------------------
\* Configuration

\* A price list is a function from the modes that are priced.
PriceLists(modes) == UNION {[m -> Prices] : m \in (SUBSET modes) \ {{}}}

\* Only hono knows the WebSocket transport.
Offer(adapter) == IF adapter = "hono" THEN PaymentModes ELSE PaymentModes \ {"mpp-session-ws"}

\* Checks 2 and 3: the modes served are the modes advertised, at the same prices.
AssertProviderConfig(options, manifest) ==
  /\ DOMAIN options = DOMAIN manifest
  /\ \A m \in DOMAIN options : options[m] = manifest[m]

\* What an adapter can be constructed with.
Sites ==
  LET Configured(a, options) ==
        {[adapter |-> a, served |-> options, manifest |-> manifest] :
           manifest \in {m \in PriceLists(PaymentModes) : AssertProviderConfig(options, m)}}
  IN UNION {UNION {Configured(a, options) : options \in PriceLists(Offer(a))} : a \in Adapters}

NoRequest == [pc |-> "none", method |-> "GET", hdr |-> "none", price |-> 0, handler |-> "none",
              sent |-> "none", asks |-> 0, next |-> "no", settled |-> "none", runs |-> 0, answers |-> 0]

NoManifest == [m \in {} |-> 0]

Init ==
  /\ site \in Sites
  /\ deploys = 0
  /\ known = NoManifest
  /\ call = [mode |-> "none", pc |-> "new", asked |-> 0, sent |-> 0]
  /\ web = NoRequest

\* The modes of which two price lists say different things.
Changed(a, b) ==
  {m \in PaymentModes : \/ m \in DOMAIN a /\ m \notin DOMAIN b
                        \/ m \in DOMAIN b /\ m \notin DOMAIN a
                        \/ m \in DOMAIN a \cap DOMAIN b /\ a[m] # b[m]}

\* The process is replaced while it has no request at hand.  A deployment before the
\* client has the manifest, or after its last answer, shows it nothing new.
Deploy(s) ==
  /\ deploys < MaxDeploys /\ web.pc \in {"none", "arrived"}
  /\ call.pc \in {"unpaid", "probing", "challenged", "paying", "paid", "closing"}
  /\ s.adapter = site.adapter
  /\ Cardinality(Changed(s.served, site.served)) <= MaxChanges
  /\ site' = s
  /\ deploys' = deploys + 1
  /\ UNCHANGED <<known, call, web>>

----------------------------------------------------------------------------
\* Which handler

\* MPP_MODES: session before charge, and x402 when there is no other.
DefaultMode(modes) ==
  IF "mpp-session" \in modes THEN "mpp-session"
  ELSE IF "mpp-charge" \in modes THEN "mpp-charge" ELSE "x402"

\* The order in which routedockHono() pushes its handlers, and the places it fills.
HandlerOrder == <<"x402", "mpp-charge", "mpp-session", "mpp-session-ws">>
Handlers(modes) == {i \in 1..4 : HandlerOrder[i] \in modes}

PrefersX402(hdr) == hdr \in {"prefer-x402", "x402"}

\* Mutant: the first handler registered is the default one.
HandlerByPosition(adapter, modes, hdr) ==
  IF PrefersX402(hdr) /\ "x402" \in modes THEN "x402" ELSE HandlerOrder[Min(Handlers(modes))]

\* Express and Fastify look the mode up in a map, and fall back on the default.
SelectedMode(modes, hdr) ==
  IF PrefersX402(hdr) /\ "x402" \in modes THEN "x402" ELSE DefaultMode(modes)

\* hono takes the first or the last handler it pushed.
Handler(adapter, modes, hdr) ==
  IF adapter # "hono" THEN SelectedMode(modes, hdr)
  ELSE HandlerOrder[IF PrefersX402(hdr) THEN Min(Handlers(modes)) ELSE Max(Handlers(modes))]

----------------------------------------------------------------------------
\* The adapter

Receive(method, hdr, price) ==
  web' = [NoRequest EXCEPT !.pc = "arrived", !.method = method, !.hdr = hdr, !.price = price]

\* Requests for the manifest and for /health never get to a handler.
RouteRequest ==
  /\ web.pc = "arrived"
  /\ web' = [web EXCEPT !.pc = "handling",
                        !.handler = Handler(site.adapter, DOMAIN site.served, web.hdr)]
  /\ UNCHANGED <<site, deploys, known, call>>

IsSession == web.handler \in SessionModes

\* A session handler closes the channel of any DELETE.
HandleDelete ==
  /\ web.pc = "handling" /\ IsSession /\ web.method = "DELETE"
  /\ \E answer \in {"closed", "rejected"} : web' = [web EXCEPT !.pc = "handled", !.sent = answer]
  /\ UNCHANGED <<site, deploys, known, call>>

\* A credential of the handler's own scheme, for its price.
Presented == web.hdr = Scheme(web.handler) /\ web.price = site.served[web.handler]

Paying == web.pc = "handling" /\ ~(IsSession /\ web.method = "DELETE")

\* No credential, or one that does not verify or settle.
Challenge ==
  /\ Paying
  /\ web' = [web EXCEPT !.pc = "handled", !.sent = Scheme(web.handler),
                        !.asks = site.served[web.handler]]
  /\ UNCHANGED <<site, deploys, known, call>>

\* Verified and settled: next() hands the request on.
PassOn ==
  /\ Paying /\ Presented
  /\ web' = [web EXCEPT !.pc = "handled", !.next = "route", !.settled = web.handler]
  /\ UNCHANGED <<site, deploys, known, call>>

\* An error of the handler: next(err), or a 500 of its own on hono.
HandlerThrows ==
  /\ web.pc = "handling"
  /\ web' = IF site.adapter = "hono"
            THEN [web EXCEPT !.pc = "handled", !.sent = "failed"]
            ELSE [web EXCEPT !.pc = "handled", !.next = "error"]
  /\ UNCHANGED <<site, deploys, known, call>>

\* Mutant: Fastify goes on to the route after any handler that did not fail.
RunsUnhijacked == web.next # "error" /\ (site.adapter = "fastify" \/ web.next = "route")

\* Express calls next() when the handler does, hono awaits it in the handler, and
\* Fastify goes on unless the reply was hijacked because something had been sent.
RunsRoute ==
  IF site.adapter = "fastify" THEN web.next # "error" /\ web.sent = "none" ELSE web.next = "route"

\* The adapter is done: its handler's answer goes out, or the framework's for an
\* error, or the route runs and gives another.
Respond ==
  /\ web.pc = "handled"
  /\ LET handlers == IF web.sent # "none" THEN 1 ELSE 0
         runs == IF RunsRoute THEN 1 ELSE 0
         errors == IF web.next = "error" THEN 1 ELSE 0
     IN web' = [web EXCEPT !.pc = "answered", !.runs = runs,
                           !.sent = CASE web.sent # "none" -> @
                                      [] web.next = "error" -> "failed"
                                      [] OTHER -> "served",
                           !.answers = handlers + runs + errors]
  /\ UNCHANGED <<site, deploys, known, call>>

AdapterStep ==
  \/ RouteRequest
  \/ HandleDelete
  \/ Challenge
  \/ PassOn
  \/ HandlerThrows
  \/ Respond

----------------------------------------------------------------------------
\* The client

\* fetchManifest(), then a mode of the manifest: selected, forced, or the session's.
ChooseMode(mode) ==
  /\ call.pc = "new"
  /\ mode \in DOMAIN site.manifest
  /\ known' = site.manifest
  /\ call' = [call EXCEPT !.mode = mode, !.pc = "unpaid"]
  /\ UNCHANGED <<site, deploys, web>>

SendAs(stage, method, hdr, price) ==
  /\ call.sent < MaxRequests
  /\ Receive(method, hdr, price)
  /\ call' = [call EXCEPT !.pc = stage, !.sent = @ + 1]
  /\ UNCHANGED <<site, deploys, known>>

\* The unpaid request of pay() or of a session's stream; x402 asks for its mode.
Probe ==
  /\ call.pc = "unpaid"
  /\ SendAs("probing", "GET", IF call.mode = "x402" THEN "prefer-x402" ELSE "none", 0)

\* The credential for the challenge, which mppx and the x402 client send again.
Pay ==
  /\ call.pc = "challenged"
  /\ SendAs("paying", "GET", Scheme(call.mode), call.asked)

\* close() of a session that has paid for a voucher.
CloseSession ==
  /\ call.pc = "paid" /\ call.mode \in SessionModes
  /\ SendAs("closing", "DELETE", "none", 0)

\* Mutant: any amount of the right scheme is signed.
AcceptsAny(scheme, asks) == scheme = Scheme(call.mode)

\* checkX402Accept(), checkChargeChallenge() and the guard of the session: the
\* scheme of the mode, at most the price of the manifest, for a session exactly.
Accepts(scheme, asks) ==
  /\ scheme = Scheme(call.mode)
  /\ IF call.mode \in SessionModes THEN asks = known[call.mode] ELSE asks <= known[call.mode]

Ended(stage) == call' = [call EXCEPT !.pc = stage]

\* What the answer makes of the call.
Answered ==
  /\ web.pc = "answered"
  /\ CASE call.pc = "probing" ->
            IF Accepts(web.sent, web.asks)
            THEN call' = [call EXCEPT !.pc = "challenged", !.asked = web.asks]
            ELSE Ended(IF web.sent \in {"x402", "charge", "channel"} THEN "refused" ELSE web.sent)
       [] call.pc = "paying"  -> Ended(IF web.sent = "served" THEN "paid" ELSE "rejected")
       [] call.pc = "closing" -> Ended(IF web.sent = "closed" THEN "closed"
                                       ELSE IF web.sent \in {"rejected", "failed"} THEN "unclosed"
                                       ELSE "misrouted")
       [] OTHER -> UNCHANGED call
  /\ web' = NoRequest
  /\ UNCHANGED <<site, deploys, known>>

ClientStep ==
  \/ \E mode \in PaymentModes : ChooseMode(mode)
  \/ Probe
  \/ Pay
  \/ CloseSession
  \/ Answered

\* A request that is not the client's: any method, any credential.
Stranger ==
  /\ call.pc = "new" /\ web.pc = "none" /\ call.sent < MaxRequests
  /\ \E method \in {"GET", "DELETE"}, hdr \in {"none", "prefer-x402", "x402", "charge", "channel"},
        price \in Prices : Receive(method, hdr, price)
  /\ call' = [call EXCEPT !.sent = @ + 1]
  /\ UNCHANGED <<site, deploys, known>>

Next ==
  \/ ClientStep
  \/ Stranger
  \/ AdapterStep
  \/ \E s \in Sites : Deploy(s)

Spec == Init /\ [][Next]_vars

----------------------------------------------------------------------------
\* Properties

\* On every adapter a request gets one response, and the application's route runs
\* only for a request whose payment a handler of its scheme has settled, whatever the
\* request, and however handler and framework share the reply.
ServedIsPaid ==
  web.pc = "answered" =>
    /\ web.answers = 1
    /\ web.runs = 1 => web.settled # "none" /\ Scheme(web.settled) = web.hdr

\* A client pays no more than the manifest it holds says, whatever is deployed since.
PaidAsPublished ==
  call.pc \in {"paying", "paid"} /\ web.settled # "none" => web.price <= known[call.mode]

MppModes(modes) == modes \ {"x402"}

\* A provider that publishes at most one MPP mode is payable in each mode it
\* publishes, and a session closes at its handler, unless it is deployed again.
PublishedIsPayable ==
  deploys = 0 /\ Cardinality(MppModes(DOMAIN known)) <= 1 =>
    call.pc \notin {"refused", "misrouted"}

\* routedock()'s comment: "enforces payment verification for all three modes (x402,
\* mpp-charge, mpp-session)": a mode the manifest publishes can be paid.
AllModesPayable == deploys = 0 => call.pc # "refused"
=============================================================================
