----------------------- MODULE ProviderRoutingProofs -----------------------
(***************************************************************************)
(* Proofs about the provider adapters, for any set of adapters, any prices *)
(* and any number of requests and deployments: who may run the             *)
(* application's route, what a client pays, and which handler it reaches.  *)
(***************************************************************************)
EXTENDS ProviderRouting, FiniteSetTheorems, TLAPS

AdapterNames == {"express", "fastify", "hono"}
Headers == {"none", "prefer-x402", "x402", "charge", "channel"}
Schemes == {"x402", "charge", "channel"}
Requests ==
  [pc : {"none", "arrived", "handling", "handled", "answered"}, method : {"GET", "DELETE"},
   hdr : Headers, price : Nat, handler : PaymentModes \cup {"none"},
   sent : Schemes \cup {"none", "closed", "rejected", "failed", "served"}, asks : Nat,
   next : {"no", "route", "error"}, settled : PaymentModes \cup {"none"}, runs : Nat, answers : Nat]
Calls ==
  [mode : PaymentModes \cup {"none"},
   pc : {"new", "unpaid", "probing", "challenged", "paying", "paid", "rejected", "closing",
         "closed", "unclosed", "misrouted", "refused", "failed", "served", "none"},
   asked : Nat, sent : Nat]

\* A provider serves what its adapter offers, and publishes what it serves.
SiteOK(s) ==
  /\ s.adapter \in AdapterNames
  /\ DOMAIN s.served # {} /\ DOMAIN s.served \subseteq Offer(s.adapter)
  /\ \A m \in DOMAIN s.served : s.served[m] \in Prices
  /\ DOMAIN s.manifest = DOMAIN s.served
  /\ \A m \in DOMAIN s.served : s.served[m] = s.manifest[m]

\* The handler of a request that has reached one is served; it has either sent an
\* answer of its own or handed the request on, to the route only when it was paid.
WebInv ==
  /\ web \in Requests
  /\ web.pc = "handling" => web.handler \in DOMAIN site.served
  /\ web.pc \in {"none", "arrived", "handling"} =>
       web.sent = "none" /\ web.next = "no" /\ web.settled = "none"
  /\ web.pc = "handled" => (web.sent = "none") <=> (web.next # "no")
  /\ web.next = "route" => web.settled # "none" /\ Scheme(web.settled) = web.hdr
  /\ ServedIsPaid

\* The client has the price of its mode, and pays no more than that.
CallInv ==
  /\ call \in Calls
  /\ call.pc # "new" => call.mode \in DOMAIN known /\ known[call.mode] \in Nat
  /\ call.pc = "challenged" => call.asked <= known[call.mode]
  /\ call.pc = "paying" => web.price <= known[call.mode]
  /\ call.pc = "paid" => web.pc = "none"

\* The manifest the client holds is the one of the provider that it talks to, which
\* publishes at most one MPP mode.
Covered == deploys = 0 /\ Cardinality(MppModes(DOMAIN known)) <= 1

\* The header by which a client asks for its mode.
AsksFor(mode) == IF mode = "x402" THEN "prefer-x402" ELSE "none"

\* A request without a payment is at the handler of the client's mode, and gets
\* that handler's challenge or none.
ProbeInv ==
  call.pc = "probing" =>
    /\ web.pc # "none" /\ web.method = "GET" /\ web.hdr = AsksFor(call.mode)
    /\ web.pc # "arrived" => web.handler = call.mode
    /\ web.next # "route"
    /\ web.sent \in {"none", "failed", Scheme(call.mode)}
    /\ web.sent = Scheme(call.mode) => web.asks = known[call.mode]
    /\ web.pc = "answered" => web.sent # "none"

\* The DELETE of a session is at the session's handler, and gets its answer.
CloseInv ==
  call.pc = "closing" =>
    /\ call.mode \in SessionModes
    /\ web.pc # "none" /\ web.method = "DELETE" /\ web.hdr = "none"
    /\ web.pc # "arrived" => web.handler = call.mode
    /\ web.next # "route"
    /\ web.sent \in {"none", "failed", "closed", "rejected"}
    /\ web.pc = "answered" => web.sent # "none"

RoutingInv ==
  /\ SiteOK(site) /\ deploys \in Nat
  /\ WebInv /\ CallInv
  /\ deploys = 0 /\ call.pc # "new" => known = site.manifest
  /\ Covered => ProbeInv /\ CloseInv
  /\ PublishedIsPayable

----------------------------------------------------------------------------
\* Configurations and handlers

\* Whatever a provider can be constructed with serves something its adapter offers,
\* at the prices of its manifest.
LEMMA SitesAreOK == ASSUME NEW s \in Sites PROVE SiteOK(s)
<1> DEFINE Configured(a, options) ==
             {[adapter |-> a, served |-> options, manifest |-> manifest] :
                manifest \in {m \in PriceLists(PaymentModes) : AssertProviderConfig(options, m)}}
<1>1. PICK a \in Adapters : s \in UNION {Configured(a, options) : options \in PriceLists(Offer(a))}
  BY DEF Sites
<1>2. PICK options \in PriceLists(Offer(a)) : s \in Configured(a, options) BY <1>1
<1>3. PICK manifest \in PriceLists(PaymentModes) :
        /\ AssertProviderConfig(options, manifest)
        /\ s = [adapter |-> a, served |-> options, manifest |-> manifest]
  BY <1>2
<1>4. a \in AdapterNames BY RoutingAssumption DEF AdapterNames
<1>5. PICK m \in (SUBSET Offer(a)) \ {{}} : options \in [m -> Prices] BY DEF PriceLists
<1>6. DOMAIN options = m /\ \A x \in m : options[x] \in Prices BY <1>5
<1> QED BY <1>3, <1>4, <1>5, <1>6 DEF SiteOK, AssertProviderConfig

\* No adapter offers anything but the four modes, and only hono the last one.
LEMMA OfferedModes ==
  ASSUME NEW a PROVE Offer(a) \subseteq PaymentModes /\ (a # "hono" => "mpp-session-ws" \notin Offer(a))
BY DEF Offer

\* The places that hono's handlers fill are those of the modes it serves.
LEMMA FilledPlaces ==
  ASSUME NEW modes \in SUBSET PaymentModes
  PROVE  /\ Handlers(modes) \subseteq 1..4
         /\ 1 \in Handlers(modes) <=> "x402" \in modes
         /\ 2 \in Handlers(modes) <=> "mpp-charge" \in modes
         /\ 3 \in Handlers(modes) <=> "mpp-session" \in modes
         /\ 4 \in Handlers(modes) <=> "mpp-session-ws" \in modes
BY DEF Handlers, HandlerOrder

\* The first and the last of the places that are filled.
LEMMA EndPlaces ==
  ASSUME NEW S \in SUBSET (1..4), S # {}
  PROVE  /\ Min(S) \in S /\ \A i \in S : Min(S) <= i
         /\ Max(S) \in S /\ \A i \in S : Max(S) >= i
<1>1. \E x \in S : \A y \in S : x <= y
  <2>1. CASE 1 \in S BY <2>1
  <2>2. CASE 1 \notin S /\ 2 \in S BY <2>2
  <2>3. CASE 1 \notin S /\ 2 \notin S /\ 3 \in S BY <2>3
  <2>4. CASE 1 \notin S /\ 2 \notin S /\ 3 \notin S
    <3>1. \A x \in S : x = 4 BY <2>4
    <3>2. 4 \in S BY <3>1
    <3> QED BY <3>1, <3>2
  <2> QED BY <2>1, <2>2, <2>3, <2>4
<1>2. \E x \in S : \A y \in S : x >= y
  <2>1. CASE 4 \in S BY <2>1
  <2>2. CASE 4 \notin S /\ 3 \in S BY <2>2
  <2>3. CASE 4 \notin S /\ 3 \notin S /\ 2 \in S BY <2>3
  <2>4. CASE 4 \notin S /\ 3 \notin S /\ 2 \notin S
    <3>1. \A x \in S : x = 1 BY <2>4
    <3>2. 1 \in S BY <3>1
    <3> QED BY <3>1, <3>2
  <2> QED BY <2>1, <2>2, <2>3, <2>4
<1> QED BY <1>1, <1>2 DEF Min, Max

\* Every request reaches a handler of a mode that the provider serves.
LEMMA HandlerIsServed ==
  ASSUME NEW a \in AdapterNames, NEW modes \in SUBSET Offer(a), modes # {}, NEW hdr
  PROVE  Handler(a, modes, hdr) \in modes
<1>1. modes \in SUBSET PaymentModes /\ (a # "hono" => "mpp-session-ws" \notin modes) BY OfferedModes
<1>2. CASE a # "hono"
  <2>1. DefaultMode(modes) \in modes
    <3>1. \/ "mpp-session" \in modes
          \/ "mpp-session" \notin modes /\ "mpp-charge" \in modes
          \/ "mpp-session" \notin modes /\ "mpp-charge" \notin modes /\ "x402" \in modes
      BY <1>1, <1>2 DEF PaymentModes, FlatModes, SessionModes
    <3> QED BY <3>1 DEF DefaultMode
  <2> QED BY <1>2, <2>1 DEF Handler, SelectedMode
<1>3. CASE a = "hono"
  <2>1. Handlers(modes) \in SUBSET (1..4) BY <1>1, FilledPlaces
  <2>2. Handlers(modes) # {}
    BY <1>1, FilledPlaces DEF PaymentModes, FlatModes, SessionModes
  <2>3. Min(Handlers(modes)) \in Handlers(modes) /\ Max(Handlers(modes)) \in Handlers(modes)
    BY <2>1, <2>2, EndPlaces
  <2>4. \A i \in Handlers(modes) : HandlerOrder[i] \in modes BY DEF Handlers
  <2> QED BY <1>3, <2>3, <2>4 DEF Handler
<1> QED BY <1>2, <1>3

\* There are finitely many modes, so of at most one MPP mode any two are the same.
LEMMA OneMppMode ==
  ASSUME NEW modes \in SUBSET PaymentModes, Cardinality(MppModes(modes)) <= 1,
         NEW m \in MppModes(modes), NEW n \in MppModes(modes)
  PROVE  m = n
<1>1. IsFiniteSet(PaymentModes)
  <2>1. PaymentModes = {"x402", "mpp-charge", "mpp-session", "mpp-session-ws"}
    BY DEF PaymentModes, FlatModes, SessionModes
  <2>2. IsFiniteSet({}) BY FS_EmptySet
  <2>3. IsFiniteSet({} \cup {"x402"}) BY <2>2, FS_AddElement
  <2>4. IsFiniteSet({} \cup {"x402"} \cup {"mpp-charge"}) BY <2>3, FS_AddElement
  <2>5. IsFiniteSet({} \cup {"x402"} \cup {"mpp-charge"} \cup {"mpp-session"}) BY <2>4, FS_AddElement
  <2>6. IsFiniteSet({} \cup {"x402"} \cup {"mpp-charge"} \cup {"mpp-session"} \cup {"mpp-session-ws"})
    BY <2>5, FS_AddElement
  <2>7. PaymentModes = {} \cup {"x402"} \cup {"mpp-charge"} \cup {"mpp-session"} \cup {"mpp-session-ws"}
    BY <2>1
  <2> QED BY <2>6, <2>7
<1>2. MppModes(modes) \subseteq PaymentModes BY DEF MppModes
<1>3. IsFiniteSet(MppModes(modes)) BY <1>1, <1>2, FS_Subset
<1> SUFFICES ASSUME m # n PROVE FALSE OBVIOUS
<1>4. IsFiniteSet(MppModes(modes) \ {m}) /\ Cardinality(MppModes(modes) \ {m}) = Cardinality(MppModes(modes)) - 1
  BY <1>3, FS_RemoveElement
<1>5. n \in MppModes(modes) \ {m} OBVIOUS
<1>6. Cardinality(MppModes(modes) \ {m}) # 0 BY <1>4, <1>5, FS_EmptySet
<1>7. Cardinality(MppModes(modes) \ {m}) \in Nat /\ Cardinality(MppModes(modes)) \in Nat
  BY <1>3, <1>4, FS_CardinalityType
<1> QED BY <1>4, <1>6, <1>7

\* With at most one MPP mode served, a request is at the handler of the mode it asks for.
LEMMA HandlerIsAskedFor ==
  ASSUME NEW a \in AdapterNames, NEW modes \in SUBSET Offer(a), NEW mode \in modes,
         Cardinality(MppModes(modes)) <= 1
  PROVE  Handler(a, modes, AsksFor(mode)) = mode
<1>1. modes \in SUBSET PaymentModes BY OfferedModes
<1>2. ASSUME mode # "x402", NEW n \in modes \ {"x402"} PROVE n = mode
  <2>1. mode \in MppModes(modes) /\ n \in MppModes(modes) BY <1>2 DEF MppModes
  <2> QED BY <1>1, <2>1, OneMppMode
<1>3. CASE mode = "x402"
  <2>1. PrefersX402(AsksFor(mode)) BY <1>3 DEF AsksFor, PrefersX402
  <2>2. CASE a # "hono" BY <1>3, <2>1, <2>2 DEF Handler, SelectedMode
  <2>3. CASE a = "hono"
    <3>1. Handlers(modes) \in SUBSET (1..4) /\ 1 \in Handlers(modes) BY <1>1, <1>3, FilledPlaces
    <3>2. Min(Handlers(modes)) = 1 BY <3>1, EndPlaces
    <3> QED BY <1>3, <2>1, <2>3, <3>2 DEF Handler, HandlerOrder
  <2> QED BY <2>2, <2>3
<1>4. CASE mode # "x402"
  <2>1. ~PrefersX402(AsksFor(mode)) BY <1>4 DEF AsksFor, PrefersX402
  <2>2. CASE a # "hono"
    <3>1. mode \in {"mpp-charge", "mpp-session"}
      BY <1>1, <1>4, <2>2, OfferedModes DEF PaymentModes, FlatModes, SessionModes
    <3>2. "mpp-charge" \in modes => mode = "mpp-charge" BY <1>2, <1>4
    <3>3. "mpp-session" \in modes => mode = "mpp-session" BY <1>2, <1>4
    <3>4. DefaultMode(modes) = mode
      <4>1. CASE mode = "mpp-session"
        <5>1. "mpp-session" \in modes BY <4>1
        <5> QED BY <4>1, <5>1 DEF DefaultMode
      <4>2. CASE mode = "mpp-charge"
        <5>1. "mpp-session" \notin modes /\ "mpp-charge" \in modes BY <3>3, <4>2
        <5> QED BY <4>2, <5>1 DEF DefaultMode
      <4> QED BY <3>1, <4>1, <4>2
    <3> QED BY <2>1, <2>2, <3>4 DEF Handler, SelectedMode
  <2>3. CASE a = "hono"
    <3>1. Handlers(modes) \in SUBSET (1..4) BY <1>1, FilledPlaces
    <3>2. PICK i \in Handlers(modes) : HandlerOrder[i] = mode /\ i > 1
      BY <1>1, <1>4, FilledPlaces DEF PaymentModes, FlatModes, SessionModes, HandlerOrder
    <3>3. Max(Handlers(modes)) \in Handlers(modes) /\ Max(Handlers(modes)) >= i BY <3>1, EndPlaces
    <3>4. HandlerOrder[Max(Handlers(modes))] \in modes BY <3>3 DEF Handlers
    <3>5. Max(Handlers(modes)) \in {2, 3, 4} BY <3>1, <3>2, <3>3
    <3>6. HandlerOrder[Max(Handlers(modes))] # "x402" BY <3>5 DEF HandlerOrder
    <3>7. HandlerOrder[Max(Handlers(modes))] = mode BY <1>2, <1>4, <3>4, <3>6
    <3> QED BY <2>1, <2>3, <3>7 DEF Handler
  <2> QED BY <2>2, <2>3
<1> QED BY <1>3, <1>4

----------------------------------------------------------------------------
\* The adapter

\* Nobody has asked for anything at the start.
LEMMA RoutingInitInv == Init => RoutingInv
<1> SUFFICES ASSUME Init PROVE RoutingInv OBVIOUS
<1>1. SiteOK(site) /\ deploys \in Nat BY SitesAreOK DEF Init
<1>2. WebInv BY DEF Init, NoRequest, WebInv, Requests, Headers, Schemes, ServedIsPaid
<1>3. CallInv BY DEF Init, CallInv, Calls
<1>4. ProbeInv /\ CloseInv BY DEF Init, ProbeInv, CloseInv
<1>5. call.pc = "new" /\ PublishedIsPayable BY DEF Init, PublishedIsPayable
<1> QED BY <1>1, <1>2, <1>3, <1>4, <1>5 DEF RoutingInv

\* The adapter's steps are about the request at hand.
LEMMA AdapterKeeps ==
  ASSUME RoutingInv, UNCHANGED <<site, deploys, known, call>>, WebInv', web.pc # "none",
         web'.price = web.price, Covered => ProbeInv' /\ CloseInv'
  PROVE  RoutingInv'
<1>1. CallInv' BY DEF RoutingInv, CallInv
<1>2. PublishedIsPayable' BY DEF RoutingInv, PublishedIsPayable
<1>3. Covered' <=> Covered BY DEF Covered
<1>4. SiteOK(site') BY DEF RoutingInv
<1> QED BY <1>1, <1>2, <1>3, <1>4 DEF RoutingInv

\* The request gets to the handler of the mode that it asks for.
LEMMA RouteRequestInv == ASSUME RoutingInv, RouteRequest PROVE RoutingInv'
<1> DEFINE reached == Handler(site.adapter, DOMAIN site.served, web.hdr)
<1>1. web.pc = "arrived" /\ web \in Requests /\ UNCHANGED <<site, deploys, known, call>>
  BY DEF RouteRequest, RoutingInv, WebInv
<1>2. web' = [web EXCEPT !.pc = "handling", !.handler = reached] BY DEF RouteRequest
<1>3. site.adapter \in AdapterNames /\ DOMAIN site.served # {} /\ DOMAIN site.served \in SUBSET Offer(site.adapter)
  BY DEF RoutingInv, SiteOK
<1>4. reached \in DOMAIN site.served /\ reached \in PaymentModes
  <2>1. reached \in DOMAIN site.served BY <1>3, HandlerIsServed
  <2> QED BY <1>3, <2>1, OfferedModes
<1>5. ASSUME Covered, call.pc # "new", web.hdr = AsksFor(call.mode) PROVE reached = call.mode
  <2>1. DOMAIN known = DOMAIN site.served /\ call.mode \in DOMAIN known
    BY <1>5 DEF RoutingInv, CallInv, Covered, SiteOK
  <2>2. Cardinality(MppModes(DOMAIN site.served)) <= 1 BY <1>5, <2>1 DEF Covered
  <2> QED BY <1>3, <1>5, <2>1, <2>2, HandlerIsAskedFor
<1> HIDE DEF reached
<1>6. /\ web' \in Requests /\ web'.pc = "handling" /\ web'.handler = reached /\ web'.hdr = web.hdr
      /\ web'.method = web.method /\ web'.price = web.price /\ web'.sent = web.sent
      /\ web'.next = web.next /\ web'.settled = web.settled /\ web'.asks = web.asks
  BY <1>1, <1>2, <1>4 DEF Requests
<1>7. WebInv' BY <1>1, <1>4, <1>6 DEF RoutingInv, WebInv, ServedIsPaid
<1>8. Covered => ProbeInv' BY <1>1, <1>5, <1>6 DEF RoutingInv, ProbeInv
<1>9. Covered => CloseInv'
  <2>1. call.mode \in SessionModes => AsksFor(call.mode) = "none" BY DEF SessionModes, AsksFor
  <2> QED BY <1>1, <1>5, <1>6, <2>1 DEF RoutingInv, CloseInv
<1> QED BY <1>1, <1>6, <1>7, <1>8, <1>9, AdapterKeeps

\* A DELETE at a session handler is none of the client's challenges.
LEMMA HandleDeleteInv == ASSUME RoutingInv, HandleDelete PROVE RoutingInv'
<1>1. /\ web.pc = "handling" /\ web.method = "DELETE" /\ web \in Requests
      /\ web.handler \in SessionModes /\ UNCHANGED <<site, deploys, known, call>>
  BY DEF HandleDelete, IsSession, RoutingInv, WebInv
<1>2. PICK answer \in {"closed", "rejected"} : web' = [web EXCEPT !.pc = "handled", !.sent = answer]
  BY DEF HandleDelete
<1>3. /\ web' \in Requests /\ web'.pc = "handled" /\ web'.handler = web.handler /\ web'.hdr = web.hdr
      /\ web'.method = web.method /\ web'.price = web.price /\ web'.sent = answer
      /\ web'.next = web.next /\ web'.settled = web.settled /\ web'.asks = web.asks
  BY <1>1, <1>2 DEF Requests, Schemes
<1>4. WebInv' BY <1>1, <1>3 DEF RoutingInv, WebInv, ServedIsPaid
<1>5. Covered => ProbeInv' BY <1>1, <1>3 DEF RoutingInv, ProbeInv
<1>6. Covered => CloseInv' BY <1>1, <1>3 DEF RoutingInv, CloseInv
<1> QED BY <1>1, <1>3, <1>4, <1>5, <1>6, AdapterKeeps

\* The challenge of the handler asks for the price that is served.
LEMMA ChallengeInv == ASSUME RoutingInv, Challenge PROVE RoutingInv'
<1> DEFINE scheme == Scheme(web.handler)
           price == site.served[web.handler]
<1>1. /\ web.pc = "handling" /\ ~(web.handler \in SessionModes /\ web.method = "DELETE")
      /\ web \in Requests /\ web.handler \in DOMAIN site.served /\ UNCHANGED <<site, deploys, known, call>>
  BY DEF Challenge, Paying, IsSession, RoutingInv, WebInv
<1>2. web' = [web EXCEPT !.pc = "handled", !.sent = scheme, !.asks = price] BY DEF Challenge
<1>3. scheme \in Schemes BY DEF Scheme, Schemes
<1>4. price \in Nat BY <1>1, RoutingAssumption DEF RoutingInv, SiteOK
<1>5. ASSUME Covered, call.pc = "probing" PROVE scheme = Scheme(call.mode) /\ price = known[call.mode]
  <2>1. web.handler = call.mode /\ known = site.manifest BY <1>1, <1>5 DEF RoutingInv, ProbeInv, Covered
  <2> QED BY <1>1, <2>1 DEF RoutingInv, SiteOK
<1> HIDE DEF scheme, price
<1>6. /\ web' \in Requests /\ web'.pc = "handled" /\ web'.handler = web.handler /\ web'.hdr = web.hdr
      /\ web'.method = web.method /\ web'.price = web.price /\ web'.sent = scheme
      /\ web'.next = web.next /\ web'.settled = web.settled /\ web'.asks = price
  BY <1>1, <1>2, <1>3, <1>4 DEF Requests
<1>7. scheme # "none" BY <1>3 DEF Schemes
<1>8. WebInv' BY <1>1, <1>6, <1>7 DEF RoutingInv, WebInv, ServedIsPaid
<1>9. Covered => ProbeInv' BY <1>1, <1>5, <1>6 DEF RoutingInv, ProbeInv
<1>10. Covered => CloseInv' BY <1>1, <1>6 DEF RoutingInv, CloseInv
<1> QED BY <1>1, <1>6, <1>8, <1>9, <1>10, AdapterKeeps

\* A request without a credential is handed on by no handler.
LEMMA PassOnInv == ASSUME RoutingInv, PassOn PROVE RoutingInv'
<1>1. /\ web.pc = "handling" /\ ~(web.handler \in SessionModes /\ web.method = "DELETE")
      /\ web.hdr = Scheme(web.handler) /\ web \in Requests /\ web.handler \in DOMAIN site.served
      /\ UNCHANGED <<site, deploys, known, call>>
  BY DEF PassOn, Paying, Presented, IsSession, RoutingInv, WebInv
<1>2. web' = [web EXCEPT !.pc = "handled", !.next = "route", !.settled = web.handler] BY DEF PassOn
<1>3. web.handler \in PaymentModes BY <1>1, OfferedModes DEF RoutingInv, SiteOK
<1>4. web.handler # "none" /\ web.hdr \notin {"none", "prefer-x402"}
  BY <1>1, <1>3 DEF PaymentModes, FlatModes, SessionModes, Scheme
<1>5. /\ web' \in Requests /\ web'.pc = "handled" /\ web'.handler = web.handler /\ web'.hdr = web.hdr
      /\ web'.method = web.method /\ web'.price = web.price /\ web'.sent = web.sent
      /\ web'.next = "route" /\ web'.settled = web.handler /\ web'.asks = web.asks
  BY <1>1, <1>2, <1>3 DEF Requests
<1>6. WebInv' BY <1>1, <1>4, <1>5 DEF RoutingInv, WebInv, ServedIsPaid
<1>7. Covered => ProbeInv' /\ CloseInv'
  <2>1. Covered => call.pc \notin {"probing", "closing"}
    BY <1>4 DEF RoutingInv, ProbeInv, CloseInv, AsksFor
  <2> QED BY <1>1, <2>1 DEF ProbeInv, CloseInv
<1> QED BY <1>1, <1>5, <1>6, <1>7, AdapterKeeps

\* An error is no answer of the handler's, or a failure.
LEMMA HandlerThrowsInv == ASSUME RoutingInv, HandlerThrows PROVE RoutingInv'
<1>1. /\ web.pc = "handling" /\ web \in Requests /\ web.sent = "none" /\ web.next = "no"
      /\ UNCHANGED <<site, deploys, known, call>>
  BY DEF HandlerThrows, RoutingInv, WebInv
<1>2. \/ web' = [web EXCEPT !.pc = "handled", !.sent = "failed"]
      \/ web' = [web EXCEPT !.pc = "handled", !.next = "error"]
  BY DEF HandlerThrows
<1>3. /\ web' \in Requests /\ web'.pc = "handled" /\ web'.handler = web.handler /\ web'.hdr = web.hdr
      /\ web'.method = web.method /\ web'.price = web.price
      /\ web'.settled = web.settled /\ web'.asks = web.asks
      /\ \/ web'.sent = "failed" /\ web'.next = "no"
         \/ web'.sent = "none" /\ web'.next = "error"
  BY <1>1, <1>2 DEF Requests
<1>4. WebInv' BY <1>1, <1>3 DEF RoutingInv, WebInv, ServedIsPaid
<1>5. Scheme(call.mode) \in Schemes BY DEF Scheme, Schemes
<1>6. Covered => ProbeInv' BY <1>1, <1>3, <1>5 DEF RoutingInv, ProbeInv, Schemes
<1>7. Covered => CloseInv' BY <1>1, <1>3 DEF RoutingInv, CloseInv
<1> QED BY <1>1, <1>3, <1>4, <1>6, <1>7, AdapterKeeps

\* There is one answer: the handler's, the framework's, or the route's.
LEMMA RespondInv == ASSUME RoutingInv, Respond PROVE RoutingInv'
<1> DEFINE handlers == IF web.sent # "none" THEN 1 ELSE 0
           runs == IF RunsRoute THEN 1 ELSE 0
           errors == IF web.next = "error" THEN 1 ELSE 0
           answer == CASE web.sent # "none" -> web.sent
                       [] web.next = "error" -> "failed"
                       [] OTHER -> "served"
<1>1. /\ web.pc = "handled" /\ web \in Requests /\ ((web.sent = "none") <=> (web.next # "no"))
      /\ web.next \in {"no", "route", "error"} /\ UNCHANGED <<site, deploys, known, call>>
  BY DEF Respond, RoutingInv, WebInv, Requests
<1>2. web' = [web EXCEPT !.pc = "answered", !.runs = runs, !.sent = answer, !.answers = handlers + runs + errors]
  BY DEF Respond
<1>3. RunsRoute <=> web.next = "route" BY <1>1 DEF RunsRoute
<1>4. handlers + runs + errors = 1 /\ runs \in Nat /\ (runs = 1 => web.next = "route")
  <2>1. CASE web.next = "no" BY <1>1, <1>3, <2>1
  <2>2. CASE web.next = "route" BY <1>1, <1>3, <2>2
  <2>3. CASE web.next = "error" BY <1>1, <1>3, <2>3
  <2> QED BY <1>1, <2>1, <2>2, <2>3
<1>5. /\ answer \in Schemes \cup {"none", "closed", "rejected", "failed", "served"}
      /\ answer # "none" /\ (web.next # "route" => answer = web.sent \/ answer = "failed")
  <2>1. CASE web.sent # "none"
    <3>1. answer = web.sent BY <1>1, <2>1
    <3> QED BY <1>1, <2>1, <3>1 DEF Requests
  <2>2. CASE web.sent = "none" /\ web.next = "error"
    <3>1. answer = "failed" BY <2>2
    <3> QED BY <3>1
  <2>3. CASE web.sent = "none" /\ web.next = "route"
    <3>1. answer = "served" BY <2>3
    <3> QED BY <2>3, <3>1
  <2> QED BY <1>1, <2>1, <2>2, <2>3
<1> DEFINE count == handlers + runs + errors
<1>6. count = 1 BY <1>4
<1>7. web' = [web EXCEPT !.pc = "answered", !.runs = runs, !.sent = answer, !.answers = count] BY <1>2
<1> HIDE DEF runs, answer, count
<1>8. /\ web' \in Requests /\ web'.pc = "answered" /\ web'.handler = web.handler /\ web'.hdr = web.hdr
      /\ web'.method = web.method /\ web'.price = web.price /\ web'.sent = answer
      /\ web'.next = web.next /\ web'.settled = web.settled /\ web'.asks = web.asks
      /\ web'.runs = runs /\ web'.answers = 1
  BY <1>1, <1>4, <1>5, <1>6, <1>7 DEF Requests
<1>9. WebInv' BY <1>1, <1>4, <1>8 DEF RoutingInv, WebInv, ServedIsPaid
<1>10. Scheme(call.mode) \in Schemes BY DEF Scheme, Schemes
<1>11. Covered => ProbeInv' BY <1>1, <1>5, <1>8, <1>10 DEF RoutingInv, ProbeInv, Schemes
<1>12. Covered => CloseInv' BY <1>1, <1>5, <1>8 DEF RoutingInv, CloseInv
<1> QED BY <1>1, <1>8, <1>9, <1>11, <1>12, AdapterKeeps

----------------------------------------------------------------------------
\* The client, others, and deployments

\* A request that has just come in has reached nobody.
LEMMA Received ==
  ASSUME NEW method \in {"GET", "DELETE"}, NEW hdr \in Headers, NEW price \in Nat, Receive(method, hdr, price)
  PROVE  /\ web' \in Requests /\ web'.pc = "arrived" /\ web'.method = method /\ web'.hdr = hdr
         /\ web'.price = price /\ web'.sent = "none" /\ web'.next = "no" /\ web'.settled = "none"
BY DEF Receive, NoRequest, Requests

\* The client's next request, which is for its mode.
LEMMA SendKeeps ==
  ASSUME RoutingInv, NEW stage \in {"probing", "paying", "closing"}, NEW method \in {"GET", "DELETE"},
         NEW hdr \in Headers, NEW price \in Nat, call.pc # "new", SendAs(stage, method, hdr, price),
         stage = "probing" => method = "GET" /\ hdr = AsksFor(call.mode),
         stage = "paying"  => price <= known[call.mode],
         stage = "closing" => method = "DELETE" /\ hdr = "none" /\ call.mode \in SessionModes
  PROVE  RoutingInv'
<1>1. /\ Receive(method, hdr, price) /\ call' = [call EXCEPT !.pc = stage, !.sent = @ + 1]
      /\ UNCHANGED <<site, deploys, known>>
  BY DEF SendAs
<1>2. call \in Calls BY DEF RoutingInv, CallInv
<1>3. call' \in Calls /\ call'.pc = stage /\ call'.mode = call.mode /\ call'.asked = call.asked
  <2>1. call.sent \in Nat /\ call.sent + 1 \in Nat BY <1>2 DEF Calls
  <2>2. call' = [[call EXCEPT !.pc = stage] EXCEPT !.sent = call.sent + 1] BY <1>1, <1>2 DEF Calls
  <2>3. stage \in {"probing", "paying", "closing"} OBVIOUS
  <2> QED BY <1>2, <2>1, <2>2, <2>3 DEF Calls
<1>4. /\ web' \in Requests /\ web'.pc = "arrived" /\ web'.method = method /\ web'.hdr = hdr
      /\ web'.price = price /\ web'.sent = "none" /\ web'.next = "no" /\ web'.settled = "none"
  BY <1>1, Received
<1>5. WebInv' BY <1>4 DEF WebInv, ServedIsPaid
<1>6. CallInv' BY <1>1, <1>3, <1>4 DEF RoutingInv, CallInv
<1>7. Scheme(call.mode) # "none" BY DEF Scheme
<1>8. ProbeInv' BY <1>1, <1>3, <1>4, <1>7 DEF ProbeInv
<1>9. CloseInv' BY <1>1, <1>3, <1>4 DEF CloseInv
<1>10. PublishedIsPayable' BY <1>3 DEF PublishedIsPayable
<1>11. (deploys = 0 /\ call.pc # "new" => known = site.manifest)' BY <1>1, <1>3 DEF RoutingInv
<1>12. SiteOK(site') /\ deploys' \in Nat BY <1>1 DEF RoutingInv
<1> QED BY <1>5, <1>6, <1>8, <1>9, <1>10, <1>11, <1>12 DEF RoutingInv

\* The manifest that the client reads is the one that is published.
LEMMA ChooseModeInv == ASSUME RoutingInv, NEW mode \in PaymentModes, ChooseMode(mode) PROVE RoutingInv'
<1>1. /\ mode \in DOMAIN site.manifest /\ known' = site.manifest
      /\ call' = [call EXCEPT !.mode = mode, !.pc = "unpaid"] /\ UNCHANGED <<site, deploys, web>>
  BY DEF ChooseMode
<1>2. call \in Calls BY DEF RoutingInv, CallInv
<1>3. call' \in Calls /\ call'.pc = "unpaid" /\ call'.mode = mode BY <1>1, <1>2 DEF Calls
<1>4. known'[mode] \in Nat BY <1>1, RoutingAssumption DEF RoutingInv, SiteOK
<1>5. WebInv' BY <1>1 DEF RoutingInv, WebInv, ServedIsPaid
<1>6. CallInv' BY <1>1, <1>3, <1>4 DEF CallInv
<1>7. ProbeInv' /\ CloseInv' BY <1>3 DEF ProbeInv, CloseInv
<1>8. PublishedIsPayable' BY <1>3 DEF PublishedIsPayable
<1>9. SiteOK(site') /\ deploys' \in Nat BY <1>1 DEF RoutingInv
<1> QED BY <1>1, <1>5, <1>6, <1>7, <1>8, <1>9 DEF RoutingInv

\* The unpaid request asks for the mode.
LEMMA ProbeKeeps == ASSUME RoutingInv, Probe PROVE RoutingInv'
<1>1. call.pc = "unpaid" /\ SendAs("probing", "GET", AsksFor(call.mode), 0) BY DEF Probe, AsksFor
<1>2. AsksFor(call.mode) \in Headers BY DEF AsksFor, Headers
<1> QED BY <1>1, <1>2, SendKeeps

\* The payment is of what was asked, which is no more than published.
LEMMA PayKeeps == ASSUME RoutingInv, Pay PROVE RoutingInv'
<1>1. call.pc = "challenged" /\ SendAs("paying", "GET", Scheme(call.mode), call.asked) BY DEF Pay
<1>2. Scheme(call.mode) \in Headers BY DEF Scheme, Headers
<1>3. call.asked \in Nat /\ call.asked <= known[call.mode] BY <1>1 DEF RoutingInv, CallInv, Calls
<1> QED BY <1>1, <1>2, <1>3, SendKeeps

\* Only a session is closed.
LEMMA CloseSessionKeeps == ASSUME RoutingInv, CloseSession PROVE RoutingInv'
<1>1. call.pc = "paid" /\ call.mode \in SessionModes /\ SendAs("closing", "DELETE", "none", 0)
  BY DEF CloseSession
<1> QED BY <1>1, SendKeeps DEF Headers

\* An answer makes the call go on: to a payment when the challenge is the mode's and
\* asks no more than published, which it is and does when one MPP mode is published.
LEMMA AnsweredInv == ASSUME RoutingInv, Answered PROVE RoutingInv'
<1>1. web.pc = "answered" /\ web' = NoRequest /\ UNCHANGED <<site, deploys, known>> BY DEF Answered
<1>2. call \in Calls /\ web \in Requests BY DEF RoutingInv, CallInv, WebInv
<1>3. /\ web' \in Requests /\ web'.pc = "none" /\ web'.sent = "none" /\ web'.next = "no" /\ web'.settled = "none"
  BY <1>1 DEF NoRequest, Requests, Headers, Schemes
<1>4. WebInv' BY <1>3 DEF WebInv, ServedIsPaid
<1> DEFINE Stages == {"paid", "rejected", "closed", "unclosed", "misrouted", "refused", "failed", "served", "none"}
<1>5. /\ call' \in Calls /\ call'.mode = call.mode
      /\ \/ UNCHANGED call /\ call.pc \notin {"probing", "paying", "closing"}
         \/ call.pc \in {"probing", "paying", "closing"} /\ call'.pc \in Stages
         \/ /\ call.pc = "probing" /\ call'.pc = "challenged" /\ call'.asked = web.asks
            /\ Accepts(web.sent, web.asks)
      /\ Covered => call'.pc \notin {"refused", "misrouted"}
  <2>1. CASE call.pc = "probing"
    <3>1. CASE Accepts(web.sent, web.asks)
      <4>1. call' = [call EXCEPT !.pc = "challenged", !.asked = web.asks] BY <2>1, <3>1 DEF Answered
      <4>2. web.asks \in Nat BY <1>2 DEF Requests
      <4>3. call' \in Calls /\ call'.mode = call.mode /\ call'.pc = "challenged" /\ call'.asked = web.asks
        BY <1>2, <4>1, <4>2 DEF Calls
      <4> QED BY <2>1, <3>1, <4>3
    <3>2. CASE ~Accepts(web.sent, web.asks)
      <4> DEFINE stage == IF web.sent \in {"x402", "charge", "channel"} THEN "refused" ELSE web.sent
      <4>1. call' = [call EXCEPT !.pc = stage] BY <2>1, <3>2 DEF Answered, Ended
      <4>2. stage \in Stages \/ stage = "rejected" \/ stage = "closed" BY <1>2 DEF Requests, Schemes
      <4>3. stage \in Stages BY <4>2
      <4>4. Covered => web.sent \notin {"x402", "charge", "channel"} /\ stage = "failed"
        <5>1. Covered => /\ web.sent \in {"failed", Scheme(call.mode)}
                         /\ web.sent = Scheme(call.mode) => web.asks = known[call.mode]
          BY <1>1, <2>1 DEF RoutingInv, ProbeInv
        <5>2. known[call.mode] \in Nat BY <2>1 DEF RoutingInv, CallInv
        <5>3. web.sent = Scheme(call.mode) /\ web.asks = known[call.mode] => Accepts(web.sent, web.asks)
          BY <5>2 DEF Accepts
        <5> QED BY <3>2, <5>1, <5>3
      <4> HIDE DEF stage
      <4>5. call' \in Calls /\ call'.mode = call.mode /\ call'.pc = stage BY <1>2, <4>1, <4>3 DEF Calls
      <4> QED BY <2>1, <4>3, <4>4, <4>5
    <3> QED BY <3>1, <3>2
  <2>2. CASE call.pc = "paying"
    <3> DEFINE stage == IF web.sent = "served" THEN "paid" ELSE "rejected"
    <3>1. call' = [call EXCEPT !.pc = stage] BY <2>2 DEF Answered, Ended
    <3>2. stage \in {"paid", "rejected"} OBVIOUS
    <3> HIDE DEF stage
    <3>3. call' \in Calls /\ call'.mode = call.mode /\ call'.pc = stage BY <1>2, <3>1, <3>2 DEF Calls
    <3> QED BY <2>2, <3>2, <3>3
  <2>3. CASE call.pc = "closing"
    <3> DEFINE stage == IF web.sent = "closed" THEN "closed"
                        ELSE IF web.sent \in {"rejected", "failed"} THEN "unclosed" ELSE "misrouted"
    <3>1. call' = [call EXCEPT !.pc = stage] BY <2>3 DEF Answered, Ended
    <3>2. stage \in {"closed", "unclosed", "misrouted"} OBVIOUS
    <3>3. Covered => stage \in {"closed", "unclosed"}
      <4>1. Covered => web.sent \in {"failed", "closed", "rejected"} BY <1>1, <2>3 DEF RoutingInv, CloseInv
      <4> QED BY <4>1
    <3> HIDE DEF stage
    <3>4. call' \in Calls /\ call'.mode = call.mode /\ call'.pc = stage BY <1>2, <3>1, <3>2 DEF Calls
    <3> QED BY <2>3, <3>2, <3>3, <3>4
  <2>4. CASE call.pc \notin {"probing", "paying", "closing"}
    <3>1. UNCHANGED call BY <2>4 DEF Answered
    <3>2. Covered => call.pc \notin {"refused", "misrouted"} BY DEF RoutingInv, PublishedIsPayable, Covered
    <3> QED BY <1>2, <2>4, <3>1, <3>2
  <2> QED BY <2>1, <2>2, <2>3, <2>4
<1>6. call.pc = "new" => call'.pc = "new" BY <1>5
<1>7. CallInv'
  <2>1. call'.pc # "new" => call'.mode \in DOMAIN known /\ known[call'.mode] \in Nat
    BY <1>5 DEF RoutingInv, CallInv
  <2>2. call'.pc = "challenged" => call'.asked <= known[call'.mode]
    <3>1. CASE UNCHANGED call BY <3>1 DEF RoutingInv, CallInv
    <3>2. CASE call'.asked = web.asks /\ call.pc = "probing" /\ Accepts(web.sent, web.asks)
      <4>1. web.asks = known[call.mode] \/ web.asks <= known[call.mode] BY <3>2 DEF Accepts
      <4>2. known[call.mode] \in Nat BY <3>2 DEF RoutingInv, CallInv
      <4> QED BY <1>5, <3>2, <4>1, <4>2
    <3> QED BY <1>5, <3>1, <3>2
  <2>3. call'.pc # "paying" BY <1>5
  <2> QED BY <1>1, <1>3, <1>5, <2>1, <2>2, <2>3 DEF CallInv
<1>8. call'.pc \notin {"probing", "closing"} BY <1>5
<1>9. ProbeInv' /\ CloseInv' BY <1>8 DEF ProbeInv, CloseInv
<1>10. PublishedIsPayable' BY <1>1, <1>5 DEF PublishedIsPayable, Covered
<1>11. (deploys = 0 /\ call.pc # "new" => known = site.manifest)' BY <1>1, <1>6 DEF RoutingInv
<1>12. SiteOK(site') /\ deploys' \in Nat BY <1>1 DEF RoutingInv
<1> QED BY <1>4, <1>7, <1>9, <1>10, <1>11, <1>12 DEF RoutingInv

\* Somebody else's request finds a client that has asked for nothing yet.
LEMMA StrangerInv == ASSUME RoutingInv, Stranger PROVE RoutingInv'
<1>1. /\ call.pc = "new" /\ call' = [call EXCEPT !.sent = @ + 1] /\ UNCHANGED <<site, deploys, known>>
      /\ \E method \in {"GET", "DELETE"}, hdr \in Headers, price \in Prices : Receive(method, hdr, price)
  BY DEF Stranger, Headers
<1>2. call \in Calls BY DEF RoutingInv, CallInv
<1>3. call' \in Calls /\ call'.pc = "new" BY <1>1, <1>2 DEF Calls
<1>4. /\ web' \in Requests /\ web'.pc = "arrived" /\ web'.sent = "none" /\ web'.next = "no" /\ web'.settled = "none"
  BY <1>1, Received, RoutingAssumption
<1>5. WebInv' BY <1>4 DEF WebInv, ServedIsPaid
<1>6. CallInv' /\ ProbeInv' /\ CloseInv' BY <1>3 DEF CallInv, ProbeInv, CloseInv
<1>7. PublishedIsPayable' BY <1>3 DEF PublishedIsPayable
<1>8. SiteOK(site') /\ deploys' \in Nat BY <1>1 DEF RoutingInv
<1> QED BY <1>3, <1>5, <1>6, <1>7, <1>8 DEF RoutingInv

\* A deployment leaves the client with the manifest it has.
LEMMA DeployInv == ASSUME RoutingInv, NEW s \in Sites, Deploy(s) PROVE RoutingInv'
<1>1. /\ web.pc \in {"none", "arrived"} /\ site' = s /\ deploys' = deploys + 1
      /\ UNCHANGED <<known, call, web>>
  BY DEF Deploy
<1>2. SiteOK(site') BY <1>1, SitesAreOK
<1>3. deploys' \in Nat /\ deploys' # 0 BY <1>1 DEF RoutingInv
<1>4. WebInv' BY <1>1 DEF RoutingInv, WebInv, ServedIsPaid
<1>5. CallInv' BY <1>1 DEF RoutingInv, CallInv
<1>6. ~Covered' /\ PublishedIsPayable' BY <1>3 DEF Covered, PublishedIsPayable
<1> QED BY <1>2, <1>3, <1>4, <1>5, <1>6 DEF RoutingInv

\* The invariant of adapters and client holds after every step.
LEMMA RoutingStepInv == RoutingInv /\ [Next]_vars => RoutingInv'
<1> SUFFICES ASSUME RoutingInv, [Next]_vars PROVE RoutingInv' OBVIOUS
<1>1. CASE ClientStep
  BY <1>1, ChooseModeInv, ProbeKeeps, PayKeeps, CloseSessionKeeps, AnsweredInv DEF ClientStep
<1>2. CASE Stranger BY <1>2, StrangerInv
<1>3. CASE AdapterStep
  BY <1>3, RouteRequestInv, HandleDeleteInv, ChallengeInv, PassOnInv, HandlerThrowsInv, RespondInv DEF AdapterStep
<1>4. CASE \E s \in Sites : Deploy(s) BY <1>4, DeployInv
<1>5. CASE UNCHANGED vars
  <2>1. UNCHANGED <<site, deploys, known, call, web>> BY <1>5 DEF vars
  <2>2. WebInv' /\ CallInv' BY <2>1 DEF RoutingInv, WebInv, CallInv, ServedIsPaid
  <2>3. Covered => ProbeInv' /\ CloseInv' BY <2>1 DEF RoutingInv, ProbeInv, CloseInv
  <2>4. (Covered' <=> Covered) /\ PublishedIsPayable' BY <2>1 DEF RoutingInv, Covered, PublishedIsPayable
  <2>5. SiteOK(site') BY <2>1 DEF RoutingInv
  <2> QED BY <2>1, <2>2, <2>3, <2>4, <2>5 DEF RoutingInv
<1> QED BY <1>1, <1>2, <1>3, <1>4, <1>5 DEF Next

\* The invariant of adapters and client holds at all times.
LEMMA RoutingAlways == Spec => []RoutingInv
BY RoutingInitInv, RoutingStepInv, PTL DEF Spec

\* Whatever is sent to an adapter, and however handler and framework share the reply:
\* a request gets one response, and the route runs for a settled payment only.
THEOREM RouteRunsWhenPaid == Spec => []ServedIsPaid
<1>1. RoutingInv => ServedIsPaid BY DEF RoutingInv, WebInv
<1> QED BY <1>1, RoutingAlways, PTL

\* Whatever is deployed after the client has read the manifest, what it pays is at
\* most the price it read.
THEOREM PaymentIsBounded == Spec => []PaidAsPublished
<1>1. ASSUME RoutingInv PROVE PaidAsPublished
  <2>1. call.pc = "paid" => web.settled = "none" BY <1>1 DEF RoutingInv, CallInv, WebInv
  <2> QED BY <1>1, <2>1 DEF RoutingInv, CallInv, PaidAsPublished
<1> QED BY <1>1, RoutingAlways, PTL

\* With at most one MPP mode in the manifest, on every adapter, at any prices: the
\* handler of the mode that the client chose answers its request and its DELETE.
THEOREM PublishedModesAreReached == Spec => []PublishedIsPayable
<1>1. RoutingInv => PublishedIsPayable BY DEF RoutingInv
<1> QED BY <1>1, RoutingAlways, PTL
=============================================================================
