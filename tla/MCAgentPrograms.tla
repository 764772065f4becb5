-------------------------- MODULE MCAgentPrograms --------------------------
EXTENDS AgentPrograms
CONSTANTS p1, other, h1, h2, k1, s1, ch1, alice, bob

MCCallers == ({p1} \X {"estimate", "pay"}) \cup {other}
MCAnchor == [c \in MCCallers |-> IF c = other THEN alice ELSE NoAnchor]
NoOptions ==
  [session |-> FALSE, websocket |-> FALSE, cost |-> FALSE, budget |-> NoBudget, force |-> "none", method |-> "any"]
MCOptions ==
  [c \in MCCallers |-> IF c = other THEN [NoOptions EXCEPT !.cost = TRUE, !.budget = 1]
                       ELSE IF c[2] = "pay" THEN [NoOptions EXCEPT !.method = "GET"] ELSE NoOptions]
MCMaxAmount == [p \in {p1} |-> 1]

Offer(payee, x402, charge, rate, deprecated) ==
  [payee |-> payee, deprecated |-> deprecated, supported |-> TRUE, sunset |-> Absent, endpoints |-> {},
   price |-> [m \in AllModes |-> CASE m = "x402" -> x402 [] m = "mpp-charge" -> charge [] OTHER -> rate]]

Endpoint(method, sunset) == [method |-> method, sunset |-> sunset]

MCManifests == {
  [Offer(alice, 1, 2, Absent, {}) EXCEPT !.sunset = 2, !.endpoints = {Endpoint("GET", 1), Endpoint("POST", Absent)}],
  [Offer(alice, 1, Absent, 1, {}) EXCEPT !.supported = FALSE],
  Offer(bob, Absent, 1, 1, {"mpp-charge"})}

MCListings == {
  [min |-> 1, endpoints |-> [stream |-> "get", infer |-> "post"]],
  [min |-> 2, endpoints |-> [infer |-> "get"]],
  [min |-> Absent, endpoints |-> [quote |-> "get", infer |-> "post"]],
  [min |-> Absent, endpoints |-> [stream |-> "elsewhere"]]}
=============================================================================
