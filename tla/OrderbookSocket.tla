-------------------------- MODULE OrderbookSocket --------------------------
(***************************************************************************)
(* A session at one of two providers: any provider, of which SessionClient *)
(* assumes nothing, or the WebSocket route of                              *)
(* apps/provider-b/src/ChannelSession.ts: there the first message of the   *)
(* client starts a timer that pushes order book snapshots, and a close     *)
(* stops it.                                                               *)
(***************************************************************************)
EXTENDS SessionClient

CONSTANTS
  Providers,  \* of "any", "orderbook"
  Talkative   \* streams whose client sends a message once it is connected: none of
              \* this SDK's, whose WebSocketLike cannot send

ASSUME OrderbookAssumption ==
  Providers \subseteq {"any", "orderbook"} /\ Talkative \subseteq Streams

VARIABLES
  provider,   \* which of them the session is with
  feed        \* per upgrade: the interval timer, the snapshots being fetched

orderbookVars == <<sessionVars, provider, feed>>

Silent == [timer |-> FALSE, fetching |-> FALSE]

OrderbookInit ==
  /\ SessionInit
  /\ feed = [r \in Streams |-> Silent]
  /\ provider \in Providers
  /\ provider = "orderbook" => mode = "mpp-session-ws" /\ scope = "stream"

Elsewhere == UNCHANGED <<disputeVars, mode, scope>>

\* push() and the timer on the first message; every message is acknowledged.
OnMessage(r) ==
  /\ r \in Talkative
  /\ FrameArrives(r, "text")
  /\ feed' = [feed EXCEPT ![r] = [timer |-> TRUE,
                                  fetching |-> @.fetching \/ ~@.timer]]
  /\ Elsewhere

\* setInterval's callback.
Tick(r) ==
  /\ feed[r].timer /\ ~feed[r].fetching
  /\ feed' = [feed EXCEPT ![r].fetching = TRUE]
  /\ UNCHANGED sessionVars

\* Horizon answers and the snapshot is sent; an error, of Horizon or of a socket
\* that has closed meanwhile, is logged.
Push(r) ==
  /\ feed[r].fetching
  /\ feed' = [feed EXCEPT ![r].fetching = FALSE]
  /\ \/ FrameArrives(r, "text") /\ Elsewhere
     \/ UNCHANGED sessionVars

OnClose(r) ==
  /\ conn[r].sock \in {"closing", "closed"}
  /\ feed' = [feed EXCEPT ![r].timer = FALSE]
  /\ UNCHANGED sessionVars

\* The handshake was verified by the payment middleware; this route never closes.
Upgraded(r) == HandshakeAccepted(r) /\ Elsewhere /\ UNCHANGED feed

Lost(r) == ConnectionLost(r) /\ Elsewhere /\ UNCHANGED feed

ClientStep(r) ==
  /\ StartSocketStream(r) \/ NegotiationStep(r) \/ GeneratorStep(r)
  /\ Elsewhere /\ UNCHANGED feed

RouteStep(r) ==
  \/ Upgraded(r)
  \/ OnMessage(r)
  \/ Tick(r)
  \/ Push(r)
  \/ OnClose(r)

OrderbookStep ==
  /\ provider = "orderbook"
  /\ \E r \in Streams : ClientStep(r) \/ RouteStep(r) \/ Lost(r)
  /\ UNCHANGED provider

OrderbookNext ==
  \/ OrderbookStep
  \/ provider = "any" /\ SessionNext /\ UNCHANGED <<provider, feed>>

At(step) == provider = "orderbook" /\ step /\ UNCHANGED provider

\* Fair as in FairSessionSpec: nothing is asked of the provider.
ProvidersSpec == OrderbookInit /\ [][OrderbookNext]_orderbookVars /\ SessionFairness

\* The route answers as well, and its timers fire, snapshot after snapshot.
FairOrderbookSpec ==
  /\ ProvidersSpec
  /\ \A r \in Streams :
       /\ WF_orderbookVars(At(ClientStep(r)))
       /\ WF_orderbookVars(At(Upgraded(r)))
       /\ WF_orderbookVars(At(OnMessage(r)))
       /\ WF_orderbookVars(At(Tick(r)))
       /\ SF_orderbookVars(At(Push(r) /\ FrameArrives(r, "text")))

----------------------------------------------------------------------------
\* Properties

\* README.md of the repository: "for await (const chunk of session.stream())", "each
\* WebSocket frame, JSON-decoded": a stream that paid for its upgrade yields a frame.
PaidStreamYields ==
  \A r \in Streams :
    conn[r].pc = "frames" ~> conn[r].got # <<>> \/ conn[r].pc \in Ended
=============================================================================
