--------------------------- MODULE SessionClient ---------------------------
(***************************************************************************)
(* The session handle of client/MppSessionClient.ts: the mode of the       *)
(* session decides the transport of its streams; close() and the disputes  *)
(* work on the cumulative that either transport signs.                     *)
(***************************************************************************)
EXTENDS SocketClient, ChannelDispute

CONSTANTS
  Modes,      \* the session modes: "mpp-session", "mpp-session-ws"
  Scopes      \* bound: what a run follows beside the vouchers: a "stream" (any
              \* window, or the frames of one socket, until close() is called),
              \* or the "account" (the first window, or several sockets, while
              \* close() and the disputes are under way)

VARIABLES mode, scope

sessionVars == <<vars, socketVars, disputeVars, mode, scope>>

SessionInit ==
  /\ Init /\ SocketInit /\ DisputeInit
  /\ mode \in Modes
  /\ scope \in Scopes
  /\ mode = "mpp-session-ws" \/ scope = "account" => \A w \in Windows : window <= w

\* stream() over HTTP, and close() as its vouchers race it.
HttpStep ==
  /\ mode = "mpp-session"
  /\ \/ scope = "account" /\ Next
     \/ \E r \in Requests : scope = "stream" /\ RequestStep(r)
     \/ scope = "stream" /\ StreamStep
     \/ scope = "stream" /\ Close
  /\ UNCHANGED <<socketVars, disputeVars>>

FramesStep(r) ==
  /\ scope = "stream"
  /\ SocketStep(r) \/ GeneratorStep(r)

SocketSessionStep(r) ==
  /\ mode = "mpp-session-ws"
  /\ scope = "stream" => r = 1
  /\ StartSocketStream(r) \/ NegotiationStep(r) \/ FramesStep(r)
  /\ UNCHANGED disputeVars

AccountStep ==
  /\ scope = "account"
  /\ \/ mode = "mpp-session-ws" /\ CloseStep /\ UNCHANGED disputeVars
     \/ DisputeStep
  /\ UNCHANGED socketVars

SessionNext ==
  /\ \/ HttpStep
     \/ \E r \in Streams : SocketSessionStep(r)
     \/ AccountStep
  /\ UNCHANGED <<mode, scope>>

SessionSpec == SessionInit /\ [][SessionNext]_sessionVars

Only(step) == step /\ UNCHANGED <<disputeVars, mode, scope>>

\* Every await of an HTTP request and of its generator settles, the queue of a socket
\* is drained, and the consumer of a stream pulls its next item or leaves; nothing
\* makes the agent close the session or the provider close a socket.
SessionFairness ==
  /\ \A r \in Requests :
       WF_sessionVars(mode = "mpp-session" /\ Only(RequestStep(r)) /\ UNCHANGED socketVars)
  /\ WF_sessionVars(mode = "mpp-session" /\ Only(StreamStep) /\ UNCHANGED socketVars)
  /\ \A r \in Streams : WF_sessionVars(Only(GeneratorStep(r)))

FairSessionSpec == SessionSpec /\ SessionFairness

----------------------------------------------------------------------------
\* Properties

\* Over HTTP a closed session issues at most the one request whose checkSpend() or
\* queue head was awaited when close() was called; over a socket nothing bounds it.
HttpOverrunBounded == mode = "mpp-session" => OverrunBounded

Doomed(r) == conn[r].sock = "closed"

\* A stream over HTTP whose session is closed, and a stream over a socket that has
\* closed, comes to its end when it is consumed.
StreamsEnd ==
  (closed \/ \E r \in Streams : Doomed(r))
    ~> /\ mode = "mpp-session" => pc \in {"off", "ended"}
       /\ \A r \in Streams : Doomed(r) => conn[r].pc \in Ended
=============================================================================
