---------------------------- MODULE SocketClient ----------------------------
(***************************************************************************)
(* The mpp-session-ws transport of client/MppSessionClient.ts: a stream()  *)
(* call negotiates one voucher over HTTP with the reservation of           *)
(* VoucherClient, upgrades to a WebSocket and yields its frames.           *)
(*                                                                         *)
(* Several streams of one session may run at once.  The socket's callbacks *)
(* fill a queue of events that the generator drains; a frame that arrives  *)
(* as a Blob enters the queue only once it has been decoded.  Nothing here *)
(* looks at the closed flag, and nothing is retried.                       *)
(***************************************************************************)
EXTENDS VoucherClient, Sequences

CONSTANTS
  MaxStreams,   \* bound: stream() calls of a session
  MaxFrames,    \* bound: frames a provider sends on one connection
  FrameKinds    \* how a frame arrives: "text" or "blob"

ASSUME SocketAssumption ==
  /\ MaxStreams \in 0..MaxRequests
  /\ MaxFrames \in Nat
  /\ FrameKinds \subseteq {"text", "blob"}

Streams == 1..MaxStreams

VARIABLE conn   \* the connection of each stream() call

socketVars == <<conn>>

\* pc: where the generator is suspended, or how it ended: "closed" by the
\* provider, "left" by the consumer, "failed" by an error.  sock: readyState.
\* sent: the kinds of the frames sent; got: the numbers of those yielded.
Ended == {"closed", "left", "failed"}

NoConnection == [pc |-> "off", sock |-> "none", queue |-> <<>>,
                 decoding |-> {}, sent |-> <<>>, got |-> <<>>]

SocketInit == conn = [r \in Streams |-> NoConnection]

Event(type)  == [type |-> type, n |-> 0]
Message(n)   == [type |-> "message", n |-> n]

----------------------------------------------------------------------------
\* Voucher negotiation

\* checkSpend() accepts the rate, then the probe is sent.  A stream whose
\* checkSpend() rejects leaves nothing behind.
StartSocketStream(r) ==
  /\ r = next
  /\ next' = next + 1
  /\ req' = [req EXCEPT ![r] = Attempt(1)]
  /\ conn' = [conn EXCEPT ![r].pc = "probe"]
  /\ UNCHANGED <<reservation, stats, head, aborted, pc, window, closing, history>>

\* The 402 of the probe goes through the same guard as over HTTP; any other answer
\* is like a challenge that is rejected, and no failure is retried.
Negotiate(r) ==
  /\ \/ \E reported \in Reports : ReserveNextCumulative(r, reported)
     \/ RejectChallenge(r)
     \/ SeedFromStore(r)
     \/ SeedFails(r, FALSE)
     \/ CredentialFails(r, FALSE)
     \/ SignVoucher(r)
  /\ conn' = [conn EXCEPT ![r].pc = IF req'[r].st = "failed" THEN "failed" ELSE @]

\* The credential is there: it counts as issued and the handshake carries it.  The
\* factory may throw.
Upgrade(r) ==
  /\ conn[r].pc = "probe" /\ req[r].st = "sent"
  /\ issued' = issued + 1
  /\ req' = [req EXCEPT ![r] = Request("done", req[r].val, 0, 0)]
  /\ \/ conn' = [conn EXCEPT ![r].pc = "upgrade", ![r].sock = "connecting"]
     \/ conn' = [conn EXCEPT ![r].pc = "failed"]
  /\ UNCHANGED <<reservation, current, stream, closing, history>>

----------------------------------------------------------------------------
\* The socket: the provider and the network

HandlerStep == UNCHANGED vars

HandshakeAccepted(r) ==
  /\ conn[r].sock = "connecting"
  /\ conn' = [conn EXCEPT ![r].sock = "open", ![r].queue = Append(@, Event("open"))]
  /\ HandlerStep

\* The provider answers the handshake with anything but 101.
HandshakeRejected(r) ==
  /\ conn[r].sock = "connecting"
  /\ conn' = [conn EXCEPT ![r].sock = "closed", ![r].queue = Append(@, Event("abnormal"))]
  /\ HandlerStep

ConnectionLost(r) ==
  /\ conn[r].sock \in {"connecting", "open"}
  /\ conn' = [conn EXCEPT ![r].sock = "closed",
                          ![r].queue = @ \o <<Event("error"), Event("abnormal")>>]
  /\ HandlerStep

FrameArrives(r, kind) ==
  LET n == Len(conn[r].sent) + 1
  IN /\ conn[r].sock = "open" /\ n <= MaxFrames
     /\ conn' = [conn EXCEPT
          ![r].sent = Append(@, kind),
          ![r].queue = IF kind = "text" THEN Append(@, Message(n)) ELSE @,
          ![r].decoding = IF kind = "blob" THEN @ \cup {n} ELSE @]
     /\ HandlerStep

\* arrayBuffer() resolves, or rejects and the frame is dropped.
BlobDecoded(r, n, decoded) ==
  /\ n \in conn[r].decoding
  /\ conn' = [conn EXCEPT ![r].decoding = @ \ {n},
                          ![r].queue = IF decoded THEN Append(@, Message(n)) ELSE @]
  /\ HandlerStep

\* The provider closes, with a normal code or another one.
ProviderCloses(r, code) ==
  /\ conn[r].sock = "open"
  /\ conn' = [conn EXCEPT ![r].sock = "closed", ![r].queue = Append(@, Event(code))]
  /\ HandlerStep

SocketStep(r) ==
  /\ conn[r].pc \notin Ended
  /\ \/ HandshakeAccepted(r)
     \/ HandshakeRejected(r)
     \/ ConnectionLost(r)
     \/ \E kind \in FrameKinds : FrameArrives(r, kind)
     \/ \E n \in 1..MaxFrames, decoded \in BOOLEAN : BlobDecoded(r, n, decoded)
     \/ \E code \in {"normal", "abnormal"} : ProviderCloses(r, code)

----------------------------------------------------------------------------
\* The generator

\* Mutant: the finally block tears down only what is still connecting.
LeftOpen(c, how) ==
  [c EXCEPT !.pc = how, !.sock = IF @ = "connecting" THEN "closing" ELSE @,
            !.queue = <<>>, !.decoding = {}]

\* The finally block.  What the socket reports later goes to a queue nobody reads.
Finished(c, how) ==
  [c EXCEPT !.pc = how, !.sock = IF @ \in {"connecting", "open"} THEN "closing" ELSE @,
            !.queue = <<>>, !.decoding = {}]

Shifted(c) == [c EXCEPT !.queue = Tail(@)]

\* Mutant: the handshake waits for its open event only.
AwaitOpen(r) ==
  LET c == Shifted(conn[r])
  IN /\ conn[r].pc = "upgrade" /\ conn[r].queue # <<>>
     /\ conn' = [conn EXCEPT ![r] =
          IF Head(conn[r].queue).type = "open" THEN [c EXCEPT !.pc = "frames"] ELSE c]
     /\ HandlerStep

\* The first loop: only open, error and close move it, a message is skipped.
AwaitUpgrade(r) ==
  LET type == Head(conn[r].queue).type
      c == Shifted(conn[r])
  IN /\ conn[r].pc = "upgrade" /\ conn[r].queue # <<>>
     /\ conn' = [conn EXCEPT ![r] =
          CASE type = "open" -> [c EXCEPT !.pc = "frames"]
            [] type = "message" -> c
            [] OTHER -> Finished(c, "failed")]
     /\ HandlerStep

\* Mutant: a close is looked for before the queue is drained.
TakeEventClosedFirst(r) ==
  LET ev == Head(conn[r].queue)
      c == Shifted(conn[r])
  IN /\ conn[r].pc = "frames" /\ conn[r].queue # <<>>
     /\ conn' = [conn EXCEPT ![r] =
          IF \E i \in DOMAIN conn[r].queue : conn[r].queue[i].type = "normal"
            THEN Finished(c, "closed")
          ELSE IF ev.type = "message" THEN [c EXCEPT !.pc = "yield", !.got = Append(@, ev.n)]
          ELSE Finished(c, "failed")]
     /\ HandlerStep

\* The second loop: messages are yielded, a normal close ends the stream.
TakeEvent(r) ==
  LET ev == Head(conn[r].queue)
      c == Shifted(conn[r])
  IN /\ conn[r].pc = "frames" /\ conn[r].queue # <<>>
     /\ conn' = [conn EXCEPT ![r] =
          CASE ev.type = "message" -> [c EXCEPT !.pc = "yield", !.got = Append(@, ev.n)]
            [] ev.type = "normal" -> Finished(c, "closed")
            [] OTHER -> Finished(c, "failed")]
     /\ HandlerStep

NextFrame(r) ==
  /\ conn[r].pc = "yield"
  /\ conn' = [conn EXCEPT ![r].pc = "frames"]
  /\ HandlerStep

\* The consumer breaks out of its loop.
LeaveStream(r) ==
  /\ conn[r].pc = "yield"
  /\ conn' = [conn EXCEPT ![r] = Finished(@, "left")]
  /\ HandlerStep

GeneratorStep(r) ==
  \/ AwaitUpgrade(r)
  \/ TakeEvent(r)
  \/ NextFrame(r)
  \/ LeaveStream(r)

NegotiationStep(r) ==
  \/ Negotiate(r)
  \/ Upgrade(r)

SocketStreamStep(r) ==
  \/ StartSocketStream(r)
  \/ NegotiationStep(r)
  \/ SocketStep(r)
  \/ GeneratorStep(r)

----------------------------------------------------------------------------
\* Properties

Text(c) == {n \in DOMAIN c.sent : c.sent[n] = "text"}
Yielded(c, items) == {c.got[i] : i \in 1..items}

\* Text frames are yielded in the order they were sent, none twice and none left out;
\* a stream that the provider closed normally has yielded all of them.
TextFramesInOrder ==
  \A r \in Streams :
    LET c == conn[r]
    IN /\ \A j \in DOMAIN c.got : c.got[j] \in Text(c) =>
            \A n \in Text(c) : n < c.got[j] <=> n \in Yielded(c, j - 1)
       /\ c.pc = "closed" => Text(c) \subseteq Yielded(c, Len(c.got))

\* No stream ends, by the provider, an error or the consumer, with its socket open:
\* the provider sees it go and can settle the channel.
SocketsReleased ==
  \A r \in Streams : conn[r].pc \in Ended => conn[r].sock \notin {"connecting", "open"}

\* streamWebSocket's comment: "Each server frame is yielded": Blob frames too, before
\* a stream ends normally.
EveryFrameYielded ==
  \A r \in Streams : conn[r].pc = "closed" => Yielded(conn[r], Len(conn[r].got)) = DOMAIN conn[r].sent
=============================================================================
