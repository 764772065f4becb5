# RouteDock in TLA+

RouteDock lets an agent pay HTTP providers on Stellar in three modes: `x402`
and `mpp-charge` (one payment per request) and `mpp-session` (a payment channel:
the client signs cumulative vouchers off chain, the provider closes the channel
once; over HTTP or over WebSockets). An `agent-vault` smart account may hold the
agent's money under a policy. This directory models the parts that decide about
money, and the programs around them, checks them with TLC and proves the results
that matter most with TLAPS.

Paths below are relative to the repository; `sdk` is `packages/sdk/src`.

## Inventory

| component | state it keeps | operations | interacts with |
|---|---|---|---|
| agent-vault `contracts/agent-vault/src/lib.rs` | admin, pending admin, agent key, caps, allowlist, expiry, frozen, pending upgrade, lifetime spend (instance storage); day and payee spend (temporary storage) | admin setters, two-step admin transfer, timelocked upgrade, `__check_auth` | Soroban host: atomic calls, archival, TTLs |
| MppSessionClient `sdk/client/MppSessionClient.ts` | reservedCumulative, storeSeed, currentCumulative, vouchersIssued, closed, a queue per stream, sockets and their events | `stream` over HTTP and WebSockets, `stats`, `close`, disputes, 402 handling, `withRetry` | provider, spend hook, cumulative store, network |
| order book route `apps/provider-b/src/ChannelSession.ts` | a timer per socket | push on the first message, tick, close | client's sockets |
| provider session handler `sdk/provider/hono.ts` | record, sessionOpened, orphanFlagged, settledCleanly, idle timer, abort guard; one entry in the store | `commit`, `handleDelete`, `flagOrphan`, `loadPersistedRecord` | mppx verification, store, channel contract, callbacks |
| Express handler `sdk/provider/MppSessionHandler.ts`, vault record `internal/vaultSettlement.ts` | the same, in memory, with close listeners | the same, a different DELETE, a record at the vault | as above, vault |
| session tables `apps/provider-b/src/sessionWrites.ts`, `supabase/migrations` | one row per channel, the transaction log | the callbacks | handler, reconcilers |
| reconciler `sdk/provider/SessionReconciler.ts` | none (works on rows) | `reconcileAbandonedSessions`, from the cron trigger or from `agent/src/recover-sessions.ts` | tables, channel contract |
| spend cap `sdk/client/RouteDockClient.ts` | daily and per-endpoint totals | check-and-reserve, rollback, commit | payments, spend store |
| spend stores `sdk/store/SpendStore.ts`, `FileSpendStore.ts` | a JSON file, its lock file | `update` under the lock, heartbeat, breaking stale locks | other processes on the file |
| settlement idempotency `sdk/provider/SeenTxStore.ts`, `x402Handler.ts`, `MppChargeHandler.ts`, `sdk/store/SupabaseSeenTxStore.ts` | seen payments and how often each was replayed | replay check, claim, record, evict, sweep | facilitator, client retries |
| discrete clients `sdk/client/x402Client.ts`, `MppChargeClient.ts`, `challenge.ts` | the call | probe, check the challenge, sign once, retry | spend cap, routes |
| mode router `sdk/client/ModeRouter.ts` | manifest cache, shared fetches | fetch, invalidate, evict, select mode | provider's manifest |
| adapters `sdk/provider/routedockMiddleware.ts`, `fastify.ts`, `hono.ts` | none | configuration check, routing to a handler, sharing the reply | framework, handlers, clients |
| MCP server `packages/mcp-server` | sessions by channel, shutdown | `pay_for_data`, `open_session`, `stream_session`, `close_session`, exit | SDK |
| demo agent, stress test `agent/src` | the active session, exit code | pay, open, stream, close, signals | SDK |
| React hooks `sdk/react`, dashboard `apps/web` | what a component shows | open, close, pay; poll, subscribe, merge | SDK, registry |
| Nulth vault `packages/nulth-sdk` `client/NulthVault.ts`, `nulthScheme.ts` | each signer's policy (day, spend) and payment context | `pay()` with a vault, prepare the signer, compare and prove, sign | x402 route, network |
| manifest signing, registry, session store adapters | little or none | | |

Hard behaviours, and what makes each component correct:

* **agent-vault.** Counters live in temporary storage that expires; a batch of
  transfers is authorised in one call; i128 counters saturate; instance storage is
  archived while an upgrade waits. Correct: no split of payments passes a cap; code
  changes only after a full, standing notice.
* **MppSessionClient.** A window runs several requests at once, each suspended at
  a challenge, a store read, a signature or an answer; all share one reservation
  with the sockets and the disputes. `close()` and the consumer interleave with all
  of it. Correct: no cumulative signed twice, exposure bounded by what was accepted,
  a closed stream stops, frames come in order and sockets are released.
* **Provider handlers.** On hono every entry point starts by awaiting the store;
  commits, a DELETE and two orphan guards overlap; the host may evict the instance at
  any await while a write or a transaction is on its way. On Express only verification,
  the close and the vault record take time, but DELETEs overlap and a restart forgets
  everything. Correct: the close pays what was served; only verified vouchers and the
  settlement that happened are reported; an abandoned session is flagged.
* **Tables and reconcilers.** Callbacks are not awaited, so their statements reach the
  tables in any order and may fail; two reconcilers and the client's DELETE race for
  one close, any of them may die at each step, a close may land unheard. Correct: no
  recorded settlement that did not happen; every orphan resolved.
* **Spend cap.** Concurrent reservations, a store without `update()`, midnight between
  reservation and rollback, processes that die or sleep with the file's lock. Correct: no
  total passes its cap and it is the sum of what stands; `update()` is atomic.
* **Idempotency and discrete payments.** Check-then-settle with concurrent
  duplicates, lost answers, eviction, retention, restarts, retries after a timeout.
  Correct: a call pays once, a payment buys one response and its replays, what moved
  is counted.
* **Nulth vault.** An integrator's signer is shared: the context of one payment is set
  while another is at its challenge, and the ledger that dates a context is read before.
  Correct: a signature is for its own transfer, within the policy.
* **Router and programs.** Fetches shared by callers with different expectations,
  invalidation during a fetch, deployments under a client's call; signals, exits and
  unmounts while a close is under way; reads and realtime events that overtake each other.

`PROJECT.json` lists each hazard at its line with the properties that cover it.

## Modules

| module | models | lines up with the code how |
|---|---|---|
| `AgentVault` | the contract | one action per entry point; `__check_auth` is `BeginAuth`, one `AuthContext` per context, then `CommitAuth` or `RejectAuth`, over an overlay `auth` the host commits or drops |
| `VoucherClient` | one client session over HTTP | an action is the code between two awaits; `req[r].st` says where a `doFetch()` is suspended, `pc` where the generator is, `closePc` where `close()` is |
| `VoucherNumbers` | what a session promises about the numbers of its vouchers, over both transports | abstract specification, implemented as `ImplementsNumbers` in `VoucherClient` |
| `SocketClient` | its WebSocket streams | EXTENDS `VoucherClient`: the negotiation uses the same reservation; callbacks fill `conn[r].queue`, the generator drains it |
| `ChannelDispute` | `requestRefund()`, `settleWithLatestVoucher()` | EXTENDS `VoucherClient`: build, send, poll |
| `SessionClient` | the handle with both transports and the disputes | composes the three |
| `OrderbookSocket` | provider-b's WebSocket route, or any provider | composes `SessionClient` with the route's timer |
| `ProviderRouting` | the three adapters and a client that pays by a manifest | `AdapterStep` from the request's arrival to the one answer; `Deploy` replaces the configuration |
| `Channel` | what a provider promises about a channel: only verified vouchers are served, one close, which covers what its DELETE found served | abstract specification; with reconcilers `RecoverableSpec`, with a memory that a restart empties `ForgetfulSpec` |
| `SessionProvider` | `createMppSessionHandlerState` over its store, with mppx and the channel contract as environment | `commits`, `deletes`, `orphans` hold the continuations; the store answers in any order; implements `Channel` (`ImplementsChannel`) |
| `SessionRecovery` | the handler, the `sessions` row, the log and two reconcilers together | EXTENDS `SessionProvider`; `posts` are the callbacks whose statement has not taken effect, `job[r]` a reconciler's run; implements `Channel` with reconcilers (`ImplementsRecoverable`) |
| `ExpressSession` | the Express and Fastify handler with its vault record | a load or put of its memory store is no step of its own; implements `Channel` with a forgetful memory (`ImplementsForgetful`) |
| `SpendStore` | what `update()` promises | abstract specification |
| `FileSpendStore` | the file and its lock | one action per file operation; implements `SpendStore` (`Store!Spec`) |
| `SpendLedger` | the spend cap over either kind of store | `call[c].st` says where a reservation is |
| `SettlementReplay` | the paid routes and the store of seen payments | `request[q].at` says where a request is |
| `DiscretePayment` | `pay()` from the cap to the route | EXTENDS `SpendLedger` and `SettlementReplay`; a client's retry is a request that carries the same payment |
| `ManifestCache` | the cache, the shared fetch, mode selection | `caller[c]` is one caller of `fetchManifest`; an answer that nobody could use (`Usable`) fails the fetch and is not cached |
| `McpServer` | `pay_for_data` over the cache; the session tools and the shutdown | EXTENDS `ManifestCache` |
| `DemoAgent`, `ReactHooks`, `LiveFeeds` | the two programs of `agent/`; `useSession` and `usePay`; the views of the registry and `useTxLog` | one action per continuation |
| `NulthVault` | x402 payments from a Nulth account | `payment[p].st` is the await a payment is at, `context` what is set on a signer at the moment; `custody` says whether `pay()` makes a signer for each payment or an integrator keeps one for all. A proof is what it says in public |
| `AgentPrograms` | composition of these four rows' programs | they share no state, so a behaviour runs one of them (`tools`) |
| `*Proofs` | | theorems about the module they are named after and the modules it composes or extends; those about `SessionRecovery` are in `SessionProviderProofs`, those about the sockets and disputes in `VoucherClientProofs` |
| `MC*` | | small instances for TLC; `ProviderRouting` needs none |

Abstractions. Amounts of a session are counted in vouchers: every challenge must ask
for the manifest rate, so voucher *v* is the one whose cumulative is *v* times the
rate. A signature is the amount it signs. Addresses, keys, hashes and payments are
model values; an idempotency key is a payment and a path, which is what it hashes. In
`AgentVault` the clock is the ledger sequence and `DAY`, the timelock and the TTLs are
constants in the order the contract's constants have (`InstanceTTLAssumption`); i128
and u32 keep their limits as `MaxI128` and `MaxU32`. Amounts of the SDK are BigInts
and unbounded here. `DiscretePayment` is within one day: midnight is in `SpendLedger`.

External behaviour, modelled from how the code uses it: Soroban's TTLs, archival
and ledger close; mppx verifying a voucher only above its stored cumulative; the
channel contract closing once and only for an amount its payer signed; a payment's
nonce consumed once; eviction of a Durable Object with late writes; realtime channels
that replay nothing. The handler assumes no more of its host than the SDK does: input
gates of Cloudflare are not relied on.

## Runs

| run | bounds (distinct states) | shows |
|---|---|---|
| `agent_vault` | 2 payees (symmetric), amounts -1, 1, 2, caps 0..2, batches of 2, all that is paid <= 3, days of 2 ledgers, i128 max 2; or 2 admins, keys and hashes, timelock 2, u32 max 6 (575,690) | counters are the payments; no cap passed; notice before every upgrade, archival cannot cut it short |
| `voucher_client` | 3 requests, windows 1 and 2, 2 attempts, a store holding 1 or none, reports 0 and 2; 2 sockets, 3 frames, text or Blob; 1 dispute; any provider or the order book's (703,589) | no cumulative twice, exposure, overrun, frames in order, sockets released, disputes, streams end |
| `provider_routing` | 3 adapters, every set of modes, prices 1 and 2, one deployment that changes one mode, 3 requests (1,425,730) | routes run for what was paid, at published prices; what is published is payable |
| `session_provider` | 2 vouchers, 1 DELETE with any body, failing writes, 1 eviction, idle timeout (754,425) | the handler implements `Channel`: settlement covers the served; only verified vouchers reported, idle sessions flagged |
| `session_recovery` | 2 vouchers, 1 DELETE, both reconcilers, 2 attempts (3,615,150) | the tables tell the truth |
| `session_recovery_liveness` | 2 vouchers, both reconcilers, 2 attempts, failing writes, 1 eviction, 1 fault (371,778) | orphans are resolved, with an eviction and faults |
| `express_session` | 2 vouchers, 2 DELETEs with 4 bodies, idle timeout, vault, 1 restart (250,805) | settlement covers the served, reports are of the settlement, idle sessions flagged |
| `spend_ledger` | 3 calls, 2 routes, prices 1 and 2, cap 3, both kinds of store, 2 midnights (339,610) | caps hold, totals are exact |
| `discrete_payment` | 2 calls with 2 attempts, 1 stray, cap 2, both stores (one entry in memory), 1 replay, 1 fault (2.1 million) | one payment per call, served at most twice, what moved is counted but for a disturbed call that gave back |
| `spend_file` | 3 processes, 2 faults, 2 suspensions (390,409) | the lock file implements the atomic store, assuming `Prompt`, and is not left behind |
| `agent_programs` | 1 payer and 1 caller with an anchor, 3 manifests, 2 versions, lifetimes 0 and 1, 1 invalidation; 2 handles of one channel, 1 closer, 1 streamer, 4 listings, 1 failure; both agent programs; 2 opens, closes and pays; 5 views, 4 rows, 2 kept, 2 reads, 2 drops; 3 vault payments, 2 payees of which 1 allowed, price and cap 2, days of 1 ledger (795,446) | no caller gets an older manifest than one before it or one too stale, clean exits mean settled, hooks close what they show, the feed has no gap, a vault signs nothing beyond its policy |
| `spend_rollover` | `spend_ledger` with one midnight | a violation, below |

Why the bounds are enough. Vault: two payees separate the daily cap from the
sub-caps, three ledgers in days of two cross a rollover with a live counter, the
largest payment reaches the saturation of i128; archival, restoration and a
second proposal all happen before ledger 6. Spending and governance are each
explored fully while the other stays put (`Focus`); the theorems have no such bound.
Client: two requests in flight plus one in the refill is the least in which
reservations, releases and signatures cross; a second attempt re-signs; a reported 2
lies above the stored 1; a Blob between two texts can be overtaken. Provider: two
vouchers are the least for a record that could go back, one DELETE races both, one
eviction cuts any await; on Express two DELETEs race each other. Recovery: two
attempts distinguish "once more" from "failed"; a single fault can hit every
statement, close and hook in turn. Ledger: a third call sees what two concurrent ones
did; a second midnight separates a reservation of two days ago from yesterday's. Replay:
a store of one entry evicts at once, and with one replay the third presentation is the
first that must be refused. File: one process holds the lock, one breaks it, one takes
it in between. Programs: an asker beside the program itself is the least in which
closes cross; four rows over a view of two are the least in which a gap can open and close;
three vault payments are the least in which a cap passed once would be passed by a second
signature and noticed by a third, over two days.

### What the comments say and the code does not do

`spend_rollover` is such a case: `RouteDockClient.ts:449` says that reserving before
dispatching leaves "no path [that] can spend outside the cap"; `release()` compares the
stored date with today and not with the day of the reservation, so a payment of
yesterday that fails is given back out of today's total. Trace: A reserves before
midnight; B reserves the whole cap after it; A fails and gives back; C is reserved too.

More configurations and definitions state comments in the same way. Each is violated
under the configuration named, which is here for the reader to run:

| property | configuration | comment | what happens |
|---|---|---|---|
| `StatsReflectConsumed` | `MCVoucherClientStats.cfg` | `MppSessionClient.ts:463` "always reflects everything consumed so far" | voucher 2 is signed and answered, then voucher 1 signed: `currentCumulative` is 1 when the item of 2 is yielded |
| `PaidStreamYields` | `MCVoucherClientOrderbook.cfg` | `README.md:215` `for await (const chunk of session.stream())` | the route pushes nothing until the client's first message (`ChannelSession.ts:189`), and the SDK's socket cannot send; with `Talkative = {1, 2}` it holds |
| `EveryFrameYielded` | `MCVoucherClient.cfg` | `:973` "Each server frame is yielded" | a Blob still being decoded, or one that fails to be, is missing from a stream that ended normally |
| `SettlesWhatItSigned` | `MCVoucherClient.cfg` | `:811` "settle with latest voucher" | the cumulative is read twice, and a voucher is signed in between |
| `AllModesPayable` | `MCProviderRouting.cfg` | `routedockMiddleware.ts:77` "for all three modes" | with two MPP modes every request without x402 gets the handler of one of them, and the client refuses its challenge |
| `RecordNeverRollsBack` | `MCSessionProvider.cfg` | `hono.ts:575` "Never overwrites an in-memory record that is already set" | a DELETE reads the store on a null record; vouchers 1 and 2 commit; the read answers 1 and sets the record back from 2 |
| `CleanCloseNotOrphaned` | `MCSessionProvider.cfg` | `hono.ts:790` "suppress any orphan flagging for this session" | a commit whose store read spans the close reopens the settled session; its idle timer flags it |
| `RecoveryCoversServed` | `MCSessionRecoveryCover.cfg` | `worker.ts:48` "instead of racing it" | the reconciler selects the row between `onOrphaned`'s status and amount updates and settles 1 after 2 was served |
| `AllMovedIsCounted` | `MCDiscretePaymentLost.cfg` | `pay()`: rolls back "if the on-chain payment fails" | an answer lost after settlement is a failure to the client, which gives the reservation back; `MovedIsCounted` is the same with this exception |
| `UpdatesAreAtomic` | `MCFileSpendStoreSuspended.cfg` | `FileSpendStore.ts:44` "so every mutation is serialized" | a process suspended between its last check of the token and the rename overwrites what another wrote after breaking its lock |
| `PaidWithinMaxAmount` | `MCAgentPrograms.cfg` | `tools.ts` "Maximum amount in USDC to pay" | the price is compared in one manifest and paid from the next |
| `NothingLeftOpen`, `ExitAwaitsClose`, `NoSessionLeaks`, `LoadingMeansPaying`, `TxLogIsLive`, `PolledNeverGoesBack` | `MCAgentPrograms.cfg` | as quoted at each definition | sessions opened during a shutdown; a process that ends while a second asker's close is on its way; an open that answers after unmount; a second payment that clears the flag of the first; a hook without backfill; polls that overtake each other |

`EveryDayWithinCap` of `NulthVault` is false under `MCAgentPrograms.cfg` as well: a context
dated by a ledger of yesterday takes the signer's policy back to yesterday with nothing
spent. `ProvenWithinPolicy` therefore has the condition that the days of the contexts do not
go back. `pay()` makes a policy for each payment, so there the vault's daily cap is one per
payment, and what holds over a day is the cap of `SpendLedger`.

Observed while modelling, and part of the models without a property of their own: over
WebSockets `stream()` never looks at `closed` (so `HttpOverrunBounded` is about HTTP); an
`mpp-charge` answer that asked for nothing keeps its reservation; `SeenTxStore.ts:91`
says clients "re-sign on every retry", but `x402Client.ts:214` and `MppChargeClient.ts:43`
retry with the same payment, which is what the replay is for; an invalidation during a
fetch does not affect its result; the Express DELETE has no 409 floor, its reset after
the vault record discards a commit that landed meanwhile, and a session without a record
(after a restart) is closed without a vault event because its payer is unknown; two
reconcilers may overwrite each other's attempts; a backfill that fails leaves a gap.

The modules also state, unchecked by a run, comments whose violation has the same
roots: `ClosedIssuesNothing` (a request whose `checkSpend()` was awaited when
`close()` came is still sent), `SpendCoversVouchers` (a retry signs a new voucher
without asking the spend hook), `CloseBodySigned` (a DELETE body names the cumulative
of its moment, the signature that of the simulation), `CloseCoversVerified` (a
voucher verified after the floor was read), `PostsAreSigned`, `FailedMeansUnsettled`,
`FailedIsTerminal`, `ClosedRowStays` (late statements on a resolved row). What is
guaranteed instead is what the passing runs check: the overrun is at most one
request, exposure at most `MaxAttempts` times what was spent, a close pays at least
what had been served when its DELETE arrived, and a recorded hash is of the
transaction that closed the channel.

### Fairness

* `SessionClient!SessionFairness`: each request and each generator make progress, because
  every await settles (fetch answers or fails, the store and the hook resolve) and
  the consumer pulls or breaks. Nothing makes the agent call `close()` or a provider
  close a socket. `FairOrderbookSpec`, for `PaidStreamYields` alone, adds that the route
  answers and its timers fire, and that a snapshot gets through now and then (the one
  strong fairness: a push may fail any number of times, not for ever).
* `SessionProvider!FairSpec`: commits, DELETEs and orphan calls progress and a
  running idle timer fires; nothing makes the payer send anything or its connection
  drop. `ExpressSession!FairSpec`: a running idle timer fires.
* `FairRecoverySpec`: the cron trigger keeps coming (every 15 minutes), its run goes on
  and callbacks run. Nobody has to start the recovery tool, or let it end.
* `AgentPrograms!ProgramsSpec`: the timeout of the MCP server's shutdown fires.

Deadlock is not checked where a session, a call or a program really ends (all but the vault).

## Proofs

TLAPS proves for every value of the constants that satisfies the named assumptions:

* `AgentVaultProofs`
  * `TypeCorrect`: types, from `AmountsAssumption` and `LedgerAssumption`.
  * `CountersExact`: `CountersAreExact`. It is not inductive: a counter that expired
    inside its bucket would lose payments, and a call in progress has counted
    what is not yet stored. `ExactInv` adds that non-zero counters of the bucket
    live to its end (`CountersOutliveBucket`, from `SameBucket`: two ledgers of a day
    are less than `DAY` apart, and a written counter lives `DAY` more), that later
    buckets are empty, and that the overlay is the stored counters plus what the
    call has sent.
  * `WithinCaps`: `PaymentsWithinCaps`, from `ExactInv` and `OverlayWithinCaps`: caps
    cannot change during a call, so the overlay respects them until the commit.
  * `UpgradeNotice` and `NoticeLive`: the stored proposal is the announced one, due one
    timelock later, and the instance lives past that (`UpgradeInv`).
* `VoucherClientProofs`, first about `VoucherClient` by itself
  * `TypeCorrect`: types, with the count of attempts.
  * `NoneSignedTwice`: `NoCumulativeTwice`, from `BelowReservation`: everything created or
    signed is at most `reserved`, and a release only takes back the top, which
    nobody else holds and nobody has signed.
  * `OverrunByOne`: `OverrunBounded`, from `QueueInv` and an account of where the generator
    may still issue after `close()` (`OverrunInv`).

  then about the session with sockets, disputes and either provider (`ProvidersSpec`), to
  which these carry over because a socket's negotiation is a step of the same reservation
  and a dispute only reads:
  * `SessionSignsOnce` and `SessionOverrunByOne`: `NoCumulativeTwice`, `HttpOverrunBounded`.
  * `ChannelExposure`: `ExposureBounded`. The bound counts attempts and the exposure is
    a difference of cumulatives, so the invariant relates the two: above the baseline,
    `reserved` never exceeds the number of attempts accepted requests have had, that is
    `MaxAttempts` for each less those still unused (`AttemptsSuffice`, a cardinality that
    falls by one with each reservation).
  * `OneNumbering`: the session implements `VoucherNumbers` (`ImplementsNumbers`). The last
    number drawn is `reserved`, or the baseline until it is set, and a request holds a number
    while its credential is created. A draw is by one from the last whatever a challenge
    reports, and `AttemptsSuffice` leaves a try for it.
  * `DisputesReturnWhatIsApplied`: `ReturnedIsApplied`, from `DisputeInv`: a call is over
    only when its transaction was applied, and a settlement's amount is one that was signed.
  * `TextFramesComeInOrder` and `EndedStreamsReleaseSockets`: `TextFramesInOrder`,
    `SocketsReleased`, from `SocketsInv`: on each connection the text frames
    consumed and then those queued are in the order of sending and, until the stream is
    left or fails, all that was sent (`InOrder`, `NoneLost`); a socket that has let go of its
    stream has an empty queue, and one that has reported a close is closed (`SocketFits`).
* `SessionProviderProofs`
  * `TypeCorrect`: types.
  * `OnlyVerifiedReported`: `ReportsAreVerified`, from `Provenance`: every number in the
    record, its entry, the continuations and the callbacks is a verified voucher's or 0.
  * `ServedIsSettled`: `SettlementCoversServed`, assuming that reads of the store do not fail
    (`"read" \notin StoreFailures`), from `Floor`: no verified voucher lies above mppx's
    entry, and no close on its way lies below the vouchers its DELETE found served. With
    failing reads it does not hold, because the code takes no answer for no floor.
  * `HandlerKeepsPromise`: `Spec` implements `Channel` (`ImplementsChannel`), under the same
    assumption and for its reason. A voucher is verified once mppx let it past, a request to
    close is open from its arrival until it is answered or lost, and covers what it found
    served. `ChannelInv` adds to `Floor` that whoever is at the chain names an amount above 0
    (`ClosesNamed`) and that no DELETE has been promised anything before a close (`NonePromised`).
  * `RecoveryKeepsPromise`: `RecoverySpec` implements `Channel` with reconcilers
    (`ImplementsRecoverable`). A run may close below what is served, but only for a voucher that
    was verified, because rows, runs and statements name no others (`RowsVerified`).
    `RecoveryCoversPromised`: what a DELETE settles covers what it found served there too.
  * `TablesTellTheTruth`: `RecordedSettlementsAreReal` of `RecoverySpec`, with any faults and
    evictions. The invariant `RecordInv` treats the hash of the close as a token: there is
    none before the close, and then at most one of a DELETE (`Closers`), a run (`Settlers`), a
    statement (`Reports`) and `tx_log` has it (`OneEntry`); whoever has it knows the amount
    settled, and whoever may still close names one above 0 (`ClosersAgree`, `RunsAgree`).
* `ExpressSessionProofs`: `CloseCoversServed` (`SettlementCoversServed`) and `ReportsAreTrue`
  (`ReportsMatchChain`), from `ExpressInv`: while the channel is open the record is the
  highest voucher served (`RecordCoversServed`), it counts no more vouchers than its amount, and
  a close that can still happen covers what its DELETE found served (`CloseCovers`),
  whatever other DELETEs and restarts do to the record meanwhile. `ExpressKeepsPromise`: it
  implements `Channel` with a memory that a restart empties (`ImplementsForgetful`); mppx's
  entry, above which alone a voucher is verified, covers what was verified (`EntryCovers`).
* `ProviderRoutingProofs`: `RouteRunsWhenPaid` (`ServedIsPaid`), `PaymentIsBounded`
  (`PaidAsPublished`) and `PublishedModesAreReached` (`PublishedIsPayable`), from `RoutingInv`:
  a handler has either answered or handed its request on, to the route only when it settled
  (`WebInv`), the client holds a price for its mode (`CallInv`), and as long as no deployment
  came between and one MPP mode was published, its probe and its DELETE are at the
  handler of its mode (`ProbeInv`, `CloseInv`).
* `DiscretePaymentProofs`, first about its two parts
  * `LedgerTypes`, which includes that the client's mutex excludes, and `LedgerCaps`
    (`LedgerWithinCaps`): a reservation that both checks let through keeps the totals of its
    day within the caps, and everything else lowers or resets them.
  * `LedgerExact` (`LedgerIsExact`): the total is what the calls counted on its day cost, less
    what calls of another day gave back late, and an endpoint's is exact unless that happened
    on it. A sum over a set of calls is stated as the number of their stroops
    (`Stroops`), so that the library's facts on cardinalities take the place of induction over
    the set. The invariant adds that no reservation is of a later day than the record and the
    record of none later than today (`Dated`): a new day's record rightly counts nothing.
  * `MutexIsAtomic`: over a store with `read` and `write` only, the client implements itself over
    a store with `update()` (`Atomic!LedgerSpec`): waiting for the mutex and reading are no step,
    and what was read is still the ledger when it is written (`PrevIsLedger`, from the types).
  * `PaymentServedAtMost` (`ServedAtMost`). The invariant adds that of an unsettled payment
    nothing is known, at most one request records a payment and only on its path, and
    that while its entry stands what was served is what it counts.

  then about the composition, each step of which is a step of one part or both:
  * `CallPaysOnce` (`OnePaymentPerCall`) from `SignedOnce` (every request carries the first
    payment of its call); `PaymentsWithinCaps`, `PayServedAtMost` and `PaymentsExact`;
    `PaymentsKeepTheLedger`: to the ledger the composition is `LedgerSpec`, and `Atomic!LedgerSpec`.
  * `MovedCounted` (`MovedIsCounted`): all that the chain moved is in the daily total, through
    retries, strays, evictions and restarts, except what a call moved that gave its
    reservation back after being `Disturbed` itself. No fault of another call excuses it, nor
    one fault a call that may try again. The invariant says that each attempt but the last
    failed by a fault of its own (`FaultPerAttempt`), that if only the first request carried
    a payment it is that request that settled it (`FirstSettles`), and why a call gives up
    (`GivesUpUnpaid`); the others' reservations stand, no call signs more than it
    reserved (`AskedIsReserved`), and the total counts what stands.
* `FileSpendStoreProofs`
  * `FileStoreTypes`: types.
  * `FileStoreIsAtomic`: `Spec` implements `Store!Spec`, assuming `Prompt`: no process creates
    the lock file between a check of another and the operation it guards. The code
    does not ensure that. For a waiter it follows from the sleep of 5 ms or more
    (`FileSpendStore.ts:211`) unless a process is held up for as long; the first open of a call
    (`:187`) sleeps nothing, and for it `Prompt` is only likely. Both are needed: a
    caller that never waited, too, can take a lock broken between its holder's last check and
    its rename, and one of the two updates is lost. The proof rests on the fact that
    whoever is at its rename has read the current state (`CommitIsCurrent`). Without
    `Prompt` the theorem is false, as the table above shows.
  * `LockIsReleased`: `LockNotLeftBehind`, prompt or not, from `HolderWillRelease`: while
    nothing has failed the creator of the lock file is before its release and, once past the
    write of its token, can tell that the file is its own.
* `AgentProgramsProofs`: a step of one program leaves the variables of the others alone, so
  each has an inductive invariant of its own, proved with its module's next-state relation
  and then carried to `ProgramsSpec`.
  * `StalenessIsBounded`, `InvalidatedStaysAway` (`CacheInv`): what a
    fetch, an entry and a call carry had not been replaced when the fetch they come from was
    sent, and an invalidation without a fetch under way raises the least version of them all. Assumes that `Lifetimes` has a longest one (`CacheAssumption`).
  * `ManifestsGoForward` (`NeverAnOlderManifest`) from `InOrder`: no caller was given anything
    newer than the entry, or than the answer of the fetch under way, of which there is one at most.
  * `ExitZeroHasSettled` (`ServerInv`): what the shutdown counts as closed is settled, and a
    code of 0 leaves nothing else that it found.
  * `CompletedHasSettled` (`AgentInv`): a close with a result has settled, whoever asked for it,
    and a program completes with a result or, the stress test only, with exit code 1.
  * `OpenIsHeld` (`HookInv`), `LiveFeedIsComplete` and `FeedGoesForward` (`FeedInv`): each of
    the newest rows is shown, or on the channel, or brought by a read under way.
  * `ProofsKeepPolicy` (`VaultInv`): while the days of the contexts do not go back, the spend of a
    policy is what was proven on its day and nothing is proven for a later one (`PolicyCounts`).

Every invariant, every action property and the refinements a passing run checks are stated
by a theorem.

The refinements no run checks were also checked by TLC before their proof, each as the one
property of a run, with its constants and specification:
`ImplementsRecoverable` (`MCSessionRecovery.cfg`), `ImplementsForgetful`
(`MCExpressSession.cfg`), `ImplementsNumbers` (`MCVoucherClient.cfg`) and, from
`DiscretePaymentProofs`, `Atomic!LedgerSpec` (`MCSpendLedger.cfg`).

Only model-checked:

* Liveness under fairness, which is out of the prover's reach: `StreamsEnd`,
  `OpenSessionIsFlagged` on both handlers, `OrphansAreResolved`, `ShutdownExits`.

## Not modelled

* `getDisputeStatus`, `preflight`, `check_balance`, `list_providers`: they only read.
* Backoff times, and the clock of the session's lifetime guard (it may call `close()` at
  any moment, as anybody may).
* Manifest signing, canonicalisation and schema validation; voucher signatures; the
  zero-knowledge proofs, commitments and encodings of Nulth: pure functions over data TLC cannot enumerate. Where
  their outcome decides, it is one of the reasons a step fails.
* Registry queries, session store adapters, `provider-a`: no state or logic of their own; the
  adapters' reads and writes are the stores of `VoucherClient` and `SessionProvider`.
* The report of the stress test and its modes without secrets, the filter of `useTxLog`,
  rendering, metrics and the remaining pages of the dashboard; of `provider-b`, the
  manifest route.
* On hono the vault record is started and not awaited: nothing of the session depends on
  it. It is modelled where it matters, in `ExpressSession`.

## Plan

Done: the modules and theorems above. What remains worth adding, most important first:

1. `VoucherNumbers` and `Channel` composed, as the payer's and the provider's end of one
   channel: what is settled lies between what was served and what the spend hook accepted.
2. The vault's `__check_auth` as one step of an abstract allowance.
3. `SessionStore` adapters with their serialisation, if they come to hold logic.
