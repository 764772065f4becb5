-------------------------- MODULE SessionRecovery --------------------------
(***************************************************************************)
(* A provider's session from voucher to settlement: SessionProvider's      *)
(* handler, the row its callbacks write in the sessions table              *)
(* (provider-b/src/sessionWrites.ts over supabase/migrations), and the     *)
(* reconcilers that close abandoned channels                               *)
(* (provider/SessionReconciler.ts): a cron trigger runs one in the         *)
(* provider's instance (worker.ts, ChannelSession.ts), an operator another *)
(* on his own machine (agent/src/recover-sessions.ts), at the same time if *)
(* it so happens.                                                          *)
(*                                                                         *)
(* A statement on the row is atomic; callbacks run concurrently, and each  *)
(* statement takes effect at any time or, at most MaxFaults times, never.  *)
(***************************************************************************)
EXTENDS SessionProvider, Sequences

CONSTANTS
  Reconcilers,           \* who runs them: "cron", "tool"
  maxReconcileAttempts,
  MaxFaults              \* bound: statements, closes and hooks that fail

ASSUME RecoveryAssumption ==
  /\ Reconcilers \subseteq {"cron", "tool"}
  /\ maxReconcileAttempts \in Nat \ {0} /\ MaxFaults \in Nat

VARIABLES
  row,        \* the channel's row in the sessions table
  tx_log,     \* the hashes of the entries of the tx_log table that say channel_close
  job,        \* each reconciler's run: the row as selected, and how far it is
  faults,
  abandoned   \* the vouchers served when the run that settled started

recovery == <<row, tx_log, job, faults, abandoned>>
allVars  == <<vars, recovery>>

Row(status, amount, sig, hash, attempts) ==
  [status |-> status, amount |-> amount, sig |-> sig, hash |-> hash, attempts |-> attempts]
NoRow == Row("none", 0, 0, 0, 0)

Job(st, selected, seen) == [st |-> st, row |-> selected, seen |-> seen]
NoJob == Job("off", NoRow, {})

RecoveryInit ==
  /\ Init
  /\ row = NoRow /\ tx_log = <<>>
  /\ job = [r \in Reconcilers |-> NoJob] /\ faults = 0 /\ abandoned = {}

\* One more thing goes wrong.
Fault == faults < MaxFaults /\ faults' = faults + 1

----------------------------------------------------------------------------
\* sessionWrites.ts: one statement of a callback.  Those of an orphan and of a
\* settlement have two, the second of which is left in posts once the first is
\* over, whether or not it took effect.

Exists == row.status # "none"

\* UPDATE ... WHERE cumulative_amount < amount
Advanced(amount, sig) ==
  IF Exists /\ row.amount < amount
    THEN Row(row.status, amount, sig, row.hash, row.attempts) ELSE row

\* What the statement makes of the row.
Written(p) ==
  CASE p.kind = "open" -> IF Exists THEN row ELSE Row("open", 0, 0, 0, 0)
    [] p.kind \in {"voucher", "advance"} -> Advanced(p.amount, p.sig)
    [] p.kind = "orphan" ->
         IF Exists THEN Row("closing", row.amount, row.sig, row.hash, row.attempts) ELSE row
    [] p.kind = "log" -> row
    [] p.kind = "settled" ->
         IF row.status \in {"open", "closing"}
           THEN Row("closed", row.amount, row.sig, p.amount, row.attempts) ELSE row

Following(p) ==
  CASE p.kind = "orphan"  -> {Post("advance", p.amount, p.sig)}
    [] p.kind = "settled" -> {Post("log", p.amount, 0)}
    [] OTHER -> {}

\* The second statement of onSettled.
Logged(p) == IF p.kind = "log" THEN Append(tx_log, p.amount) ELSE tx_log

RunPost(p) ==
  /\ posts' = (posts \ {p}) \cup Following(p)
  /\ \/ row' = Written(p) /\ tx_log' = Logged(p) /\ UNCHANGED faults
     \/ Fault /\ UNCHANGED <<row, tx_log>>
  /\ UNCHANGED <<memory, store, settled, calls, evictions, observed, job, abandoned>>

----------------------------------------------------------------------------
\* reconcileAbandonedSessions, run by r

At(r, st) == job[r].st = st

\* r goes on with the row it has.
Goes(r, st) == job' = [job EXCEPT ![r] = Job(st, job[r].row, {})]

Ends(r) == job' = [job EXCEPT ![r] = NoJob]

\* Mutant: the attempts are not recorded.
AttemptedUncounted(r) == row

\* The row as r's catch block leaves it: one more attempt than when r selected it,
\* and the end at the last.
Attempted(r) ==
  LET n == job[r].row.attempts + 1
  IN Row(IF n >= maxReconcileAttempts THEN "failed" ELSE row.status,
         row.amount, row.sig, row.hash, n)

\* What the query asks for.
Orphaned == row.status = "closing" /\ row.hash = 0 /\ row.sig # 0

SelectRow(r) ==
  /\ r \in Reconcilers /\ At(r, "off")
  /\ Orphaned
  /\ job' = [job EXCEPT ![r] = Job("closing", row, served)]
  /\ UNCHANGED <<vars, row, tx_log, faults, abandoned>>

\* The cron trigger reaches the instance, if it is configured.
Scheduled == SelectRow("cron")

\* An operator starts the recovery tool.
ToolStarted == SelectRow("tool")

\* The close lands; its caller may not hear of it.
ReconcilerCloses(r) ==
  /\ At(r, "closing") /\ settled = 0
  /\ job[r].row.sig = job[r].row.amount
  /\ settled' = job[r].row.amount /\ abandoned' = job[r].seen
  /\ \/ Goes(r, "closed") /\ UNCHANGED faults
     \/ Fault /\ Goes(r, "error")
  /\ UNCHANGED <<memory, store, calls, posts, evictions, observed, row, tx_log>>

\* Mutant: every refusal is taken for a closed channel.
CloseAssumedDone(r) ==
  /\ At(r, "closing") /\ Goes(r, "already")
  /\ UNCHANGED <<vars, row, tx_log, faults, abandoned>>

\* The contract refuses a closed channel, in words ALREADY_CLOSED_PATTERN knows,
\* and a signature of another amount; the network may fail.
CloseRefused(r) ==
  /\ At(r, "closing")
  /\ \/ settled # 0 /\ Goes(r, "already") /\ UNCHANGED faults
     \/ settled = 0 /\ job[r].row.sig # job[r].row.amount
        /\ Goes(r, "error") /\ UNCHANGED faults
     \/ Fault /\ Goes(r, "error")
  /\ UNCHANGED <<vars, row, tx_log, abandoned>>

\* The row is marked with the hash, then onRecovered is awaited; an update that
\* fails may have reached the table.
MarkRecovered(r) ==
  /\ At(r, "closed")
  /\ LET marked == Row("closed", row.amount, row.sig, settled, row.attempts)
     IN \/ row' = marked /\ Goes(r, "recovered") /\ UNCHANGED faults
        \/ Fault /\ row' \in {row, marked} /\ Goes(r, "error")
  /\ UNCHANGED <<vars, tx_log, abandoned>>

\* What the hook of the instance writes; the tool's only prints.
RecoveryLogged(r) == IF r = "cron" THEN Append(tx_log, settled) ELSE tx_log

\* A hook may lose its entry, or throw.
OnRecovered(r) ==
  /\ At(r, "recovered")
  /\ \/ tx_log' = RecoveryLogged(r) /\ Ends(r) /\ UNCHANGED faults
     \/ Fault /\ UNCHANGED tx_log /\ (Ends(r) \/ Goes(r, "error"))
  /\ UNCHANGED <<vars, row, abandoned>>

MarkAlreadyClosed(r) ==
  /\ At(r, "already")
  /\ LET marked == Row("closed", row.amount, row.sig, row.hash, row.attempts)
     IN \/ row' = marked /\ Ends(r) /\ UNCHANGED faults
        \/ Fault /\ row' \in {row, marked} /\ Goes(r, "error")
  /\ UNCHANGED <<vars, tx_log, abandoned>>

RecordFailure(r) ==
  /\ At(r, "error")
  /\ \/ row' = Attempted(r) /\ UNCHANGED faults
     \/ Fault /\ UNCHANGED row
  /\ Ends(r)
  /\ UNCHANGED <<vars, tx_log, abandoned>>

RunStep(r) ==
  \/ ReconcilerCloses(r)
  \/ CloseRefused(r)
  \/ MarkRecovered(r)
  \/ OnRecovered(r)
  \/ MarkAlreadyClosed(r)
  \/ RecordFailure(r)

----------------------------------------------------------------------------
\* The handler's steps; an eviction takes the run of the instance with it.
ProviderStep ==
  /\ Next
  /\ job' = [r \in Reconcilers |->
               IF r = "cron" /\ evictions' # evictions THEN NoJob ELSE job[r]]
  /\ UNCHANGED <<row, tx_log, faults, abandoned>>

RecoveryNext ==
  \/ ProviderStep
  \/ \E p \in posts : RunPost(p)
  \/ Scheduled
  \/ ToolStarted
  \/ \E r \in Reconcilers : RunStep(r)

RecoverySpec == RecoveryInit /\ [][RecoveryNext]_allVars

\* The cron trigger keeps coming and its run goes on, callbacks run; nobody has
\* to start the tool or let it end.
FairRecoverySpec ==
  /\ RecoverySpec
  /\ WF_allVars(Scheduled \/ ("cron" \in Reconcilers /\ RunStep("cron")))
  /\ WF_allVars(\E p \in posts : RunPost(p))

----------------------------------------------------------------------------
\* Properties

Rows == [status : {"none", "open", "closing", "closed", "failed"}, amount : Amounts,
         sig : Amounts, hash : Amounts, attempts : Nat]

\* The row is one the table's constraints allow, the run in one of its states.
RecoveryTypeOK ==
  /\ row \in Rows
  /\ \A r \in Reconcilers :
       /\ job[r].st \in {"off", "closing", "closed", "already", "recovered", "error"}
       /\ job[r].row \in Rows /\ job[r].seen \subseteq Vouchers
  /\ tx_log \in Seq(Amounts)
  /\ faults \in 0..MaxFaults /\ abandoned \subseteq Vouchers

\* The tables never say settled of an open channel, the hash they record is of the
\* transaction that closed it, and tx_log has it once: DELETE closes, recovered
\* closes by either reconciler, closes nobody heard of and late callbacks, in any
\* order.
RecordedSettlementsAreReal ==
  /\ row.status = "closed" => settled # 0
  /\ row.hash # 0 => row.hash = settled
  /\ tx_log \in {<<>>, <<settled>>}

\* With reconcilers too the channel is what Channel promises: whoever closes it,
\* a DELETE's close covers what it found served and a run's is a verified voucher.
ImplementsRecoverable == Promise!RecoverableSpec

\* A row the reconciler can settle does not stay for ever.
OrphansAreResolved ==
  Orphaned ~> (row.status \in {"closed", "failed"} \/ row.hash # 0)

\* maxReconcileAttempts' comment: "Failed close attempts before a row is moved to
\* the terminal `failed` status": no close has succeeded for a failed row.
FailedMeansUnsettled == row.status = "failed" => row.hash = 0

\* Migration 007: "add a terminal `failed` status so exhausted rows stop being
\* retried".
FailedIsTerminal == [][row.status = "failed" => row'.status = "failed"]_allVars

\* onSettled's comment: "rows already `closed` stay untouched".
ClosedRowStays == [][row.status = "closed" => row'.status = "closed"]_allVars

\* worker.ts' comment: "settlement serializes against live voucher traffic instead
\* of racing it": a run settles what was served when it started.
RecoveryCoversServed == settled # 0 => \A v \in abandoned : v <= settled
=============================================================================
