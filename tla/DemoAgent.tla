----------------------------- MODULE DemoAgent -----------------------------
(***************************************************************************)
(* The programs that open one session, stream, and close it: the demo      *)
(* agent (agent/src/index.ts), whose SIGINT and SIGTERM handlers close the *)
(* session as well, and the stress test (agent/src/stress.ts), which has   *)
(* no handlers.                                                            *)
(*                                                                         *)
(* The SDK's close() leaves the channel settled when it returns; when it   *)
(* throws, the channel is settled or not.                                  *)
(***************************************************************************)
EXTENDS Integers, FiniteSets

CONSTANT Programs  \* "agent" or "stress"

ASSUME AgentAssumption == Programs \subseteq {"agent", "stress"}

Signals == {"SIGINT", "SIGTERM"}
Askers == Signals \cup {"main"}

VARIABLES
  program,
  main,            \* where main() is
  channel,         \* "none", "open" or "settled"
  activeSession,   \* whether there is one
  closingSession,
  asker,           \* each caller of closeActiveSession: what became of its close()
  outcome,         \* of main(): "none", "result" or "error"
  exitCode

agentVars == <<program, main, channel, activeSession, closingSession, asker, outcome, exitCode>>

AgentInit ==
  /\ program \in Programs /\ main = "paying" /\ channel = "none"
  /\ activeSession = FALSE /\ closingSession = FALSE
  /\ asker = [a \in Askers |-> "idle"] /\ outcome = "none" /\ exitCode = "none"

Alive == exitCode = "none"
IsOver(a) == asker[a] \in {"closed", "failed", "nothing"}

\* main() rejects.
Throws == exitCode' = "1" /\ UNCHANGED <<program, main, channel, activeSession, closingSession, asker, outcome>>

MainAt(place) == Alive /\ main = place

----------------------------------------------------------------------------
\* main(): two payments, the session, and a payment over the cap

GoesOn(place) ==
  main' = place /\ UNCHANGED <<program, channel, activeSession, closingSession, asker, exitCode>>

\* A payment that fails ends the agent.
Pays ==
  /\ MainAt("paying") /\ program = "agent"
  /\ Throws \/ (GoesOn("opening") /\ UNCHANGED outcome)

\* The stress test goes on past unpaid probes with another answer than 402,
\* payments that fail and payments without a hash: samples of its report.
Samples ==
  /\ MainAt("paying") /\ program = "stress"
  /\ outcome' \in {"none", "error"} /\ GoesOn("opening")

SessionOpens ==
  /\ MainAt("opening") /\ channel' = "open" /\ activeSession' = TRUE /\ main' = "streaming"
  /\ UNCHANGED <<program, closingSession, asker, outcome, exitCode>>

\* The agent gives up; the stress test notes a failed sample.
OpenFails ==
  /\ MainAt("opening")
  /\ IF program = "agent" THEN Throws
     ELSE /\ main' = "reporting" /\ outcome' = "error"
          /\ UNCHANGED <<program, channel, activeSession, closingSession, asker, exitCode>>

\* The messages are there, or the stream ends with a close() under way, or it throws.
StreamEnds ==
  /\ MainAt("streaming")
  /\ \/ main' = "closing" /\ UNCHANGED outcome
     \/ main' = (IF program = "agent" THEN "finally" ELSE "closing") /\ outcome' = "error"
  /\ UNCHANGED <<program, channel, activeSession, closingSession, asker, exitCode>>

\* closeActiveSession: nothing to do, or to wait for, while somebody else closes.
CloseActiveSession(a) ==
  IF activeSession /\ ~closingSession
    THEN closingSession' = TRUE /\ asker' = [asker EXCEPT ![a] = "closing"]
    ELSE asker' = [asker EXCEPT ![a] = "nothing"] /\ UNCHANGED closingSession

MainCloses ==
  /\ MainAt("closing") /\ CloseActiveSession("main") /\ main' = "closed"
  /\ UNCHANGED <<program, channel, activeSession, outcome, exitCode>>

MainClosed ==
  /\ MainAt("closed") /\ IsOver("main")
  /\ outcome' = CASE asker["main"] = "failed" -> "error"
                  [] asker["main"] = "closed" /\ outcome = "none" -> "result"
                  [] OTHER -> outcome
  /\ main' = IF program = "agent" THEN "finally" ELSE "reporting"
  /\ UNCHANGED <<program, channel, activeSession, closingSession, asker, exitCode>>

\* The finally block tries again if there is still a session.
Finally ==
  /\ MainAt("finally") /\ main' = "leaving"
  /\ IF activeSession THEN CloseActiveSession("main") ELSE UNCHANGED <<closingSession, asker>>
  /\ UNCHANGED <<program, channel, activeSession, outcome, exitCode>>

\* Mutant: only an error ends the run.
NoError == outcome # "error" /\ asker["main"] # "failed"

\* The result of main's own close() is needed to go on.
HasResult == outcome = "result" /\ asker["main"] # "failed"

Leaves ==
  /\ MainAt("leaving") /\ (IsOver("main") \/ asker["main"] = "idle")
  /\ IF HasResult
       THEN /\ main' = "reporting"
            /\ UNCHANGED <<program, channel, activeSession, closingSession, asker, outcome, exitCode>>
       ELSE Throws

\* The payment over the cap and the summary, or the report: main() returns, or not.
Completes ==
  /\ MainAt("reporting")
  /\ \/ program = "agent" /\ Throws
     \/ /\ main' = "completed"
        /\ exitCode' = IF program = "stress" /\ outcome = "error" THEN "1" ELSE exitCode
        /\ UNCHANGED <<program, channel, activeSession, closingSession, asker, outcome>>

\* Nothing is left to wait for.
ProcessEnds ==
  /\ MainAt("completed") /\ \A a \in Askers : asker[a] # "closing" /\ exitCode' = "0"
  /\ UNCHANGED <<program, main, channel, activeSession, closingSession, asker, outcome>>

----------------------------------------------------------------------------
\* Signals and closes

\* process.once: a signal is handled the first time it comes, and the stress test
\* ends of it.
Signal(s) ==
  /\ Alive /\ asker[s] = "idle"
  /\ IF program = "agent" THEN CloseActiveSession(s) /\ UNCHANGED exitCode
     ELSE exitCode' = s /\ UNCHANGED <<closingSession, asker>>
  /\ UNCHANGED <<program, main, channel, activeSession, outcome>>

SignalExits(s) ==
  /\ Alive /\ IsOver(s) /\ exitCode' = IF asker[s] = "failed" THEN "1" ELSE "0"
  /\ UNCHANGED <<program, main, channel, activeSession, closingSession, asker, outcome>>

\* close() returns or throws, and the session is forgotten either way.
CloseEnds(a) ==
  /\ Alive /\ asker[a] = "closing"
  /\ \/ channel' = "settled" /\ asker' = [asker EXCEPT ![a] = "closed"]
     \/ channel' \in {channel, "settled"} /\ asker' = [asker EXCEPT ![a] = "failed"]
  /\ activeSession' = FALSE /\ closingSession' = FALSE
  /\ UNCHANGED <<program, main, outcome, exitCode>>

AgentStep ==
  \/ Pays \/ Samples \/ SessionOpens \/ OpenFails \/ StreamEnds
  \/ MainCloses \/ MainClosed \/ Finally \/ Leaves \/ Completes \/ ProcessEnds
  \/ \E s \in Signals : Signal(s) \/ SignalExits(s)
  \/ \E a \in Askers : CloseEnds(a)

AgentSpec == AgentInit /\ [][AgentStep]_agentVars

----------------------------------------------------------------------------
\* A run that goes to its end without an error has settled the channel, whatever
\* signals came and whoever closed it.
CompletedMeansSettled ==
  main = "completed" /\ exitCode \notin {"1"} \cup Signals => channel = "settled"

\* What the signal handlers are for: the agent does not end while a close() that
\* it asked for is under way.
ExitAwaitsClose == program = "agent" /\ ~Alive => \A a \in Askers : asker[a] # "closing"
=============================================================================
