----------------------------- MODULE ReactHooks -----------------------------
(***************************************************************************)
(* The React hooks useSession and usePay of the SDK (react/): what a       *)
(* component shows and what it holds, over calls of open(), close() and    *)
(* pay() that overlap as they like and a component that may be gone when   *)
(* they answer.  State updates of an unmounted component do nothing.       *)
(***************************************************************************)
EXTENDS Integers, FiniteSets

CONSTANTS
  Opens,           \* calls of open(): each opens a session of its own
  CloseCalls,      \* calls of close()
  PayCalls,        \* calls of pay()
  Nothing

ASSUME HookAssumption == Nothing \notin Opens \cup PayCalls

VARIABLES
  mounted,
  status, session, \* useSession's state: status and session
  sessionRef,
  opening,         \* each open(): "idle", "asked", "opened" or "failed"
  closeAsked,      \* sessions whose close() was asked for
  closeCall,       \* each close(): the session it awaits
  loading, paid,   \* usePay's state: loading and result
  paying           \* each pay(): "idle", "asked" or "over"

hookVars == <<mounted, status, session, sessionRef, opening, closeAsked, closeCall, loading, paid, paying>>
sessionHook == <<status, session, sessionRef, opening, closeAsked, closeCall>>
payHook == <<loading, paid, paying>>

HookInit ==
  /\ mounted = TRUE
  /\ status = "idle" /\ session = Nothing /\ sessionRef = Nothing
  /\ opening = [o \in Opens |-> "idle"] /\ closeAsked = {}
  /\ closeCall = [c \in CloseCalls |-> [st |-> "idle", of |-> Nothing]]
  /\ loading = FALSE /\ paid = Nothing /\ paying = [p \in PayCalls |-> "idle"]

\* setState, of a component that is mounted.
Shows(newStatus, newSession) ==
  IF mounted THEN status' = newStatus /\ session' = newSession ELSE UNCHANGED <<status, session>>

----------------------------------------------------------------------------
\* useSession

Open(o) ==
  /\ mounted /\ opening[o] = "idle" /\ opening' = [opening EXCEPT ![o] = "asked"]
  /\ status' = "opening"
  /\ UNCHANGED <<mounted, session, sessionRef, closeAsked, closeCall, payHook>>

\* The reference is replaced, whatever it held, mounted or not.
OpenCallAnswers(o) ==
  /\ opening[o] = "asked" /\ opening' = [opening EXCEPT ![o] = "opened"]
  /\ sessionRef' = o /\ Shows("open", o)
  /\ UNCHANGED <<mounted, closeAsked, closeCall, payHook>>

OpenCallFails(o) ==
  /\ opening[o] = "asked" /\ opening' = [opening EXCEPT ![o] = "failed"]
  /\ Shows("error", session)
  /\ UNCHANGED <<mounted, sessionRef, closeAsked, closeCall, payHook>>

Close(c) ==
  /\ mounted /\ closeCall[c].st = "idle" /\ sessionRef # Nothing
  /\ closeCall' = [closeCall EXCEPT ![c] = [st |-> "asked", of |-> sessionRef]]
  /\ closeAsked' = closeAsked \cup {sessionRef}
  /\ status' = "closing"
  /\ UNCHANGED <<mounted, session, sessionRef, opening, payHook>>

\* Mutant: the state is left to the session that was opened since.
CloseCallAnswersItsOwn(c) ==
  /\ closeCall[c].st = "asked" /\ closeCall' = [closeCall EXCEPT ![c].st = "over"]
  /\ sessionRef' = Nothing
  /\ IF session = closeCall[c].of THEN Shows("closed", Nothing) ELSE UNCHANGED <<status, session>>
  /\ UNCHANGED <<mounted, opening, closeAsked, payHook>>

\* The reference is cleared, whatever it holds by now.
CloseCallAnswers(c) ==
  /\ closeCall[c].st = "asked" /\ closeCall' = [closeCall EXCEPT ![c].st = "over"]
  /\ sessionRef' = Nothing /\ Shows("closed", Nothing)
  /\ UNCHANGED <<mounted, opening, closeAsked, payHook>>

CloseCallFails(c) ==
  /\ closeCall[c].st = "asked" /\ closeCall' = [closeCall EXCEPT ![c].st = "over"]
  /\ Shows("error", session)
  /\ UNCHANGED <<mounted, sessionRef, opening, closeAsked, payHook>>

\* The session that the reference holds is closed in the background.
ComponentUnmounts ==
  /\ mounted /\ mounted' = FALSE
  /\ closeAsked' = closeAsked \cup ({sessionRef} \ {Nothing}) /\ sessionRef' = Nothing
  /\ UNCHANGED <<status, session, opening, closeCall, payHook>>

----------------------------------------------------------------------------
\* usePay

Pay(p) ==
  /\ mounted /\ paying[p] = "idle" /\ paying' = [paying EXCEPT ![p] = "asked"]
  /\ loading' = TRUE
  /\ UNCHANGED <<mounted, sessionHook, paid>>

\* The last answer is the one shown, and no call is taken to be loading any more.
PayAnswers(p) ==
  /\ paying[p] = "asked" /\ paying' = [paying EXCEPT ![p] = "over"]
  /\ IF mounted THEN loading' = FALSE /\ paid' \in {p, paid} ELSE UNCHANGED <<loading, paid>>
  /\ UNCHANGED <<mounted, sessionHook>>

HookStep ==
  \/ \E o \in Opens : Open(o) \/ OpenCallAnswers(o) \/ OpenCallFails(o)
  \/ \E c \in CloseCalls : Close(c) \/ CloseCallAnswers(c) \/ CloseCallFails(c)
  \/ \E p \in PayCalls : Pay(p) \/ PayAnswers(p)
  \/ ComponentUnmounts

HookSpec == HookInit /\ [][HookStep]_hookVars

----------------------------------------------------------------------------
\* useSession.ts: "On unmount, fires session.close() in the background if
\* status === 'open'": a session shown as open is the one held, so that it is closed,
\* after opens and closes that overlapped and failed.
OpenIsClosedOnUnmount ==
  status = "open" =>
    /\ session # Nothing
    /\ IF mounted THEN sessionRef = session ELSE session \in closeAsked

\* No session the hook opened is left open: a component that is gone has asked to
\* close all of them.
NoSessionLeaks ==
  ~mounted => \A o \in Opens : opening[o] = "opened" => o \in closeAsked

\* The hook says loading as long as a payment is under way.
LoadingMeansPaying == mounted => (loading = \E p \in PayCalls : paying[p] = "asked")
=============================================================================
