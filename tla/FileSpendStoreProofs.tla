------------------------ MODULE FileSpendStoreProofs ------------------------
(***************************************************************************)
(* Proofs about FileSpendStore: as long as operations issued back to back  *)
(* stay together, the file under its lock implements the atomic store.     *)
(*                                                                         *)
(* The lock excludes through the check of the token and not by itself: a   *)
(* broken lock may have two calls read and one of them write, but the one  *)
(* that is about to rename owned the lock a moment ago, and while it is    *)
(* nobody can open another.                                                *)
(***************************************************************************)
EXTENDS FileSpendStore, TLAPS

\* A call that is about to commit, alone, over the file of this moment.
Committing(c) == c \notin dead /\ st[c] = "rename"

CommitIsCurrent ==
  \A c \in Calls : Committing(c) =>
    /\ val[c] = file /\ lock.by \in {c, Nobody}
    /\ \A d \in Calls : Committing(d) => d = c

\* The owner of the lock has read the file of this moment.
OwnerIsCurrent == \A c \in Calls : st[c] = "assert" /\ lock.by = c => val[c] = file

\* A call is in the file once it has committed, and then it answers so.
AppliedAnswersOk ==
  \A c \in Calls : c \in file => st[c] \in {"release", "remove", "done"} /\ res[c] = "ok"

\* A call that releases its lock knows its answer.
AnswerKnown ==
  \A c \in Calls : st[c] \in {"release", "remove", "done"} => res[c] \in {"ok", "error"}

IInv == TypeOK /\ CommitIsCurrent /\ OwnerIsCurrent /\ AppliedAnswersOk /\ AnswerKnown

\* The types hold at first and every step keeps them.
LEMMA TypesInductive == (Init => TypeOK) /\ (TypeOK /\ [Next]_vars => TypeOK')
<1>1. Init => TypeOK
  BY BoundsAssumption DEF Init, TypeOK, NoLock, Steps
<1>2. TypeOK /\ [Next]_vars => TypeOK'
  <2> SUFFICES ASSUME TypeOK, [Next]_vars PROVE TypeOK' OBVIOUS
  <2> USE DEF TypeOK, Steps, At, Goto, Answer, faulty
  <2>1. Touched \in [Calls -> Calls \cup {Nobody}] BY DEF Touched
  <2>2. ASSUME NEW c \in Calls, OpenLock(c) PROVE TypeOK'
    <3>1. UNCHANGED <<file, val, seen, res, dead, asleep, faults, suspensions>> BY <2>2 DEF OpenLock
    <3>2. \/ lock' = [NoLock EXCEPT !.by = c] /\ Goto(c, "token")
          \/ UNCHANGED lock /\ Goto(c, "stat")
      BY <2>2 DEF OpenLock
    <3>3. st' \in [Calls -> Steps] BY <3>2
    <3>4. lock' \in [by : Calls \cup {Nobody}, written : BOOLEAN, stale : BOOLEAN] BY <3>2 DEF NoLock
    <3> QED BY <3>1, <3>3, <3>4
  <2>3. ASSUME NEW c \in Calls, WriteToken(c) PROVE TypeOK' BY <2>1, <2>3 DEF WriteToken
  <2>4. ASSUME NEW c \in Calls, StatLock(c) PROVE TypeOK' BY <2>4 DEF StatLock, NextRound
  <2>5. ASSUME NEW c \in Calls, RecheckLock(c) PROVE TypeOK' BY <2>5 DEF RecheckLock, NextRound
  <2>6. ASSUME NEW c \in Calls, BreakLock(c) PROVE TypeOK' BY <2>6 DEF BreakLock, NextRound, NoLock
  <2>7. ASSUME NEW c \in Calls, Heartbeat(c) PROVE TypeOK' BY <2>1, <2>7 DEF Heartbeat
  <2>8. ASSUME NEW c \in Calls, ReadFile(c) PROVE TypeOK' BY <2>8 DEF ReadFile
  <2>9. ASSUME NEW c \in Calls, AssertHeld(c) PROVE TypeOK' BY <2>9 DEF AssertHeld
  <2>10. ASSUME NEW c \in Calls, Rename(c) PROVE TypeOK' BY <2>10 DEF Rename
  <2>11. ASSUME NEW c \in Calls, ReleaseLock(c) PROVE TypeOK' BY <2>11 DEF ReleaseLock
  <2>12. ASSUME NEW c \in Calls, RemoveLock(c) PROVE TypeOK' BY <2>12 DEF RemoveLock, NoLock
  <2>13. ASSUME NEW c \in Calls, OperationFails(c) PROVE TypeOK'
    BY <2>13, BoundsAssumption DEF OperationFails
  <2>14. ASSUME NEW c \in Calls, Crash(c) PROVE TypeOK' BY <2>14, BoundsAssumption DEF Crash
  <2>15. ASSUME NEW c \in Calls, Suspend(c) PROVE TypeOK' BY <2>15, BoundsAssumption DEF Suspend
  <2>16. ASSUME NEW c \in Calls, Resume(c) PROVE TypeOK' BY <2>16 DEF Resume
  <2>17. CASE LockGoesStale BY <2>17 DEF LockGoesStale
  <2>18. CASE UNCHANGED vars BY <2>18 DEF vars
  <2> QED BY <2>2, <2>3, <2>4, <2>5, <2>6, <2>7, <2>8, <2>9, <2>10, <2>11, <2>12, <2>13, <2>14,
             <2>15, <2>16, <2>17, <2>18 DEF Next
<1> QED BY <1>1, <1>2

----------------------------------------------------------------------------
\* A step that moves one call, and not to the commit point, and that neither
\* writes the file nor hands the lock to another call.
LEMMA QuietStep ==
  ASSUME IInv, TypeOK', NEW c \in Calls, UNCHANGED file, dead \subseteq dead',
         \A d \in Calls \ {c} : UNCHANGED <<st[d], val[d], res[d]>>,
         lock'.by \in {lock.by, Nobody},
         st'[c] # "rename" \/ UNCHANGED <<st[c], val[c]>>,
         st'[c] # "assert" \/ val'[c] = file \/ UNCHANGED <<st[c], val[c]>>,
         c \in file => st'[c] \in {"release", "remove", "done"} /\ res'[c] = "ok",
         st'[c] \in {"release", "remove", "done"} => res'[c] \in {"ok", "error"}
  PROVE  IInv'
<1>1. \A d \in Calls : Committing(d)' => Committing(d) /\ val'[d] = val[d]
  BY DEF Committing
<1>2. CommitIsCurrent' BY <1>1 DEF IInv, CommitIsCurrent
<1>3. OwnerIsCurrent'
  <2> SUFFICES ASSUME NEW d \in Calls, st'[d] = "assert", lock'.by = d PROVE val'[d] = file
    BY DEF OwnerIsCurrent
  <2>1. lock.by = d BY CallsAssumption
  <2> QED BY <2>1 DEF IInv, OwnerIsCurrent
<1>4. AppliedAnswersOk'
  <2> SUFFICES ASSUME NEW d \in Calls, d \in file
               PROVE st'[d] \in {"release", "remove", "done"} /\ res'[d] = "ok"
    BY DEF AppliedAnswersOk
  <2> QED BY DEF IInv, AppliedAnswersOk
<1>5. AnswerKnown' BY DEF IInv, AnswerKnown
<1> QED BY <1>2, <1>3, <1>4, <1>5 DEF IInv

\* Every step keeps the invariant, if operations issued back to back stay together.
LEMMA StepInv == Prompt /\ IInv /\ [Next]_vars => IInv'
<1> SUFFICES ASSUME Prompt, IInv, [Next]_vars PROVE IInv' OBVIOUS
<1>1. TypeOK /\ TypeOK' BY TypesInductive DEF IInv
<1>2. \A c \in Calls : c \in file => st[c] \in {"release", "remove", "done"} /\ res[c] = "ok"
  BY DEF IInv, AppliedAnswersOk
<1>3. \A c \in Calls : st[c] \in {"release", "remove", "done"} => res[c] \in {"ok", "error"}
  BY DEF IInv, AnswerKnown
<1>4. ASSUME NEW c \in Calls, OpenLock(c), lock.by = Nobody PROVE IInv'
  <2>1. \A d \in Calls : ~Committing(d) BY <1>4 DEF OpenLock, BackToBack, Committing
  <2>2. lock'.by = c /\ st' = [st EXCEPT ![c] = "token"] /\ UNCHANGED <<file, val, res, dead>>
    BY <1>1, <1>4 DEF OpenLock, Goto, faulty, NoLock, TypeOK
  <2>3. st[c] = "open" /\ st \in [Calls -> Steps] BY <1>1, <1>4 DEF OpenLock, At, TypeOK
  <2>4. CommitIsCurrent' BY <2>1, <2>2, <2>3 DEF CommitIsCurrent, Committing
  <2>5. OwnerIsCurrent' BY <2>2, <2>3 DEF OwnerIsCurrent
  <2>6. AppliedAnswersOk' /\ AnswerKnown' BY <1>2, <1>3, <2>2, <2>3 DEF AppliedAnswersOk, AnswerKnown
  <2> QED BY <1>1, <2>4, <2>5, <2>6 DEF IInv
<1>5. ASSUME NEW c \in Calls, OpenLock(c), lock.by # Nobody PROVE IInv'
  <2>1. st[c] = "open" /\ st' = [st EXCEPT ![c] = "stat"] /\ UNCHANGED <<file, lock, val, res, dead>>
    BY <1>5 DEF OpenLock, Goto, faulty, At
  <2> QED BY <1>1, <1>2, <2>1, QuietStep DEF TypeOK
<1>6. ASSUME NEW c \in Calls, WriteToken(c) PROVE IInv'
  <2>1. st[c] = "token" /\ st' = [st EXCEPT ![c] = "read"] /\ UNCHANGED <<file, val, res, dead>>
    BY <1>6 DEF WriteToken, Goto, faulty, At
  <2>2. lock'.by = lock.by BY <1>1, <1>6 DEF WriteToken, TypeOK
  <2> QED BY <1>1, <1>2, <2>1, <2>2, QuietStep DEF TypeOK
<1>7. ASSUME NEW c \in Calls, StatLock(c) \/ RecheckLock(c) \/ BreakLock(c) PROVE IInv'
  <2>1. st[c] \in {"stat", "recheck", "unlink"} /\ UNCHANGED <<file, val, dead>>
    BY <1>7 DEF StatLock, RecheckLock, BreakLock, faulty, At
  <2>2. lock'.by \in {lock.by, Nobody} BY <1>7 DEF StatLock, RecheckLock, BreakLock, NoLock
  <2>3. \/ UNCHANGED res /\ \E s \in {"recheck", "unlink", "open"} : st' = [st EXCEPT ![c] = s]
        \/ res' = [res EXCEPT ![c] = "error"] /\ st' = [st EXCEPT ![c] = "done"]
    BY <1>7 DEF StatLock, RecheckLock, BreakLock, NextRound, Goto, Answer
  <2> QED BY <1>1, <1>2, <2>1, <2>2, <2>3, QuietStep DEF TypeOK
<1>8. ASSUME NEW c \in Calls, Heartbeat(c) PROVE IInv'
  <2>1. lock'.by = lock.by BY <1>1, <1>8 DEF Heartbeat, TypeOK
  <2>2. UNCHANGED <<file, st, val, res, dead>> BY <1>8 DEF Heartbeat, faulty
  <2> QED BY <1>1, <1>2, <1>3, <2>1, <2>2, QuietStep
<1>9. ASSUME NEW c \in Calls, ReadFile(c) PROVE IInv'
  <2>1. st[c] = "read" /\ val' = [val EXCEPT ![c] = file] /\ UNCHANGED <<file, lock, dead>>
    BY <1>9 DEF ReadFile, faulty, At
  <2>2. \/ UNCHANGED res /\ st' = [st EXCEPT ![c] = "assert"]
        \/ st' = [st EXCEPT ![c] = "release"] /\ \E r \in {"ok", "error"} : res' = [res EXCEPT ![c] = r]
    BY <1>9 DEF ReadFile, Goto, Answer
  <2> QED BY <1>1, <1>2, <2>1, <2>2, QuietStep DEF TypeOK
<1>10. ASSUME NEW c \in Calls, AssertHeld(c), ~Owns(c) PROVE IInv'
  <2>1. st[c] = "assert" /\ st' = [st EXCEPT ![c] = "release"] /\ res' = [res EXCEPT ![c] = "error"]
    BY <1>10 DEF AssertHeld, At, Goto, Answer
  <2>2. UNCHANGED <<file, lock, val, dead>> BY <1>10 DEF AssertHeld, faulty
  <2> QED BY <1>1, <1>2, <2>1, <2>2, QuietStep DEF TypeOK
<1>11. ASSUME NEW c \in Calls, AssertHeld(c), Owns(c) PROVE IInv'
  <2>1. st[c] = "assert" /\ c \notin dead /\ lock.by = c BY <1>11 DEF AssertHeld, At, Runs, Owns
  <2>2. st' = [st EXCEPT ![c] = "rename"] /\ UNCHANGED <<file, lock, val, res, dead>>
    BY <1>11 DEF AssertHeld, Goto, faulty
  <2>3. st \in [Calls -> Steps] BY <1>1 DEF TypeOK
  <2>4. val[c] = file BY <2>1 DEF IInv, OwnerIsCurrent
  <2>5. \A d \in Calls : Committing(d) => d = c
    BY <2>1, CallsAssumption DEF IInv, CommitIsCurrent
  <2>6. \A d \in Calls : Committing(d)' => d = c BY <2>2, <2>3, <2>5 DEF Committing
  <2>7. CommitIsCurrent' BY <2>1, <2>2, <2>4, <2>6 DEF CommitIsCurrent
  <2>8. OwnerIsCurrent' BY <2>2, <2>3 DEF IInv, OwnerIsCurrent
  <2>9. AppliedAnswersOk' /\ AnswerKnown'
    BY <1>2, <1>3, <2>1, <2>2, <2>3 DEF AppliedAnswersOk, AnswerKnown
  <2> QED BY <1>1, <2>7, <2>8, <2>9 DEF IInv
<1>12. ASSUME NEW c \in Calls, Rename(c) PROVE IInv'
  <2>1. Committing(c) BY <1>12 DEF Rename, At, Runs, Committing
  <2>2. /\ file' = val[c] \cup {c} /\ st' = [st EXCEPT ![c] = "release"]
        /\ res' = [res EXCEPT ![c] = "ok"] /\ UNCHANGED <<lock, val, dead>>
    BY <1>12 DEF Rename, Goto, Answer, faulty
  <2>3. st \in [Calls -> Steps] /\ res \in [Calls -> {"open", "ok", "error"}] BY <1>1 DEF TypeOK
  <2>4. val[c] = file /\ lock.by \in {c, Nobody} /\ \A d \in Calls : Committing(d) => d = c
    BY <2>1 DEF IInv, CommitIsCurrent
  <2>5. \A d \in Calls : ~Committing(d)' BY <2>2, <2>3, <2>4 DEF Committing
  <2>6. CommitIsCurrent' BY <2>5 DEF CommitIsCurrent
  <2>7. OwnerIsCurrent' BY <2>2, <2>3, <2>4, CallsAssumption DEF OwnerIsCurrent
  <2>8. AppliedAnswersOk' BY <1>2, <2>2, <2>3, <2>4 DEF AppliedAnswersOk
  <2>9. AnswerKnown' BY <1>3, <2>2, <2>3 DEF AnswerKnown
  <2> QED BY <1>1, <2>6, <2>7, <2>8, <2>9 DEF IInv
<1>13. ASSUME NEW c \in Calls, ReleaseLock(c) \/ RemoveLock(c) PROVE IInv'
  <2>1. /\ st[c] \in {"release", "remove"} /\ UNCHANGED <<file, val, res, dead>>
        /\ \E s \in {"remove", "done"} : st' = [st EXCEPT ![c] = s]
    BY <1>13 DEF ReleaseLock, RemoveLock, At, Goto, faulty
  <2>2. lock'.by \in {lock.by, Nobody} BY <1>13 DEF ReleaseLock, RemoveLock, NoLock
  <2> QED BY <1>1, <1>2, <1>3, <2>1, <2>2, QuietStep DEF TypeOK
<1>14. ASSUME NEW c \in Calls, OperationFails(c) PROVE IInv'
  <2>1. /\ st[c] \in {"token", "read", "assert", "rename"} /\ UNCHANGED <<file, lock, val, dead>>
        /\ \E s \in {"done", "release"} : st' = [st EXCEPT ![c] = s]
        /\ res' = [res EXCEPT ![c] = "error"]
    BY <1>14 DEF OperationFails, At, Goto, Answer
  <2> QED BY <1>1, <1>2, <2>1, QuietStep DEF TypeOK
<1>15. ASSUME NEW c \in Calls, Crash(c) \/ Suspend(c) \/ Resume(c) PROVE IInv'
  <2>1. UNCHANGED <<file, lock, st, val, res>> /\ dead \subseteq dead'
    BY <1>15 DEF Crash, Suspend, Resume
  <2> QED BY <1>1, <1>2, <1>3, <2>1, QuietStep
<1>16. CASE LockGoesStale
  <2>1. lock'.by = lock.by /\ UNCHANGED <<file, st, val, res, dead>>
    BY <1>1, <1>16 DEF LockGoesStale, faulty, TypeOK
  <2> QED BY <1>1, <2>1 DEF IInv, CommitIsCurrent, OwnerIsCurrent, AppliedAnswersOk, AnswerKnown, Committing
<1>17. CASE UNCHANGED vars
  BY <1>1, <1>17 DEF vars, IInv, CommitIsCurrent, OwnerIsCurrent, AppliedAnswersOk, AnswerKnown, Committing
<1> QED BY <1>4, <1>5, <1>6, <1>7, <1>8, <1>9, <1>10, <1>11, <1>12, <1>13, <1>14, <1>15, <1>16, <1>17
        DEF Next

\* The invariant holds at first.
LEMMA InitInv == Init => IInv
<1> SUFFICES ASSUME Init PROVE IInv OBVIOUS
<1>1. TypeOK BY TypesInductive
<1> QED BY <1>1 DEF Init, IInv, CommitIsCurrent, OwnerIsCurrent, AppliedAnswersOk, AnswerKnown, Committing

\* The types hold always, prompt or not.
THEOREM FileStoreTypes == Spec => []TypeOK
BY TypesInductive, PTL DEF Spec

----------------------------------------------------------------------------
Outcome(c) == IF st[c] = "done" THEN res[c] ELSE "open"

\* A step that writes nothing answers at most one call, with what it did.
LEMMA AnswersRefine ==
  ASSUME IInv, NEW c \in Calls, UNCHANGED file,
         \A d \in Calls \ {c} : UNCHANGED <<st[d], res[d]>>,
         st[c] # "done",
         st'[c] = "done" => res'[c] \in {"ok", "error"} /\ (c \in file => res'[c] = "ok")
  PROVE  [Store!Next]_<<file, [d \in Calls |-> Outcome(d)]>>
<1> DEFINE out == [d \in Calls |-> Outcome(d)]
<1>1. \A d \in Calls \ {c} : Outcome(d)' = Outcome(d) BY DEF Outcome
<1>2. Outcome(c) = "open" BY DEF Outcome
<1>3. CASE st'[c] # "done"
  <2>1. Outcome(c)' = "open" BY <1>3 DEF Outcome
  <2>2. out' = out BY <1>1, <1>2, <2>1
  <2> QED BY <2>2
<1>4. CASE st'[c] = "done"
  <2>1. Outcome(c)' = res'[c] BY <1>4 DEF Outcome
  <2>2. out' = [out EXCEPT ![c] = res'[c]] BY <1>1, <2>1
  <2>3. out[c] = "open" BY <1>2
  <2>4. CASE res'[c] = "ok"
    BY <2>2, <2>3, <2>4 DEF Store!Next, Store!Return, Outcome
  <2>5. CASE res'[c] = "error"
    <3>1. c \notin file BY <1>4, <2>5
    <3> QED BY <2>2, <2>3, <2>5, <3>1 DEF Store!Next, Store!Throw, Outcome
  <2> QED BY <1>4, <2>4, <2>5
<1> QED BY <1>3, <1>4

\* The commit point applies the call's function to the state of this moment.
LEMMA RenameRefines ==
  ASSUME IInv, NEW c \in Calls, Rename(c)
  PROVE  Store!Apply(c)
<1>1. val[c] = file /\ st[c] = "rename" /\ c \notin file
  BY DEF Rename, At, Runs, IInv, CommitIsCurrent, Committing, AppliedAnswersOk
<1>2. file' = file \cup {c} BY <1>1 DEF Rename
<1>3. \A d \in Calls : Outcome(d)' = Outcome(d) BY <1>1 DEF Rename, Goto, Answer, Outcome, IInv, TypeOK
<1> QED BY <1>1, <1>2, <1>3 DEF Store!Apply, Outcome

\* Every step of the file store is one of the abstract store, or changes nothing of it.
LEMMA StepRefines == IInv /\ [Next]_vars => [Store!Next]_<<file, [d \in Calls |-> Outcome(d)]>>
<1> SUFFICES ASSUME IInv, [Next]_vars PROVE [Store!Next]_<<file, [d \in Calls |-> Outcome(d)]>> OBVIOUS
<1>1. TypeOK BY DEF IInv
<1>2. \A c \in Calls : c \in file => st[c] \in {"release", "remove", "done"} /\ res[c] = "ok"
  BY DEF IInv, AppliedAnswersOk
<1>3. \A c \in Calls : st[c] \in {"release", "remove", "done"} => res[c] \in {"ok", "error"}
  BY DEF IInv, AnswerKnown
<1>4. ASSUME NEW c \in Calls, OpenLock(c) \/ WriteToken(c) \/ ReadFile(c) \/ AssertHeld(c)
      PROVE [Store!Next]_<<file, [d \in Calls |-> Outcome(d)]>>
  <2>1. /\ st[c] \in {"open", "token", "read", "assert"} /\ UNCHANGED file
        /\ \E s \in Steps \ {"done"} : st' = [st EXCEPT ![c] = s]
        /\ UNCHANGED res \/ \E r : res' = [res EXCEPT ![c] = r]
    BY <1>4 DEF OpenLock, WriteToken, ReadFile, AssertHeld, At, Goto, Answer, Steps
  <2> QED BY <1>1, <2>1, AnswersRefine DEF TypeOK
<1>5. ASSUME NEW c \in Calls, StatLock(c) \/ RecheckLock(c) \/ BreakLock(c)
      PROVE [Store!Next]_<<file, [d \in Calls |-> Outcome(d)]>>
  <2>1. st[c] \in {"stat", "recheck", "unlink"} /\ UNCHANGED file
    BY <1>5 DEF StatLock, RecheckLock, BreakLock, At
  <2>2. \/ UNCHANGED res /\ \E s \in {"recheck", "unlink", "open"} : st' = [st EXCEPT ![c] = s]
        \/ res' = [res EXCEPT ![c] = "error"] /\ st' = [st EXCEPT ![c] = "done"]
    BY <1>5 DEF StatLock, RecheckLock, BreakLock, NextRound, Goto, Answer
  <2> QED BY <1>1, <1>2, <2>1, <2>2, AnswersRefine DEF TypeOK
<1>6. ASSUME NEW c \in Calls, ReleaseLock(c) \/ RemoveLock(c)
      PROVE [Store!Next]_<<file, [d \in Calls |-> Outcome(d)]>>
  <2>1. /\ st[c] \in {"release", "remove"} /\ UNCHANGED <<file, res>>
        /\ \E s \in {"remove", "done"} : st' = [st EXCEPT ![c] = s]
    BY <1>6 DEF ReleaseLock, RemoveLock, At, Goto
  <2> QED BY <1>1, <1>2, <1>3, <2>1, AnswersRefine DEF TypeOK
<1>7. ASSUME NEW c \in Calls, OperationFails(c)
      PROVE [Store!Next]_<<file, [d \in Calls |-> Outcome(d)]>>
  <2>1. /\ st[c] \in {"token", "read", "assert", "rename"} /\ UNCHANGED file
        /\ \E s \in {"done", "release"} : st' = [st EXCEPT ![c] = s]
        /\ res' = [res EXCEPT ![c] = "error"]
    BY <1>7 DEF OperationFails, At, Goto, Answer
  <2> QED BY <1>1, <1>2, <2>1, AnswersRefine DEF TypeOK
<1>8. ASSUME NEW c \in Calls, Rename(c) PROVE [Store!Next]_<<file, [d \in Calls |-> Outcome(d)]>>
  BY <1>8, RenameRefines DEF Store!Next
<1>9. CASE UNCHANGED <<file, st, res>> BY <1>9 DEF Outcome
<1>10. ASSUME NEW c \in Calls, Heartbeat(c) \/ Crash(c) \/ Suspend(c) \/ Resume(c)
       PROVE UNCHANGED <<file, st, res>>
  BY <1>10 DEF Heartbeat, Crash, Suspend, Resume
<1>11. LockGoesStale \/ UNCHANGED vars => UNCHANGED <<file, st, res>> BY DEF LockGoesStale, vars
<1> QED BY <1>4, <1>5, <1>6, <1>7, <1>8, <1>9, <1>10, <1>11 DEF Next

\* For every number of processes, crashes, suspensions and failed operations, as
\* long as operations issued back to back stay together: the file under its lock
\* is a store whose updates are atomic.
THEOREM FileStoreIsAtomic ==
  ASSUME Prompt
  PROVE  Spec => UpdatesAreAtomic
<1>1. Init => Store!Init BY DEF Init, Store!Init
<1>2. IInv /\ [Next]_vars => [Store!Next]_<<file, [c \in Calls |-> IF st[c] = "done" THEN res[c] ELSE "open"]>>
  BY StepRefines DEF Outcome
<1>3. Init => IInv BY InitInv
<1>4. IInv /\ [Next]_vars => IInv' BY StepInv
<1> QED BY <1>1, <1>2, <1>3, <1>4, PTL DEF Spec, UpdatesAreAtomic, Store!Spec
----------------------------------------------------------------------------
\* Unless a fault kept a call from it, the call whose lock file it is has yet to
\* remove it, and can tell that the lock is its own.
HolderWillRelease ==
  faults = 0 => \A c \in Calls : lock.by = c =>
    /\ st[c] \in {"token", "read", "assert", "rename", "release", "remove"}
    /\ st[c] = "token" \/ lock.written

\* Every step leaves the release to the holder.
LEMMA StepHolder == TypeOK /\ HolderWillRelease /\ [Next]_vars => HolderWillRelease'
<1> SUFFICES ASSUME TypeOK, HolderWillRelease, [Next]_vars PROVE HolderWillRelease' OBVIOUS
<1>1. faults \in Nat BY BoundsAssumption DEF TypeOK
<1>2. \A c \in Calls, s \in Steps : Goto(c, s) => st' = [st EXCEPT ![c] = s] /\ st'[c] = s
  BY DEF Goto, TypeOK
<1>3. ASSUME NEW c \in Calls, OpenLock(c) PROVE HolderWillRelease'
  <2>1. CASE lock.by = Nobody
    <3>1. lock'.by = c /\ st'[c] = "token" BY <1>2, <1>3, <2>1 DEF OpenLock, NoLock, TypeOK, Steps
    <3> QED BY <3>1 DEF HolderWillRelease
  <2>2. CASE lock.by # Nobody
    <3>1. st[c] = "open" /\ faults' = faults /\ lock' = lock BY <1>3, <2>2 DEF OpenLock, At, faulty
    <3>2. st' = [st EXCEPT ![c] = "stat"] BY <1>2, <1>3, <2>2 DEF OpenLock, Steps
    <3> QED BY <3>1, <3>2 DEF HolderWillRelease, TypeOK
  <2> QED BY <2>1, <2>2
<1>4. ASSUME NEW c \in Calls, WriteToken(c) PROVE HolderWillRelease'
  <2>1. st' = [st EXCEPT ![c] = "read"] /\ faults' = faults BY <1>4 DEF WriteToken, Goto, faulty
  <2>2. CASE lock.by = c
    <3>1. lock'.by = c /\ lock'.written BY <1>4, <2>2 DEF WriteToken, TypeOK
    <3> QED BY <2>1, <3>1 DEF HolderWillRelease, TypeOK
  <2>3. CASE lock.by # c
    <3>1. lock' = lock BY <1>4, <2>3 DEF WriteToken
    <3> QED BY <2>1, <2>3, <3>1 DEF HolderWillRelease, TypeOK
  <2> QED BY <2>2, <2>3
<1>5. ASSUME NEW c \in Calls, StatLock(c) \/ RecheckLock(c) PROVE HolderWillRelease'
  <2>1. st[c] \in {"stat", "recheck"} /\ lock' = lock /\ faults' = faults
    BY <1>5 DEF StatLock, RecheckLock, At, faulty
  <2>2. \E s \in Steps : st' = [st EXCEPT ![c] = s]
    BY <1>5 DEF StatLock, RecheckLock, NextRound, Goto, Steps
  <2> QED BY <2>1, <2>2 DEF HolderWillRelease, TypeOK
<1>6. ASSUME NEW c \in Calls, BreakLock(c) \/ RemoveLock(c) PROVE HolderWillRelease'
  <2>1. lock'.by = Nobody BY <1>6 DEF BreakLock, RemoveLock, NoLock
  <2> QED BY <2>1, CallsAssumption DEF HolderWillRelease
<1>7. ASSUME NEW c \in Calls, ReadFile(c) \/ AssertHeld(c) \/ Rename(c) PROVE HolderWillRelease'
  <2>1. st[c] \in {"read", "assert", "rename"} /\ lock' = lock /\ faults' = faults
    BY <1>7 DEF ReadFile, AssertHeld, Rename, At, faulty
  <2>2. \E s \in {"assert", "rename", "release"} : st' = [st EXCEPT ![c] = s]
    BY <1>7 DEF ReadFile, AssertHeld, Rename, Goto
  <2> QED BY <2>1, <2>2 DEF HolderWillRelease, TypeOK
<1>8. ASSUME NEW c \in Calls, ReleaseLock(c) PROVE HolderWillRelease'
  <2>1. st[c] = "release" /\ lock' = lock /\ faults' = faults BY <1>8 DEF ReleaseLock, At, faulty
  <2>2. st' = [st EXCEPT ![c] = IF Owns(c) THEN "remove" ELSE "done"] BY <1>8 DEF ReleaseLock, Goto
  <2> QED BY <2>1, <2>2 DEF HolderWillRelease, Owns, TypeOK
<1>9. ASSUME NEW c \in Calls, OperationFails(c) \/ Crash(c) PROVE HolderWillRelease'
  BY <1>1, <1>9 DEF OperationFails, Crash, HolderWillRelease
<1>10. ASSUME NEW c \in Calls, Suspend(c) \/ Resume(c) PROVE HolderWillRelease'
  BY <1>10 DEF Suspend, Resume, HolderWillRelease
<1>11. ASSUME (\E c \in Calls : Heartbeat(c)) \/ LockGoesStale PROVE HolderWillRelease'
  <2>1. lock'.by = lock.by /\ lock'.written = lock.written /\ UNCHANGED <<st, faults>>
    BY <1>11 DEF Heartbeat, LockGoesStale, faulty, TypeOK
  <2> QED BY <2>1 DEF HolderWillRelease
<1>12. CASE UNCHANGED vars BY <1>12 DEF vars, HolderWillRelease
<1> QED BY <1>3, <1>4, <1>5, <1>6, <1>7, <1>8, <1>9, <1>10, <1>11, <1>12 DEF Next

\* However many processes share the file, suspend and break each other's locks:
\* once all have answered without a fault, no lock file is left.
THEOREM LockIsReleased == Spec => []LockNotLeftBehind
<1>1. Init => HolderWillRelease BY CallsAssumption DEF Init, HolderWillRelease, NoLock
<1>2. TypeOK /\ HolderWillRelease => LockNotLeftBehind
  BY DEF TypeOK, HolderWillRelease, LockNotLeftBehind
<1> QED BY <1>1, <1>2, TypesInductive, StepHolder, PTL DEF Spec
=============================================================================
