--------------------------- MODULE FileSpendStore ---------------------------
(***************************************************************************)
(* The file-backed spend store (store/FileSpendStore.ts): update() under a *)
(* lock file that other processes break once it is stale.                  *)
(*                                                                         *)
(* An action is one file operation and the code up to the next.  A call    *)
(* creates at most one lock file, so its creator identifies it: the inode  *)
(* and mtime that breakIfStale compares are lock.by and the fact that      *)
(* nobody has touched it since.  The token is written after the exclusive  *)
(* create, through the handle; it reaches the path only while the path     *)
(* still names that file.                                                  *)
(***************************************************************************)
EXTENDS Naturals

CONSTANTS
  Calls,           \* calls of update(), each by a process of its own
  Nobody,          \* no call
  MaxFaults,       \* bound: processes that die and file operations that fail
  MaxSuspensions,  \* bound: times a process is suspended
  Prompt           \* assumption: no lock is created between operations issued back to back

ASSUME CallsAssumption == Nobody \notin Calls
ASSUME BoundsAssumption ==
  /\ MaxFaults \in Nat /\ MaxSuspensions \in Nat /\ Prompt \in BOOLEAN

VARIABLES
  file,            \* the state in the file: the calls applied
  lock,            \* the lock file: who created it, its token is written, it is stale
  st,              \* the next file operation of each call
  val,             \* the state each call read
  seen,            \* the lock file breakIfStale saw first, untouched since
  res,             \* what each call will answer
  dead, asleep,    \* calls whose process died, or is suspended
  faults, suspensions

vars == <<file, lock, st, val, seen, res, dead, asleep, faults, suspensions>>

Steps == {"open", "token", "stat", "recheck", "unlink", "read", "assert", "rename",
          "release", "remove", "done"}

NoLock == [by |-> Nobody, written |-> FALSE, stale |-> FALSE]

Init ==
  /\ file = {} /\ lock = NoLock
  /\ st = [c \in Calls |-> "open"] /\ val = [c \in Calls |-> {}]
  /\ seen = [c \in Calls |-> Nobody] /\ res = [c \in Calls |-> "open"]
  /\ dead = {} /\ asleep = {} /\ faults = 0 /\ suspensions = 0

Runs(c) == c \notin dead \cup asleep
At(c, step) == st[c] = step /\ Runs(c)
Goto(c, step) == st' = [st EXCEPT ![c] = step]
Answer(c, r) == res' = [res EXCEPT ![c] = r]
faulty == <<dead, asleep, faults, suspensions>>

\* A second stat, a token read or a check of the token has just succeeded, and
\* the operation it guards is the next one issued.
BackToBack(c) == st[c] \in {"unlink", "rename", "remove"} /\ c \notin dead

\* Any change of the lock file's mtime makes the first stat of a breaker old.
Touched == [d \in Calls |-> IF seen[d] = lock.by THEN Nobody ELSE seen[d]]

----------------------------------------------------------------------------
\* acquireLock

\* open(lockPath, 'wx').  Prompt is an assumption about processes, not a check of the
\* code: a waiter comes back from a sleep of 5 ms or more, by which a process that is
\* not held up has finished its back-to-back operations; the first open of a call has
\* slept nothing, and that it does not fall between two of them is only unlikely.
OpenLock(c) ==
  /\ At(c, "open")
  /\ IF lock.by = Nobody
       THEN /\ Prompt => \A d \in Calls : ~BackToBack(d)
            /\ lock' = [NoLock EXCEPT !.by = c]
            /\ Goto(c, "token")
       ELSE Goto(c, "stat") /\ UNCHANGED lock
  /\ UNCHANGED <<file, val, seen, res, faulty>>

WriteToken(c) ==
  /\ At(c, "token")
  /\ IF lock.by = c
       THEN lock' = [lock EXCEPT !.written = TRUE, !.stale = FALSE] /\ seen' = Touched
       ELSE UNCHANGED <<lock, seen>>
  /\ Goto(c, "read")
  /\ UNCHANGED <<file, val, res, faulty>>

\* Another round, unless the deadline has passed: then the call rejects.
NextRound(c) ==
  \/ Goto(c, "open") /\ UNCHANGED res
  \/ Goto(c, "done") /\ Answer(c, "error")

\* breakIfStale: the first stat.
StatLock(c) ==
  /\ At(c, "stat")
  /\ IF lock.by # Nobody /\ lock.stale
       THEN /\ seen' = [seen EXCEPT ![c] = lock.by]
            /\ Goto(c, "recheck") /\ UNCHANGED res
       ELSE NextRound(c) /\ UNCHANGED seen
  /\ UNCHANGED <<file, lock, val, faulty>>

\* breakIfStale: the second stat.
RecheckLock(c) ==
  /\ At(c, "recheck")
  /\ IF lock.by # Nobody /\ seen[c] = lock.by
       THEN Goto(c, "unlink") /\ UNCHANGED res
       ELSE NextRound(c)
  /\ UNCHANGED <<file, lock, val, seen, faulty>>

\* breakIfStale: the unlink, of whatever is there by now.
BreakLock(c) ==
  /\ At(c, "unlink")
  /\ lock' = NoLock
  /\ NextRound(c)
  /\ UNCHANGED <<file, val, seen, faulty>>

----------------------------------------------------------------------------
\* withLock, update, writeFile, releaseLock

\* The holder's timer sets the mtime of the lock path, whose lock it may be.
Heartbeat(c) ==
  /\ Runs(c) /\ st[c] \in {"read", "assert", "rename"}
  /\ lock.by # Nobody
  /\ lock.stale \/ lock.by \in {seen[d] : d \in Calls}
  /\ lock' = [lock EXCEPT !.stale = FALSE] /\ seen' = Touched
  /\ UNCHANGED <<file, st, val, res, faulty>>

\* update(): read, then the function: it may leave the state alone, or throw.
ReadFile(c) ==
  /\ At(c, "read")
  /\ val' = [val EXCEPT ![c] = file]
  /\ \/ Goto(c, "assert") /\ UNCHANGED res
     \/ Goto(c, "release") /\ \E r \in {"ok", "error"} : Answer(c, r)
  /\ UNCHANGED <<file, lock, seen, faulty>>

Owns(c) == lock.by = c /\ lock.written

\* Mutant: the rename is not preceded by a check of the token.
AssertNothing(c) ==
  /\ At(c, "assert")
  /\ Goto(c, "rename")
  /\ UNCHANGED <<file, lock, val, seen, res, faulty>>

\* assertHeld, after the temporary file is written.
AssertHeld(c) ==
  /\ At(c, "assert")
  /\ IF Owns(c)
       THEN Goto(c, "rename") /\ UNCHANGED res
       ELSE Goto(c, "release") /\ Answer(c, "error")
  /\ UNCHANGED <<file, lock, val, seen, faulty>>

\* The commit point.
Rename(c) ==
  /\ At(c, "rename")
  /\ file' = val[c] \cup {c}
  /\ Goto(c, "release") /\ Answer(c, "ok")
  /\ UNCHANGED <<lock, val, seen, faulty>>

\* Mutant: a call that threw leaves its lock.
ReleaseUnlessThrown(c) ==
  /\ At(c, "release")
  /\ Goto(c, IF Owns(c) /\ res[c] = "ok" THEN "remove" ELSE "done")
  /\ UNCHANGED <<file, lock, val, seen, res, faulty>>

\* releaseLock: only a lock that still holds the token is removed.
ReleaseLock(c) ==
  /\ At(c, "release")
  /\ Goto(c, IF Owns(c) THEN "remove" ELSE "done")
  /\ UNCHANGED <<file, lock, val, seen, res, faulty>>

RemoveLock(c) ==
  /\ At(c, "remove")
  /\ lock' = NoLock
  /\ Goto(c, "done")
  /\ UNCHANGED <<file, val, seen, res, faulty>>

----------------------------------------------------------------------------
\* What may go wrong

\* A failed operation throws.  A token that cannot be written leaves the lock
\* file behind: nothing releases it before withLock's try.
OperationFails(c) ==
  /\ faults < MaxFaults /\ faults' = faults + 1
  /\ \/ At(c, "token") /\ Goto(c, "done")
     \/ (At(c, "read") \/ At(c, "assert") \/ At(c, "rename")) /\ Goto(c, "release")
  /\ Answer(c, "error")
  /\ UNCHANGED <<file, lock, val, seen, dead, asleep, suspensions>>

Crash(c) ==
  /\ faults < MaxFaults /\ faults' = faults + 1
  /\ Runs(c) /\ st[c] # "done"
  /\ dead' = dead \cup {c}
  /\ UNCHANGED <<file, lock, st, val, seen, res, asleep, suspensions>>

Suspend(c) ==
  /\ suspensions < MaxSuspensions /\ suspensions' = suspensions + 1
  /\ Runs(c) /\ st[c] # "done"
  /\ Prompt => ~BackToBack(c)
  /\ asleep' = asleep \cup {c}
  /\ UNCHANGED <<file, lock, st, val, seen, res, dead, faults>>

Resume(c) ==
  /\ c \in asleep
  /\ asleep' = asleep \ {c}
  /\ UNCHANGED <<file, lock, st, val, seen, res, dead, faults, suspensions>>

\* lockStaleMs pass and nobody who runs refreshes the lock or is about to.
LockGoesStale ==
  /\ lock.by # Nobody /\ ~lock.stale
  /\ Runs(lock.by) => st[lock.by] = "done"
  /\ \A c \in Calls : Runs(c) => st[c] \notin {"read", "assert", "rename"}
  /\ lock' = [lock EXCEPT !.stale = TRUE]
  /\ UNCHANGED <<file, st, val, seen, res, faulty>>

Next ==
  \/ \E c \in Calls : OpenLock(c) \/ WriteToken(c)
  \/ \E c \in Calls : StatLock(c) \/ RecheckLock(c) \/ BreakLock(c)
  \/ \E c \in Calls : Heartbeat(c) \/ ReadFile(c) \/ AssertHeld(c) \/ Rename(c)
  \/ \E c \in Calls : ReleaseLock(c) \/ RemoveLock(c)
  \/ \E c \in Calls : OperationFails(c) \/ Crash(c) \/ Suspend(c) \/ Resume(c)
  \/ LockGoesStale

Spec == Init /\ [][Next]_vars

----------------------------------------------------------------------------
TypeOK ==
  /\ file \subseteq Calls
  /\ lock \in [by : Calls \cup {Nobody}, written : BOOLEAN, stale : BOOLEAN]
  /\ st \in [Calls -> Steps]
  /\ val \in [Calls -> SUBSET Calls]
  /\ seen \in [Calls -> Calls \cup {Nobody}]
  /\ res \in [Calls -> {"open", "ok", "error"}]
  /\ dead \subseteq Calls /\ asleep \subseteq Calls
  /\ faults \in 0..MaxFaults /\ suspensions \in 0..MaxSuspensions

\* Every mutation is serialized (FileSpendStore.ts:44): the file under its lock
\* implements the store whose updates are atomic, over crashes, suspended
\* holders and broken locks.
Store == INSTANCE SpendStore WITH
  value   <- file,
  outcome <- [c \in Calls |-> IF st[c] = "done" THEN res[c] ELSE "open"]

UpdatesAreAtomic == Store!Spec

\* "always releases it" (FileSpendStore.ts:143): once every call has answered,
\* whether it wrote, threw, timed out or lost its lock to a breaker, no lock file
\* is left to delay the next process, unless a fault kept a call from its finally.
LockNotLeftBehind ==
  (faults = 0 /\ \A c \in Calls : st[c] = "done") => lock.by = Nobody
=============================================================================
