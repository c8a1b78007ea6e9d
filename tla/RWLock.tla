-------------------------------- MODULE RWLock --------------------------------
(***************************************************************************)
(* The reader-writer spin lock of rwlock.h, one step per access to its two *)
(* fields.  A spin loop is a step that waits for the value it spins on.    *)
(***************************************************************************)
EXTENDS Integers, FiniteSets

CONSTANT Threads   \* the threads that use the lock

ASSUME ThreadsFinite == IsFiniteSet(Threads)

VARIABLES
  write,   \* lock->write
  read,    \* lock->read
  pc       \* where each thread is

lockVars == <<write, read, pc>>

LockInit ==
  /\ write = 0
  /\ read = 0
  /\ pc = [t \in Threads |-> "out"]

Go(t, from, to) == pc[t] = from /\ pc' = [pc EXCEPT ![t] = to]

-----------------------------------------------------------------------------
(* rwlock_rlock and rwlock_runlock.                                        *)

WantRead(t) == Go(t, "out", "rspin") /\ UNCHANGED <<write, read>>

\* The definitions named Bug... are wrong variants of the action that follows;
\* no specification uses them.

\* The reader does not wait for the flag before it announces itself.
BugSeeNoWriter(t) == Go(t, "rspin", "announce") /\ UNCHANGED <<write, read>>

\* while (lock->write): left once the flag is seen clear.
SeeNoWriter(t) ==
  /\ write = 0
  /\ Go(t, "rspin", "announce")
  /\ UNCHANGED <<write, read>>

Announce(t) ==
  /\ Go(t, "announce", "recheck")
  /\ read' = read + 1
  /\ UNCHANGED write

\* The reader does not look again for a writer that came in between.
BugRecheck(t) == Go(t, "recheck", "reading") /\ UNCHANGED <<write, read>>

\* if (lock->write): a writer came first.
Recheck(t) ==
  /\ IF write = 1 THEN Go(t, "recheck", "backout")
                  ELSE Go(t, "recheck", "reading")
  /\ UNCHANGED <<write, read>>

BackOut(t) ==
  /\ Go(t, "backout", "rspin")
  /\ read' = read - 1
  /\ UNCHANGED write

ReadUnlock(t) ==
  /\ Go(t, "reading", "out")
  /\ read' = read - 1
  /\ UNCHANGED write

-----------------------------------------------------------------------------
(* rwlock_wlock and rwlock_wunlock.                                        *)

WantWrite(t) == Go(t, "out", "set") /\ UNCHANGED <<write, read>>

\* while (__sync_lock_test_and_set(&lock->write, 1)): left by the one who set it.
SetFlag(t) ==
  /\ write = 0
  /\ Go(t, "set", "drain")
  /\ write' = 1
  /\ UNCHANGED read

\* while (lock->read)
Drained(t) ==
  /\ read = 0
  /\ Go(t, "drain", "writing")
  /\ UNCHANGED <<write, read>>

WriteUnlock(t) ==
  /\ Go(t, "writing", "out")
  /\ write' = 0
  /\ UNCHANGED read

-----------------------------------------------------------------------------
\* What a thread does by itself once it has asked for the lock; the sections
\* under the lock are finite.
LockStep(t) == \/ SeeNoWriter(t) \/ Announce(t) \/ Recheck(t) \/ BackOut(t)
           \/ ReadUnlock(t) \/ SetFlag(t) \/ Drained(t) \/ WriteUnlock(t)

LockNext == \E t \in Threads : LockStep(t) \/ WantRead(t) \/ WantWrite(t)

LockSpec == LockInit /\ [][LockNext]_lockVars

\* Every thread keeps running.
LockFairness == \A t \in Threads : WF_lockVars(LockStep(t))

-----------------------------------------------------------------------------
(* What must hold.                                                         *)

Announced == {t \in Threads : pc[t] \in {"recheck", "backout", "reading"}}
Readers   == {t \in Threads : pc[t] = "reading"}
Writers   == {t \in Threads : pc[t] = "writing"}
Claimants == {t \in Threads : pc[t] \in {"drain", "writing"}}

LockTypeOK ==
  /\ write \in {0, 1}
  /\ read \in Nat
  /\ pc \in [Threads -> {"out", "rspin", "announce", "recheck", "backout",
                         "reading", "set", "drain", "writing"}]

\* A writer is alone: no other writer, no reader.
Exclusion ==
  \A t \in Writers : Readers = {} /\ Writers = {t}

\* lock->read counts the readers that have announced themselves, those that
\* are about to back out included.
ReadExact == read = Cardinality(Announced)

\* lock->write is set by one thread, for as long as that thread has the lock or
\* waits for the readers to leave.
OneClaimant ==
  /\ write = 1 <=> Claimants # {}
  /\ \A t, u \in Claimants : t = u

\* Both fields tell the truth at every moment, whoever backs out.
FieldsExact == ReadExact /\ OneClaimant

\* A thread that holds the write flag gets in: the readers that announced
\* themselves back out or leave, and the others wait for the flag.
WriterEnters == \A t \in Threads : pc[t] = "drain" ~> pc[t] = "writing"

\* The inductive invariant behind Exclusion.
LockIInv == LockTypeOK /\ FieldsExact /\ Exclusion

=============================================================================
