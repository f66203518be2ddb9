---------------------------- MODULE RefineLease ----------------------------
(***************************************************************************)
(* core/refine_files.py, lease and _try_lock: the exclusive lease of one   *)
(* resume, an flock on a file that its holder removes when it is done.     *)
(*                                                                         *)
(* Every system call is a step of its own.  A file that is open but no     *)
(* longer at the path can still be locked: the lock is then on nothing,    *)
(* and the taker starts again.  The kernel drops a lock with its process.  *)
(***************************************************************************)
EXTENDS Integers

CONSTANTS
  Procs,         \* the processes and workers that may revise the resume
  LockAttempts,  \* LOCK_ATTEMPTS
  MaxFiles       \* bound: lock files created

None == 0

ASSUME RefineLeaseAssumption ==
  /\ LockAttempts \in Nat \ {0}
  /\ MaxFiles \in Nat
  /\ None \notin Procs

VARIABLES
  path,     \* the file at .refine/<stem>.lock, if any
  files,    \* lock files created so far
  lock,     \* who holds the flock of a file, if anyone
  fd,       \* the file a process has open
  pc,       \* where it is: at the call named, inside the lease, or outside
  tries     \* attempts it has begun

leaseVars == <<path, files, lock, fd, pc, tries>>

Files == 1..MaxFiles
Steps == {"outside", "open", "flock", "stat", "inside", "close"}

LeaseTypeOK ==
  /\ path \in Files \cup {None} /\ files \in 0..MaxFiles
  /\ lock \in [Files -> Procs \cup {None}]
  /\ fd \in [Procs -> Files \cup {None}]
  /\ pc \in [Procs -> Steps]
  /\ tries \in [Procs -> 0..LockAttempts]

LeaseInit ==
  /\ path = None /\ files = 0
  /\ lock = [f \in Files |-> None]
  /\ fd = [p \in Procs |-> None]
  /\ pc = [p \in Procs |-> "outside"]
  /\ tries = [p \in Procs |-> 0]

-----------------------------------------------------------------------------
(* _try_lock *)

\* Closing a file drops the lock that came with it.
Close(p) ==
  /\ fd' = [fd EXCEPT ![p] = None]
  /\ lock' = [f \in Files |-> IF lock[f] = p THEN None ELSE lock[f]]

Enter(p) ==
  /\ pc[p] = "outside"
  /\ pc' = [pc EXCEPT ![p] = "open"]
  /\ tries' = [tries EXCEPT ![p] = 1]
  /\ UNCHANGED <<path, files, lock, fd>>

\* os.open(O_CREAT): the file at the path, or a new one.
Open(p) ==
  /\ pc[p] = "open"
  /\ pc' = [pc EXCEPT ![p] = "flock"]
  /\ \/ /\ path # None
        /\ fd' = [fd EXCEPT ![p] = path]
        /\ UNCHANGED <<path, files>>
     \/ /\ path = None /\ files < MaxFiles
        /\ files' = files + 1 /\ path' = files + 1
        /\ fd' = [fd EXCEPT ![p] = files + 1]
  /\ UNCHANGED <<lock, tries>>

Flock(p) ==
  /\ pc[p] = "flock"
  /\ \/ /\ lock[fd[p]] = None
        /\ lock' = [lock EXCEPT ![fd[p]] = p]
        /\ pc' = [pc EXCEPT ![p] = "stat"]
        /\ UNCHANGED fd
     \/ /\ lock[fd[p]] # None
        /\ Close(p)
        /\ pc' = [pc EXCEPT ![p] = "outside"]
  /\ UNCHANGED <<path, files, tries>>

\* fstat and stat: is the file that was locked still the one at the path?
Stat(p) ==
  /\ pc[p] = "stat"
  /\ \/ /\ fd[p] = path
        /\ pc' = [pc EXCEPT ![p] = "inside"]
        /\ UNCHANGED <<lock, fd, tries>>
     \/ /\ fd[p] # path
        /\ Close(p)
        /\ pc' = [pc EXCEPT ![p] = IF tries[p] < LockAttempts THEN "open" ELSE "outside"]
        /\ tries' = [tries EXCEPT ![p] = IF @ < LockAttempts THEN @ + 1 ELSE @]
  /\ UNCHANGED <<path, files>>

-----------------------------------------------------------------------------
(* lease *)

\* Mutant of Unlink: the file goes after its lock.
UnlinkAfterClose(p) ==
  /\ pc[p] \in {"inside", "close"}
  /\ IF pc[p] = "inside" THEN Close(p) /\ pc' = [pc EXCEPT ![p] = "close"] /\ UNCHANGED path
     ELSE path' = None /\ pc' = [pc EXCEPT ![p] = "outside"] /\ UNCHANGED <<lock, fd>>
  /\ UNCHANGED <<files, tries>>

\* The file goes while its lock is held.
Unlink(p) ==
  /\ pc[p] = "inside"
  /\ path' = None
  /\ pc' = [pc EXCEPT ![p] = "close"]
  /\ UNCHANGED <<files, lock, fd, tries>>

Leave(p) ==
  /\ pc[p] = "close"
  /\ Close(p)
  /\ pc' = [pc EXCEPT ![p] = "outside"]
  /\ UNCHANGED <<path, files, tries>>

\* A process dies; its lock file stays.
Die(p) ==
  /\ pc[p] # "outside"
  /\ Close(p)
  /\ pc' = [pc EXCEPT ![p] = "outside"]
  /\ UNCHANGED <<path, files, tries>>

LeaseNext == \E p \in Procs : Enter(p) \/ Open(p) \/ Flock(p) \/ Stat(p) \/ Unlink(p) \/ Leave(p) \/ Die(p)

LeaseSpec == LeaseInit /\ [][LeaseNext]_leaseVars

-----------------------------------------------------------------------------
(* Properties *)

\* refine_files.lease: two refinements of one resume never run at once, however the
\* takers race with the removal of the file.
OneRevision == \A p, q \in Procs : pc[p] = "inside" /\ pc[q] = "inside" => p = q

\* The lease dies with its holder, and every failed attempt gives back what it locked: a
\* process outside the lease holds no lock that could refuse the next one.
NoLeftoverLock == \A f \in Files : lock[f] # None => pc[lock[f]] \in {"stat", "inside", "close"}
=============================================================================
