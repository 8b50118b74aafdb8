------------------------------ MODULE AsyncioLock ------------------------------
(***************************************************************************)
(* The asyncio.Lock the program takes with `async with`: who holds it and  *)
(* who waits.  The lock is fair.  Taking a free lock does not yield;       *)
(* releasing it hands it to the first waiter, which runs an iteration of   *)
(* the event loop later; whoever asks in between goes to the back of the   *)
(* queue.  A task that was handed the lock and has not run yet is its      *)
(* holder here, so the modules that use the lock let a waiting task go on  *)
(* when it is the holder.                                                  *)
(***************************************************************************)
EXTENDS Integers, Sequences

CONSTANTS
  Tasks,   \* the asyncio tasks that take the lock
  NoTask   \* nobody: the lock is free

ASSUME TasksAssumption == NoTask \notin Tasks

VARIABLES
  holder,  \* the task that has the lock or was handed it
  queue    \* the tasks waiting for it, in order

lock == <<holder, queue>>

LockInit ==
  /\ holder = NoTask
  /\ queue = <<>>

LockTypeOK ==
  /\ holder \in Tasks \cup {NoTask}
  /\ queue \in Seq(Tasks)

Queued == {queue[i] : i \in 1 .. Len(queue)}

(* Take the free lock.                                                     *)
TakeLock(c) ==
  /\ holder' = c
  /\ queue' = queue

(* Wait for the lock.                                                      *)
JoinQueue(c) ==
  /\ holder' = holder
  /\ queue' = Append(queue, c)

(* Give the lock back.                                                     *)
ReleaseLock ==
  \/ /\ queue = <<>>
     /\ holder' = NoTask
     /\ queue' = queue
  \/ /\ queue # <<>>
     /\ holder' = Head(queue)
     /\ queue' = Tail(queue)

(* The queue without its member c.                                         *)
Without(c) ==
  LET at == CHOOSE i \in 1 .. Len(queue) : queue[i] = c
  IN  [i \in 1 .. (Len(queue) - 1) |-> IF i < at THEN queue[i] ELSE queue[i + 1]]

(* A task is cancelled while it waits: it leaves the queue, or passes on   *)
(* the lock it was handed.                                                 *)
AbandonLock(c) ==
  \/ /\ holder = c
     /\ ReleaseLock
  \/ /\ holder # c
     /\ holder' = holder
     /\ queue' = Without(c)

(* The lock's own invariant: nobody waits for a free lock, and nobody      *)
(* waits twice or waits while holding it.                                  *)
LockOK ==
  /\ LockTypeOK
  /\ holder = NoTask => queue = <<>>
  /\ holder \notin Queued
  /\ \A i, j \in 1 .. Len(queue) : queue[i] = queue[j] => i = j

=============================================================================
