------------------------------- MODULE SharedCache -------------------------------
(***************************************************************************)
(* What the coordinator relies on when its tasks read through one          *)
(* ValueCacher: a value is asked for only when the one held may not be     *)
(* served any more, by one task at a time; only the answer to that task    *)
(* replaces the value held, and never by an older one; and a mark lasts    *)
(* until an answer is stored.  Who waits and for how long, and when a      *)
(* value is too old, is not said.                                          *)
(***************************************************************************)
EXTENDS Integers

CONSTANTS
  Tasks,   \* the tasks that read
  NoTask   \* nobody asks

VARIABLES
  held,     \* the value held, by the moment it is of, or None
  inTime,   \* whether its age lets it be served
  marked,   \* whether it is marked as stale
  fetcher,  \* the task that asks the cloud, or NoTask
  answer    \* what the cloud answered to it, or None

None == -1

Init ==
  /\ held = None
  /\ inTime \in BOOLEAN
  /\ marked = FALSE
  /\ fetcher = NoTask
  /\ answer = None

Fresh(isMarked) == ~isMarked /\ held # None /\ inTime

(* A task asks the cloud, perhaps because it marked the value just now.    *)
Fetch ==
  /\ fetcher = NoTask
  /\ marked' \in {marked, TRUE}
  /\ ~Fresh(marked')
  /\ fetcher' \in Tasks
  /\ UNCHANGED <<held, inTime, answer>>

(* The answer is what the cloud has now, or the value held.                *)
Answer ==
  /\ fetcher # NoTask
  /\ answer = None
  /\ answer' \in Nat
  /\ answer' >= held
  /\ UNCHANGED <<held, inTime, marked, fetcher>>

Store ==
  /\ fetcher # NoTask
  /\ answer # None
  /\ held' = answer
  /\ inTime' \in BOOLEAN
  /\ marked' = FALSE
  /\ fetcher' = NoTask
  /\ answer' = None

(* The task gets an error, or is cancelled.                                *)
Fail ==
  /\ fetcher # NoTask
  /\ fetcher' = NoTask
  /\ answer' = None
  /\ UNCHANGED <<held, inTime, marked>>

Mark ==
  /\ marked' = TRUE
  /\ UNCHANGED <<held, inTime, fetcher, answer>>

Age ==
  /\ inTime' = FALSE
  /\ UNCHANGED <<held, marked, fetcher, answer>>

Next == Fetch \/ Answer \/ Store \/ Fail \/ Mark \/ Age

Spec == Init /\ [][Next]_<<held, inTime, marked, fetcher, answer>>
=============================================================================
