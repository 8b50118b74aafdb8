------------------------------ MODULE SharedClient ------------------------------
(***************************************************************************)
(* What the rest of the program relies on when it asks for the shared API  *)
(* client of one account: sign-ins happen one after the other, a client is *)
(* registered only by the sign-in that was last begun, and while a sign-in *)
(* is under way nothing is registered.  The cloud keeps one session per    *)
(* account, so a client registered under a later sign-in would be dead.    *)
(***************************************************************************)
EXTENDS Naturals

VARIABLES
  current,  \* the number of the registered client, or None
  newest,   \* how many sign-ins were begun
  signing   \* whether one is under way

None == 0

Init ==
  /\ current = None
  /\ newest = 0
  /\ signing = FALSE

(* A sign-in begins: what was registered is given up first.                *)
Begin ==
  /\ ~signing
  /\ signing' = TRUE
  /\ newest' = newest + 1
  /\ current' = None

(* It succeeds: its client is the registered one.                          *)
Register ==
  /\ signing
  /\ signing' = FALSE
  /\ current' = newest
  /\ UNCHANGED newest

(* It fails: nothing is registered.                                        *)
Fail ==
  /\ signing
  /\ signing' = FALSE
  /\ UNCHANGED <<current, newest>>

(* The registered client is dropped.                                       *)
Forget ==
  /\ current # None
  /\ current' = None
  /\ UNCHANGED <<newest, signing>>

Next == Begin \/ Register \/ Fail \/ Forget

Spec == Init /\ [][Next]_<<current, newest, signing>>
=============================================================================
