---------------------------- MODULE MCEntryLifecycle ---------------------------
(* Two accounts that may share a machine; what happens to a machine does   *)
(* not depend on the others, so one is enough.                             *)
EXTENDS EntryLifecycle

CONSTANTS home, other, myAccount, herAccount, litterbox

TwoCreds == {home, other}
TwoAccounts == {myAccount, herAccount}
OneEach == [c \in TwoCreds |-> IF c = home THEN myAccount ELSE herAccount]
OneMachine == {litterbox}
TwoFlows == {"reconfigure", "reauth"}
TwoOptions == {30, 60}
Shared == [a \in TwoAccounts |-> OneMachine]
SharedOrNot == {Shared, [Shared EXCEPT ![herAccount] = {}]}
=============================================================================
