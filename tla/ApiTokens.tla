------------------------------- MODULE ApiTokens -------------------------------
(***************************************************************************)
(* One connected client of the cloud (api.py behind api_client.py) and the *)
(* asyncio tasks that call it at once: device requests signed with the IoT *)
(* token, account reads signed with the account's own, and renewals.  The  *)
(* gateway answers a request whose token aged with a blank identity; the   *)
(* client then exchanges its sign-in for a new token and asks once more.   *)
(* Nothing serialises the exchanges of several tasks.                      *)
(*                                                                         *)
(* Tokens are numbered as the gateway issues them.  What connects a client *)
(* is ApiManager's; a client that was given up is never connected again,   *)
(* for get_shared_api makes a new one.  The gateway's answers commute with *)
(* what other tasks do, except an exchange's: the token is granted in one  *)
(* step and stored in a later one.                                         *)
(***************************************************************************)
EXTENDS Integers

CONSTANTS
  Tasks,      \* the tasks that call the client
  MaxAges,    \* bound: how often tokens age or are broken
  MaxIssued   \* bound: tokens granted

ASSUME BoundsAssumption == MaxAges \in Nat /\ MaxIssued \in Nat \ {0}

VARIABLES
  connected,  \* connected
  token,      \* _iot_token, by the number of its exchange; 0 is unusable
  issued,     \* how many tokens the gateway granted for this sign-in
  aged,       \* the tokens up to this one are aged
  pc,         \* what each task awaits
  sent,       \* the token of each task's request
  granted,    \* the token of the answer to each task's exchange
  told,       \* how the call that ended last ended
  ages,       \* history: how often tokens aged or were broken
  late,       \* history: how often an aged token was stored
  exchanged,  \* history: exchanges granted to each task's requests
  excused     \* history: whether an exchange was refused, or tokens aged
              \*   while a request was repeated

history == <<ages, late, exchanged, excused>>
gateway == <<issued, aged>>
vars == <<connected, token, gateway, pc, sent, granted, told, history>>

Locations == {"idle", "asked", "exchanging", "storing", "repeated",
              "renewing", "keeping", "account"}
Outcomes == {"answered", "communication", "expired", "authentication",
             "raised"}

Init ==
  /\ connected = TRUE
  /\ token = 1
  /\ issued = 1
  /\ aged = 0
  /\ pc = [t \in Tasks |-> "idle"]
  /\ sent = [t \in Tasks |-> 0]
  /\ granted = [t \in Tasks |-> 0]
  /\ told = "answered"
  /\ ages = 0
  /\ late = 0
  /\ exchanged = [t \in Tasks |-> 0]
  /\ excused = FALSE

-----------------------------------------------------------------------------
(* The errors and what the facade makes of them.                           *)

(* The words by which a message is taken for an expired session.           *)
ExpiredWords == {"session", "expired", "auth", "tokeninvalid", "abnormal"}

(* What each message has of them: an exchange whose answer is no JSON is   *)
(* told with the path "/account/createSessionByAuthCode".                  *)
Words(message) ==
  CASE message = "request auth error" -> {"auth"}
    [] message = "TokenInvalid"       -> {"tokeninvalid"}
    [] message = "exchange garbled"   -> {"session", "auth"}
    [] OTHER                          -> {}

(* Mutated form of Translated: an error without such words is passed on.   *)
TranslatedPartly(message, kind) ==
  IF Words(message) \cap ExpiredWords # {} THEN "expired" ELSE message

(* _translate_errors.                                                      *)
Translated(message, kind) ==
  IF Words(message) \cap ExpiredWords # {} THEN "expired" ELSE kind

Goto(t, from, to) ==
  /\ pc[t] = from
  /\ pc' = [pc EXCEPT ![t] = to]

(* The call of task t ends where it waited.                                *)
End(t, from, how) ==
  /\ Goto(t, from, "idle")
  /\ told' = how
  /\ sent' = [sent EXCEPT ![t] = 0]
  /\ granted' = [granted EXCEPT ![t] = 0]

Blank(t) == sent[t] <= aged

-----------------------------------------------------------------------------
(* Device requests: _iot_request.                                          *)

(* Mutated form of Carried: a repeated request carries what it was built   *)
(* with the first time.                                                    *)
CarriedAtFirst(t, held) == IF pc[t] = "idle" THEN held ELSE sent[t]

(* A request is built anew each time, with the token held by then.         *)
Carried(t, held) == held

Request(t) ==
  /\ connected
  /\ Goto(t, "idle", "asked")
  /\ sent' = [sent EXCEPT ![t] = Carried(t, token)]
  /\ UNCHANGED <<connected, token, gateway, granted, told, history>>

(* "api not connected".                                                    *)
RequestUnconnected(t) ==
  /\ ~connected
  /\ pc[t] = "idle"
  /\ told' = "communication"
  /\ UNCHANGED <<connected, token, gateway, pc, sent, granted, history>>

(* The gateway resolves the token: it answers or refuses the session.      *)
Answered(t) ==
  \E from \in {"asked", "repeated"}, how \in
      {"answered", Translated("request auth error", "communication")} :
    /\ ~Blank(t)
    /\ End(t, from, how)
    /\ UNCHANGED <<connected, token, gateway, history>>

(* An answer that is no JSON or another code, and none at all: do_request  *)
(* translates nothing, so a lost connection is raised as it is.            *)
Unanswered(t) ==
  \E from \in {"asked", "repeated"}, how \in {"communication", "raised"} :
    /\ End(t, from, how)
    /\ UNCHANGED <<connected, token, gateway, history>>

(* Mutated form of IdentityIsBlank: any code other than 200 is taken for   *)
(* an aged token.                                                          *)
AnyError(t) == TRUE

(* _identity_is_blank, of the answer to the request of task t.             *)
IdentityIsBlank(t) == Blank(t)

(* The first time: the token is exchanged.                                 *)
BlankFirst(t) ==
  /\ IdentityIsBlank(t)
  /\ Goto(t, "asked", "exchanging")
  /\ UNCHANGED <<connected, token, gateway, sent, granted, told, history>>

(* The second time: the client is given up.                                *)
BlankAgain(t) ==
  /\ Blank(t)
  /\ End(t, "repeated", "communication")
  /\ connected' = FALSE
  /\ UNCHANGED <<token, gateway, history>>

-----------------------------------------------------------------------------
(* Exchanges: _get_iot_token_by_sid.                                       *)

Issue(t) ==
  /\ issued < MaxIssued
  /\ issued' = issued + 1
  /\ granted' = [granted EXCEPT ![t] = issued + 1]

(* The gateway grants a token; the answer is on its way.                   *)
Grant(t) ==
  /\ Issue(t)
  /\ \/ /\ Goto(t, "exchanging", "storing")
        /\ exchanged' = [exchanged EXCEPT ![t] = @ + 1]
     \/ /\ Goto(t, "renewing", "keeping")
        /\ UNCHANGED exchanged
  /\ UNCHANGED <<connected, token, aged, sent, told, ages, late,
                 excused>>

(* It arrives: whatever another task stored meanwhile is replaced.         *)
Store(t) ==
  /\ token' = granted[t]
  /\ late' = late + (IF granted[t] <= aged THEN 1 ELSE 0)

(* _refresh_iot_token returns and the request is repeated.                 *)
Repeat(t) ==
  /\ Goto(t, "storing", "repeated")
  /\ Store(t)
  /\ sent' = [sent EXCEPT ![t] = Carried(t, granted[t])]
  /\ granted' = [granted EXCEPT ![t] = 0]
  /\ UNCHANGED <<connected, gateway, told, ages, exchanged,
                 excused>>

(* The exchange is refused: the client is given up, the refusal is only    *)
(* logged, and the request is repeated with the token held by now.         *)
RepeatRefused(t) ==
  /\ Goto(t, "exchanging", "repeated")
  /\ connected' = FALSE
  /\ excused' = TRUE
  /\ sent' = [sent EXCEPT ![t] = Carried(t, token)]
  /\ UNCHANGED <<token, gateway, granted, told, ages, late, exchanged>>

(* It is answered by something else than JSON, or not at all: that error   *)
(* is not the one _refresh_iot_token expects, and ends the call.           *)
ExchangeFails(t) ==
  \E from \in {"exchanging", "renewing"}, how \in
      {Translated("exchange garbled", "communication"), "raised"} :
    /\ End(t, from, how)
    /\ UNCHANGED <<connected, token, gateway, history>>

-----------------------------------------------------------------------------
(* Renewals: refresh_session, which asks for no connected client and       *)
(* leaves connected as it is when the exchange is granted.                 *)

Renew(t) ==
  /\ Goto(t, "idle", "renewing")
  /\ UNCHANGED <<connected, token, gateway, sent, granted, told, history>>

Renewed(t) ==
  /\ End(t, "keeping", "answered")
  /\ Store(t)
  /\ UNCHANGED <<connected, gateway, ages, exchanged, excused>>

RenewalRefused(t) ==
  \E message \in {"request auth error", "unworded"} :
    /\ End(t, "renewing", Translated(message, "authentication"))
    /\ connected' = FALSE
    /\ excused' = TRUE
    /\ UNCHANGED <<token, gateway, ages, late, exchanged>>

-----------------------------------------------------------------------------
(* Account reads: _signed_get, which never looks at connected.             *)

ReadAccount(t) ==
  /\ Goto(t, "idle", "account")
  /\ UNCHANGED <<connected, token, gateway, sent, granted, told, history>>

AccountEnds(t) ==
  \E how \in {"answered", Translated("TokenInvalid", "communication"),
              Translated("Error connecting to api.", "communication"),
              "raised"} :
    /\ End(t, "account", how)
    /\ UNCHANGED <<connected, token, gateway, history>>

-----------------------------------------------------------------------------
(* Time, and the tool that breaks the tokens.                              *)

Aging ==
  /\ ages < MaxAges
  /\ ages' = ages + 1
  /\ excused' =
       (excused \/ \E t \in Tasks : pc[t] \in {"storing", "repeated"})
  /\ UNCHANGED <<connected, issued, pc, sent, granted, told, late,
                 exchanged>>

(* Every token granted so far stops resolving.                             *)
Age ==
  /\ Aging
  /\ aged' = issued
  /\ UNCHANGED token

(* debug_invalidate_tokens.                                                *)
Invalidate ==
  /\ Aging
  /\ token' = 0
  /\ UNCHANGED aged

Step(t) ==
  \/ Request(t) \/ RequestUnconnected(t) \/ Answered(t) \/ Unanswered(t)
  \/ BlankFirst(t) \/ BlankAgain(t)
  \/ Grant(t) \/ Repeat(t) \/ RepeatRefused(t) \/ ExchangeFails(t)
  \/ Renew(t) \/ Renewed(t) \/ RenewalRefused(t)
  \/ ReadAccount(t) \/ AccountEnds(t)

Next == Age \/ Invalidate \/ \E t \in Tasks : Step(t)

Spec == Init /\ [][Next]_vars

-----------------------------------------------------------------------------
TypeOK ==
  /\ connected \in BOOLEAN
  /\ issued \in Nat \ {0}
  /\ aged \in 0..issued
  /\ token \in 0..issued
  /\ pc \in [Tasks -> Locations]
  /\ sent \in [Tasks -> 0..issued]
  /\ granted \in [Tasks -> 0..issued]
  /\ told \in Outcomes
  /\ ages \in Nat
  /\ late \in Nat
  /\ exchanged \in [Tasks -> Nat]
  /\ excused \in BOOLEAN

(* An ageing of the token costs each task at most one exchange, and so     *)
(* does an aged token that a slow answer stored over a newer one: however  *)
(* the exchanges of several tasks cross, they do not keep each other       *)
(* busy.  Every exchange moves the account session, and the log counts     *)
(* them for that reason (api.py:389-397).                                  *)
ExchangesAreExplained ==
  \A t \in Tasks : exchanged[t] <= ages + late

(* The client is given up, which makes the next update sign in anew, only  *)
(* when an exchange was refused or the token aged again while the request  *)
(* was repeated: a request is not repeated with the token that was blank   *)
(* when a newer one was granted to it (api.py:411-421).                    *)
GivenUpIsExplained ==
  connected \/ excused
=============================================================================
