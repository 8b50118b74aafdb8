---------------------------- MODULE ApiTokensProofs ----------------------------
(***************************************************************************)
(* Proofs about ApiTokens for any set of tasks and any bounds.             *)
(***************************************************************************)
EXTENDS ApiTokens, TLAPS

-----------------------------------------------------------------------------
(* Type correctness.                                                       *)

(* The initial state is of the types.                                      *)
LEMMA InitTyped == Init => TypeOK
  <1> SUFFICES ASSUME Init
               PROVE  TypeOK
    OBVIOUS
  <1>1. "idle" \in Locations /\ "answered" \in Outcomes
    BY DEF Locations, Outcomes
  <1>2. /\ pc \in [Tasks -> Locations]
        /\ exchanged \in [Tasks -> Nat]
    BY <1>1 DEF Init
  <1>3. issued = 1 /\ aged = 0 /\ token = 1
    BY DEF Init
  <1>4. /\ sent \in [Tasks -> 0..issued]
        /\ granted \in [Tasks -> 0..issued]
    <2>1. 0 \in 0..issued
      BY <1>3
    <2> QED
      BY <2>1 DEF Init
  <1>5. /\ connected = TRUE /\ excused = FALSE
        /\ told = "answered" /\ ages = 0 /\ late = 0
    BY DEF Init
  <1>6. /\ connected \in BOOLEAN /\ excused \in BOOLEAN
        /\ ages \in Nat /\ late \in Nat
    BY <1>5
  <1>7. issued \in Nat \ {0} /\ aged \in 0..issued /\ token \in 0..issued
    BY <1>3
  <1>8. told \in Outcomes
    BY <1>1, <1>5
  <1> QED
    BY <1>2, <1>4, <1>6, <1>7, <1>8, Zenon DEF TypeOK

(* A call ends in one of the outcomes.                                     *)
LEMMA TranslatedTyped ==
  ASSUME NEW message, NEW kind \in Outcomes
  PROVE  Translated(message, kind) \in Outcomes
  BY DEF Translated, Outcomes

(* What a step keeps of the types when a task's call ends.                 *)
LEMMA EndTyped ==
  ASSUME TypeOK, NEW t \in Tasks, NEW from, NEW how \in Outcomes,
         End(t, from, how), issued' = issued
  PROVE  /\ pc' \in [Tasks -> Locations]
         /\ told' \in Outcomes
         /\ sent' \in [Tasks -> 0..issued']
         /\ granted' \in [Tasks -> 0..issued']
  <1>1. 0 \in 0..issued
    BY DEF TypeOK
  <1>2. "idle" \in Locations
    BY DEF Locations
  <1> QED
    BY <1>1, <1>2 DEF End, Goto, TypeOK

(* Every step keeps the types.                                             *)
LEMMA NextTyped == TypeOK /\ [Next]_vars => TypeOK'
  <1> SUFFICES ASSUME TypeOK, [Next]_vars
               PROVE  TypeOK'
    OBVIOUS
  <1>o. /\ "answered" \in Outcomes /\ "communication" \in Outcomes
        /\ "authentication" \in Outcomes /\ "raised" \in Outcomes
    BY DEF Outcomes
  <1>1. CASE UNCHANGED vars
    BY <1>1 DEF TypeOK, vars, gateway, history
  <1>2. CASE Age
    <2>1. issued \in 0..issued
      BY DEF TypeOK
    <2> QED
      BY <1>2, <2>1 DEF Age, Aging, TypeOK
  <1>3. CASE Invalidate
    <2>1. 0 \in 0..issued
      BY DEF TypeOK
    <2> QED
      BY <1>3, <2>1 DEF Invalidate, Aging, TypeOK
  <1>4. ASSUME NEW t \in Tasks, Step(t)
        PROVE  TypeOK'
    <2>1. CASE Request(t)
      BY <2>1 DEF Request, Goto, Carried, TypeOK, Locations, gateway, history
    <2>2. CASE RequestUnconnected(t)
      BY <2>2, <1>o DEF RequestUnconnected, TypeOK, gateway, history
    <2>3. CASE Answered(t)
      BY <2>3, <1>o, TranslatedTyped, EndTyped
         DEF Answered, TypeOK, gateway, history
    <2>4. CASE Unanswered(t)
      BY <2>4, <1>o, EndTyped DEF Unanswered, TypeOK, gateway, history
    <2>5. CASE BlankFirst(t)
      BY <2>5 DEF BlankFirst, Goto, TypeOK, Locations, gateway, history
    <2>6. CASE BlankAgain(t)
      BY <2>6, <1>o, EndTyped DEF BlankAgain, TypeOK, gateway, history
    <2>7. CASE Grant(t)
      <3>1. /\ issued' \in Nat \ {0}
            /\ issued + 1 \in 0..issued'
            /\ \A i \in 0..issued : i \in 0..issued'
            /\ issued' = issued + 1
        BY <2>7 DEF Grant, Issue, TypeOK
      <3>2. granted' \in [Tasks -> 0..issued']
        BY <2>7, <3>1 DEF Grant, Issue, TypeOK
      <3>3. exchanged' \in [Tasks -> Nat] /\ pc' \in [Tasks -> Locations]
        BY <2>7 DEF Grant, Goto, TypeOK, Locations
      <3> QED
        BY <2>7, <3>1, <3>2, <3>3 DEF Grant, TypeOK
    <2>8. CASE Repeat(t)
      <3>1. 0 \in 0..issued /\ "repeated" \in Locations
        BY DEF TypeOK, Locations
      <3> QED
        BY <2>8, <3>1 DEF Repeat, Store, Goto, Carried, TypeOK, gateway
    <2>9. CASE RepeatRefused(t)
      BY <2>9 DEF RepeatRefused, Goto, Carried, TypeOK, Locations, gateway
    <2>10. CASE ExchangeFails(t)
      BY <2>10, <1>o, TranslatedTyped, EndTyped
         DEF ExchangeFails, TypeOK, gateway, history
    <2>11. CASE Renew(t)
      BY <2>11 DEF Renew, Goto, TypeOK, Locations, gateway, history
    <2>12. CASE Renewed(t)
      BY <2>12, <1>o, EndTyped DEF Renewed, Store, TypeOK, gateway
    <2>13. CASE RenewalRefused(t)
      BY <2>13, <1>o, TranslatedTyped, EndTyped
         DEF RenewalRefused, TypeOK, gateway
    <2>14. CASE ReadAccount(t)
      BY <2>14 DEF ReadAccount, Goto, TypeOK, Locations, gateway, history
    <2>15. CASE AccountEnds(t)
      BY <2>15, <1>o, TranslatedTyped, EndTyped
         DEF AccountEnds, TypeOK, gateway, history
    <2> QED
      BY <1>4, <2>1, <2>2, <2>3, <2>4, <2>5, <2>6, <2>7, <2>8, <2>9, <2>10,
         <2>11, <2>12, <2>13, <2>14, <2>15 DEF Step
  <1> QED
    BY <1>1, <1>2, <1>3, <1>4 DEF Next

(* The variables of the client keep their types (TypeOK).                  *)
THEOREM TypeCorrect == Spec => []TypeOK
  <1> QED
    BY InitTyped, NextTyped, PTL DEF Spec

-----------------------------------------------------------------------------
(* Why exchanges are bounded: what is said of a task's exchanges holds     *)
(* strictly as long as the task may still ask for one, because its request *)
(* or the token the next one will carry is aged.                           *)

Due(t) == exchanged[t] < ages + late

Owed ==
  \A t \in Tasks :
    /\ pc[t] = "asked" /\ sent[t] <= aged => Due(t)
    /\ pc[t] = "exchanging" => Due(t)
    /\ pc[t] # "storing" /\ token <= aged => Due(t)

ExchangeInv == TypeOK /\ Owed /\ ExchangesAreExplained

LEMMA InitExchanges == Init => ExchangeInv
  <1> SUFFICES ASSUME Init
               PROVE  ExchangeInv
    OBVIOUS
  <1>1. TypeOK
    BY InitTyped
  <1>2. /\ token = 1 /\ aged = 0 /\ ages = 0 /\ late = 0
        /\ \A t \in Tasks : pc[t] = "idle" /\ exchanged[t] = 0
    BY DEF Init
  <1>3. Owed
    <2>1. ~(token <= aged)
      BY <1>2
    <2>2. \A t \in Tasks : pc[t] # "asked" /\ pc[t] # "exchanging"
      BY <1>2
    <2> QED
      BY <2>1, <2>2, Zenon DEF Owed
  <1>4. ExchangesAreExplained
    <2>1. 0 <= ages + late
      BY <1>2
    <2>2. ASSUME NEW t \in Tasks
          PROVE  exchanged[t] <= ages + late
      <3>1. exchanged[t] = 0
        BY <1>2
      <3> QED
        BY <2>1, <3>1
    <2> QED
      BY <2>2 DEF ExchangesAreExplained
  <1> QED
    BY <1>1, <1>3, <1>4 DEF ExchangeInv

LEMMA NextExchanges == ExchangeInv /\ [Next]_vars => ExchangeInv'
  <1> SUFFICES ASSUME ExchangeInv, [Next]_vars
               PROVE  ExchangeInv'
    OBVIOUS
  <1> USE DEF ExchangeInv
  <1>t. TypeOK'
    BY NextTyped
  <1> SUFFICES Owed' /\ ExchangesAreExplained'
    BY <1>t
  <1> USE DEF Owed, ExchangesAreExplained, Due
  <1>0. /\ ages \in Nat /\ late \in Nat /\ aged \in Nat /\ token \in Nat
        /\ issued \in Nat
        /\ \A u \in Tasks : /\ exchanged[u] \in Nat /\ granted[u] \in Nat
                            /\ sent[u] \in Nat
    BY DEF TypeOK
  <1>1. CASE UNCHANGED vars
    BY <1>1 DEF vars, gateway, history
  <1>2. CASE Age \/ Invalidate
    <2>1. ages' + late' = ages + late + 1 /\ exchanged' = exchanged
      BY <1>2, <1>0 DEF Age, Invalidate, Aging
    <2> QED
      BY <1>0, <2>1
  <1>3. ASSUME NEW t \in Tasks, Step(t)
        PROVE  Owed' /\ ExchangesAreExplained'
    <2>f. pc \in [Tasks -> Locations] /\ sent \in [Tasks -> 0..issued]
          /\ exchanged \in [Tasks -> Nat]
      BY DEF TypeOK
    <2>1. ASSUME NEW l \in Locations \ {"asked", "exchanging", "storing"},
                 pc' = [pc EXCEPT ![t] = l], pc[t] # "storing",
                 \A u \in Tasks \ {t} : sent'[u] = sent[u],
                 UNCHANGED <<token, aged, ages, late, exchanged>>
          PROVE  Owed' /\ ExchangesAreExplained'
      BY <2>1, <2>f
    <2>2. CASE Request(t)
      <3>1. /\ pc[t] = "idle" /\ pc' = [pc EXCEPT ![t] = "asked"]
            /\ sent' = [sent EXCEPT ![t] = token]
            /\ UNCHANGED <<token, aged, ages, late, exchanged>>
        BY <2>2 DEF Request, Goto, Carried, gateway, history
      <3> QED
        BY <3>1, <2>f
    <2>3. CASE RequestUnconnected(t)
      BY <2>3 DEF RequestUnconnected, gateway, history
    <2>4. CASE Answered(t) \/ Unanswered(t) \/ BlankAgain(t)
               \/ ExchangeFails(t) \/ RenewalRefused(t) \/ AccountEnds(t)
      <3>1. /\ pc' = [pc EXCEPT ![t] = "idle"] /\ pc[t] # "storing"
            /\ sent' = [sent EXCEPT ![t] = 0]
            /\ UNCHANGED <<token, aged, ages, late, exchanged>>
        BY <2>4 DEF Answered, Unanswered, BlankAgain, ExchangeFails,
                    RenewalRefused, AccountEnds, End, Goto, gateway, history
      <3> QED
        BY <3>1, <2>1, <2>f DEF Locations
    <2>5. CASE Renew(t) \/ ReadAccount(t)
      <3>1. /\ \/ pc' = [pc EXCEPT ![t] = "renewing"]
               \/ pc' = [pc EXCEPT ![t] = "account"]
            /\ pc[t] # "storing"
            /\ UNCHANGED <<sent, token, aged, ages, late, exchanged>>
        BY <2>5 DEF Renew, ReadAccount, Goto, gateway, history
      <3> QED
        BY <3>1, <2>1 DEF Locations
    <2>6. CASE RepeatRefused(t)
      <3>1. /\ pc' = [pc EXCEPT ![t] = "repeated"] /\ pc[t] # "storing"
            /\ sent' = [sent EXCEPT ![t] = token]
            /\ UNCHANGED <<token, aged, ages, late, exchanged>>
        BY <2>6 DEF RepeatRefused, Goto, Carried, gateway
      <3> QED
        BY <3>1, <2>1, <2>f DEF Locations
    <2>7. CASE BlankFirst(t)
      <3>1. /\ pc[t] = "asked" /\ pc' = [pc EXCEPT ![t] = "exchanging"]
            /\ sent[t] <= aged
            /\ UNCHANGED <<sent, token, aged, ages, late, exchanged>>
        BY <2>7 DEF BlankFirst, IdentityIsBlank, Blank, Goto, gateway, history
      <3> QED
        BY <3>1, <2>f
    <2>8. CASE Grant(t)
      <3>1. UNCHANGED <<sent, token, aged, ages, late>>
        BY <2>8 DEF Grant
      <3>2. CASE /\ pc[t] = "exchanging"
                 /\ pc' = [pc EXCEPT ![t] = "storing"]
                 /\ exchanged' = [exchanged EXCEPT ![t] = @ + 1]
        BY <3>1, <3>2, <2>f, <1>0
      <3>3. CASE /\ pc[t] = "renewing"
                 /\ pc' = [pc EXCEPT ![t] = "keeping"]
                 /\ exchanged' = exchanged
        BY <3>1, <3>3, <2>f, <1>0
      <3> QED
        BY <2>8, <3>2, <3>3 DEF Grant, Goto
    <2>9. CASE Repeat(t) \/ Renewed(t)
      <3>1. /\ \/ pc' = [pc EXCEPT ![t] = "repeated"]
               \/ pc' = [pc EXCEPT ![t] = "idle"]
            /\ \A u \in Tasks \ {t} : sent'[u] = sent[u]
            /\ token' = granted[t]
            /\ late' = late + (IF granted[t] <= aged THEN 1 ELSE 0)
            /\ UNCHANGED <<aged, ages, exchanged>>
        BY <2>9 DEF Repeat, Renewed, End, Goto, Store, gateway, TypeOK
      <3>2. CASE granted[t] <= aged
        <4>1. late' = late + 1
          BY <3>1, <3>2
        <4> QED
          BY <3>1, <4>1, <1>0
      <3>3. CASE ~(granted[t] <= aged)
        <4>1. late' = late /\ ~(token' <= aged')
          BY <3>1, <3>3, <1>0
        <4> QED
          BY <3>1, <4>1, <1>0, <2>f
      <3> QED
        BY <3>2, <3>3
    <2> QED
      BY <1>3, <2>2, <2>3, <2>4, <2>5, <2>6, <2>7, <2>8, <2>9 DEF Step
  <1> QED
    BY <1>1, <1>2, <1>3 DEF Next

(* An ageing and a late token cost each task at most one exchange          *)
(* (ExchangesAreExplained).                                                *)
THEOREM ExchangesAreBounded == Spec => []ExchangesAreExplained
  <1>1. ExchangeInv => ExchangesAreExplained
    BY DEF ExchangeInv
  <1> QED
    BY InitExchanges, NextExchanges, <1>1, PTL DEF Spec

-----------------------------------------------------------------------------
(* Why a client is given up: a token granted to a task that is repeating   *)
(* its request is unaged, or there is an excuse.                           *)

FreshWhenRepeated ==
  \A t \in Tasks :
    /\ pc[t] = "storing" /\ granted[t] <= aged => excused
    /\ pc[t] = "repeated" /\ sent[t] <= aged => excused

GivenUpInv == TypeOK /\ FreshWhenRepeated /\ GivenUpIsExplained

LEMMA InitGivenUp == Init => GivenUpInv
  <1> SUFFICES ASSUME Init
               PROVE  GivenUpInv
    OBVIOUS
  <1>1. TypeOK
    BY InitTyped
  <1>2. FreshWhenRepeated
    BY DEF Init, FreshWhenRepeated
  <1>3. GivenUpIsExplained
    BY DEF Init, GivenUpIsExplained
  <1> QED
    BY <1>1, <1>2, <1>3 DEF GivenUpInv

LEMMA NextGivenUp == GivenUpInv /\ [Next]_vars => GivenUpInv'
  <1> SUFFICES ASSUME GivenUpInv, [Next]_vars
               PROVE  GivenUpInv'
    OBVIOUS
  <1> USE DEF GivenUpInv
  <1>t. TypeOK'
    BY NextTyped
  <1> SUFFICES FreshWhenRepeated' /\ GivenUpIsExplained'
    BY <1>t
  <1> USE DEF FreshWhenRepeated, GivenUpIsExplained
  <1>1. CASE UNCHANGED vars
    BY <1>1 DEF vars, gateway, history
  <1>2. CASE Age \/ Invalidate
    <2>1. /\ UNCHANGED <<connected, pc, sent, granted>>
          /\ excused =>  excused'
          /\ \A u \in Tasks : pc[u] \in {"storing", "repeated"} => excused'
      BY <1>2 DEF Age, Invalidate, Aging
    <2> QED
      BY <2>1
  <1>3. ASSUME NEW t \in Tasks, Step(t)
        PROVE  FreshWhenRepeated' /\ GivenUpIsExplained'
    <2>f. /\ pc \in [Tasks -> Locations]
          /\ sent \in [Tasks -> 0..issued] /\ granted \in [Tasks -> 0..issued]
          /\ issued \in Nat /\ aged \in 0..issued
      BY DEF TypeOK
    <2>1. ASSUME \A u \in Tasks \ {t} : /\ pc'[u] = pc[u]
                                        /\ sent'[u] = sent[u]
                                        /\ granted'[u] = granted[u],
                 ~(pc'[t] \in {"storing", "repeated"}),
                 UNCHANGED aged, excused => excused', connected' \/ excused'
          PROVE  FreshWhenRepeated' /\ GivenUpIsExplained'
      BY <2>1
    <2>2. CASE RequestUnconnected(t)
      BY <2>2 DEF RequestUnconnected, gateway, history
    <2>3. CASE Request(t) \/ BlankFirst(t) \/ Renew(t) \/ ReadAccount(t)
      <3>1. /\ \E l \in {"asked", "exchanging", "renewing", "account"} :
                 pc' = [pc EXCEPT ![t] = l]
            /\ \A u \in Tasks \ {t} : sent'[u] = sent[u]
            /\ UNCHANGED <<granted, aged, excused, connected>>
        BY <2>3, <2>f DEF Request, BlankFirst, Renew, ReadAccount, Goto, gateway,
                          history
      <3> QED
        BY <3>1, <2>1, <2>f
    <2>4. CASE Answered(t) \/ Unanswered(t) \/ ExchangeFails(t)
               \/ AccountEnds(t) \/ Renewed(t) \/ RenewalRefused(t)
      <3>1. /\ pc' = [pc EXCEPT ![t] = "idle"]
            /\ sent' = [sent EXCEPT ![t] = 0]
            /\ granted' = [granted EXCEPT ![t] = 0]
            /\ aged' = aged
            /\ \/ UNCHANGED <<excused, connected>>
               \/ excused' = TRUE
        BY <2>4 DEF Answered, Unanswered, ExchangeFails, AccountEnds, Renewed,
                    RenewalRefused, End, Goto, gateway, history
      <3> QED
        BY <3>1, <2>1, <2>f
    <2>5. CASE BlankAgain(t)
      <3>1. /\ pc[t] = "repeated" /\ sent[t] <= aged
            /\ pc' = [pc EXCEPT ![t] = "idle"]
            /\ sent' = [sent EXCEPT ![t] = 0]
            /\ granted' = [granted EXCEPT ![t] = 0]
            /\ UNCHANGED <<aged, excused>>
        BY <2>5 DEF BlankAgain, Blank, End, Goto, gateway, history
      <3> QED
        BY <3>1, <2>1, <2>f
    <2>6. CASE Grant(t)
      <3>1. /\ \/ pc' = [pc EXCEPT ![t] = "storing"]
               \/ pc' = [pc EXCEPT ![t] = "keeping"]
            /\ granted' = [granted EXCEPT ![t] = issued + 1]
            /\ UNCHANGED <<sent, aged, excused, connected>>
        BY <2>6 DEF Grant, Issue, Goto
      <3>2. ~(issued + 1 <= aged)
        BY <2>f
      <3> QED
        BY <3>1, <3>2, <2>f
    <2>7. CASE Repeat(t)
      <3>1. /\ pc[t] = "storing" /\ pc' = [pc EXCEPT ![t] = "repeated"]
            /\ sent' = [sent EXCEPT ![t] = granted[t]]
            /\ granted' = [granted EXCEPT ![t] = 0]
            /\ UNCHANGED <<aged, excused, connected>>
        BY <2>7 DEF Repeat, Goto, Carried, gateway
      <3> QED
        BY <3>1, <2>f
    <2>8. CASE RepeatRefused(t)
      BY <2>8 DEF RepeatRefused
    <2> QED
      BY <1>3, <2>2, <2>3, <2>4, <2>5, <2>6, <2>7, <2>8 DEF Step
  <1> QED
    BY <1>1, <1>2, <1>3 DEF Next

(* The client is given up for a refused exchange or a token that aged in   *)
(* the middle of a repeated request (GivenUpIsExplained).                  *)
THEOREM GivenUpForAReason == Spec => []GivenUpIsExplained
  <1>1. GivenUpInv => GivenUpIsExplained
    BY DEF GivenUpInv
  <1> QED
    BY InitGivenUp, NextGivenUp, <1>1, PTL DEF Spec
=============================================================================
