-------------------------- MODULE OAuthTokenProofs --------------------------
(***************************************************************************)
(* Proofs about the OAuth token of the stream bot.                         *)
(***************************************************************************)
EXTENDS OAuthToken, TLAPS

(* What is on its way into the file has a refresh token too, and what the  *)
(* bot writes is of the grant the command has saved last, unless that was  *)
(* saved behind its back.                                                  *)
OnItsWay ==
    /\ ~warned =>
         /\ pc["bot"] # "idle" => token["bot"].grant # 0
         /\ pc["auth"] \in {"saving", "writing"} => token["auth"].grant # 0
    /\ ~warned /\ ~overtaken /\ pc["bot"] # "idle" => token["bot"].grant = saved

TokenInductive == TypeOK /\ RefreshTokenKept /\ NewGrantKept /\ OnItsWay

LEMMA TokenStarts == Init => TokenInductive
<1> SUFFICES ASSUME Init PROVE TokenInductive
  OBVIOUS
<1> USE TokenAssumption
<1>1. 1 \in 0..(MaxAuths + 1) /\ 0 \in 0..(MaxAuths + 1) /\ 1 \in 1..(MaxAuths + 1)
  OBVIOUS
<1>2. Token(1, TRUE) \in Tokens /\ Torn \in Tokens
  BY <1>1 DEF Token, Torn, Tokens
<1>3. TypeOK
  <2>1. file \in Tokens /\ token \in [Processes -> Tokens]
    BY <1>2 DEF Init
  <2>2. pc \in [Processes -> {"idle", "exchanging", "saving", "writing"}]
    BY DEF Init
  <2>3. overlaid \subseteq {p \in Processes : pc[p] = "writing"}
    BY DEF Init
  <2>4. granted \in 1..(MaxAuths + 1) /\ saved \in 0..(MaxAuths + 1)
    BY <1>1 DEF Init
  <2>5. faults \in 0..MaxFaults /\ crashes \in 0..MaxCrashes
    BY DEF Init
  <2> QED
    BY <2>1, <2>2, <2>3, <2>4, <2>5 DEF TypeOK, Init
<1>4. RefreshTokenKept /\ NewGrantKept /\ OnItsWay
  BY DEF Init, RefreshTokenKept, NewGrantKept, OnItsWay, Token, Readable, Processes
<1> QED
  BY <1>3, <1>4 DEF TokenInductive

(* An action changes the tokens, the programs' places and the counts only *)
(* within their types.                                                    *)
LEMMA TypeStep == TypeOK /\ [Next]_vars => TypeOK'
<1> SUFFICES ASSUME TypeOK, [Next]_vars PROVE TypeOK'
  OBVIOUS
<1> USE TokenAssumption DEF TypeOK
<1>0. /\ "bot" \in Processes /\ "auth" \in Processes
      /\ Torn \in Tokens /\ granted \in 0..(MaxAuths + 1)
  BY DEF Processes, Torn, Tokens
<1>1. CASE Expire
  BY <1>0, <1>1 DEF Expire, Tokens, history
<1>2. CASE Use
  BY <1>2 DEF Use, history
<1>3. CASE LoadFails
  BY <1>3 DEF LoadFails, history
<1>4. CASE Load
  BY <1>0, <1>4 DEF Load, At, history
<1>5. CASE RefreshFails
  BY <1>0, <1>5 DEF RefreshFails, At, Fault, history
<1>6. CASE Refresh
  BY <1>0, <1>6 DEF Refresh, At, Tokens, history
<1>7. CASE \E p \in Processes : Truncate(p)
  BY <1>0, <1>7 DEF Truncate, At, history
<1>8. CASE \E p \in Processes : SaveFails(p)
  <2> SUFFICES ASSUME NEW p \in Processes, SaveFails(p) PROVE TypeOK'
    BY <1>8
  <2>1. file' \in Tokens
    BY <1>0 DEF SaveFails
  <2>2. /\ pc' \in [Processes -> {"idle", "exchanging", "saving", "writing"}]
        /\ overlaid' \subseteq {q \in Processes : pc'[q] = "writing"}
    BY <1>0 DEF SaveFails, At
  <2> QED
    BY <2>1, <2>2 DEF SaveFails, Fault, history
<1>9. CASE WriteBot
  BY <1>0, <1>9 DEF WriteBot, Written, At, history, Processes
<1>10. CASE WriteAuth
  <2>1. token["auth"] \in Tokens /\ saved' \in 0..(MaxAuths + 1)
    BY <1>0, <1>10 DEF WriteAuth, Tokens
  <2>2. file' \in Tokens /\ overtaken' \in BOOLEAN
    BY <1>0, <1>10, <2>1 DEF WriteAuth, Written
  <2>3. /\ pc' \in [Processes -> {"idle", "exchanging", "saving", "writing"}]
        /\ overlaid' \subseteq {p \in Processes : pc'[p] = "writing"}
    BY <1>0, <1>10 DEF WriteAuth, Written, At
  <2> QED
    BY <1>10, <2>1, <2>2, <2>3 DEF WriteAuth
<1>11. CASE Approve
  BY <1>0, <1>11 DEF Approve, At, history
<1>12. CASE ExchangeFails
  BY <1>0, <1>12 DEF ExchangeFails, At, Fault, history
<1>13. CASE ExchangeCode
  <2>1. Token(granted, TRUE) \in Tokens /\ Token(0, TRUE) \in Tokens
    BY <1>0 DEF Token, Tokens
  <2>2. token' \in [Processes -> Tokens]
    BY <1>0, <1>13, <2>1 DEF ExchangeCode
  <2>3. faults' \in 0..MaxFaults /\ crashes' \in 0..MaxCrashes
    <3>1. NoFault \/ Fault
      BY <1>13, Zenon DEF ExchangeCode
    <3> QED
      BY <3>1 DEF Fault, NoFault
  <2>4. warned' \in BOOLEAN
    <3>1. warned' = warned \/ warned' = TRUE
      BY <1>13, Zenon DEF ExchangeCode
    <3> QED
      BY <3>1
  <2>5. /\ pc' \in [Processes -> {"idle", "exchanging", "saving", "writing"}]
        /\ overlaid' \subseteq {p \in Processes : pc'[p] = "writing"}
    BY <1>0, <1>13 DEF ExchangeCode, At
  <2> QED
    BY <1>13, <2>2, <2>3, <2>4, <2>5 DEF ExchangeCode
<1>14. CASE \E p \in Processes : Crash(p)
  BY <1>0, <1>14 DEF Crash, history
<1>15. CASE UNCHANGED vars
  BY <1>15 DEF vars, history
<1> QED
  BY <1>1, <1>2, <1>3, <1>4, <1>5, <1>6, <1>7, <1>8, <1>9, <1>10, <1>11, <1>12, <1>13, <1>14, <1>15
  DEF Next, Bot, Auth, Processes

(* Neither a refresh token nor a new grant is lost by an action, when both *)
(* are on their way.                                                      *)
LEMMA TokenStep == TokenInductive /\ [Next]_vars => TokenInductive'
<1> SUFFICES ASSUME TokenInductive, [Next]_vars PROVE TokenInductive'
  OBVIOUS
<1> USE DEF TokenInductive
<1>t. TypeOK'
  BY TypeStep
<1>0. /\ "bot" \in Processes /\ "auth" \in Processes
      /\ pc \in [Processes -> {"idle", "exchanging", "saving", "writing"}]
      /\ token \in [Processes -> Tokens]
      /\ Processes = {"bot", "auth"}
  BY DEF Processes, TypeOK
<1> SUFFICES (RefreshTokenKept /\ NewGrantKept /\ OnItsWay)'
  BY <1>t
<1>1. CASE Expire
  BY <1>0, <1>1 DEF Expire, Tokens, history, RefreshTokenKept, NewGrantKept, OnItsWay, Readable
<1>2. CASE Use
  BY <1>0, <1>2 DEF Use, history, RefreshTokenKept, NewGrantKept, OnItsWay, Readable, Tokens
<1>3. CASE LoadFails
  BY <1>0, <1>3 DEF LoadFails, history, RefreshTokenKept, NewGrantKept, OnItsWay, Readable, Tokens
<1>4. CASE Load
  BY <1>0, <1>4 DEF Load, At, history, RefreshTokenKept, NewGrantKept, OnItsWay, Readable, Tokens
<1>5. CASE RefreshFails
  BY <1>0, <1>5 DEF RefreshFails, At, history, RefreshTokenKept, NewGrantKept, OnItsWay, Readable, Tokens
<1>6. CASE Refresh
  BY <1>0, <1>6 DEF Refresh, At, Tokens, history, RefreshTokenKept, NewGrantKept, OnItsWay, Readable
<1>7. CASE \E p \in Processes : Truncate(p)
  BY <1>0, <1>7 DEF Truncate, At, history, RefreshTokenKept, NewGrantKept, OnItsWay, Readable, Torn, Tokens
<1>8. CASE \E p \in Processes : SaveFails(p)
  BY <1>0, <1>8 DEF SaveFails, At, history, RefreshTokenKept, NewGrantKept, OnItsWay, Readable, Torn, Tokens
<1>9. CASE WriteBot
  BY <1>0, <1>9 DEF WriteBot, Written, At, history, RefreshTokenKept, NewGrantKept, OnItsWay, Readable, Torn, Tokens
<1>10. CASE WriteAuth
  <2>1. /\ pc["auth"] = "writing" /\ pc'["bot"] = pc["bot"] /\ pc'["auth"] = "idle"
        /\ saved' = token["auth"].grant /\ UNCHANGED <<token, warned>>
    BY <1>0, <1>10 DEF WriteAuth, At
  <2>2. Readable' => file' = token["auth"]
    BY <1>10 DEF WriteAuth, Written, Readable, Torn
  <2>3. RefreshTokenKept' /\ NewGrantKept'
    BY <2>1, <2>2 DEF RefreshTokenKept, NewGrantKept, OnItsWay
  <2>4. pc'["bot"] # "idle" => overtaken'
    BY <1>10, <2>1 DEF WriteAuth
  <2> QED
    BY <2>1, <2>3, <2>4 DEF OnItsWay, RefreshTokenKept, NewGrantKept
<1>11. CASE Approve
  BY <1>0, <1>11 DEF Approve, At, history, RefreshTokenKept, NewGrantKept, OnItsWay, Readable, Tokens
<1>12. CASE ExchangeFails
  BY <1>0, <1>12 DEF ExchangeFails, At, history, RefreshTokenKept, NewGrantKept, OnItsWay, Readable, Tokens
<1>13. CASE ExchangeCode
  <2>1. /\ pc'["bot"] = pc["bot"] /\ token'["bot"] = token["bot"]
        /\ UNCHANGED <<file, saved, overtaken>>
    BY <1>0, <1>13 DEF ExchangeCode, At
  <2>2. CASE /\ token' = [token EXCEPT !["auth"] = Token(granted, TRUE)]
             /\ UNCHANGED warned
    <3>1. token'["auth"].grant # 0
      BY <1>0, <2>2 DEF Token, TypeOK
    <3> QED
      BY <2>1, <2>2, <3>1 DEF RefreshTokenKept, NewGrantKept, OnItsWay, Readable
  <2>3. CASE warned' = TRUE
    BY <2>3 DEF RefreshTokenKept, NewGrantKept, OnItsWay
  <2> QED
    BY <1>13, <2>2, <2>3, Zenon DEF ExchangeCode
<1>14. CASE \E p \in Processes : Crash(p)
  BY <1>0, <1>14 DEF Crash, history, RefreshTokenKept, NewGrantKept, OnItsWay, Readable, Tokens
<1>15. CASE UNCHANGED vars
  BY <1>0, <1>15 DEF vars, history, RefreshTokenKept, NewGrantKept, OnItsWay, Readable, Tokens
<1> QED
  BY <1>1, <1>2, <1>3, <1>4, <1>5, <1>6, <1>7, <1>8, <1>9, <1>10, <1>11, <1>12, <1>13, <1>14, <1>15
  DEF Next, Bot, Auth, Processes

(* The inductive invariant holds in every state.                           *)
LEMMA TokenInvariant == Spec => []TokenInductive
BY TokenStarts, TokenStep, PTL DEF Spec

(* The tokens, the programs' places and the counts have their types.       *)
THEOREM TokenTypeCorrect == Spec => []TypeOK
<1>1. TokenInductive => TypeOK
  BY DEF TokenInductive
<1> QED
  BY <1>1, TokenInvariant, PTL

(* TokenSource.Token writes over the file after every refresh: however     *)
(* often it does, and whichever saves fail or cross, a file that can be    *)
(* read has a refresh token, until the command is given a token without.   *)
(* A file that cannot be read has lost it: that is not excluded.           *)
THEOREM RefreshTokenIsKept == Spec => []RefreshTokenKept
<1>1. TokenInductive => RefreshTokenKept
  BY DEF TokenInductive
<1> QED
  BY <1>1, TokenInvariant, PTL

(* The token RunOAuthCLI has saved last is the one in the file, unless the *)
(* bot was refreshing the one before it.                                   *)
THEOREM NewGrantIsKept == Spec => []NewGrantKept
<1>1. TokenInductive => NewGrantKept
  BY DEF TokenInductive
<1> QED
  BY <1>1, TokenInvariant, PTL
=============================================================================
