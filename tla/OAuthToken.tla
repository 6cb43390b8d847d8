----------------------------- MODULE OAuthToken -----------------------------
(***************************************************************************)
(* The OAuth token of the stream bot: the bot, which loads it for every    *)
(* call and refreshes it (TokenSource.Token), and the command              *)
(* "trishna auth youtube", which gets a new one (RunOAuthCLI), share a     *)
(* file (internal/modules/youtube/oauth.go).                               *)
(*                                                                         *)
(* Google's grants are numbered; a grant is what a refresh token stands    *)
(* for, 0 a token without one.                                             *)
(***************************************************************************)
EXTENDS Naturals

CONSTANTS
    MaxAuths,   \* bound on the runs of the command
    MaxFaults,  \* bound on failed calls and answers without a refresh token
    MaxCrashes  \* bound on processes that are killed

ASSUME TokenAssumption == MaxAuths \in Nat /\ MaxFaults \in Nat /\ MaxCrashes \in Nat

VARIABLES
    file,     \* a token, or Torn when it cannot be decoded
    pc,       \* of a process: "idle", "exchanging", "saving", "writing"
    token,    \* of a process: what it has loaded, or is going to save
    overlaid, \* processes since whose truncation the other one has written
    served,   \* how the last call of Token ended: "none", "ok", "failed"
    granted,  \* number of grants
    saved,    \* grant of the last token the command has saved (history)
    warned,   \* the command has got a token without refresh token (history)
    overtaken, \* the bot was at work with an older token when it was saved (history)
    faults, crashes

history == <<saved, warned, overtaken>>
vars == <<file, pc, token, overlaid, served, granted, history, faults, crashes>>

Processes == {"bot", "auth"}

Torn == [grant |-> 0, fresh |-> FALSE, torn |-> TRUE]
Token(grant, fresh) == [grant |-> grant, fresh |-> fresh, torn |-> FALSE]
Readable == ~file.torn

Tokens == [grant : 0..(MaxAuths + 1), fresh : BOOLEAN, torn : BOOLEAN]

TypeOK ==
    /\ file \in Tokens
    /\ pc \in [Processes -> {"idle", "exchanging", "saving", "writing"}]
    /\ token \in [Processes -> Tokens]
    /\ overlaid \subseteq {p \in Processes : pc[p] = "writing"}
    /\ served \in {"none", "ok", "failed"}
    /\ granted \in 1..(MaxAuths + 1)
    /\ saved \in 0..(MaxAuths + 1)
    /\ warned \in BOOLEAN /\ overtaken \in BOOLEAN
    /\ faults \in 0..MaxFaults /\ crashes \in 0..MaxCrashes

(* The command has been run once.                                          *)
Init ==
    /\ file = Token(1, TRUE)
    /\ pc = [p \in Processes |-> "idle"]
    /\ token = [p \in Processes |-> Torn]
    /\ overlaid = {}
    /\ served = "none"
    /\ granted = 1
    /\ saved = 1
    /\ warned = FALSE /\ overtaken = FALSE
    /\ faults = 0 /\ crashes = 0

Fault == faults < MaxFaults /\ faults' = faults + 1 /\ UNCHANGED crashes
NoFault == UNCHANGED <<faults, crashes>>

At(p, from, to) == pc[p] = from /\ pc' = [pc EXCEPT ![p] = to]

(* A minute before its expiry a token is no longer used.                   *)
Expire ==
    /\ file.fresh
    /\ file' = [file EXCEPT !.fresh = FALSE]
    /\ UNCHANGED <<pc, token, overlaid, served, granted, history, faults, crashes>>

(***************************************************************************)
(* SaveToken: os.WriteFile truncates the file and then writes from its     *)
(* beginning.  Two that do so at once may leave the end of the longer one. *)
(***************************************************************************)
Truncate(p) ==
    /\ At(p, "saving", "writing")
    /\ file' = Torn
    /\ overlaid' = overlaid \ {p}
    /\ UNCHANGED <<token, served, granted, history, faults, crashes>>

Written(p) ==
    /\ file' \in {token[p]} \cup (IF p \in overlaid THEN {Torn} ELSE {})
    /\ overlaid' = {q \in Processes \ {p} : pc[q] = "writing"}

WriteBot ==
    /\ At("bot", "writing", "idle")
    /\ Written("bot")
    /\ served' = "ok"
    /\ UNCHANGED <<token, granted, history, faults, crashes>>

WriteAuth ==
    /\ At("auth", "writing", "idle")
    /\ Written("auth")
    /\ saved' = token["auth"].grant
    /\ overtaken' = (pc["bot"] # "idle")
    /\ UNCHANGED <<token, served, granted, warned, faults, crashes>>

(* The file cannot be opened, or it is truncated and the write ends early. *)
SaveFails(p) ==
    /\ \/ At(p, "saving", "idle") /\ UNCHANGED <<file, overlaid>>
       \/ /\ At(p, "writing", "idle")
          /\ file' \in {file, Torn}
          /\ overlaid' = {q \in Processes \ {p} : pc[q] = "writing"}
    /\ Fault
    /\ served' = IF p = "bot" THEN "failed" ELSE served
    /\ UNCHANGED <<token, granted, history>>

(***************************************************************************)
(* TokenSource.Token.                                                      *)
(***************************************************************************)
Use ==
    /\ pc["bot"] = "idle"
    /\ file.fresh
    /\ served' = "ok"
    /\ UNCHANGED <<file, pc, token, overlaid, granted, history, faults, crashes>>

(* LoadToken fails, or there is nothing to refresh the token with.         *)
LoadFails ==
    /\ pc["bot"] = "idle"
    /\ ~file.fresh
    /\ ~Readable \/ file.grant = 0
    /\ served' = "failed"
    /\ UNCHANGED <<file, pc, token, overlaid, granted, history, faults, crashes>>

\* Faulty: keeps the token it has once loaded.
LoadOnce ==
    /\ ~file.fresh /\ Readable /\ file.grant # 0
    /\ At("bot", "idle", "exchanging")
    /\ token' = IF token["bot"] = Torn THEN [token EXCEPT !["bot"] = file] ELSE token
    /\ UNCHANGED <<file, overlaid, served, granted, history, faults, crashes>>

Load ==
    /\ ~file.fresh /\ Readable /\ file.grant # 0
    /\ At("bot", "idle", "exchanging")
    /\ token' = [token EXCEPT !["bot"] = file]
    /\ UNCHANGED <<file, overlaid, served, granted, history, faults, crashes>>

RefreshFails ==
    /\ At("bot", "exchanging", "idle")
    /\ Fault
    /\ served' = "failed"
    /\ UNCHANGED <<file, token, overlaid, granted, history>>

\* Faulty: what Google leaves out is not taken from the old token.
RefreshForgetting ==
    /\ At("bot", "exchanging", "saving")
    /\ \E grant \in {0, token["bot"].grant} :
           token' = [token EXCEPT !["bot"] = Token(grant, TRUE)]
    /\ UNCHANGED <<file, overlaid, served, granted, history, faults, crashes>>

(* The refresh token is Google's, if the answer has one, or the old one.   *)
Refresh ==
    /\ At("bot", "exchanging", "saving")
    /\ token' = [token EXCEPT !["bot"].fresh = TRUE]
    /\ UNCHANGED <<file, overlaid, served, granted, history, faults, crashes>>

(***************************************************************************)
(* RunOAuthCLI: the owner approves, and the code is exchanged.             *)
(***************************************************************************)
Approve ==
    /\ granted <= MaxAuths
    /\ granted' = granted + 1
    /\ At("auth", "idle", "exchanging")
    /\ UNCHANGED <<file, token, overlaid, served, history, faults, crashes>>

ExchangeFails ==
    /\ At("auth", "exchanging", "idle")
    /\ Fault
    /\ UNCHANGED <<file, token, overlaid, served, granted, history>>

ExchangeCode ==
    /\ At("auth", "exchanging", "saving")
    /\ \/ token' = [token EXCEPT !["auth"] = Token(granted, TRUE)]
          /\ NoFault /\ UNCHANGED warned
       \/ token' = [token EXCEPT !["auth"] = Token(0, TRUE)]
          /\ Fault /\ warned' = TRUE
    /\ UNCHANGED <<file, overlaid, served, granted, saved, overtaken>>

(* A process is killed; the bot is started again.                          *)
Crash(p) ==
    /\ crashes < MaxCrashes
    /\ crashes' = crashes + 1
    /\ pc' = [pc EXCEPT ![p] = "idle"]
    /\ overlaid' = overlaid \ {p}
    /\ served' = IF p = "bot" THEN "none" ELSE served
    /\ UNCHANGED <<file, token, granted, history, faults>>

Bot == Use \/ LoadFails \/ Load \/ RefreshFails \/ Refresh
       \/ Truncate("bot") \/ SaveFails("bot") \/ WriteBot

Auth == Approve \/ ExchangeFails \/ ExchangeCode
        \/ Truncate("auth") \/ SaveFails("auth") \/ WriteAuth

Next == Bot \/ Auth \/ Expire \/ \E p \in Processes : Crash(p)

Spec == Init /\ [][Next]_vars

(* The bot asks for a token again and again, and every call returns.       *)
FairSpec == Spec /\ WF_vars(Bot)

(***************************************************************************)
(* Properties.                                                             *)
(***************************************************************************)
(* The bot's refreshes keep the refresh token, although Google's answers   *)
(* to them have none: a file that can be read has one, until the command   *)
(* itself is given a token without (which it saves all the same).          *)
RefreshTokenKept == Readable /\ ~warned => file.grant # 0

(* The bot gets a token again and again, however often it expires and      *)
(* whatever fails finitely often, unless a crash, a write cut short or two *)
(* writes at once have left a file that cannot be read, or the command has *)
(* got a token that cannot be refreshed.                                   *)
KeepsServing == []<>(served = "ok") \/ <>[]~Readable \/ <>warned

(* "saves the OAuth token after the browser callback" (README.md): it is   *)
(* the one in the file, unless the bot was refreshing an older one, which  *)
(* it then writes over it.                                                 *)
NewGrantKept == Readable /\ ~warned /\ ~overtaken => file.grant = saved
=============================================================================
