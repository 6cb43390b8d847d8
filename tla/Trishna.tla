------------------------------- MODULE Trishna -------------------------------
(***************************************************************************)
(* The process of trishna: RunServices starts its services and ends when   *)
(* it is told to and all of them have returned (internal/runtime/          *)
(* supervisor.go).  One of them, Telegram, is TelegramTransports; of the   *)
(* others it only matters here whether they have returned.                 *)
(***************************************************************************)
EXTENDS TelegramTransports

CONSTANT Others  \* the other services

VARIABLE returned  \* those of them whose Run has returned

trishnaVars == <<transportVars, returned>>

TrishnaInit == TransportsInit /\ returned = {}

TelegramRuns ==
    /\ Waiting \/ BotAPI \/ MTProto
    /\ returned' = IF pc' = "down" THEN {} ELSE returned

(* What a service returns before the context is done is logged, and the    *)
(* service is not started again: the feed, when it is misconfigured.       *)
Returns(s) ==
    /\ pc # "down"
    /\ s \notin returned
    /\ returned' = returned \cup {s}
    /\ UNCHANGED transportVars

Outside ==
    \/ WriteHeard /\ UNCHANGED returned
    \/ Shutdown /\ Unheard /\ UNCHANGED <<botUsername, returned>>
    \/ Crash /\ Unheard /\ botUsername' = "unset" /\ returned' = {}

(* RunServices: <-ctx.Done(), wg.Wait().                                   *)
ExitWithAll ==
    /\ Exit
    /\ returned = Others
    /\ Unheard
    /\ botUsername' = "unset"
    /\ returned' = {}

RestartAll == Restart /\ Unheard /\ UNCHANGED <<botUsername, returned>>

TrishnaNext ==
    \/ TelegramRuns
    \/ \E s \in Others : Returns(s)
    \/ ExitWithAll \/ RestartAll
    \/ Outside

TrishnaSpec == TrishnaInit /\ [][TrishnaNext]_trishnaVars

(* No service rests, its waits end, it returns when the context is done;   *)
(* launchd restarts the process.                                           *)
FairTrishnaSpec ==
    /\ TrishnaSpec
    /\ WF_trishnaVars(TelegramRuns)
    /\ \A s \in Others : WF_trishnaVars(ctxDone /\ Returns(s))
    /\ WF_trishnaVars(ExitWithAll) /\ WF_trishnaVars(RestartAll)

(***************************************************************************)
(* Properties.                                                             *)
(***************************************************************************)
(* SIGTERM ends the process wherever its services are, one that has given  *)
(* up or has returned long ago included.                                   *)
ShutdownCompletes == []<>~ctxDone
=============================================================================
