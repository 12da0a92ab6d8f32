------------------------------- MODULE Server -------------------------------
(***************************************************************************)
(* The life of a server process (cmd/server/main.go): the start with its   *)
(* retries, the loop that waits for reloads and signals, the shutdown that *)
(* lets handlers finish for five seconds, and the next start; with the     *)
(* updates of PolicyStore as the handlers it may cut short.                *)
(***************************************************************************)
EXTENDS PolicyStore, Naturals

CONSTANTS
    MaxAttempts, \* pings of the database: 30
    MaxStarts    \* bound on the starts of the server

ASSUME ServerAssumption == MaxAttempts \in Nat \ {0} /\ MaxStarts \in Nat

VARIABLES
    phase,    \* where the process is, or "stopped"
    attempts, \* pings so far
    reload,   \* the channel of one that ServeReload writes
    signal,   \* the channel of the signals, of one
    starts    \* starts so far

processVars == <<phase, attempts, reload, signal, starts>>
vars == <<policyVars, processVars>>

Init ==
    /\ InitPolicy
    /\ phase = "connecting" /\ attempts = 0
    /\ reload = FALSE /\ signal = FALSE
    /\ starts = 1

Serving == phase \in {"listening", "serving"}

\* The process ends, and its handlers with it.
Stop ==
    /\ phase' = "stopped"
    /\ reload' = FALSE /\ signal' = FALSE
    /\ update' = [u \in Updates |-> IF u \in Underway THEN "cut" ELSE update[u]]
    /\ UNCHANGED <<posted, found, rows, before, misread, attempts, starts>>

-----------------------------------------------------------------------------
(* Start *)

Start ==
    /\ phase = "stopped" /\ starts < MaxStarts
    /\ phase' = "connecting" /\ attempts' = 0
    /\ starts' = starts + 1
    /\ UNCHANGED <<policyVars, reload, signal>>

Advance(from, to) ==
    /\ phase = from /\ phase' = to
    /\ UNCHANGED <<policyVars, reload, signal, starts>>

\* After the last attempt NewStore gives up, and so does main.
PingFails ==
    IF attempts + 1 < MaxAttempts
    THEN /\ Advance("connecting", "connecting")
         /\ attempts' = attempts + 1
    ELSE phase = "connecting" /\ Stop

PingSucceeds == Advance("connecting", "schema") /\ UNCHANGED attempts

InitSchema ==
    \/ Advance("schema", "redis") /\ UNCHANGED attempts
    \/ phase = "schema" /\ Stop

\* Without Redis the server goes on; seeding the guard, before this, may fail
\* without consequence too.
ConnectRedis == Advance("redis", "listening") /\ UNCHANGED attempts

\* signal.Notify comes after the goroutine that listens.
Notify == Advance("listening", "serving") /\ UNCHANGED attempts

\* log.Fatal in the goroutine that listens.
ListenFails == Serving /\ Stop

Startup == PingFails \/ PingSucceeds \/ InitSchema \/ ConnectRedis \/ Notify

-----------------------------------------------------------------------------
(* The loop and the shutdown *)

\* Before Notify a signal ends the process; one in the channel is enough.
SendSignal ==
    \/ /\ phase \in {"serving", "draining"}
       /\ signal' = TRUE
       /\ UNCHANGED <<policyVars, phase, attempts, reload, starts>>
    \/ phase \notin {"serving", "draining", "stopped"} /\ Stop

\* A full channel means 503 and changes nothing.
ServeReload ==
    /\ Serving /\ ~reload
    /\ reload' = TRUE
    /\ UNCHANGED <<policyVars, phase, attempts, signal, starts>>

\* Mistake: the loop reads the channel only when a signal wakes it.
HandleReloadSignalled ==
    /\ phase = "serving" /\ reload /\ signal
    /\ reload' = FALSE
    /\ UNCHANGED <<policyVars, phase, attempts, signal, starts>>

\* At this commit the reload itself does nothing.
HandleReload ==
    /\ phase = "serving" /\ reload
    /\ reload' = FALSE
    /\ UNCHANGED <<policyVars, phase, attempts, signal, starts>>

HandleSignal == signal /\ Advance("serving", "draining") /\ UNCHANGED attempts

Drained == phase = "draining" /\ Underway = {} /\ Stop

\* Mistake: Shutdown waits as long as it takes.
DrainTimesOutNever == FALSE /\ Stop

\* After five seconds main returns whoever is under way.
DrainTimesOut == phase = "draining" /\ Underway # {} /\ Stop

Shutdown == Drained \/ DrainTimesOut

\* Shutdown accepts no new requests and lets those under way go on.
Handle(u) ==
    /\ \/ Serving /\ ServeConfig(u)
       \/ (Serving \/ phase = "draining") /\ UpdateStep(u)
    /\ UNCHANGED processVars

Next ==
    \/ Start \/ Startup \/ ListenFails
    \/ SendSignal \/ ServeReload \/ HandleReload \/ HandleSignal \/ Shutdown
    \/ \E u \in Updates : Handle(u)

Spec == Init /\ [][Next]_vars

\* A start goes on, a select that goes on finding a case ready takes it, as it
\* chooses at random, and the five seconds pass.  Handlers may hang.
Fairness ==
    /\ WF_vars(Startup)
    /\ WF_vars(HandleReload) /\ WF_vars(HandleSignal)
    /\ WF_vars(Shutdown)

FairSpec == Spec /\ Fairness

-----------------------------------------------------------------------------
(* Properties *)

\* A reload that was accepted is taken from the channel, or the server stops
\* (admin.go:169-178, main.go:203-211).
AcceptedReloadIsHandled == reload ~> ~reload

\* Once the server has taken a signal it stops, though reloads keep coming and
\* handlers hang (main.go:202-220).
SignalStopsServer == (signal /\ phase = "serving") ~> phase = "stopped"
=============================================================================
