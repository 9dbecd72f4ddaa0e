----------------------------- MODULE HostAdmission -----------------------------
(***************************************************************************)
(* Admission of background work, lua/utils/host_admission.lua: the tokens  *)
(* by which user-foreground work (builds, installs, tests) keeps           *)
(* background work out, and the controls that run_when_allowed returns.    *)
(* The decision itself is in AdmissionPolicy.                              *)
(*                                                                         *)
(* A denied control waits for a one-shot timer.  A timer that fires, and   *)
(* the release of the last foreground token, do not act at once: each puts *)
(* a callback on the editor's queue (vim.schedule), which carries the      *)
(* generation of the control it was made for and does nothing when the     *)
(* control has moved on.  Each callback runs to its end.                   *)
(***************************************************************************)
EXTENDS AdmissionPolicy, Sequences, FiniteSets

CONSTANTS
  Control,        \* the calls of run_when_allowed
  Token,          \* foreground tokens
  Generation,     \* generation numbers of a control
  None

ASSUME NoneIsNot == None \notin Generation

\* The code counts generations; here a number that nothing refers to any more is used
\* again.  A control, its timer and its callbacks refer to three at most.
ASSUME EnoughGenerations ==
  Generation # {} /\ \A a, b, d \in Generation : \E g \in Generation : g \notin {a, b, d}

VARIABLES
  foreground,   \* tokens of the foreground work in progress
  ctl,          \* ctl[c]: the control's fields
  timer,        \* timer[c]: the generation its armed timer was made for, or None
  queue         \* queue[c]: its callbacks on the editor's queue, oldest first

vars == <<foreground, ctl, timer, queue>>

\* A fresh control, not submitted yet.
New == [submitted |-> FALSE, pending |-> FALSE, started |-> FALSE, finished |-> FALSE,
        cancelled |-> FALSE, deferrals |-> 0, generation |-> CHOOSE g \in Generation : TRUE]

Init ==
  /\ foreground = {}
  /\ ctl = [c \in Control |-> New]
  /\ timer = [c \in Control |-> None]
  /\ queue = [c \in Control |-> <<>>]

ForegroundActive == foreground # {}

\* The control can still start: nothing happened to it that ends the wait.
Waiting(c) ==
  ctl[c].submitted /\ ~ctl[c].started /\ ~ctl[c].finished /\ ~ctl[c].cancelled

\* generation + 1: a number that neither the control, its timer nor a callback holds.
NextGeneration(c) ==
  CHOOSE g \in Generation :
    /\ g # ctl[c].generation /\ g # timer[c]
    /\ \A i \in DOMAIN queue[c] : queue[c][i].generation # g

\* arm_retry, which replaces the timer; without a timer the control ends in error.
ArmRetry(c, r) ==
  \/ /\ ctl' = [ctl EXCEPT ![c] = [r EXCEPT !.generation = NextGeneration(c)]]
     /\ timer' = [timer EXCEPT ![c] = NextGeneration(c)]
  \/ /\ ctl' = [ctl EXCEPT ![c] = [r EXCEPT !.finished = TRUE, !.pending = FALSE]]
     /\ timer' = [timer EXCEPT ![c] = None]

\* attempt, on the control r: deny and arm the retry, or start the work.  A start
\* that throws finishes the control.
Attempt(c, r) ==
  \E reading \in Reading :
    LET reason == Reason(ForegroundActive, reading, r.deferrals) IN
    \/ /\ ~Allows(reason, r.deferrals)
       /\ ArmRetry(c, [r EXCEPT !.pending = TRUE, !.deferrals = @ + Counted(reason)])
    \/ /\ Allows(reason, r.deferrals)
       /\ \E failed \in BOOLEAN :
            ctl' = [ctl EXCEPT ![c] = [r EXCEPT !.pending = FALSE, !.started = TRUE,
                                                !.finished = failed]]
       /\ timer' = [timer EXCEPT ![c] = None]

\* run_when_allowed attempts at once.
Submit(c) ==
  /\ ~ctl[c].submitted
  /\ Attempt(c, [ctl[c] EXCEPT !.submitted = TRUE])
  /\ UNCHANGED <<foreground, queue>>

\* The one-shot timer fires: its callback is queued.
Fire(c) ==
  /\ timer[c] # None
  /\ timer' = [timer EXCEPT ![c] = None]
  /\ queue' = [queue EXCEPT ![c] = Append(@, [generation |-> timer[c], by |-> "timer"])]
  /\ UNCHANGED <<foreground, ctl>>

\* A queued callback runs: one of an earlier generation, or of a control whose wait
\* is over, does nothing; a timer's callback clears `pending` before the attempt.
RunCallback(c) ==
  /\ queue[c] # <<>>
  /\ queue' = [queue EXCEPT ![c] = Tail(@)]
  /\ LET e == Head(queue[c]) IN
     IF e.generation = ctl[c].generation /\ Waiting(c)
     THEN Attempt(c, [ctl[c] EXCEPT !.pending = @ /\ e.by # "timer"])
     ELSE UNCHANGED <<ctl, timer>>
  /\ UNCHANGED foreground

ForegroundBegin(t) ==
  /\ t \notin foreground
  /\ foreground' = foreground \cup {t}
  /\ UNCHANGED <<ctl, timer, queue>>

\* wake_pending wakes these controls; wake closes the timer and queues an attempt.
Woken(c) == ctl[c].pending /\ Waiting(c)

\* Fault seed: the token is released and nobody is woken.
ForegroundDoneSilent(t) ==
  /\ t \in foreground
  /\ foreground' = foreground \ {t}
  /\ UNCHANGED <<ctl, timer, queue>>

\* Fault seed: a woken control keeps its timer.
ForegroundDoneTimerKept(t) ==
  /\ t \in foreground
  /\ foreground' = foreground \ {t}
  /\ LET woken == IF foreground = {t} THEN {c \in Control : Woken(c)} ELSE {} IN
     /\ ctl' = [c \in Control |->
          IF c \in woken THEN [ctl[c] EXCEPT !.pending = FALSE, !.generation = NextGeneration(c)]
                         ELSE ctl[c]]
     /\ queue' = [c \in Control |->
          IF c \in woken THEN Append(queue[c], [generation |-> NextGeneration(c), by |-> "wake"])
                         ELSE queue[c]]
  /\ UNCHANGED timer

\* foreground_done: releasing the last token wakes what is pending.
ForegroundDone(t) ==
  /\ t \in foreground
  /\ foreground' = foreground \ {t}
  /\ LET woken == IF foreground = {t} THEN {c \in Control : Woken(c)} ELSE {} IN
     /\ ctl' = [c \in Control |->
          IF c \in woken THEN [ctl[c] EXCEPT !.pending = FALSE, !.generation = NextGeneration(c)]
                         ELSE ctl[c]]
     /\ timer' = [c \in Control |-> IF c \in woken THEN None ELSE timer[c]]
     /\ queue' = [c \in Control |->
          IF c \in woken THEN Append(queue[c], [generation |-> NextGeneration(c), by |-> "wake"])
                         ELSE queue[c]]

\* control:cancel, which the caller may also use once the work has started.
Cancel(c) ==
  /\ ctl[c].submitted /\ ~ctl[c].cancelled /\ ~ctl[c].finished
  /\ ctl' = [ctl EXCEPT ![c].cancelled = TRUE, ![c].pending = FALSE,
                        ![c].generation = NextGeneration(c)]
  /\ timer' = [timer EXCEPT ![c] = None]
  /\ UNCHANGED <<foreground, queue>>

Next ==
  \/ \E c \in Control : Submit(c) \/ Fire(c) \/ RunCallback(c) \/ Cancel(c)
  \/ \E t \in Token : ForegroundBegin(t) \/ ForegroundDone(t)

Spec == Init /\ [][Next]_vars

\* libuv fires an armed timer, and the editor's loop runs what is queued.
FairSpec == Spec /\ \A c \in Control : WF_vars(Fire(c)) /\ WF_vars(RunCallback(c))
--------------------------------------------------------------------------------
TypeOK ==
  /\ foreground \subseteq Token
  /\ ctl \in [Control -> [submitted : BOOLEAN, pending : BOOLEAN, started : BOOLEAN,
                          finished : BOOLEAN, cancelled : BOOLEAN, deferrals : 0..MaxDeferrals,
                          generation : Generation]]
  /\ timer \in [Control -> Generation \cup {None}]
  /\ queue \in [Control -> Seq([generation : Generation, by : {"timer", "wake"}])]

\* The queued callbacks that would attempt c.
Current(c) == {i \in DOMAIN queue[c] : queue[c][i].generation = ctl[c].generation}

\* Nobody is forgotten and nobody attempts twice: through every race of a firing
\* timer, a wake and a cancel, a waiting control has either an armed timer or one
\* queued callback of its generation, never both (wake, arm_retry), and a control
\* that does not wait keeps no armed timer (close_timer).
OneCallbackEach ==
  \A c \in Control :
    /\ Waiting(c) =>
         \/ timer[c] = ctl[c].generation /\ Current(c) = {}
         \/ timer[c] = None /\ Cardinality(Current(c)) = 1
    /\ ~Waiting(c) => timer[c] = None


\* When the last foreground token goes, everything that waits is queued for an
\* attempt at once and no longer depends on its retry timer (foreground_done).
PromptWake ==
  [][foreground # {} /\ foreground' = {} =>
       \A c \in Control : Waiting(c) => Current(c)' # {}]_vars

\* A cancelled control never starts, and none starts beside foreground work, not
\* even with the sensor off or the cap reached (lines 87-91, 297).
NoStartBehindForeground ==
  [][\A c \in Control : ~ctl[c].started /\ ctl'[c].started =>
       foreground = {} /\ ~ctl[c].cancelled]_vars

\* No starvation: once foreground work stays away, whatever waits is started (or
\* ended by its caller or a missing timer) however loaded the host remains.
NoStarvation ==
  \A c \in Control : (<>[](foreground = {})) => (Waiting(c) ~> ~Waiting(c))
================================================================================
