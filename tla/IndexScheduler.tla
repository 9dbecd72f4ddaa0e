---------------------------- MODULE IndexScheduler ----------------------------
(***************************************************************************)
(* When each index phase of a project is built: lua/ue/index/_schedule.lua *)
(* (deadlines, protection, the shared start gate), the start, end and      *)
(* queue drain of lua/ue/index/_build.lua, the drain that follows a proof  *)
(* publication (_batch_background.lua), and what :UEClearCache does to     *)
(* them (lua/ue.lua).                                                      *)
(*                                                                         *)
(* A phase starts from its deadline timer or from the drain of the queue.  *)
(* Both ask the gate of AdmissionPolicy and take the writer lease, which   *)
(* another Neovim (or this one's proof publication) may hold.  Everything  *)
(* but the rival runs on the editor's thread, one callback at a time; the  *)
(* drain is a loop whose iterations are steps, since the rival moves on.   *)
(* What libuv reports (a deadline, the end of a child) and what is         *)
(* scheduled for later waits in the editor's queue, first in first out.    *)
(***************************************************************************)
EXTENDS AdmissionPolicy, Sequences

CONSTANTS
  None,
  MaxRequests,    \* bounds what is asked for, and how often the rival, the
  MaxTakes,       \* proof publication and foreground work interfere
  MaxForeground,
  MaxClears,      \* uses of :UEClearCache
  MaxLate         \* deadlines that pass in the turn in which a build ends

ASSUME BoundsAreNatural ==
  {MaxRequests, MaxTakes, MaxForeground, MaxClears, MaxLate} \subseteq Nat

\* In order of priority.
Phase == {"current", "hot", "full"}

ASSUME NoneIsNoPhase == None \notin Phase

VARIABLES
  plan,         \* the queue, the deadline timers and RT.protected_deadlines
  events,       \* the editor's queue of callbacks
  deferrals,    \* RT.admission_deferrals
  job,          \* RT.job: the phase being built
  stuck,        \* the job raised an error and will never end
  lease,        \* the writer lease: "free", "mine", "rival" or "batch"
  drain,        \* try_start_queued_build is in its loop
  foreground,   \* user-foreground work is active
  promised,     \* phases with a protected request that no build start answered yet
  lost,         \* a phase failed in a way the scheduler does not retry
  used          \* used[b]: how much of the bound b is spent

vars == <<plan, events, deferrals, job, stuck, lease, drain,
          foreground, promised, lost, used>>

Bound == [request |-> MaxRequests, take |-> MaxTakes, foreground |-> MaxForeground,
          clear |-> MaxClears, late |-> MaxLate]
Spend(b) == used[b] < Bound[b] /\ used' = [used EXCEPT ![b] = @ + 1]

\* A callback: a passed deadline with the protection it was armed with, the end of the
\* build or of a proof collection, or a scheduled drain.
Event(kind, ph, protect) == [kind |-> kind, phase |-> ph, protect |-> protect]
Exit == Event("exit", None, FALSE)
BatchExit == Event("batch", None, FALSE)
BatchDrain == Event("drain", None, FALSE)
Events ==
  {Event("deadline", ph, protect) : ph \in Phase, protect \in BOOLEAN} \cup {Exit, BatchExit, BatchDrain}

\* The callbacks in the queue.
Scheduled == {events[i] : i \in DOMAIN events}
Pending(kind, ph) == \E e \in Scheduled : e.kind = kind /\ e.phase = ph

Plan == [queue : SUBSET Phase, timer : [Phase -> {"none", "plain", "protected"}],
         protected : SUBSET Phase]
Empty == [queue |-> {}, timer |-> [ph \in Phase |-> "none"], protected |-> {}]

Init ==
  /\ plan = Empty
  /\ events = <<>>
  /\ deferrals = [ph \in Phase |-> 0]
  /\ job = None /\ stuck = FALSE
  /\ lease \in {"free", "rival"}
  /\ drain = FALSE /\ foreground = FALSE
  /\ promised = {} /\ lost = FALSE
  /\ used = [b \in DOMAIN Bound |-> 0]
--------------------------------------------------------------------------------
(* Operators on plans. *)

\* Fault seed: a plain request postpones a protected deadline.
MayRearmAlways(guarded, wanted) == TRUE

MayRearm(guarded, wanted) == ~guarded \/ wanted

\* schedule_index_phase for the phases of asked, protected for those of strong: a
\* refused request leaves queue and timer as they are.
Schedule(p, asked, strong) ==
  LET granted == {ph \in asked : MayRearm(ph \in p.protected, ph \in strong)} IN
  [queue |-> p.queue \cup granted,
   timer |-> [ph \in Phase |-> IF ph \notin granted THEN p.timer[ph]
                               ELSE IF ph \in strong THEN "protected" ELSE "plain"],
   protected |-> p.protected \cup strong]

\* Fault seed: the guard outlives the deadline.
UnscheduleTimerOnly(p, ph) == [p EXCEPT !.timer[ph] = "none"]

\* The timer of ph is stopped, and ph no longer guarded.
Unschedule(p, ph) == [p EXCEPT !.timer[ph] = "none", !.protected = @ \ {ph}]

\* consume_index_phase.
Consume(p, ph) == [Unschedule(p, ph) EXCEPT !.queue = @ \ {ph}]

\* What a retry protects: nothing or the phase.
Only(ph, protect) == IF protect THEN {ph} ELSE {}
--------------------------------------------------------------------------------
(* The start of a phase. *)

\* Fault seed: a denial does not re-arm the deadline.
DeniedForGood(p, ph, protect) ==
  \E reading \in Reading :
    LET reason == Reason(foreground, reading, deferrals[ph]) IN
    /\ ~Allows(reason, deferrals[ph])
    /\ deferrals' = [deferrals EXCEPT ![ph] = @ + Counted(reason)]
    /\ plan' = p

\* admit_index_phase_start says no and re-arms the deadline.
Denied(p, ph, protect) ==
  \E reading \in Reading :
    LET reason == Reason(foreground, reading, deferrals[ph]) IN
    /\ ~Allows(reason, deferrals[ph])
    /\ deferrals' = [deferrals EXCEPT ![ph] = @ + Counted(reason)]
    /\ plan' = Schedule(p, {ph}, Only(ph, protect))

\* admit_index_phase_start says yes.
Admitted(ph) ==
  /\ \E reading \in Reading :
       Allows(Reason(foreground, reading, deferrals[ph]), deferrals[ph])
  /\ deferrals' = [deferrals EXCEPT ![ph] = 0]

\* build_phase_async, RT.job set: the phase is only queued.
Busy(p, ph) ==
  /\ job # None
  /\ plan' = [p EXCEPT !.queue = @ \cup {ph}]
  /\ UNCHANGED <<job, stuck, lease, promised, lost>>

\* build_phase_async, the lease has another owner: retry_index_writer re-arms.
Contended(p, ph, protect) ==
  /\ job = None /\ lease # "free"
  /\ plan' = Schedule(p, {ph}, Only(ph, protect \/ ph \in p.protected))
  /\ UNCHANGED <<job, stuck, lease, promised, lost>>

\* The outcomes of giving the lease back: file_lock.release may fail to read or unlink the
\* owner record, which its callers ignore, and the lease stays with this process.
Released == {"free", "mine"}

\* build_phase_async gives up before the child is started: the lease can be neither taken
\* nor left to a live owner, or it is taken and fail_before_spawn gives it back.
FailsBeforeSpawn(ph) ==
  /\ job = None
  /\ lease' \in IF lease = "free" THEN Released ELSE {lease}
  /\ promised' = promised \ {ph} /\ lost' = TRUE
  /\ UNCHANGED <<job, stuck>>

\* build_phase_async raises with the lease taken and RT.job not yet set, before or after
\* the phase is consumed: nothing gives the lease back.
RaisesBeforeJob(p, ph) ==
  /\ job = None /\ lease = "free" /\ lease' = "mine"
  /\ plan' \in {p, Consume(p, ph)}
  /\ lost' = TRUE
  /\ UNCHANGED <<job, stuck, promised>>

\* build_phase_async starts the child.  vim.system may raise, with the job and the
\* lease already taken and nothing to give them back.
Starts(p, ph) ==
  /\ job = None /\ lease = "free"
  /\ plan' = Consume(p, ph)
  /\ job' = ph /\ lease' = "mine"
  /\ promised' = promised \ {ph}
  /\ stuck' \in BOOLEAN
  /\ lost' = (lost \/ stuck')
--------------------------------------------------------------------------------
(* What asks for phases. *)

\* schedule_index_phase, called for `asked`, protected for `strong`.
Request(asked, strong) ==
  /\ ~drain /\ Spend("request")
  /\ plan' = Schedule(plan, asked, strong)
  /\ promised' = promised \cup strong
  /\ UNCHANGED <<events, deferrals, job, stuck, lease, drain, foreground, lost>>

\* schedule_prepare_delivery: the three phases, the last as a promise.
PrepareDelivery == Request(Phase, {"full"})

\* schedule_index_refresh as :UEIndexCurrent, :UEIndexHot, :UEIndexFull, a saved
\* source (current, hot) and a pending source revision (current) use it.
Refresh ==
  \E asked \in {Phase, {"hot", "full"}, {"full"}, {"current", "hot"}, {"current"}} :
    Request(asked, {})

\* source_observation_unknown and continue_background.
Invalidate == Request({"full"}, {"full"})

\* A deadline passes: its callback is queued with the protection it was armed with.
\* Deadlines are at least 50 ms away and the editor empties its queue every turn, so a
\* phase has one callback there at a time.  One that passes while the end of a build is
\* queued runs after the drain, which may have started the phase; MaxLate bounds how
\* often that coincidence happens.
Fire(ph) ==
  /\ ~drain /\ plan.timer[ph] # "none" /\ ~Pending("deadline", ph)
  /\ IF Pending("exit", None) THEN Spend("late") ELSE UNCHANGED used
  /\ events' = Append(events, Event("deadline", ph, plan.timer[ph] = "protected"))
  /\ plan' = [plan EXCEPT !.timer[ph] = "none"]
  /\ UNCHANGED <<deferrals, job, stuck, lease, drain, foreground, promised, lost>>

\* The next callback in the queue is of this kind and runs.
Run(kind) ==
  /\ ~drain /\ events # <<>>
  /\ Head(events).kind = kind
  /\ events' = Tail(events)

\* The callback: it stops whatever timer the phase has by now, drops the guard, asks
\* the gate and builds.  A build that fails early leaves the phase in the queue.
Deadline ==
  /\ Run("deadline")
  /\ LET ph == Head(events).phase
         protect == Head(events).protect
         p == Unschedule(plan, ph)
     IN \/ Denied(p, ph, protect) /\ UNCHANGED <<job, stuck, lease, promised, lost>>
        \/ /\ Admitted(ph)
           /\ \/ Busy(p, ph)
              \/ Contended(p, ph, protect)
              \/ FailsBeforeSpawn(ph) /\ plan' = p
              \/ RaisesBeforeJob(p, ph)
              \/ Starts(p, ph)
  /\ UNCHANGED <<drain, foreground, used>>

\* The phase that try_start_queued_build takes next.
Picked == CHOOSE ph \in plan.queue :
  \/ ph = "current"
  \/ ph = "hot" /\ "current" \notin plan.queue
  \/ plan.queue = {"full"}

\* Fault seed: the drain bypasses the gate.
DrainStepUngated ==
  /\ drain
  /\ UNCHANGED <<events, foreground, used, deferrals>>
  /\ IF plan.queue = {} \/ job # None
     THEN drain' = FALSE /\ UNCHANGED <<plan, job, stuck, lease, promised, lost>>
     ELSE \/ Contended(plan, Picked, FALSE) /\ drain' = FALSE
          \/ /\ FailsBeforeSpawn(Picked)
             /\ plan' = [plan EXCEPT !.queue = @ \ {Picked}]
             /\ UNCHANGED drain
          \/ (RaisesBeforeJob(plan, Picked) \/ Starts(plan, Picked)) /\ drain' = FALSE

\* Fault seed: a busy lease is taken for a failed build and drops the phase.
DrainStepDropsContended ==
  /\ drain
  /\ UNCHANGED <<events, foreground, used>>
  /\ IF plan.queue = {} \/ job # None
     THEN drain' = FALSE /\ UNCHANGED <<plan, deferrals, job, stuck, lease, promised, lost>>
     ELSE \/ /\ Denied(plan, Picked, FALSE) /\ drain' = FALSE
             /\ UNCHANGED <<job, stuck, lease, promised, lost>>
          \/ /\ Admitted(Picked)
             /\ \/ /\ lease # "free"
                   /\ plan' = [plan EXCEPT !.queue = @ \ {Picked}]
                   /\ UNCHANGED <<drain, job, stuck, lease, promised, lost>>
                \/ /\ FailsBeforeSpawn(Picked)
                   /\ plan' = [plan EXCEPT !.queue = @ \ {Picked}]
                   /\ UNCHANGED drain
                \/ (RaisesBeforeJob(plan, Picked) \/ Starts(plan, Picked)) /\ drain' = FALSE

\* One iteration of the loop of try_start_queued_build, the second way to start: a
\* denial or a busy lease re-arms the deadline and ends the loop, as an error does; a
\* build that fails early drops the phase and the loop goes on.
DrainStep ==
  /\ drain
  /\ UNCHANGED <<events, foreground, used>>
  /\ IF plan.queue = {} \/ job # None
     THEN drain' = FALSE /\ UNCHANGED <<plan, deferrals, job, stuck, lease, promised, lost>>
     ELSE \/ /\ Denied(plan, Picked, FALSE) /\ drain' = FALSE
             /\ UNCHANGED <<job, stuck, lease, promised, lost>>
          \/ /\ Admitted(Picked)
             /\ \/ Contended(plan, Picked, FALSE) /\ drain' = FALSE
                \/ /\ FailsBeforeSpawn(Picked)
                   /\ plan' = [plan EXCEPT !.queue = @ \ {Picked}]
                   /\ UNCHANGED drain
                \/ (RaisesBeforeJob(plan, Picked) \/ Starts(plan, Picked)) /\ drain' = FALSE

\* Fault seed: the lease is given back when the child ends, before the publication.
JobExitsReleasing ==
  /\ job # None /\ ~stuck /\ ~Pending("exit", None)
  /\ events' = Append(events, Exit) /\ lease' = "free"
  /\ UNCHANGED <<plan, deferrals, job, stuck, drain, foreground, promised, lost, used>>

\* The build is over, its publication too: the end is queued.
JobExits ==
  /\ job # None /\ ~stuck /\ ~Pending("exit", None)
  /\ events' = Append(events, Exit)
  /\ UNCHANGED <<plan, deferrals, job, stuck, lease, drain, foreground, promised, lost, used>>

\* finalize, whatever the build and its publication came to: the lease is released,
\* RT.job cleared and the queue drained.  When it raises before that, nothing ends the
\* job any more; when the background proof cannot be started, nothing drains.
Finalize ==
  /\ Run("exit")
  /\ \/ /\ job' = None /\ lease' \in Released
        /\ \/ drain' = TRUE /\ UNCHANGED lost
           \/ lost' = TRUE /\ UNCHANGED drain
        /\ UNCHANGED stuck
     \/ /\ stuck' = TRUE /\ lost' = TRUE
        /\ UNCHANGED <<job, lease, drain>>
  /\ UNCHANGED <<plan, deferrals, foreground, promised, used>>
--------------------------------------------------------------------------------
(* The surroundings. *)

\* Another Neovim takes the lease, and gives it back.
RivalTakes ==
  /\ lease = "free" /\ Spend("take") /\ lease' = "rival"
  /\ UNCHANGED <<plan, events, deferrals, job, stuck, drain, foreground, promised, lost>>
RivalReleases ==
  /\ lease = "rival" /\ lease' = "free"
  /\ UNCHANGED <<plan, events, deferrals, job, stuck, drain, foreground, promised, lost, used>>

\* The collector of verified batches takes the lease before its process is started.
BatchTakes ==
  /\ ~drain /\ lease = "free" /\ Spend("take") /\ lease' = "batch"
  /\ UNCHANGED <<plan, events, deferrals, job, stuck, drain, foreground, promised, lost>>

BatchExits ==
  /\ lease = "batch" /\ ~Pending("batch", None)
  /\ events' = Append(events, BatchExit)
  /\ UNCHANGED <<plan, deferrals, job, stuck, lease, drain, foreground, promised, lost, used>>

\* Fault seed: the phases asked for again are left without a drain.
BatchPublishesNoDrain ==
  /\ Run("batch")
  /\ lease' \in Released
  /\ \/ UNCHANGED plan
     \/ plan' = [Consume(Consume(plan, "current"), "hot") EXCEPT !.queue = @ \cup {"current", "hot"}]
  /\ UNCHANGED <<deferrals, job, stuck, drain, foreground, promised, lost, used>>

\* A publication that changed the commands asks for current and hot again, without
\* timers, and schedules a drain; then the lease is released.
BatchPublishes ==
  /\ ~drain /\ events # <<>> /\ Head(events) = BatchExit
  /\ lease' \in Released
  /\ \/ UNCHANGED plan /\ events' = Tail(events)
     \/ /\ plan' = [Consume(Consume(plan, "current"), "hot") EXCEPT !.queue = @ \cup {"current", "hot"}]
        /\ events' = Append(Tail(events), BatchDrain)
  /\ UNCHANGED <<deferrals, job, stuck, drain, foreground, promised, lost, used>>

\* The scheduled drain, skipped when the generation has changed meanwhile.
BatchDrains ==
  /\ Run("drain")
  /\ \/ lost' = TRUE /\ UNCHANGED drain
     \/ drain' = (job = None) /\ UNCHANGED lost
  /\ UNCHANGED <<plan, deferrals, job, stuck, lease, foreground, promised, used>>

ForegroundBegins ==
  /\ ~drain /\ ~foreground /\ Spend("foreground") /\ foreground' = TRUE
  /\ UNCHANGED <<plan, events, deferrals, job, stuck, lease, drain, promised, lost>>
ForegroundEnds ==
  /\ ~drain /\ foreground /\ foreground' = FALSE
  /\ UNCHANGED <<plan, events, deferrals, job, stuck, lease, drain, promised, lost, used>>

\* :UEClearCache deletes the persisted queue and closes the timers.  A running job goes
\* on, and RT.protected_deadlines stays.
ClearCache ==
  /\ ~drain /\ Spend("clear")
  /\ plan' = [Empty EXCEPT !.protected = plan.protected]
  /\ promised' = {}
  /\ UNCHANGED <<events, deferrals, job, stuck, lease, drain, foreground, lost>>

Next ==
  \/ PrepareDelivery \/ Refresh \/ Invalidate \/ ClearCache
  \/ \E ph \in Phase : Fire(ph)
  \/ Deadline \/ DrainStep \/ JobExits \/ Finalize
  \/ BatchTakes \/ BatchExits \/ BatchPublishes \/ BatchDrains
  \/ RivalTakes \/ RivalReleases \/ ForegroundBegins \/ ForegroundEnds

Spec == Init /\ [][Next]_vars

\* The editor's loop runs the drain and what is queued.
Loop == DrainStep \/ Deadline \/ Finalize \/ BatchPublishes \/ BatchDrains

\* libuv fires deadlines and the loop runs; children, the rival and foreground work
\* come to an end.
FairSpec ==
  /\ Spec
  /\ WF_vars(Loop) /\ \A ph \in Phase : WF_vars(Fire(ph))
  /\ WF_vars(JobExits) /\ WF_vars(BatchExits)
  /\ WF_vars(RivalReleases) /\ WF_vars(ForegroundEnds)
--------------------------------------------------------------------------------
TypeOK ==
  /\ plan \in Plan
  /\ events \in Seq(Events)
  /\ deferrals \in [Phase -> 0..MaxDeferrals]
  /\ job \in Phase \cup {None}
  /\ lease \in {"free", "mine", "rival", "batch"}
  /\ {stuck, drain, foreground, lost} \subseteq BOOLEAN
  /\ promised \subseteq Phase
  /\ used \in [DOMAIN Bound -> Nat]

\* From the start of a build until its publication has returned this editor holds the
\* writer lease, however starts, collections and ends of builds interleave and whichever
\* of them fails: "Keep both job ownership and the writer lease until publication
\* returns" (_build.lua:734).
JobHoldsLease == job # None => lease = "mine"

\* The lease outlives its use: release failed, or an error came before the job was set.
\* This editor is the live owner that every later attempt meets, until it exits.
LeaseKept == lease = "mine" /\ job = None

\* Something still leads to every queued phase: while the queue is not empty, a deadline,
\* a queued callback, a job whose end drains, or a drain is pending, unless a phase was
\* given up (`lost`).  Drained phases have no timer of their own, so this is about all
\* phases together.
QueueHasADriver ==
  plan.queue # {} => \/ lost \/ job # None \/ drain \/ Pending("drain", None)
                     \/ \E ph \in Phase : plan.timer[ph] # "none" \/ Pending("deadline", ph)

\* A promised phase stays queued, through denials, contention, busy jobs and proof
\* publications, until its build starts.
PromiseStaysQueued == lost \/ promised \subseteq plan.queue

\* A protected deadline of ph is armed, or has passed and its callback is queued.
ProtectedDeadline(ph) ==
  plan.timer[ph] = "protected" \/ Event("deadline", ph, TRUE) \in Scheduled

\* A guarded phase that waits has the deadline that the guard protects: refusing a plain
\* request never leaves the phase without a deadline.
RefusalIsBacked ==
  \A ph \in plan.protected \cap plan.queue : ProtectedDeadline(ph)

\* The strengthening that makes these inductive, proved in IndexSchedulerProofs.
\* The end of a build or of a collection is queued once, and only while it is due.
EndsAreDue ==
  /\ Exit \in Scheduled => job # None /\ ~stuck
  /\ BatchExit \in Scheduled => lease = "batch"
  /\ \A i, j \in DOMAIN events :
       events[i] = events[j] /\ events[i] \in {Exit, BatchExit} => i = j
\* Protected deadlines are guarded.
DeadlineIsGuarded == \A ph \in Phase : plan.timer[ph] = "protected" => ph \in plan.protected

IInv ==
  /\ TypeOK /\ JobHoldsLease /\ QueueHasADriver /\ PromiseStaysQueued /\ RefusalIsBacked
  /\ EndsAreDue /\ DeadlineIsGuarded

\* Opportunistic requests and retries never replace a protected deadline by a plain one
\* (_may_rearm); only a callback of the same phase that was queued before may.
DeadlineNotPostponed ==
  [][\A ph \in Phase : plan.timer[ph] = "protected" /\ plan.timer[ph]' = "plain" =>
       events # <<>> /\ Head(events) = Event("deadline", ph, FALSE)]_vars

\* Neither way to start begins a build beside foreground work.
NoStartInForeground == [][job = None /\ job' # None => ~foreground]_vars

\* Every queued phase is eventually started (or cleared), unless a phase was given up or
\* the editor keeps the lease to itself.
QueueIsServed ==
  \A ph \in Phase : ph \in plan.queue ~> (ph \notin plan.queue \/ lost \/ LeaseKept)
--------------------------------------------------------------------------------
(* What comments of the code say and the code does not do. *)

\* "A deferred re-arm must keep the SAME protection level" (_schedule.lua:124-126).
PromiseKeepsProtection ==
  ~lost => \A ph \in promised : plan.timer[ph] # "plain"
================================================================================
