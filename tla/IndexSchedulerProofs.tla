------------------------- MODULE IndexSchedulerProofs -------------------------
(***************************************************************************)
(* The scheduler forgets no phase and builds only under the writer lease,  *)
(* for any number of requests, interfering writers and coincidences, for   *)
(* every deferral cap, and whatever becomes of a release.                  *)
(***************************************************************************)
EXTENDS IndexScheduler, TLAPS

Members(s) == {s[i] : i \in DOMAIN s}

\* What the queue of callbacks holds after one is added, and after the first has run.
LEMMA Added ==
  ASSUME NEW S, NEW s \in Seq(S), NEW e \in S
  PROVE /\ Append(s, e) \in Seq(S)
        /\ Members(Append(s, e)) = Members(s) \cup {e}
<1>1. /\ Append(s, e) \in Seq(S) /\ Len(Append(s, e)) = Len(s) + 1
      /\ \A i \in 1..Len(s) : Append(s, e)[i] = s[i]
      /\ Append(s, e)[Len(s) + 1] = e
  OBVIOUS
<1>2. DOMAIN s = 1..Len(s) /\ DOMAIN Append(s, e) = 1..(Len(s) + 1) /\ Len(s) \in Nat
  BY <1>1
<1>3. QED BY <1>1, <1>2 DEF Members

LEMMA Removed ==
  ASSUME NEW S, NEW s \in Seq(S), s # <<>>
  PROVE /\ Tail(s) \in Seq(S) /\ Head(s) \in S
        /\ Members(s) = Members(Tail(s)) \cup {Head(s)}
        /\ \A i \in DOMAIN Tail(s) : i + 1 \in DOMAIN s /\ Tail(s)[i] = s[i + 1]
<1>1. /\ Tail(s) \in Seq(S) /\ Len(Tail(s)) = Len(s) - 1 /\ Head(s) = s[1]
      /\ \A i \in 1..(Len(s) - 1) : Tail(s)[i] = s[i + 1]
  OBVIOUS
<1>2. /\ DOMAIN s = 1..Len(s) /\ DOMAIN Tail(s) = 1..(Len(s) - 1)
      /\ Len(s) \in Nat /\ Len(s) >= 1
  BY <1>1
<1>3. \A i \in 1..Len(s) : i = 1 \/ i - 1 \in 1..(Len(s) - 1)
  BY <1>2
<1>4. \A i \in 1..Len(s) : s[i] = Head(s) \/ \E j \in DOMAIN Tail(s) : s[i] = Tail(s)[j]
  <2> TAKE i \in 1..Len(s)
  <2>1. CASE i = 1 BY <2>1, <1>1
  <2>2. CASE i # 1
    <3>1. i - 1 \in DOMAIN Tail(s) /\ Tail(s)[i - 1] = s[i] BY <2>2, <1>1, <1>2, <1>3
    <3>2. QED BY <3>1
  <2>3. QED BY <2>1, <2>2
<1>5. QED BY <1>1, <1>2, <1>4 DEF Members

\* A plan in which every guarded phase that waits has its deadline; `passed` are the
\* phases whose protected deadline has passed and whose callback is queued.
Backed(p, passed) ==
  /\ p \in Plan
  /\ \A ph \in p.protected \cap p.queue : p.timer[ph] = "protected" \/ ph \in passed
  /\ \A ph \in Phase : p.timer[ph] = "protected" => ph \in p.protected

\* What asking for phases does: nothing queued or armed is lost, what is asked for is
\* armed unless it is refused, and protected deadlines stay.
Armed(p, q, asked, strong) ==
  /\ q.queue \subseteq p.queue \cup asked /\ p.queue \subseteq q.queue
  /\ strong \subseteq q.queue
  /\ \A ph \in asked : q.timer[ph] # "none" \/ (ph \in p.protected /\ ph \notin strong)
  /\ \A ph \in q.queue : ph \in p.queue \/ q.timer[ph] # "none"
  /\ \A ph \in Phase : p.timer[ph] = "protected" => q.timer[ph] = "protected"
  /\ \A ph \in Phase : p.timer[ph] # "none" => q.timer[ph] # "none"

\* schedule_index_phase arms what it grants, and what it refuses is backed already.
LEMMA ScheduleBacked ==
  ASSUME NEW p, NEW passed, Backed(p, passed),
         NEW asked \in SUBSET Phase, NEW strong \in SUBSET asked,
         NEW q, q = Schedule(p, asked, strong)
  PROVE Backed(q, passed) /\ Armed(p, q, asked, strong)
BY DEF Backed, Armed, Plan, Schedule, MayRearm

\* A callback or a start stops the timer and drops the guard together.
LEMMA UnscheduleBacked ==
  ASSUME NEW p, NEW passed, Backed(p, passed), NEW ph \in Phase,
         NEW q, q = Unschedule(p, ph)
  PROVE /\ Backed(q, passed \ {ph})
        /\ q.queue = p.queue /\ q.protected = p.protected \ {ph}
BY DEF Backed, Plan, Unschedule

LEMMA ConsumeBacked ==
  ASSUME NEW p, NEW passed, Backed(p, passed), NEW ph \in Phase,
         NEW q, q = Consume(p, ph)
  PROVE /\ Backed(q, passed)
        /\ q.queue = p.queue \ {ph} /\ q.protected = p.protected \ {ph}
BY DEF Backed, Plan, Consume, Unschedule

\* The phases whose protected deadline has passed and whose callback waits.
Passed == {ph \in Phase : Event("deadline", ph, TRUE) \in Scheduled}

\* The parts of IInv about the plan, in one.
LEMMA PlanIsBacked == IInv => Backed(plan, Passed)
BY DEF IInv, TypeOK, Backed, RefusalIsBacked, ProtectedDeadline, DeadlineIsGuarded, Passed, Plan

LEMMA BackedParts == ASSUME Backed(plan', Passed') PROVE RefusalIsBacked' /\ DeadlineIsGuarded'
BY DEF Backed, RefusalIsBacked, ProtectedDeadline, DeadlineIsGuarded, Passed, Plan

LEMMA InitIInv == Init => IInv
<1> SUFFICES ASSUME Init PROVE IInv OBVIOUS
<1> USE DEF Init
<1>1. TypeOK
  <2>1. plan \in Plan BY DEF Plan, Empty
  <2>2. used \in [DOMAIN Bound -> Nat] OBVIOUS
  <2>3. events \in Seq(Events) /\ deferrals \in [Phase -> 0..MaxDeferrals] BY CapIsNatural
  <2>4. {stuck, drain, foreground, lost} \subseteq BOOLEAN OBVIOUS
  <2>5. job \in Phase \cup {None} /\ promised \subseteq Phase
        /\ lease \in {"free", "mine", "rival", "batch"} OBVIOUS
  <2>6. QED BY <2>1, <2>2, <2>3, <2>4, <2>5, Zenon DEF TypeOK
<1>2. Scheduled = {} BY DEF Scheduled
<1>3. JobHoldsLease /\ QueueHasADriver /\ PromiseStaysQueued
  BY NoneIsNoPhase DEF JobHoldsLease, QueueHasADriver, PromiseStaysQueued, Empty
<1>4. RefusalIsBacked /\ DeadlineIsGuarded BY DEF RefusalIsBacked, DeadlineIsGuarded, Empty
<1>5. EndsAreDue BY <1>2 DEF EndsAreDue
<1>6. QED BY <1>1, <1>3, <1>4, <1>5 DEF IInv

\* The gate counts a denial at most up to the cap.
LEMMA GateTypes ==
  ASSUME TypeOK, NEW ph \in Phase
  PROVE /\ \A p, protect : Denied(p, ph, protect) => deferrals' \in [Phase -> 0..MaxDeferrals]
        /\ Admitted(ph) => deferrals' \in [Phase -> 0..MaxDeferrals]
<1>1. \A reading : LET reason == Reason(foreground, reading, deferrals[ph]) IN
        ~Allows(reason, deferrals[ph]) =>
           deferrals[ph] + Counted(reason) \in 0..MaxDeferrals
  BY CapIsNatural DEF TypeOK, Reason, Allows, Counted
<1>2. \A p, protect : Denied(p, ph, protect) => deferrals' \in [Phase -> 0..MaxDeferrals]
  BY <1>1 DEF Denied, TypeOK
<1>3. Admitted(ph) => deferrals' \in [Phase -> 0..MaxDeferrals]
  BY CapIsNatural DEF Admitted, TypeOK
<1>4. QED BY <1>2, <1>3

\* Spending a bound keeps the counters natural numbers.
LEMMA SpendTypes == ASSUME TypeOK, NEW b \in DOMAIN Bound, Spend(b)
  PROVE used' \in [DOMAIN Bound -> Nat]
BY DEF TypeOK, Spend

\* When the first callback runs, the others stay, and the end of a build or collection
\* that ran is not queued a second time.
LEMMA RunsFirst ==
  ASSUME TypeOK, EndsAreDue, events # <<>>, events' = Tail(events)
  PROVE /\ events' \in Seq(Events) /\ Head(events) \in Events
        /\ Scheduled = Scheduled' \cup {Head(events)}
        /\ \A i, j \in DOMAIN events' :
             events'[i] = events'[j] /\ events'[i] \in {Exit, BatchExit} => i = j
        /\ Head(events) \in {Exit, BatchExit} => Head(events) \notin Scheduled'
<1>1. /\ events \in Seq(Events) /\ Head(events) = events[1] /\ 1 \in DOMAIN events
      /\ DOMAIN Tail(events) \subseteq Nat \ {0}
  BY DEF TypeOK
<1>2. /\ Tail(events) \in Seq(Events) /\ Head(events) \in Events
      /\ Members(events) = Members(Tail(events)) \cup {Head(events)}
      /\ \A i \in DOMAIN Tail(events) : i + 1 \in DOMAIN events /\ Tail(events)[i] = events[i + 1]
  BY <1>1, Removed
<1>3. \A i, j \in DOMAIN Tail(events) :
        Tail(events)[i] = Tail(events)[j] /\ Tail(events)[i] \in {Exit, BatchExit} => i = j
  <2> TAKE i, j \in DOMAIN Tail(events)
  <2> HAVE Tail(events)[i] = Tail(events)[j] /\ Tail(events)[i] \in {Exit, BatchExit}
  <2>1. i + 1 = j + 1 BY <1>2 DEF EndsAreDue
  <2>2. QED BY <1>1, <2>1
<1>4. ASSUME Head(events) \in {Exit, BatchExit}, NEW i \in DOMAIN Tail(events)
      PROVE Tail(events)[i] # Head(events)
  <2>1. i + 1 # 1 BY <1>1
  <2>2. QED BY <2>1, <1>1, <1>2, <1>4 DEF EndsAreDue
<1>5. QED BY <1>2, <1>3, <1>4 DEF Scheduled, Members

\* When a callback is added, the others stay.
LEMMA AddsLast ==
  ASSUME TypeOK, EndsAreDue, NEW e \in Events, events' = Append(events, e),
         e \in {Exit, BatchExit} => e \notin Scheduled
  PROVE /\ events' \in Seq(Events)
        /\ Scheduled' = Scheduled \cup {e}
        /\ \A i, j \in DOMAIN events' :
             events'[i] = events'[j] /\ events'[i] \in {Exit, BatchExit} => i = j
<1>1. events \in Seq(Events) BY DEF TypeOK
<1>2. /\ events' \in Seq(Events) /\ Scheduled' = Scheduled \cup {e}
  BY <1>1, Added DEF Scheduled, Members
<1>3. /\ Len(events) \in Nat /\ DOMAIN events = 1..Len(events)
      /\ DOMAIN events' = 1..(Len(events) + 1) /\ events'[Len(events) + 1] = e
      /\ \A i \in 1..Len(events) : events'[i] = events[i]
  BY <1>1
<1>4. ASSUME NEW i \in DOMAIN events', NEW j \in DOMAIN events',
             events'[i] = events'[j], events'[i] \in {Exit, BatchExit}
      PROVE i = j
  <2>1. CASE i \in DOMAIN events /\ j \in DOMAIN events
    BY <2>1, <1>3, <1>4 DEF EndsAreDue
  <2>2. CASE i \in DOMAIN events /\ j \notin DOMAIN events
    <3>1. j = Len(events) + 1 BY <2>2, <1>3
    <3>2. events[i] = e /\ e \in {Exit, BatchExit} BY <3>1, <2>2, <1>3, <1>4
    <3>3. QED BY <3>2, <2>2 DEF Scheduled
  <2>3. CASE i \notin DOMAIN events /\ j \in DOMAIN events
    <3>1. i = Len(events) + 1 BY <2>3, <1>3
    <3>2. events[j] = e /\ e \in {Exit, BatchExit} BY <3>1, <2>3, <1>3, <1>4
    <3>3. QED BY <3>2, <2>3 DEF Scheduled
  <2>4. CASE i \notin DOMAIN events /\ j \notin DOMAIN events BY <2>4, <1>3
  <2>5. QED BY <2>1, <2>2, <2>3, <2>4
<1>5. QED BY <1>2, <1>4

\* Other writers and foreground work touch neither plan nor queue, and never this
\* editor's lease.
LEMMA SurroundingsStep ==
  ASSUME IInv,
         \/ RivalTakes \/ RivalReleases \/ BatchTakes \/ ForegroundBegins \/ ForegroundEnds
         \/ UNCHANGED vars
  PROVE IInv'
<1>1. /\ UNCHANGED <<plan, events, deferrals, job, stuck, drain, promised, lost>>
      /\ foreground' \in BOOLEAN /\ lease' \in {"free", "mine", "rival", "batch"}
      /\ lease' = "mine" <=> lease = "mine"
      /\ lease = "batch" => lease' \in {"batch", lease}
  BY DEF RivalTakes, RivalReleases, BatchTakes, ForegroundBegins, ForegroundEnds, vars, IInv, TypeOK
<1>2. used' \in [DOMAIN Bound -> Nat]
  BY SpendTypes
  DEF RivalTakes, RivalReleases, BatchTakes, ForegroundBegins, ForegroundEnds, vars, IInv, TypeOK, Bound
<1>3. Scheduled' = Scheduled /\ UNCHANGED plan BY <1>1 DEF Scheduled
<1>4. TypeOK' BY <1>1, <1>2 DEF IInv, TypeOK
<1>5. JobHoldsLease' BY <1>1 DEF IInv, JobHoldsLease
<1>6. QueueHasADriver' /\ PromiseStaysQueued' /\ RefusalIsBacked' /\ DeadlineIsGuarded'
  BY <1>1, <1>3 DEF IInv, QueueHasADriver, PromiseStaysQueued, RefusalIsBacked, DeadlineIsGuarded,
     ProtectedDeadline, Pending
<1>7. EndsAreDue' BY <1>1, <1>3 DEF IInv, EndsAreDue
<1>8. QED BY <1>4, <1>5, <1>6, <1>7 DEF IInv

\* A request arms a deadline for whatever it queues.
LEMMA RequestStep ==
  ASSUME IInv, NEW asked \in SUBSET Phase, NEW strong \in SUBSET asked, Request(asked, strong)
  PROVE IInv'
<1>1. /\ UNCHANGED <<events, deferrals, job, stuck, lease, drain, foreground, lost>>
      /\ plan' = Schedule(plan, asked, strong) /\ promised' = promised \cup strong
      /\ Spend("request")
  BY DEF Request
<1>2. used' \in [DOMAIN Bound -> Nat] BY <1>1, SpendTypes DEF IInv, Bound
<1>3. Backed(plan, Passed) BY PlanIsBacked
<1>4. Backed(plan', Passed) /\ Armed(plan, plan', asked, strong)
  BY <1>1, <1>3, ScheduleBacked
<1>5. Scheduled' = Scheduled /\ Passed' = Passed BY <1>1 DEF Scheduled, Passed
<1>6. TypeOK' BY <1>1, <1>2, <1>4 DEF IInv, TypeOK, Backed
<1>7. JobHoldsLease' /\ EndsAreDue' BY <1>1, <1>5 DEF IInv, JobHoldsLease, EndsAreDue
<1>8. PromiseStaysQueued' BY <1>1, <1>4 DEF IInv, PromiseStaysQueued, Armed
<1>9. QueueHasADriver'
  <2> SUFFICES ASSUME plan'.queue # {}
               PROVE \/ lost \/ job # None \/ drain \/ Pending("drain", None)
                     \/ \E ph \in Phase : plan'.timer[ph] # "none" \/ Pending("deadline", ph)
    BY <1>1, <1>5 DEF QueueHasADriver, Pending
  <2>1. CASE plan.queue # {} BY <2>1, <1>4 DEF IInv, QueueHasADriver, Armed
  <2>2. CASE plan.queue = {} BY <2>2, <1>4 DEF Armed, Backed, Plan
  <2>3. QED BY <2>1, <2>2
<1>10. RefusalIsBacked' /\ DeadlineIsGuarded' BY <1>4, <1>5, BackedParts
<1>11. QED BY <1>6, <1>7, <1>8, <1>9, <1>10 DEF IInv

\* :UEClearCache empties the queue, so that no phase waits behind a guard it leaves.
LEMMA ClearStep == ASSUME IInv, ClearCache PROVE IInv'
<1>1. /\ UNCHANGED <<events, deferrals, job, stuck, lease, drain, foreground, lost>>
      /\ plan' = [Empty EXCEPT !.protected = plan.protected] /\ promised' = {}
      /\ Spend("clear")
  BY DEF ClearCache
<1>2. used' \in [DOMAIN Bound -> Nat] BY <1>1, SpendTypes DEF IInv, Bound
<1>3. /\ plan' \in Plan /\ plan'.queue = {}
      /\ \A ph \in Phase : plan'.timer[ph] = "none"
  BY <1>1 DEF Empty, Plan, IInv, TypeOK
<1>4. Scheduled' = Scheduled BY <1>1 DEF Scheduled
<1>5. TypeOK' BY <1>1, <1>2, <1>3 DEF IInv, TypeOK
<1>6. JobHoldsLease' /\ EndsAreDue' BY <1>1, <1>4 DEF IInv, JobHoldsLease, EndsAreDue
<1>7. PromiseStaysQueued' /\ QueueHasADriver' /\ RefusalIsBacked' /\ DeadlineIsGuarded'
  BY <1>1, <1>3 DEF PromiseStaysQueued, QueueHasADriver, RefusalIsBacked, DeadlineIsGuarded
<1>8. QED BY <1>5, <1>6, <1>7 DEF IInv

LEMMA BackedMore ==
  ASSUME NEW p, NEW passed, Backed(p, passed), NEW more, passed \subseteq more
  PROVE Backed(p, more)
BY DEF Backed

\* A deadline that passes leaves its callback in its place.
LEMMA FireStep == ASSUME IInv, NEW ph \in Phase, Fire(ph) PROVE IInv'
<1> DEFINE e == Event("deadline", ph, plan.timer[ph] = "protected")
<1>1. /\ UNCHANGED <<deferrals, job, stuck, lease, drain, foreground, promised, lost>>
      /\ plan' = [plan EXCEPT !.timer[ph] = "none"] /\ events' = Append(events, e)
      /\ Spend("late") \/ UNCHANGED used
  BY DEF Fire
<1>2. TypeOK /\ EndsAreDue /\ plan \in Plan BY DEF IInv, TypeOK
<1>3. e \in Events /\ e \notin {Exit, BatchExit} /\ e.kind = "deadline" /\ e.phase = ph
  <2>1. PICK b \in BOOLEAN : b = (plan.timer[ph] = "protected") OBVIOUS
  <2>2. Event("deadline", ph, b) \in Events BY DEF Events
  <2>3. QED BY <2>1, <2>2 DEF Event, Exit, BatchExit
<1>4. /\ events' \in Seq(Events) /\ Scheduled' = Scheduled \cup {e}
      /\ \A i, j \in DOMAIN events' :
           events'[i] = events'[j] /\ events'[i] \in {Exit, BatchExit} => i = j
  BY <1>1, <1>2, <1>3, AddsLast
<1>5. used' \in [DOMAIN Bound -> Nat] BY <1>1, SpendTypes DEF IInv, TypeOK, Bound
<1>6. /\ plan' \in Plan /\ plan'.queue = plan.queue /\ plan'.protected = plan.protected
      /\ plan'.timer[ph] = "none"
      /\ \A x \in Phase \ {ph} : plan'.timer[x] = plan.timer[x]
  BY <1>1, <1>2 DEF Plan
<1>7. TypeOK' BY <1>1, <1>4, <1>5, <1>6 DEF IInv, TypeOK
<1>8. JobHoldsLease' /\ PromiseStaysQueued'
  BY <1>1, <1>6 DEF IInv, JobHoldsLease, PromiseStaysQueued
<1>9. EndsAreDue' BY <1>1, <1>2, <1>3, <1>4 DEF EndsAreDue
<1>10. Pending("deadline", ph)' BY <1>3, <1>4 DEF Pending
<1>11. QueueHasADriver' BY <1>10 DEF QueueHasADriver
<1>12. RefusalIsBacked'
  <2> SUFFICES ASSUME NEW x \in plan.protected \cap plan.queue PROVE ProtectedDeadline(x)'
    BY <1>6 DEF RefusalIsBacked
  <2>1. ProtectedDeadline(x) BY DEF IInv, RefusalIsBacked
  <2>2. CASE x # ph BY <2>1, <2>2, <1>2, <1>4, <1>6 DEF ProtectedDeadline, Plan
  <2>3. CASE x = ph
    <3>1. CASE plan.timer[ph] = "protected"
      <4>1. e = Event("deadline", ph, TRUE) BY <3>1
      <4>2. QED BY <4>1, <2>3, <1>4 DEF ProtectedDeadline
    <3>2. CASE plan.timer[ph] # "protected" BY <3>2, <2>1, <2>3, <1>4 DEF ProtectedDeadline
    <3>3. QED BY <3>1, <3>2
  <2>4. QED BY <2>2, <2>3
<1>13. DeadlineIsGuarded' BY <1>6 DEF IInv, DeadlineIsGuarded
<1>14. QED BY <1>7, <1>8, <1>9, <1>11, <1>12, <1>13 DEF IInv

\* The end of a build or of a collection is queued once.
LEMMA ExitStep == ASSUME IInv, JobExits \/ BatchExits PROVE IInv'
<1>1. PICK e \in {Exit, BatchExit} :
        /\ events' = Append(events, e) /\ e \notin Scheduled
        /\ e = Exit => job # None /\ ~stuck
        /\ e = BatchExit => lease = "batch"
        /\ UNCHANGED <<plan, deferrals, job, stuck, lease, drain, foreground, promised, lost, used>>
  <2>1. CASE JobExits BY <2>1 DEF JobExits, Pending, Exit, BatchExit, Event
  <2>2. CASE BatchExits BY <2>2 DEF BatchExits, Pending, Exit, BatchExit, Event
  <2>3. QED BY <2>1, <2>2
<1>2. TypeOK /\ EndsAreDue /\ e \in Events BY DEF IInv, Events
<1>3. /\ events' \in Seq(Events) /\ Scheduled' = Scheduled \cup {e}
      /\ \A i, j \in DOMAIN events' :
           events'[i] = events'[j] /\ events'[i] \in {Exit, BatchExit} => i = j
  BY <1>1, <1>2, AddsLast
<1>4. TypeOK' BY <1>1, <1>3 DEF IInv, TypeOK
<1>5. JobHoldsLease' /\ PromiseStaysQueued' /\ DeadlineIsGuarded'
  BY <1>1 DEF IInv, JobHoldsLease, PromiseStaysQueued, DeadlineIsGuarded
<1>6. QueueHasADriver' /\ RefusalIsBacked'
  BY <1>1, <1>3 DEF IInv, QueueHasADriver, RefusalIsBacked, ProtectedDeadline, Pending
<1>7. EndsAreDue' BY <1>1, <1>2, <1>3 DEF EndsAreDue, Exit, BatchExit, Event
<1>8. QED BY <1>4, <1>5, <1>6, <1>7 DEF IInv

\* finalize ends the job whether or not the lease is given back or, when it raises, leaves
\* both.
LEMMA FinalizeStep == ASSUME IInv, Finalize PROVE IInv'
<1>1. /\ events # <<>> /\ events' = Tail(events) /\ Head(events).kind = "exit"
      /\ UNCHANGED <<plan, deferrals, foreground, promised, used>>
      /\ \/ /\ job' = None /\ lease' \in {"free", "mine"} /\ stuck' = stuck
            /\ \/ drain' = TRUE /\ lost' = lost
               \/ lost' = TRUE /\ drain' = drain
         \/ stuck' = TRUE /\ lost' = TRUE /\ UNCHANGED <<job, lease, drain>>
  BY DEF Finalize, Run, Released
<1>2. TypeOK /\ EndsAreDue BY DEF IInv
<1>3. /\ events' \in Seq(Events) /\ Head(events) \in Events
      /\ Scheduled = Scheduled' \cup {Head(events)}
      /\ \A i, j \in DOMAIN events' :
           events'[i] = events'[j] /\ events'[i] \in {Exit, BatchExit} => i = j
      /\ Head(events) \in {Exit, BatchExit} => Head(events) \notin Scheduled'
  BY <1>1, <1>2, RunsFirst
<1>4. Head(events) = Exit BY <1>1, <1>3 DEF Events, Event, Exit, BatchExit, BatchDrain
<1>5. lease = "mine" /\ Exit \notin Scheduled' /\ BatchExit \notin Scheduled'
  BY <1>2, <1>3, <1>4 DEF EndsAreDue, IInv, JobHoldsLease, Exit, BatchExit, Event
<1>6. TypeOK' BY <1>1, <1>2, <1>3 DEF TypeOK
<1>7. JobHoldsLease' BY <1>1 DEF IInv, JobHoldsLease
<1>8. PromiseStaysQueued' /\ QueueHasADriver' /\ DeadlineIsGuarded'
  BY <1>1 DEF IInv, PromiseStaysQueued, QueueHasADriver, DeadlineIsGuarded
<1>9. RefusalIsBacked'
  <2>1. \A x : Event("deadline", x, TRUE) # Exit BY DEF Exit, Event
  <2>2. \A x : Event("deadline", x, TRUE) \in Scheduled => Event("deadline", x, TRUE) \in Scheduled'
    BY <2>1, <1>3, <1>4
  <2>3. UNCHANGED plan BY <1>1
  <2>4. QED BY <2>2, <2>3 DEF IInv, RefusalIsBacked, ProtectedDeadline
<1>10. EndsAreDue' BY <1>3, <1>5 DEF EndsAreDue
<1>11. QED BY <1>6, <1>7, <1>8, <1>9, <1>10 DEF IInv

\* A publication of the collector asks for its phases with a drain.
LEMMA PublishStep == ASSUME IInv, BatchPublishes PROVE IInv'
<1> DEFINE again == [Consume(Consume(plan, "current"), "hot") EXCEPT !.queue = @ \cup {"current", "hot"}]
<1> HIDE DEF again
<1>1. /\ events # <<>> /\ Head(events) = BatchExit /\ lease' \in {"free", "mine"}
      /\ UNCHANGED <<deferrals, job, stuck, drain, foreground, promised, lost, used>>
      /\ \/ UNCHANGED plan /\ events' = Tail(events)
         \/ plan' = again /\ events' = Append(Tail(events), BatchDrain)
  BY DEF BatchPublishes, again, Released
<1>2. TypeOK /\ EndsAreDue /\ events \in Seq(Events) BY DEF IInv, TypeOK
<1>3. /\ Tail(events) \in Seq(Events)
      /\ Scheduled = Members(Tail(events)) \cup {BatchExit}
      /\ \A i \in DOMAIN Tail(events) : i + 1 \in DOMAIN events /\ Tail(events)[i] = events[i + 1]
  BY <1>1, <1>2, Removed DEF Scheduled, Members
<1>0. PICK rest : rest = Tail(events) OBVIOUS
<1>4. /\ rest \in Seq(Events)
      /\ rest = Tail(events) /\ Len(rest) \in Nat /\ DOMAIN rest = 1..Len(rest)
      /\ DOMAIN rest \subseteq Nat \ {0} /\ events[1] = BatchExit /\ 1 \in DOMAIN events
  BY <1>0, <1>1, <1>2, <1>3
<1>5. \A i, j \in DOMAIN rest : rest[i] = rest[j] /\ rest[i] \in {Exit, BatchExit} => i = j
  <2> TAKE i, j \in DOMAIN rest
  <2> HAVE rest[i] = rest[j] /\ rest[i] \in {Exit, BatchExit}
  <2>1. i + 1 = j + 1 BY <1>2, <1>3, <1>4 DEF EndsAreDue
  <2>2. QED BY <2>1, <1>4
<1>6. BatchExit \notin Members(rest)
  <2>1. ASSUME NEW i \in DOMAIN rest, rest[i] = BatchExit PROVE FALSE
    <3>1. i + 1 = 1 BY <2>1, <1>2, <1>3, <1>4 DEF EndsAreDue
    <3>2. QED BY <3>1, <1>4
  <2>2. QED BY <2>1 DEF Members
<1>7. /\ events' \in Seq(Events)
      /\ \/ UNCHANGED plan /\ Scheduled' = Members(rest)
         \/ plan' = again /\ Scheduled' = Members(rest) \cup {BatchDrain}
      /\ \A i, j \in DOMAIN events' :
           events'[i] = events'[j] /\ events'[i] \in {Exit, BatchExit} => i = j
  <2>1. CASE events' = rest /\ UNCHANGED plan BY <2>1, <1>4, <1>5 DEF Scheduled, Members
  <2>2. CASE events' = Append(rest, BatchDrain) /\ plan' = again
    <3>1. BatchDrain \in Events /\ BatchDrain \notin {Exit, BatchExit}
      BY DEF Events, BatchDrain, Exit, BatchExit, Event
    <3>2. events' \in Seq(Events) /\ Members(events') = Members(rest) \cup {BatchDrain}
      BY <2>2, <3>1, <1>4, Added DEF Members
    <3>3. /\ DOMAIN events' = 1..(Len(rest) + 1) /\ events'[Len(rest) + 1] = BatchDrain
          /\ \A i \in 1..Len(rest) : events'[i] = rest[i]
      BY <2>2, <3>1
    <3>4. \A i \in DOMAIN events' : events'[i] \in {Exit, BatchExit} => i \in DOMAIN rest
      BY <3>1, <3>3, <1>4
    <3>5. QED BY <2>2, <3>2, <3>3, <3>4, <1>4, <1>5 DEF Scheduled, Members
  <2>3. QED BY <2>1, <2>2, <1>1, <1>4
<1>8. lease = "batch" /\ job = None
  BY <1>2, <1>3 DEF EndsAreDue, IInv, JobHoldsLease
<1>9. Exit \notin Scheduled' /\ BatchExit \notin Scheduled'
  BY <1>2, <1>3, <1>4, <1>6, <1>7, <1>8 DEF EndsAreDue, Exit, BatchExit, BatchDrain, Event
<1>10. Passed' = Passed
  BY <1>3, <1>4, <1>7 DEF Passed, Event, BatchExit, BatchDrain
<1>11. /\ Backed(plan', Passed)
       /\ plan.queue \subseteq plan'.queue
  <2>1. Backed(plan, Passed) BY PlanIsBacked
  <2>2. CASE UNCHANGED plan BY <2>1, <2>2
  <2>3. CASE plan' = again
    <3>1. PICK p : p = Consume(plan, "current") OBVIOUS
    <3>2. Backed(p, Passed) /\ p.queue = plan.queue \ {"current"} /\ "current" \notin p.protected
      BY <2>1, <3>1, ConsumeBacked DEF Phase
    <3>3. PICK q : q = Consume(p, "hot") OBVIOUS
    <3>4. /\ Backed(q, Passed) /\ q.queue = p.queue \ {"hot"}
          /\ q.protected = p.protected \ {"hot"}
      BY <3>2, <3>3, ConsumeBacked DEF Phase
    <3>5. plan' = [q EXCEPT !.queue = @ \cup {"current", "hot"}]
      BY <2>3, <3>1, <3>3 DEF again
    <3>6. QED BY <3>2, <3>4, <3>5 DEF Backed, Plan, Phase
  <2>4. QED BY <2>2, <2>3, <1>7
<1>12. TypeOK' BY <1>1, <1>2, <1>7, <1>11 DEF TypeOK, Backed
<1>13. JobHoldsLease' BY <1>1, <1>8 DEF JobHoldsLease
<1>14. PromiseStaysQueued' BY <1>1, <1>11 DEF IInv, PromiseStaysQueued
<1>15. QueueHasADriver'
  <2>1. CASE UNCHANGED plan /\ Scheduled' = Members(rest)
    <3>1. BatchExit.kind = "batch" BY DEF BatchExit, Event
    <3>2. \A e \in Scheduled : e.kind # "batch" => e \in Scheduled'
      BY <2>1, <3>1, <1>3, <1>4
    <3>3. QueueHasADriver /\ plan' = plan /\ job' = job /\ lost' = lost /\ drain' = drain
      BY <2>1, <1>1 DEF IInv
    <3>4. QED BY <3>2, <3>3 DEF QueueHasADriver, Pending
  <2>2. CASE Scheduled' = Members(rest) \cup {BatchDrain}
    <3>1. BatchDrain.kind = "drain" /\ BatchDrain.phase = None BY DEF BatchDrain, Event
    <3>2. Pending("drain", None)' BY <2>2, <3>1 DEF Pending
    <3>3. QED BY <3>2 DEF QueueHasADriver
  <2>3. QED BY <2>1, <2>2, <1>7
<1>16. EndsAreDue' BY <1>7, <1>9 DEF EndsAreDue
<1>17. RefusalIsBacked' /\ DeadlineIsGuarded' BY <1>10, <1>11, BackedParts
<1>18. QED BY <1>12, <1>13, <1>14, <1>15, <1>16, <1>17 DEF IInv

\* The scheduled drain begins unless a job will drain at its end.
LEMMA BatchDrainStep == ASSUME IInv, BatchDrains PROVE IInv'
<1>1. /\ events # <<>> /\ events' = Tail(events) /\ Head(events).kind = "drain"
      /\ UNCHANGED <<plan, deferrals, job, stuck, lease, foreground, promised, used>>
      /\ \/ lost' = TRUE /\ drain' = drain
         \/ drain' = (job = None) /\ lost' = lost
  <2>1. /\ events # <<>> /\ events' = Tail(events) /\ Head(events).kind = "drain"
        /\ UNCHANGED <<plan, deferrals, job, stuck, lease, foreground, promised, used>>
    BY Zenon DEF BatchDrains, Run
  <2>2. \/ lost' = TRUE /\ drain' = drain
        \/ drain' = (job = None) /\ lost' = lost
    BY Zenon DEF BatchDrains
  <2>3. QED BY <2>1, <2>2
<1>2. TypeOK /\ EndsAreDue BY DEF IInv
<1>3. /\ events' \in Seq(Events) /\ Head(events) \in Events
      /\ Scheduled = Scheduled' \cup {Head(events)}
      /\ \A i, j \in DOMAIN events' :
           events'[i] = events'[j] /\ events'[i] \in {Exit, BatchExit} => i = j
  BY <1>1, <1>2, RunsFirst
<1>4. lost' \in BOOLEAN /\ drain' \in BOOLEAN /\ (lost => lost') /\ (lost' \/ job' # None \/ drain')
  <2>1. CASE lost' = TRUE /\ drain' = drain BY <2>1, <1>2 DEF TypeOK
  <2>2. CASE drain' = (job = None) /\ lost' = lost
    <3>1. CASE job = None
      <4>1. drain' = TRUE BY <2>2, <3>1, Zenon
      <4>2. QED BY <2>2, <4>1, <1>2 DEF TypeOK
    <3>2. CASE job # None
      <4>1. drain' = FALSE /\ job' = job BY <2>2, <3>2, <1>1
      <4>2. QED BY <2>2, <3>2, <4>1, <1>2 DEF TypeOK
    <3>3. QED BY <3>1, <3>2
  <2>3. QED BY <2>1, <2>2, <1>1
<1>5. TypeOK' BY <1>1, <1>2, <1>3, <1>4 DEF TypeOK
<1>6. JobHoldsLease' /\ PromiseStaysQueued' /\ DeadlineIsGuarded'
  BY <1>1, <1>4 DEF IInv, JobHoldsLease, PromiseStaysQueued, DeadlineIsGuarded
<1>7. QueueHasADriver' BY <1>4 DEF QueueHasADriver
<1>8. RefusalIsBacked'
  <2>1. \A x : Event("deadline", x, TRUE).kind = "deadline" BY DEF Event
  <2>2. \A x : Event("deadline", x, TRUE) \in Scheduled => Event("deadline", x, TRUE) \in Scheduled'
    BY <2>1, <1>1, <1>3
  <2>3. UNCHANGED plan BY <1>1
  <2>4. QED BY <2>2, <2>3 DEF IInv, RefusalIsBacked, ProtectedDeadline
<1>9. EndsAreDue' BY <1>1, <1>2, <1>3 DEF EndsAreDue
<1>10. QED BY <1>5, <1>6, <1>7, <1>8, <1>9 DEF IInv

\* An attempt to build ph from the plan p, whatever comes of it, keeps p backed, loses no
\* promise, leaves a deadline or a job behind (or a failure on record), and takes no job
\* without the lease.
LEMMA BuildStep ==
  ASSUME IInv, NEW p, NEW passed, Backed(p, passed), p.queue = plan.queue,
         NEW ph \in Phase, NEW protect \in BOOLEAN,
         \/ /\ ph \notin p.protected /\ Denied(p, ph, protect)
            /\ UNCHANGED <<job, stuck, lease, promised, lost>>
         \/ ph \notin p.protected /\ Busy(p, ph)
         \/ Contended(p, ph, protect)
         \/ FailsBeforeSpawn(ph) /\ plan' = p
         \/ RaisesBeforeJob(p, ph)
         \/ Starts(p, ph)
  PROVE /\ Backed(plan', passed) /\ JobHoldsLease' /\ PromiseStaysQueued'
        /\ {stuck', lost'} \subseteq BOOLEAN /\ promised' \subseteq Phase
        /\ job' \in Phase \cup {None} /\ lease' \in {"free", "mine", "rival", "batch"}
        /\ lost' \/ job' # None \/ plan'.timer[ph] # "none"
        /\ UNCHANGED <<job, stuck, lease>> \/ (job = None /\ lease = "free")
<1> USE DEF JobHoldsLease, PromiseStaysQueued
<1>0. TypeOK /\ JobHoldsLease /\ PromiseStaysQueued /\ p \in Plan BY DEF IInv, Backed
<1>1. ASSUME NEW strong \in SUBSET {ph}, plan' = Schedule(p, {ph}, strong),
             ph \in p.protected => ph \in strong,
             UNCHANGED <<job, stuck, lease, promised, lost>>
      PROVE /\ Backed(plan', passed) /\ PromiseStaysQueued' /\ plan'.timer[ph] # "none"
  <2>1. Backed(plan', passed) /\ Armed(p, plan', {ph}, strong) BY <1>1, ScheduleBacked
  <2>2. QED BY <2>1, <1>0, <1>1 DEF Armed
<1>2. CASE /\ ph \notin p.protected /\ Denied(p, ph, protect)
           /\ UNCHANGED <<job, stuck, lease, promised, lost>>
  <2>1. plan' = Schedule(p, {ph}, Only(ph, protect)) BY <1>2 DEF Denied
  <2>2. Only(ph, protect) \in SUBSET {ph} BY DEF Only
  <2>3. Backed(plan', passed) /\ PromiseStaysQueued' /\ plan'.timer[ph] # "none"
    BY <2>1, <2>2, <1>1, <1>2
  <2>4. QED BY <2>3, <1>0, <1>2 DEF TypeOK
<1>3. CASE ph \notin p.protected /\ Busy(p, ph)
  <2>1. /\ job # None /\ plan' = [p EXCEPT !.queue = @ \cup {ph}]
        /\ UNCHANGED <<job, stuck, lease, promised, lost>>
    BY <1>3 DEF Busy
  <2>2. Backed(plan', passed) /\ plan.queue \subseteq plan'.queue
    BY <2>1, <1>3 DEF Backed, Plan
  <2>3. QED BY <2>1, <2>2, <1>0 DEF TypeOK
<1>4. CASE Contended(p, ph, protect)
  <2>1. /\ plan' = Schedule(p, {ph}, Only(ph, protect \/ ph \in p.protected))
        /\ UNCHANGED <<job, stuck, lease, promised, lost>>
    BY <1>4 DEF Contended
  <2>2. Only(ph, protect \/ ph \in p.protected) \in SUBSET {ph} BY DEF Only
  <2>3. ph \in p.protected => ph \in Only(ph, protect \/ ph \in p.protected) BY DEF Only
  <2>4. Backed(plan', passed) /\ PromiseStaysQueued' /\ plan'.timer[ph] # "none"
    BY <2>1, <2>2, <2>3, <1>1
  <2>5. QED BY <2>1, <2>4, <1>0 DEF TypeOK
<1>5. CASE FailsBeforeSpawn(ph) /\ plan' = p
  BY <1>5, <1>0 DEF FailsBeforeSpawn, Released, TypeOK
<1>8. CASE RaisesBeforeJob(p, ph)
  <2>1. /\ job = None /\ lease = "free" /\ lease' = "mine" /\ lost' = TRUE
        /\ plan' = p \/ plan' = Consume(p, ph)
        /\ UNCHANGED <<job, stuck, promised>>
    BY <1>8 DEF RaisesBeforeJob
  <2>2. Backed(plan', passed) BY <2>1, ConsumeBacked
  <2>3. QED BY <2>1, <2>2, <1>0 DEF TypeOK
<1>6. CASE Starts(p, ph)
  <2>1. /\ job = None /\ lease = "free" /\ job' = ph /\ lease' = "mine"
        /\ plan' = Consume(p, ph) /\ promised' = promised \ {ph}
        /\ stuck' \in BOOLEAN /\ lost' = (lost \/ stuck')
    BY <1>6 DEF Starts
  <2>2. Backed(plan', passed) /\ plan'.queue = p.queue \ {ph} BY <2>1, ConsumeBacked
  <2>3. lost' \in BOOLEAN /\ (lost => lost')
    <3>1. lost \in BOOLEAN BY <1>0 DEF TypeOK
    <3>2. QED BY <2>1, <3>1, Zenon
  <2>4. QED BY <2>1, <2>2, <2>3, <1>0, NoneIsNoPhase DEF TypeOK
<1>7. QED BY <1>2, <1>3, <1>4, <1>5, <1>6, <1>8

\* What remains to be shown of a step that decides about a start.
LEMMA StartStep ==
  ASSUME IInv, UNCHANGED <<foreground, used>>, drain' \in BOOLEAN,
         deferrals' \in [Phase -> 0..MaxDeferrals],
         events' \in Seq(Events), Scheduled' \subseteq Scheduled,
         \A i, j \in DOMAIN events' :
           events'[i] = events'[j] /\ events'[i] \in {Exit, BatchExit} => i = j,
         Backed(plan', Passed'), JobHoldsLease', PromiseStaysQueued', QueueHasADriver',
         {stuck', lost'} \subseteq BOOLEAN, promised' \subseteq Phase,
         job' \in Phase \cup {None}, lease' \in {"free", "mine", "rival", "batch"},
         UNCHANGED <<job, stuck, lease>> \/ (job = None /\ lease = "free")
  PROVE IInv'
<1>1. TypeOK /\ EndsAreDue BY DEF IInv
<1>2. TypeOK' BY <1>1 DEF TypeOK, Backed
<1>3. EndsAreDue' BY <1>1 DEF EndsAreDue
<1>4. RefusalIsBacked' /\ DeadlineIsGuarded' BY BackedParts
<1>5. QED BY <1>2, <1>3, <1>4 DEF IInv

\* A deadline's callback disarms its own phase only, then builds or arms again.
LEMMA DeadlineStep == ASSUME IInv, Deadline PROVE IInv'
<1>1. /\ events # <<>> /\ events' = Tail(events) /\ Head(events).kind = "deadline"
      /\ UNCHANGED <<drain, foreground, used>>
  BY DEF Deadline, Run
<1>2. TypeOK /\ EndsAreDue BY DEF IInv
<1>3. /\ events' \in Seq(Events) /\ Head(events) \in Events
      /\ Scheduled = Scheduled' \cup {Head(events)}
      /\ \A i, j \in DOMAIN events' :
           events'[i] = events'[j] /\ events'[i] \in {Exit, BatchExit} => i = j
  BY <1>1, <1>2, RunsFirst
<1>4. PICK ph \in Phase, protect \in BOOLEAN : Head(events) = Event("deadline", ph, protect)
  BY <1>1, <1>3 DEF Events, Event, Exit, BatchExit, BatchDrain
<1>5. PICK p : p = Unschedule(plan, ph) OBVIOUS
<1>6. PICK passed : passed = Passed \ {ph} OBVIOUS
<1>7. Backed(p, passed) /\ p.queue = plan.queue /\ ph \notin p.protected
  BY <1>5, <1>6, PlanIsBacked, UnscheduleBacked
<1>8. Head(events).phase = ph /\ Head(events).protect = protect BY <1>4 DEF Event
<1>9. \/ Denied(p, ph, protect) /\ UNCHANGED <<job, stuck, lease, promised, lost>>
      \/ /\ Admitted(ph)
         /\ \/ Busy(p, ph)
            \/ Contended(p, ph, protect)
            \/ FailsBeforeSpawn(ph) /\ plan' = p
            \/ RaisesBeforeJob(p, ph)
            \/ Starts(p, ph)
  BY <1>5, <1>8 DEF Deadline
<1>10. deferrals' \in [Phase -> 0..MaxDeferrals] BY <1>2, <1>9, GateTypes
<1>11. /\ Backed(plan', passed) /\ JobHoldsLease' /\ PromiseStaysQueued'
       /\ {stuck', lost'} \subseteq BOOLEAN /\ promised' \subseteq Phase
       /\ job' \in Phase \cup {None} /\ lease' \in {"free", "mine", "rival", "batch"}
       /\ lost' \/ job' # None \/ plan'.timer[ph] # "none"
       /\ UNCHANGED <<job, stuck, lease>> \/ (job = None /\ lease = "free")
  BY <1>7, <1>9, BuildStep
<1>12. passed \subseteq Passed'
  <2>1. \A x \in Phase \ {ph} : Event("deadline", x, TRUE) # Head(events) BY <1>4 DEF Event
  <2>2. QED BY <2>1, <1>3, <1>6 DEF Passed
<1>13. Backed(plan', Passed') BY <1>11, <1>12, BackedMore
<1>14. QueueHasADriver' BY <1>11 DEF QueueHasADriver
<1>15. drain' \in BOOLEAN BY <1>1, <1>2 DEF TypeOK
<1>16. QED BY <1>1, <1>3, <1>10, <1>11, <1>13, <1>14, <1>15, StartStep

\* The drain takes a phase of the queue; one that it may not start is armed, or was.
LEMMA DrainStepStep == ASSUME IInv, DrainStep PROVE IInv'
<1>1. UNCHANGED <<events, foreground, used>> BY DEF DrainStep
<1>2. /\ TypeOK /\ EndsAreDue /\ JobHoldsLease /\ PromiseStaysQueued /\ RefusalIsBacked
      /\ Backed(plan, Passed)
  BY PlanIsBacked DEF IInv
<1>3. /\ Scheduled' = Scheduled /\ Passed' = Passed /\ events' \in Seq(Events)
      /\ \A i, j \in DOMAIN events' :
           events'[i] = events'[j] /\ events'[i] \in {Exit, BatchExit} => i = j
  BY <1>1, <1>2 DEF Scheduled, Passed, TypeOK, EndsAreDue
<1>4. CASE plan.queue = {} \/ job # None
  <2>1. drain' = FALSE /\ UNCHANGED <<plan, deferrals, job, stuck, lease, promised, lost>>
    BY <1>4 DEF DrainStep
  <2>2. JobHoldsLease' /\ PromiseStaysQueued' /\ QueueHasADriver'
    BY <2>1, <1>2, <1>4 DEF JobHoldsLease, PromiseStaysQueued, QueueHasADriver
  <2>3. QED BY <2>1, <2>2, <1>1, <1>2, <1>3, StartStep DEF TypeOK
<1>5. CASE plan.queue # {} /\ job = None
  <2>1. PICK ph : ph = Picked OBVIOUS
  <2>2. ph \in plan.queue /\ ph \in Phase
    <3>1. plan.queue \subseteq Phase BY <1>2 DEF TypeOK, Plan
    <3>2. \E x \in plan.queue : \/ x = "current"
                                \/ x = "hot" /\ "current" \notin plan.queue
                                \/ plan.queue = {"full"}
      BY <3>1, <1>5 DEF Phase
    <3>3. QED BY <3>1, <3>2, <2>1 DEF Picked
  <2>3. \/ /\ Denied(plan, ph, FALSE) /\ drain' = FALSE
           /\ UNCHANGED <<job, stuck, lease, promised, lost>>
        \/ /\ Admitted(ph)
           /\ \/ Contended(plan, ph, FALSE) /\ drain' = FALSE
              \/ /\ FailsBeforeSpawn(ph)
                 /\ plan' = [plan EXCEPT !.queue = @ \ {ph}]
                 /\ UNCHANGED drain
              \/ (RaisesBeforeJob(plan, ph) \/ Starts(plan, ph)) /\ drain' = FALSE
    BY <1>5, <2>1 DEF DrainStep
  <2>4. deferrals' \in [Phase -> 0..MaxDeferrals] BY <1>2, <2>2, <2>3, GateTypes
  <2>5. drain' \in BOOLEAN BY <2>3, <1>2 DEF TypeOK
  <2>6. CASE Denied(plan, ph, FALSE) /\ UNCHANGED <<job, stuck, lease, promised, lost>>
    <3>1. plan' = Schedule(plan, {ph}, {}) BY <2>6 DEF Denied, Only
    <3>2. Backed(plan', Passed) /\ Armed(plan, plan', {ph}, {})
      BY <3>1, <1>2, <2>2, ScheduleBacked
    <3>3. PromiseStaysQueued' /\ JobHoldsLease'
      BY <3>2, <2>6, <1>2 DEF Armed, PromiseStaysQueued, JobHoldsLease
    <3>4. plan'.timer[ph] # "none" \/ ProtectedDeadline(ph)
      BY <3>2, <1>2, <2>2 DEF Armed, RefusalIsBacked
    <3>5. plan'.timer[ph] # "none" \/ Pending("deadline", ph)
      <4>1. CASE plan.timer[ph] = "protected" BY <4>1, <3>2, <2>2 DEF Armed
      <4>2. CASE Event("deadline", ph, TRUE) \in Scheduled
        BY <4>2 DEF Pending, Event
      <4>3. QED BY <3>4, <4>1, <4>2 DEF ProtectedDeadline
    <3>6. Pending("deadline", ph)' <=> Pending("deadline", ph) BY <1>3 DEF Pending
    <3>7. QueueHasADriver' BY <3>5, <3>6, <2>2 DEF QueueHasADriver
    <3>8. QED BY <3>2, <3>3, <3>7, <2>4, <2>5, <2>6, <1>1, <1>2, <1>3, StartStep DEF TypeOK
  <2>7. CASE FailsBeforeSpawn(ph) /\ plan' = [plan EXCEPT !.queue = @ \ {ph}]
    <3>1. /\ promised' = promised \ {ph} /\ lost' = TRUE /\ UNCHANGED <<job, stuck>>
          /\ job = None
          /\ lease' = lease \/ (lease = "free" /\ lease' = "mine")
      BY <2>7 DEF FailsBeforeSpawn, Released
    <3>2. Backed(plan', Passed) BY <2>7, <1>2 DEF Backed, Plan
    <3>3. PromiseStaysQueued' /\ JobHoldsLease' /\ QueueHasADriver'
      BY <3>1, <1>2 DEF PromiseStaysQueued, JobHoldsLease, QueueHasADriver
    <3>4. QED BY <3>1, <3>2, <3>3, <2>4, <2>5, <1>1, <1>2, <1>3, StartStep DEF TypeOK
  <2>8. CASE Contended(plan, ph, FALSE) \/ RaisesBeforeJob(plan, ph) \/ Starts(plan, ph)
    <3>1. /\ Backed(plan', Passed) /\ JobHoldsLease' /\ PromiseStaysQueued'
          /\ {stuck', lost'} \subseteq BOOLEAN /\ promised' \subseteq Phase
          /\ job' \in Phase \cup {None} /\ lease' \in {"free", "mine", "rival", "batch"}
          /\ lost' \/ job' # None \/ plan'.timer[ph] # "none"
          /\ UNCHANGED <<job, stuck, lease>> \/ (job = None /\ lease = "free")
      BY <2>8, <1>2, <2>2, BuildStep
    <3>2. QueueHasADriver' BY <3>1, <2>2 DEF QueueHasADriver
    <3>3. QED BY <3>1, <3>2, <2>4, <2>5, <1>1, <1>3, StartStep
  <2>9. QED BY <2>3, <2>6, <2>7, <2>8
<1>6. QED BY <1>4, <1>5

LEMMA StepIInv == IInv /\ [Next]_vars => IInv'
<1> SUFFICES ASSUME IInv, [Next]_vars PROVE IInv' OBVIOUS
<1>1. CASE PrepareDelivery BY <1>1, RequestStep DEF PrepareDelivery, Phase
<1>2. CASE Refresh
  <2>1. PICK asked \in SUBSET Phase : Request(asked, {}) BY <1>2 DEF Refresh, Phase
  <2>2. QED BY <2>1, RequestStep
<1>3. CASE Invalidate BY <1>3, RequestStep DEF Invalidate, Phase
<1>4. CASE ClearCache BY <1>4, ClearStep
<1>5. CASE \E ph \in Phase : Fire(ph) BY <1>5, FireStep
<1>6. CASE Deadline BY <1>6, DeadlineStep
<1>7. CASE DrainStep BY <1>7, DrainStepStep
<1>8. CASE JobExits \/ BatchExits BY <1>8, ExitStep
<1>9. CASE Finalize BY <1>9, FinalizeStep
<1>10. CASE BatchPublishes BY <1>10, PublishStep
<1>11. CASE BatchDrains BY <1>11, BatchDrainStep
<1>12. CASE \/ RivalTakes \/ RivalReleases \/ BatchTakes \/ ForegroundBegins \/ ForegroundEnds
            \/ UNCHANGED vars
  BY <1>12, SurroundingsStep
<1>13. QED
  BY <1>1, <1>2, <1>3, <1>4, <1>5, <1>6, <1>7, <1>8, <1>9, <1>10, <1>11, <1>12 DEF Next

\* The strengthened invariant holds in every state of every run.
THEOREM Invariance == Spec => []IInv
<1>1. QED BY InitIInv, StepIInv, PTL DEF Spec

\* Every variable stays in its range: in particular a phase is denied at most
\* MaxDeferrals times before it starts regardless.
THEOREM TypeCorrect == Spec => []TypeOK
<1>1. IInv => TypeOK BY DEF IInv
<1>2. QED BY <1>1, Invariance, PTL

\* This editor holds the writer lease from the start of a build until its publication has
\* returned, whichever start, collection or release fails.
THEOREM LeaseFollowsJob == Spec => []JobHoldsLease
<1>1. IInv => JobHoldsLease BY DEF IInv
<1>2. QED BY <1>1, Invariance, PTL

\* A queued phase is never left with nothing that leads to it.
THEOREM NothingStranded == Spec => []QueueHasADriver
<1>1. IInv => QueueHasADriver BY DEF IInv
<1>2. QED BY <1>1, Invariance, PTL

\* A protected request is not dropped before its build starts.
THEOREM PromiseKept == Spec => []PromiseStaysQueued
<1>1. IInv => PromiseStaysQueued BY DEF IInv
<1>2. QED BY <1>1, Invariance, PTL

\* A plain request is refused only while a protected deadline stands for the phase.
THEOREM RefusalJustified == Spec => []RefusalIsBacked
<1>1. IInv => RefusalIsBacked BY DEF IInv
<1>2. QED BY <1>1, Invariance, PTL

\* The gate admits nothing beside foreground work, whatever the sensor and the cap say.
LEMMA GateAdmits == ASSUME NEW ph, Admitted(ph) PROVE ~foreground
BY DEF Admitted, Allows, Reason

\* Both ways to start a build go through the gate.
THEOREM StartsAreAdmitted == Spec => NoStartInForeground
<1> DEFINE Gated == job = None /\ job' # None => ~foreground
<1>1. ASSUME [Next]_vars, job = None, job' # None PROVE ~foreground
  <2>1. job' = job \/ job' = None \/ Deadline \/ DrainStep
    BY <1>1, Zenon
    DEF Next, vars, PrepareDelivery, Refresh, Invalidate, Request, ClearCache, Fire, JobExits,
        Finalize, BatchTakes, BatchExits, BatchPublishes, BatchDrains, RivalTakes,
        RivalReleases, ForegroundBegins, ForegroundEnds
  <2>2. CASE Deadline
    <3>1. \E ph : Admitted(ph) \/ UNCHANGED job BY <2>2 DEF Deadline
    <3>2. QED BY <3>1, <1>1, GateAdmits
  <2>3. CASE DrainStep
    <3>1. \E ph : Admitted(ph) \/ UNCHANGED job BY <2>3 DEF DrainStep
    <3>2. QED BY <3>1, <1>1, GateAdmits
  <2>4. QED BY <2>1, <2>2, <2>3, <1>1
<1>2. [Next]_vars => [Gated]_vars BY <1>1
<1>3. QED BY <1>2, PTL DEF Spec, NoStartInForeground

\* What a plan may not do with a protected deadline.
Kept(p, q, ph) == p.timer[ph] = "protected" => q.timer[ph] # "plain"

\* A build that is refused, or given up before it starts, is armed again with the
\* protection it is handed; other phases keep their deadlines.
LEMMA BuildKeeps ==
  ASSUME NEW p, NEW passed, Backed(p, passed), NEW ph \in Phase, NEW protect \in BOOLEAN,
         \/ Denied(p, ph, protect) \/ Busy(p, ph) \/ Contended(p, ph, protect)
         \/ plan' = p \/ plan' = [p EXCEPT !.queue = @ \ {ph}]
         \/ RaisesBeforeJob(p, ph) \/ Starts(p, ph)
  PROVE /\ \A x \in Phase : Kept(p, plan', x)
        /\ \A x \in Phase \ {ph} : plan'.timer[x] = p.timer[x]
        /\ protect /\ p.timer[ph] = "none" => plan'.timer[ph] # "plain"
<1>1. p \in Plan BY DEF Backed
<1>2. ASSUME NEW strong \in SUBSET {ph}, plan' = Schedule(p, {ph}, strong),
             protect => ph \in strong
      PROVE /\ \A x \in Phase : Kept(p, plan', x)
            /\ \A x \in Phase \ {ph} : plan'.timer[x] = p.timer[x]
            /\ protect /\ p.timer[ph] = "none" => plan'.timer[ph] # "plain"
  BY <1>1, <1>2 DEF Backed, Kept, Schedule, MayRearm, Plan
<1>3. CASE Denied(p, ph, protect)
  <2>1. plan' = Schedule(p, {ph}, Only(ph, protect)) BY <1>3 DEF Denied
  <2>2. QED BY <2>1, <1>2 DEF Only
<1>4. CASE Contended(p, ph, protect)
  <2>1. plan' = Schedule(p, {ph}, Only(ph, protect \/ ph \in p.protected))
    BY <1>4 DEF Contended
  <2>2. QED BY <2>1, <1>2 DEF Only
<1>5. CASE Busy(p, ph) \/ plan' = p \/ plan' = [p EXCEPT !.queue = @ \ {ph}]
  <2>1. plan'.timer = p.timer BY <1>5, <1>1 DEF Busy, Plan
  <2>2. QED BY <2>1 DEF Kept
<1>6. CASE plan' = Consume(p, ph)
  <2>1. plan'.timer = [p.timer EXCEPT ![ph] = "none"]
    BY <1>6, <1>1 DEF Consume, Unschedule, Plan
  <2>2. QED BY <2>1, <1>1 DEF Kept, Plan
<1>7. QED BY <1>3, <1>4, <1>5, <1>6 DEF RaisesBeforeJob, Starts

\* A protected deadline gives way to a plain one only when a callback of its phase, queued
\* before it was armed, runs.
THEOREM DeadlineStands == Spec => DeadlineNotPostponed
<1> DEFINE Stands == \A ph \in Phase :
             plan.timer[ph] = "protected" /\ plan.timer[ph]' = "plain" =>
               events # <<>> /\ Head(events) = Event("deadline", ph, FALSE)
<1>1. ASSUME IInv, Next PROVE Stands
  <2>0. Backed(plan, Passed) /\ plan \in Plan BY <1>1, PlanIsBacked DEF Backed
  <2>1. CASE \E asked \in SUBSET Phase, strong \in SUBSET Phase :
               strong \subseteq asked /\ Request(asked, strong)
    <3>1. PICK asked \in SUBSET Phase, strong \in SUBSET Phase :
            strong \subseteq asked /\ Request(asked, strong)
      BY <2>1
    <3>2. plan' = Schedule(plan, asked, strong) BY <3>1 DEF Request
    <3>3. Armed(plan, plan', asked, strong) BY <3>1, <3>2, <2>0, ScheduleBacked
    <3>4. QED BY <3>3 DEF Armed
  <2>2. CASE PrepareDelivery \/ Refresh \/ Invalidate
    <3>1. \E asked \in SUBSET Phase, strong \in SUBSET Phase :
            strong \subseteq asked /\ Request(asked, strong)
      BY <2>2 DEF PrepareDelivery, Refresh, Invalidate, Phase
    <3>2. QED BY <3>1, <2>1
  <2>3. CASE ClearCache
    <3>1. \A ph \in Phase : plan'.timer[ph] = "none" BY <2>3 DEF ClearCache, Empty
    <3>2. QED BY <3>1
  <2>4. CASE \E ph \in Phase : Fire(ph)
    <3>1. PICK ph \in Phase : plan' = [plan EXCEPT !.timer[ph] = "none"] BY <2>4 DEF Fire
    <3>2. QED BY <3>1, <2>0 DEF Plan
  <2>5. CASE Deadline
    <3>1. TypeOK /\ EndsAreDue /\ events # <<>> /\ events' = Tail(events)
          /\ Head(events).kind = "deadline"
      BY <2>5, <1>1 DEF Deadline, Run, IInv
    <3>2. Head(events) \in Events BY <3>1, RunsFirst
    <3>3. PICK ph \in Phase, protect \in BOOLEAN : Head(events) = Event("deadline", ph, protect)
      BY <3>1, <3>2 DEF Events, Event, Exit, BatchExit, BatchDrain
    <3>4. PICK p : p = Unschedule(plan, ph) OBVIOUS
    <3>5. Backed(p, Passed \ {ph}) BY <3>4, <2>0, UnscheduleBacked
    <3>6. /\ p.timer[ph] = "none"
          /\ \A x \in Phase \ {ph} : p.timer[x] = plan.timer[x]
      BY <3>4, <2>0 DEF Unschedule, Plan
    <3>7. Head(events).phase = ph /\ Head(events).protect = protect BY <3>3 DEF Event
    <3>8. \/ Denied(p, ph, protect) \/ Busy(p, ph) \/ Contended(p, ph, protect)
          \/ plan' = p \/ RaisesBeforeJob(p, ph) \/ Starts(p, ph)
      BY <2>5, <3>4, <3>7 DEF Deadline
    <3>9. /\ \A x \in Phase \ {ph} : plan'.timer[x] = p.timer[x]
          /\ protect => plan'.timer[ph] # "plain"
      BY <3>5, <3>6, <3>8, BuildKeeps
    <3>10. QED BY <3>1, <3>3, <3>6, <3>9
  <2>6. CASE DrainStep
    <3>1. plan' = plan \/ plan.queue # {} BY <2>6 DEF DrainStep
    <3>2. CASE plan' = plan BY <3>2
    <3>3. CASE plan' # plan
      <4>1. PICK ph : ph = Picked OBVIOUS
      <4>2. plan.queue # {} /\ plan.queue \subseteq Phase BY <3>1, <3>3, <2>0 DEF Plan
      <4>3. \E x \in plan.queue : \/ x = "current"
                                  \/ x = "hot" /\ "current" \notin plan.queue
                                  \/ plan.queue = {"full"}
        BY <4>2 DEF Phase
      <4>4. ph \in Phase BY <4>1, <4>2, <4>3 DEF Picked
      <4>5. \/ Denied(plan, ph, FALSE) \/ Contended(plan, ph, FALSE)
            \/ plan' = [plan EXCEPT !.queue = @ \ {ph}]
            \/ RaisesBeforeJob(plan, ph) \/ Starts(plan, ph)
        BY <2>6, <3>3, <4>1 DEF DrainStep
      <4>6. \A x \in Phase : Kept(plan, plan', x) BY <4>4, <4>5, <2>0, BuildKeeps
      <4>7. QED BY <4>6 DEF Kept
    <3>4. QED BY <3>2, <3>3
  <2>7. CASE BatchPublishes
    <3>1. CASE UNCHANGED plan BY <3>1
    <3>2. CASE plan' = [Consume(Consume(plan, "current"), "hot")
                          EXCEPT !.queue = @ \cup {"current", "hot"}]
      <4>1. plan'.timer = [[plan.timer EXCEPT !["current"] = "none"] EXCEPT !["hot"] = "none"]
        BY <3>2, <2>0 DEF Consume, Unschedule, Plan, Phase
      <4>2. QED BY <4>1, <2>0 DEF Plan
    <3>3. QED BY <2>7, <3>1, <3>2 DEF BatchPublishes
  <2>8. CASE UNCHANGED plan BY <2>8
  <2>9. QED
    BY <1>1, <2>2, <2>3, <2>4, <2>5, <2>6, <2>7, <2>8
    DEF Next, JobExits, Finalize, BatchTakes, BatchExits, BatchDrains, RivalTakes,
        RivalReleases, ForegroundBegins, ForegroundEnds
<1>2. IInv /\ [Next]_vars => [Stands]_vars BY <1>1
<1>3. QED BY <1>2, Invariance, PTL DEF Spec, DeadlineNotPostponed
================================================================================
