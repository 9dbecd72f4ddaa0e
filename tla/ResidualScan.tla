---------------------------- MODULE ResidualScan ----------------------------
(***************************************************************************)
(* The bounded scan of residual pairs (src/tools/cdb_background_batch.py,  *)
(* --residual-strict-limit): session after session plans at most Limit     *)
(* pairs, resuming at the cursor of the previous plan file.  Pairs whose   *)
(* last worker reported a new batch come first, as hints; receipts decide. *)
(* Workers and collects may fail, the editor may quit, the plan file may   *)
(* be lost, and the files the receipts bind may change.                    *)
(***************************************************************************)
EXTENDS Naturals, FiniteSets, Sequences, SequencesExt

CONSTANTS Pairs,     \* number of residual pairs
          Limit,     \* residual_strict_limit
          Packable,  \* positions that strict packing keeps together
          Verdict,   \* [versions -> [positions -> "accepted", "rejected"]]
          MaxEdits, MaxFaults

VARIABLES bytes, edits, faults,
          receipts,  \* [positions -> what the pair's private store answers]
          catalog,   \* positions a collect has registered
          outputs,   \* positions whose last worker reported a new batch
          previous,  \* the plan file, or None
          session    \* the work of the current plan
vars == <<bytes, edits, faults, receipts, catalog, outputs, previous, session>>

Positions == 0..(Pairs - 1)
None == [kind |-> "none"]
Idle == [stage |-> "idle"]

Claimed == {p \in catalog : receipts[p] = "accepted"}
KnownRejected == {p \in catalog : receipts[p] = "rejected"}

Init == /\ bytes = 1 /\ edits = 0 /\ faults = 0
        /\ receipts = [p \in Positions |-> "none"]
        /\ catalog = {} /\ outputs = {} /\ previous = None /\ session = Idle

(* Saved files make every receipt stale; outputs and plans stay.            *)
Edit == /\ edits < MaxEdits /\ edits' = edits + 1
        /\ bytes' \in (DOMAIN Verdict) \ {bytes}
        /\ receipts' = [p \in Positions |-> "none"]
        /\ UNCHANGED <<faults, catalog, outputs, previous, session>>

Fault == faults < MaxFaults /\ faults' = faults + 1 /\ UNCHANGED <<bytes, edits>>

(* The editor quits, and starts again with the plan file it left.           *)
Quit == /\ session # Idle /\ Fault /\ session' = Idle
        /\ UNCHANGED <<receipts, catalog, outputs, previous>>

(* The plan file is gone or does not fit the database any more.             *)
Lose == /\ previous # None /\ Fault /\ previous' = None
        /\ session' = Idle
        /\ UNCHANGED <<receipts, catalog, outputs>>

\* Fault seed: every session scans from the start.
CursorReset == 0
(* _residual_schedule.                                                      *)
Cursor == IF previous = None THEN 0 ELSE previous.cursor
Pending == IF previous = None THEN <<>>
           ELSE SelectSeq(previous.groups, LAMBDA p : p \in outputs)

(* The scan: pending hints, then from the cursor round to it again; what is *)
(* claimed or known as rejected costs nothing.                              *)
Scan == LET round == [i \in 1..Pairs |-> (Cursor + i - 1) % Pairs]
        IN  Pending \o SelectSeq(round, LAMBDA p : p \notin ToSet(Pending))
Candidates == SelectSeq(Scan, LAMBDA p : p \notin Claimed \cup KnownRejected)
Checked == SubSeq(Candidates, 1, IF Limit < Len(Candidates) THEN Limit ELSE Len(Candidates))

(* A hint whose receipt is not current is consumed; a pair that its own     *)
(* store rejects is not proved again.                                       *)
Planned(p) == /\ p \in Packable /\ receipts[p] # "rejected"
              /\ p \in ToSet(Pending) => receipts[p] = "accepted"

NewPlan ==
    [kind |-> "plan", start |-> Cursor, checked |-> Checked,
     pending |-> Len(SelectSeq(Checked, LAMBDA p : p \in ToSet(Pending))),
     groups |-> SelectSeq(Checked, Planned),
     cursor |-> IF Checked = <<>> THEN Cursor
                ELSE (Checked[Len(Checked)] + 1) % Pairs]

(* _validate_residual_plan, which every reader of a plan applies.           *)
Validates(plan) ==
    LET far(i) == (plan.checked[i] + Pairs - plan.start) % Pairs IN
    /\ Len(plan.checked) <= Limit /\ plan.cursor \in Positions
    /\ \A i, j \in (plan.pending + 1)..Len(plan.checked) : i < j => far(i) <= far(j)
    /\ plan.groups = SelectSeq(plan.checked, LAMBDA p : p \in ToSet(plan.groups))
    /\ plan.cursor = IF plan.checked = <<>> THEN plan.start
                     ELSE (plan.checked[Len(plan.checked)] + 1) % Pairs

(* make_plan: outputs of the previous plan are collected before any worker. *)
Plan == /\ session = Idle /\ Validates(NewPlan)
        /\ previous' = NewPlan
        /\ LET hints == {p \in ToSet(NewPlan.groups) : p \in ToSet(Pending)} IN
           session' = [stage |-> IF hints = {} THEN "work" ELSE "hints",
                       todo |-> ToSet(NewPlan.groups), hints |-> hints,
                       done |-> hints, news |-> hints # {}]
        /\ UNCHANGED <<bytes, edits, faults, receipts, catalog, outputs>>

(* The pump passes over a hint; another pair has a worker, whose output says*)
(* whether the batch is new.  One that fails may leave its old output.      *)
Takes(p) == session.stage = "work" /\ p \in session.todo
Skip(p) == /\ Takes(p) /\ p \in session.hints
           /\ session' = [session EXCEPT !.todo = @ \ {p}]
           /\ UNCHANGED <<bytes, edits, faults, receipts, catalog, outputs, previous>>
Work(p) == /\ Takes(p) /\ p \notin session.hints
           /\ receipts' = [receipts EXCEPT ![p] = Verdict[bytes][p]]
           /\ outputs' = IF receipts[p] = "none" /\ Verdict[bytes][p] = "accepted"
                         THEN outputs \cup {p} ELSE outputs \ {p}
           /\ session' = [session EXCEPT !.todo = @ \ {p}, !.done = @ \cup {p}, !.news = TRUE]
           /\ UNCHANGED <<bytes, edits, faults, catalog, previous>>
WorkFail(p) == /\ Takes(p) /\ p \notin session.hints /\ Fault
               /\ session' = [session EXCEPT !.todo = @ \ {p}]
               /\ outputs' \in {outputs, outputs \ {p}}
               /\ UNCHANGED <<receipts, catalog, previous>>

(* Between workers, and at the end: a collect registers what its receipts   *)
(* admit, and a hint that fails there gets its worker if its turn is still  *)
(* to come.  A collect that fails is made again; the pump goes on meanwhile.*)
Collect == /\ session # Idle /\ session.news
           /\ LET valid == {p \in session.done : receipts[p] = "accepted"} IN
              /\ catalog' = catalog \cup valid
              /\ session' = [session EXCEPT !.stage = "work", !.news = FALSE, !.hints = @ \cap valid]
           /\ UNCHANGED <<bytes, edits, faults, receipts, outputs, previous>>
CollectFail == /\ session # Idle /\ session.news /\ Fault
               /\ session' = [session EXCEPT !.stage = "work"]
               /\ UNCHANGED <<receipts, catalog, outputs, previous>>
Finish == /\ session # Idle /\ session.stage = "work" /\ session.todo = {} /\ ~session.news
          /\ session' = Idle
          /\ UNCHANGED <<bytes, edits, faults, receipts, catalog, outputs, previous>>

Job == \/ Collect \/ CollectFail \/ Finish
       \/ \E p \in Positions : Skip(p) \/ Work(p) \/ WorkFail(p)
Next == Edit \/ Quit \/ Lose \/ Plan \/ Job
Spec == Init /\ [][Next]_vars /\ WF_vars(Plan) /\ WF_vars(Job)

-----------------------------------------------------------------------------
(* No pair starves: hints that jump the queue, cursors that jump with them, *)
(* sessions cut short, lost plans and failed collects keep no pair out of   *)
(* the scan for ever.                                                       *)
NoPairStarves == \A p \in Positions :
    []<>(p \in Claimed \cup KnownRejected \/ (previous # None /\ p \in ToSet(previous.checked)))
=============================================================================
