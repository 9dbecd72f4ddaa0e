-------------------------- MODULE HostAdmissionProofs --------------------------
(***************************************************************************)
(* The controls of HostAdmission for any number of them, of foreground     *)
(* tokens and of denials, and every race of a firing timer, a wake and a   *)
(* cancel: nobody is forgotten, nobody attempts twice, the last token      *)
(* wakes at once, and nothing starts beside foreground work.               *)
(***************************************************************************)
EXTENDS HostAdmission, FiniteSetTheorems, SequenceTheorems, TLAPS

ControlState == [submitted : BOOLEAN, pending : BOOLEAN, started : BOOLEAN, finished : BOOLEAN,
             cancelled : BOOLEAN, deferrals : 0..MaxDeferrals, generation : Generation]
Callback == [generation : Generation, by : {"timer", "wake"}]

(* How a control waits: for its timer, for the timer's callback, or, woken,  *)
(* for the wake's, with at most one callback that came too late before it.   *)
Armed(c) == timer[c] = ctl[c].generation /\ ctl[c].pending /\ queue[c] = <<>>
Fired(c) == /\ timer[c] = None /\ ctl[c].pending
            /\ Len(queue[c]) = 1 /\ queue[c][1].generation = ctl[c].generation
Awake(c) == /\ timer[c] = None /\ ~ctl[c].pending
            /\ \/ Len(queue[c]) = 1 /\ queue[c][1].generation = ctl[c].generation
               \/ /\ Len(queue[c]) = 2 /\ queue[c][2].generation = ctl[c].generation
                  /\ queue[c][1].generation # ctl[c].generation
Shape(c) ==
  /\ ~ctl[c].submitted => /\ ~ctl[c].started /\ ~ctl[c].finished /\ ~ctl[c].cancelled
                          /\ queue[c] = <<>>
  /\ Waiting(c) => Armed(c) \/ Fired(c) \/ Awake(c)
  /\ ~Waiting(c) => timer[c] = None /\ Len(queue[c]) <= 2

IInv == TypeOK /\ \A c \in Control : Shape(c)

(* A control has two callbacks on the queue at most.                         *)
LEMMA QueueShort ==
  ASSUME TypeOK, NEW c \in Control, Shape(c)
  PROVE  Len(queue[c]) <= 2 /\ timer[c] \in {None, ctl[c].generation}
<1>1. queue[c] \in Seq(Callback) /\ Len(<<>>) = 0
  BY DEF TypeOK, Callback
<1>2. CASE Waiting(c) /\ Armed(c)
  BY <1>1, <1>2 DEF Armed
<1>3. CASE Waiting(c) /\ Fired(c)
  BY <1>1, <1>3 DEF Fired
<1>4. CASE Waiting(c) /\ Awake(c)
  <2>1. timer[c] = None
    BY <1>4 DEF Awake
  <2>2. CASE Len(queue[c]) = 1
    BY <2>1, <2>2
  <2>3. CASE Len(queue[c]) = 2
    BY <2>1, <2>3
  <2>. QED BY <1>4, <2>2, <2>3 DEF Awake
<1>. QED BY <1>2, <1>3, <1>4 DEF Shape

(* Two callbacks refer to two generations.                                  *)
LEMMA AtMostTwo ==
  ASSUME NEW q \in Seq(Callback), Len(q) <= 2
  PROVE  \E a, b \in Generation : \A i \in DOMAIN q : q[i].generation \in {a, b}
<1>1. DOMAIN q = 1..Len(q) /\ Len(q) \in Nat /\ \A i \in 1..Len(q) : q[i] \in Callback
  OBVIOUS
<1>2. \A i \in 1..Len(q) : q[i].generation \in Generation
  BY <1>1 DEF Callback
<1>3. CASE Len(q) = 0
  BY <1>1, <1>3, EnoughGenerations
<1>4. CASE Len(q) = 1
  BY <1>1, <1>2, <1>4
<1>5. CASE Len(q) = 2
  BY <1>1, <1>2, <1>5
<1>. QED BY <1>1, <1>3, <1>4, <1>5

(* What a control refers to leaves a number for its next generation.         *)
LEMMA NextIsFresh ==
  ASSUME IInv, NEW c \in Control
  PROVE  /\ NextGeneration(c) \in Generation
         /\ NextGeneration(c) # ctl[c].generation
         /\ NextGeneration(c) # timer[c]
         /\ \A i \in DOMAIN queue[c] : queue[c][i].generation # NextGeneration(c)
<1> DEFINE Free(g) == /\ g # ctl[c].generation /\ g # timer[c]
                      /\ \A i \in DOMAIN queue[c] : queue[c][i].generation # g
<1>1. ctl[c].generation \in Generation /\ timer[c] \in {None, ctl[c].generation}
      /\ queue[c] \in Seq(Callback) /\ Len(queue[c]) <= 2
  BY QueueShort DEF IInv, TypeOK, Callback
<1>2. PICK a, b \in Generation : \A i \in DOMAIN queue[c] : queue[c][i].generation \in {a, b}
  BY <1>1, AtMostTwo
<1>3. PICK g \in Generation : g \notin {a, b, ctl[c].generation}
  BY <1>1, EnoughGenerations
<1>4. Free(g)
  BY <1>1, <1>2, <1>3, NoneIsNot
<1>5. NextGeneration(c) \in Generation /\ Free(NextGeneration(c))
  BY <1>4 DEF NextGeneration
<1>. QED BY <1>5

(* A control of which nothing changes keeps its shape.                       *)
LEMMA Frame ==
  ASSUME NEW c \in Control, Shape(c),
         ctl'[c] = ctl[c], timer'[c] = timer[c], queue'[c] = queue[c]
  PROVE  Shape(c)'
BY DEF Shape, Armed, Fired, Awake, Waiting

(* An attempt by a control with nothing else under way arms its timer, starts *)
(* the work unless foreground work is there, or ends in error.               *)
LEMMA AttemptSound ==
  ASSUME IInv, NEW c \in Control, NEW r \in ControlState, Attempt(c, r), queue'[c] = <<>>,
         r.submitted, ~r.started, ~r.finished, ~r.cancelled
  PROVE  /\ \E s \in ControlState : ctl' = [ctl EXCEPT ![c] = s]
         /\ \E t \in Generation \cup {None} : timer' = [timer EXCEPT ![c] = t]
         /\ Shape(c)'
         /\ ctl'[c].started => foreground = {}
<1> DEFINE next == NextGeneration(c)
<1>0. next \in Generation /\ MaxDeferrals \in Nat /\ ctl[c] \in ControlState
      /\ DOMAIN ctl = Control /\ DOMAIN timer = Control
  BY NextIsFresh, CapIsNatural DEF IInv, TypeOK, ControlState
<1>1. PICK reading \in Reading :
        LET reason == Reason(ForegroundActive, reading, r.deferrals) IN
        \/ /\ ~Allows(reason, r.deferrals)
           /\ ArmRetry(c, [r EXCEPT !.pending = TRUE, !.deferrals = @ + Counted(reason)])
        \/ /\ Allows(reason, r.deferrals)
           /\ \E failed \in BOOLEAN :
                ctl' = [ctl EXCEPT ![c] = [r EXCEPT !.pending = FALSE, !.started = TRUE,
                                                    !.finished = failed]]
           /\ timer' = [timer EXCEPT ![c] = None]
  BY DEF Attempt
<1> DEFINE reason == Reason(ForegroundActive, reading, r.deferrals)
<1>2. CASE ~Allows(reason, r.deferrals)
  <2> DEFINE d == [r EXCEPT !.pending = TRUE, !.deferrals = @ + Counted(reason)]
  <2>1. r.deferrals + Counted(reason) \in 0..MaxDeferrals
    BY <1>0, <1>2 DEF Reason, Allows, Counted, ControlState, Reading
  <2>2. d \in ControlState /\ d.pending /\ d.submitted /\ ~d.started /\ ~d.finished /\ ~d.cancelled
    BY <2>1 DEF ControlState
  <2>3. ArmRetry(c, d)
    BY <1>1, <1>2
  <2> HIDE DEF d
  <2>4. CASE /\ ctl' = [ctl EXCEPT ![c] = [d EXCEPT !.generation = next]]
             /\ timer' = [timer EXCEPT ![c] = next]
    <3>1. [d EXCEPT !.generation = next] \in ControlState
      BY <1>0, <2>2 DEF ControlState
    <3>2. ctl'[c] = [d EXCEPT !.generation = next] /\ timer'[c] = next
      BY <1>0, <2>4
    <3>3. ctl'[c].pending /\ ctl'[c].submitted /\ ctl'[c].generation = next /\ ~ctl'[c].started
          /\ ~ctl'[c].finished /\ ~ctl'[c].cancelled
      BY <2>2, <3>2 DEF ControlState
    <3>4. Shape(c)'
      BY <3>2, <3>3 DEF Shape, Armed, Waiting
    <3>. QED BY <1>0, <2>4, <3>1, <3>3, <3>4
  <2>5. CASE /\ ctl' = [ctl EXCEPT ![c] = [d EXCEPT !.finished = TRUE, !.pending = FALSE]]
             /\ timer' = [timer EXCEPT ![c] = None]
    <3>1. [d EXCEPT !.finished = TRUE, !.pending = FALSE] \in ControlState
      BY <2>2 DEF ControlState
    <3>2. ctl'[c] = [d EXCEPT !.finished = TRUE, !.pending = FALSE] /\ timer'[c] = None
      BY <1>0, <2>5
    <3>3. ctl'[c].submitted /\ ctl'[c].finished /\ ~ctl'[c].started
      BY <2>2, <3>2 DEF ControlState
    <3>4. Shape(c)'
      BY <3>2, <3>3 DEF Shape, Waiting
    <3>. QED BY <1>0, <2>5, <3>1, <3>3, <3>4
  <2>. QED BY <2>3, <2>4, <2>5 DEF ArmRetry
<1>3. CASE Allows(reason, r.deferrals)
  <2>1. PICK failed \in BOOLEAN :
          ctl' = [ctl EXCEPT ![c] = [r EXCEPT !.pending = FALSE, !.started = TRUE, !.finished = failed]]
    BY <1>1, <1>3
  <2> DEFINE s == [r EXCEPT !.pending = FALSE, !.started = TRUE, !.finished = failed]
  <2>2. s \in ControlState /\ s.started /\ s.submitted
    BY DEF ControlState
  <2>3. ctl'[c] = s /\ timer' = [timer EXCEPT ![c] = None] /\ timer'[c] = None
    BY <1>0, <1>1, <1>3, <2>1
  <2>4. foreground = {}
    BY <1>3 DEF Reason, Allows, ForegroundActive
  <2>5. Shape(c)'
    BY <2>2, <2>3 DEF Shape, Waiting
  <2>. QED BY <2>1, <2>2, <2>3, <2>4, <2>5
<1>. QED BY <1>1, <1>2, <1>3

LEMMA InitOK == Init => IInv
<1> SUFFICES ASSUME Init PROVE IInv
  OBVIOUS
<1>1. New \in ControlState /\ ~New.submitted /\ ~New.started /\ ~New.finished /\ ~New.cancelled
  BY EnoughGenerations, CapIsNatural DEF New, ControlState
<1>2. <<>> \in Seq(Callback) /\ Len(<<>>) <= 2
  OBVIOUS
<1>3. TypeOK
  BY <1>1, <1>2 DEF Init, TypeOK, ControlState, Callback
<1>4. \A c \in Control : Shape(c)
  BY <1>1, <1>2 DEF Init, Shape, Waiting
<1>. QED BY <1>3, <1>4 DEF IInv

(* A step that changes one control only.                                     *)
LEMMA OneChanges ==
  ASSUME IInv, NEW c \in Control,
         NEW s \in ControlState, ctl' = [ctl EXCEPT ![c] = s],
         NEW t \in Generation \cup {None}, timer' = [timer EXCEPT ![c] = t],
         NEW q \in Seq(Callback), queue' = [queue EXCEPT ![c] = q],
         Shape(c)', foreground' \subseteq Token
  PROVE  IInv'
<1>1. TypeOK'
  BY DEF IInv, TypeOK, ControlState, Callback
<1>2. ASSUME NEW d \in Control, d # c PROVE Shape(d)'
  <2>1. ctl'[d] = ctl[d] /\ timer'[d] = timer[d] /\ queue'[d] = queue[d]
    BY <1>2 DEF IInv, TypeOK
  <2>2. Shape(d)
    BY DEF IInv
  <2>. QED BY <2>1, <2>2, Frame
<1>. QED BY <1>1, <1>2 DEF IInv

LEMMA SubmitOK ==
  ASSUME IInv, NEW c \in Control, Submit(c)
  PROVE  IInv' /\ (ctl'[c].started => foreground = {}) /\ ~ctl[c].cancelled
<1> DEFINE r == [ctl[c] EXCEPT !.submitted = TRUE]
<1>1. TypeOK /\ Shape(c) /\ ctl[c] \in ControlState /\ queue[c] = <<>> /\ queue' = queue
  BY DEF IInv, TypeOK, ControlState, Submit, Shape
<1>2. r \in ControlState /\ r.submitted /\ ~r.started /\ ~r.finished /\ ~r.cancelled
  BY <1>1 DEF ControlState, Submit, Shape
<1>3. Attempt(c, r) /\ queue'[c] = <<>>
  BY <1>1 DEF Submit
<1> HIDE DEF r
<1>4. /\ \E s \in ControlState : ctl' = [ctl EXCEPT ![c] = s]
      /\ \E t \in Generation \cup {None} : timer' = [timer EXCEPT ![c] = t]
      /\ Shape(c)' /\ (ctl'[c].started => foreground = {})
  BY <1>2, <1>3, AttemptSound
<1>5. queue' = [queue EXCEPT ![c] = <<>>] /\ <<>> \in Seq(Callback) /\ foreground' \subseteq Token
  BY <1>1 DEF TypeOK, Submit
<1>6. IInv'
  BY <1>4, <1>5, OneChanges
<1>. QED BY <1>1, <1>4, <1>6 DEF Submit, Shape

LEMMA FireOK == ASSUME IInv, NEW c \in Control, Fire(c) PROVE IInv'
<1> DEFINE e == [generation |-> timer[c], by |-> "timer"]
<1>1. TypeOK /\ Shape(c) /\ ctl[c] \in ControlState /\ ctl' = ctl /\ timer[c] \in Generation
  BY DEF IInv, TypeOK, ControlState, Fire
<1>2. Waiting(c) /\ Armed(c)
  BY <1>1 DEF Fire, Shape, Fired, Awake
<1>3. e \in Callback /\ <<e>> \in Seq(Callback) /\ Append(<<>>, e) = <<e>> /\ Len(<<e>>) = 1 /\ <<e>>[1] = e
  BY <1>1 DEF Callback
<1>4. queue' = [queue EXCEPT ![c] = <<e>>] /\ queue'[c] = <<e>> /\ timer'[c] = None
  BY <1>1, <1>2, <1>3 DEF Fire, Armed, TypeOK
<1>5. Fired(c)' /\ Waiting(c)' /\ ctl'[c].submitted
  BY <1>1, <1>2, <1>3, <1>4 DEF Armed, Fired, Waiting
<1>6. Shape(c)'
  BY <1>5 DEF Shape
<1>7. ctl' = [ctl EXCEPT ![c] = ctl[c]] /\ timer' = [timer EXCEPT ![c] = None]
  BY <1>1 DEF Fire, TypeOK
<1>8. foreground' \subseteq Token
  BY <1>1 DEF Fire, TypeOK
<1>. QED BY <1>1, <1>3, <1>4, <1>6, <1>7, <1>8, OneChanges

LEMMA RunCallbackOK ==
  ASSUME IInv, NEW c \in Control, RunCallback(c)
  PROVE  IInv' /\ (ctl'[c].started => ctl[c].started \/ (foreground = {} /\ ~ctl[c].cancelled))
<1>1. TypeOK /\ Shape(c) /\ ctl[c] \in ControlState /\ queue[c] \in Seq(Callback) /\ queue[c] # <<>>
      /\ foreground' \subseteq Token
  BY DEF IInv, TypeOK, ControlState, Callback, RunCallback
<1>2. /\ queue' = [queue EXCEPT ![c] = Tail(queue[c])] /\ queue'[c] = Tail(queue[c])
      /\ Tail(queue[c]) \in Seq(Callback) /\ Len(Tail(queue[c])) = Len(queue[c]) - 1
      /\ Head(queue[c]) = queue[c][1]
      /\ Len(queue[c]) \in Nat \ {0}
  BY <1>1 DEF RunCallback, TypeOK
<1>3. CASE Head(queue[c]).generation = ctl[c].generation /\ Waiting(c)
  <2> DEFINE r == [ctl[c] EXCEPT !.pending = @ /\ Head(queue[c]).by # "timer"]
  <2>1. Len(queue[c]) = 1
    BY <1>1, <1>2, <1>3 DEF Shape, Armed, Fired, Awake
  <2>2. Tail(queue[c]) = <<>>
    <3>1. Len(Tail(queue[c])) = 0
      BY <1>2, <2>1
    <3>. QED BY <1>2, <3>1, EmptySeq
  <2>3. r \in ControlState /\ r.submitted /\ ~r.started /\ ~r.finished /\ ~r.cancelled
    BY <1>1, <1>3 DEF ControlState, Waiting
  <2>4. Attempt(c, r) /\ queue'[c] = <<>>
    BY <1>2, <1>3, <2>2 DEF RunCallback
  <2> HIDE DEF r
  <2>5. /\ \E s \in ControlState : ctl' = [ctl EXCEPT ![c] = s]
        /\ \E t \in Generation \cup {None} : timer' = [timer EXCEPT ![c] = t]
        /\ Shape(c)' /\ (ctl'[c].started => foreground = {})
    BY <2>3, <2>4, AttemptSound
  <2>6. IInv'
    BY <1>1, <1>2, <2>5, OneChanges
  <2>. QED BY <1>3, <2>5, <2>6 DEF Waiting
<1>4. CASE ~(Head(queue[c]).generation = ctl[c].generation /\ Waiting(c))
  <2>1. ctl' = ctl /\ timer' = timer
    BY <1>4 DEF RunCallback
  <2>2. ctl' = [ctl EXCEPT ![c] = ctl[c]] /\ timer' = [timer EXCEPT ![c] = timer[c]]
        /\ timer[c] \in Generation \cup {None}
    BY <1>1, <2>1 DEF TypeOK
  <2>3. CASE Waiting(c)
    <3>1. queue[c][1].generation # ctl[c].generation
      BY <1>2, <1>4, <2>3
    <3>2. Awake(c) /\ Len(queue[c]) = 2
      BY <1>1, <2>3, <3>1 DEF Shape, Armed, Fired, Awake
    <3>3. Len(Tail(queue[c])) = 1 /\ Tail(queue[c])[1] = queue[c][2]
      BY <1>1, <1>2, <3>2
    <3>4. Awake(c)' /\ Waiting(c)' /\ ctl'[c].submitted
      BY <1>2, <2>1, <2>3, <3>1, <3>2, <3>3 DEF Awake, Waiting
    <3>5. Shape(c)'
      BY <3>4 DEF Shape
    <3>. QED BY <1>1, <1>2, <2>1, <2>2, <3>5, OneChanges
  <2>4. CASE ~Waiting(c)
    <3>1. ~Waiting(c)' /\ timer'[c] = None /\ Len(queue'[c]) <= 2 /\ ctl'[c].submitted
      BY <1>1, <1>2, <2>1, <2>4 DEF Shape, Waiting
    <3>2. Shape(c)'
      BY <3>1 DEF Shape
    <3>. QED BY <1>1, <1>2, <2>1, <2>2, <3>2, OneChanges
  <2>. QED BY <2>3, <2>4
<1>. QED BY <1>3, <1>4

LEMMA CancelOK == ASSUME IInv, NEW c \in Control, Cancel(c) PROVE IInv' /\ ctl'[c].started = ctl[c].started
<1>1. TypeOK /\ Shape(c) /\ ctl[c] \in ControlState /\ queue[c] \in Seq(Callback) /\ foreground' \subseteq Token
      /\ NextGeneration(c) \in Generation
  BY NextIsFresh DEF IInv, TypeOK, ControlState, Callback, Cancel
<1> DEFINE s == [ctl[c] EXCEPT !.cancelled = TRUE, !.pending = FALSE, !.generation = NextGeneration(c)]
<1>2. s \in ControlState /\ s.cancelled /\ s.submitted /\ s.started = ctl[c].started
  BY <1>1 DEF ControlState, Cancel
<1>3. ctl' = [ctl EXCEPT ![c] = s] /\ ctl'[c] = s
      /\ timer' = [timer EXCEPT ![c] = None] /\ timer'[c] = None
      /\ queue' = [queue EXCEPT ![c] = queue[c]] /\ queue'[c] = queue[c]
  BY <1>1 DEF Cancel, TypeOK, ControlState
<1>4. Len(queue[c]) <= 2
  BY <1>1, QueueShort
<1> HIDE DEF s
<1>5. Shape(c)'
  BY <1>2, <1>3, <1>4 DEF Shape, Waiting
<1>6. IInv'
  BY <1>1, <1>2, <1>3, <1>5, OneChanges
<1>. QED BY <1>2, <1>3, <1>6

(* The last token wakes what is pending; another one changes no control.     *)
LEMMA ForegroundDoneOK ==
  ASSUME IInv, NEW token \in Token, ForegroundDone(token)
  PROVE  /\ IInv'
         /\ \A c \in Control : ctl'[c].started = ctl[c].started
         /\ foreground' = {} => \A c \in Control : Waiting(c) => Awake(c)'
<1> DEFINE woken == IF foreground = {token} THEN {c \in Control : Woken(c)} ELSE {}
<1>1. /\ ctl' = [c \in Control |->
             IF c \in woken THEN [ctl[c] EXCEPT !.pending = FALSE, !.generation = NextGeneration(c)]
             ELSE ctl[c]]
      /\ timer' = [c \in Control |-> IF c \in woken THEN None ELSE timer[c]]
      /\ queue' = [c \in Control |->
             IF c \in woken THEN Append(queue[c], [generation |-> NextGeneration(c), by |-> "wake"])
             ELSE queue[c]]
      /\ foreground' = foreground \ {token} /\ token \in foreground
  BY DEF ForegroundDone
<1>2. TypeOK /\ \A c \in Control : /\ Shape(c) /\ ctl[c] \in ControlState /\ queue[c] \in Seq(Callback)
                                   /\ timer[c] \in Generation \cup {None}
  BY DEF IInv, TypeOK, ControlState, Callback
<1>3. ASSUME NEW c \in Control
      PROVE  /\ ctl'[c] \in ControlState /\ timer'[c] \in Generation \cup {None} /\ queue'[c] \in Seq(Callback)
             /\ Shape(c)' /\ ctl'[c].started = ctl[c].started
             /\ foreground' = {} => (Waiting(c) => Awake(c)')
  <2>1. CASE c \in woken
    <3> DEFINE next == NextGeneration(c)
               e == [generation |-> next, by |-> "wake"]
    <3>1. /\ next \in Generation /\ next # ctl[c].generation /\ next # timer[c]
          /\ \A j \in DOMAIN queue[c] : queue[c][j].generation # next
      BY NextIsFresh
    <3>2. Waiting(c) /\ ctl[c].pending
      BY <2>1 DEF Woken
    <3>3. /\ ctl'[c] = [ctl[c] EXCEPT !.pending = FALSE, !.generation = next]
          /\ timer'[c] = None /\ queue'[c] = Append(queue[c], e)
      BY <1>1, <2>1
    <3> HIDE DEF next, woken
    <3>4. /\ ctl'[c] \in ControlState /\ ~ctl'[c].pending /\ ctl'[c].generation = next /\ ctl'[c].submitted
          /\ ~ctl'[c].started /\ ~ctl'[c].finished /\ ~ctl'[c].cancelled
      BY <1>2, <3>1, <3>2, <3>3 DEF ControlState, Waiting
    <3>5. e \in Callback
      BY <3>1 DEF Callback
    <3>6. /\ queue'[c] \in Seq(Callback) /\ Len(queue'[c]) = Len(queue[c]) + 1
          /\ queue'[c][Len(queue[c]) + 1] = e
          /\ \A j \in 1..Len(queue[c]) : queue'[c][j] = queue[c][j]
      BY <1>2, <3>3, <3>5
    <3>7. ASSUME Armed(c) PROVE Awake(c)'
      <4>1. Len(queue[c]) = 0
        BY <3>7, EmptySeq DEF Armed
      <4>. QED BY <3>3, <3>4, <3>6, <4>1 DEF Awake
    <3>8. ASSUME Fired(c) PROVE Awake(c)'
      <4>1. Len(queue[c]) = 1 /\ 1 \in DOMAIN queue[c]
        BY <1>2, <3>8 DEF Fired
      <4>. QED BY <3>1, <3>3, <3>4, <3>6, <4>1 DEF Awake
    <3>9. Awake(c)'
      BY <1>2, <3>2, <3>7, <3>8 DEF Shape, Awake
    <3>10. Waiting(c)' /\ Shape(c)'
      BY <3>4, <3>9 DEF Waiting, Shape
    <3>. QED BY <3>2, <3>3, <3>4, <3>6, <3>9, <3>10 DEF Waiting
  <2>2. CASE c \notin woken
    <3>1. ctl'[c] = ctl[c] /\ timer'[c] = timer[c] /\ queue'[c] = queue[c]
      BY <1>1, <2>2
    <3>2. Shape(c)'
      BY <1>2, <3>1, Frame
    <3>3. ASSUME foreground' = {}, Waiting(c) PROVE Awake(c)'
      <4>1. ~ctl[c].pending
        BY <1>1, <2>2, <3>3 DEF Woken
      <4>2. Awake(c)
        BY <1>2, <3>3, <4>1 DEF Shape, Armed, Fired
      <4>. QED BY <3>1, <4>2 DEF Awake
    <3>. QED BY <1>2, <3>1, <3>2, <3>3
  <2>. QED BY <2>1, <2>2
<1>4. TypeOK'
  BY <1>1, <1>2, <1>3 DEF TypeOK, ControlState, Callback
<1>. QED BY <1>3, <1>4 DEF IInv

(* Every step, and what it may start.                                        *)
LEMMA StepOK ==
  ASSUME IInv, [Next]_vars
  PROVE  IInv' /\ \A c \in Control : ~ctl[c].started /\ ctl'[c].started =>
                                        foreground = {} /\ ~ctl[c].cancelled
<1>1. TypeOK
  BY DEF IInv
<1>2. ASSUME NEW c \in Control, NEW s, ctl' = [ctl EXCEPT ![c] = s]
      PROVE  \A d \in Control : d # c => ctl'[d] = ctl[d]
  BY <1>1, <1>2 DEF TypeOK
<1>3. ASSUME NEW c \in Control, Submit(c) \/ RunCallback(c)
      PROVE  \/ ctl' = ctl
             \/ \E s : ctl' = [ctl EXCEPT ![c] = s]
  BY <1>3 DEF Submit, RunCallback, Attempt, ArmRetry
<1>4. CASE \E c \in Control : Submit(c)
  BY <1>2, <1>3, <1>4, SubmitOK
<1>5. CASE \E c \in Control : Fire(c)
  BY <1>5, FireOK DEF Fire
<1>6. CASE \E c \in Control : RunCallback(c)
  BY <1>2, <1>3, <1>6, RunCallbackOK
<1>7. CASE \E c \in Control : Cancel(c)
  <2>1. PICK c \in Control : Cancel(c)
    BY <1>7
  <2>2. \A d \in Control : d # c => ctl'[d] = ctl[d]
    BY <1>1, <2>1 DEF TypeOK, Cancel
  <2>. QED BY <2>1, <2>2, CancelOK
<1>8. CASE \E token \in Token : ForegroundBegin(token)
  <2>1. UNCHANGED <<ctl, timer, queue>> /\ foreground' \subseteq Token
    BY <1>1, <1>8 DEF ForegroundBegin, TypeOK
  <2>2. TypeOK'
    BY <1>1, <2>1 DEF TypeOK
  <2>3. \A c \in Control : Shape(c)'
    BY <2>1, Frame DEF IInv
  <2>. QED BY <2>1, <2>2, <2>3 DEF IInv
<1>9. CASE \E token \in Token : ForegroundDone(token)
  BY <1>9, ForegroundDoneOK
<1>10. CASE UNCHANGED vars
  <2>1. TypeOK'
    BY <1>1, <1>10 DEF TypeOK, vars
  <2>2. \A c \in Control : Shape(c)'
    BY <1>10, Frame DEF IInv, vars
  <2>. QED BY <1>10, <2>1, <2>2 DEF IInv, vars
<1>. QED BY <1>4, <1>5, <1>6, <1>7, <1>8, <1>9, <1>10 DEF Next

(* The callback a control waits for is the last on the queue, and the only   *)
(* one of its generation.                                                    *)
LEMMA LastIsCurrent ==
  ASSUME NEW q \in Seq(Callback), NEW g,
         \/ Len(q) = 1 /\ q[1].generation = g
         \/ Len(q) = 2 /\ q[2].generation = g /\ q[1].generation # g
  PROVE  {j \in DOMAIN q : q[j].generation = g} = {Len(q)}
<1>1. DOMAIN q = 1..Len(q)
  OBVIOUS
<1>2. CASE Len(q) = 1
  BY <1>1, <1>2
<1>3. CASE Len(q) = 2
  BY <1>1, <1>3
<1>. QED BY <1>2, <1>3

LEMMA OneEach == IInv => OneCallbackEach
<1> SUFFICES ASSUME IInv, NEW c \in Control
             PROVE  /\ Waiting(c) => \/ timer[c] = ctl[c].generation /\ Current(c) = {}
                                     \/ timer[c] = None /\ Cardinality(Current(c)) = 1
                    /\ ~Waiting(c) => timer[c] = None
  BY DEF OneCallbackEach
<1>1. Shape(c) /\ queue[c] \in Seq(Callback)
  BY DEF IInv, TypeOK, Callback
<1>2. CASE Armed(c)
  BY <1>1, <1>2 DEF Armed, Current, Shape
<1>3. CASE Fired(c) \/ Awake(c)
  <2>1. Current(c) = {Len(queue[c])}
    BY <1>1, <1>3, LastIsCurrent DEF Fired, Awake, Current
  <2>2. timer[c] = None
    BY <1>3 DEF Fired, Awake
  <2>. QED BY <2>1, <2>2, FS_Singleton
<1>. QED BY <1>1, <1>2, <1>3 DEF Shape

--------------------------------------------------------------------------------
(* The types, and how each control waits, in every reachable state.          *)
THEOREM Waits == Spec => []IInv
<1>1. IInv /\ [Next]_vars => IInv'
  BY StepOK
<1>. QED BY InitOK, <1>1, PTL DEF Spec

(* The fields of controls, timers and callbacks keep their types; in         *)
(* particular no denial is counted beyond the cap.                           *)
THEOREM TypeCorrect == Spec => []TypeOK
<1>1. IInv => TypeOK
  BY DEF IInv
<1>. QED BY Waits, <1>1, PTL

(* Nobody is forgotten and nobody attempts twice (wake, arm_retry,           *)
(* close_timer).                                                             *)
THEOREM OneAttemptEach == Spec => []OneCallbackEach
BY Waits, OneEach, PTL

(* The release of the last token queues an attempt of everything that waits  *)
(* (foreground_done).                                                        *)
THEOREM WokenAtOnce == Spec => PromptWake
<1>1. ASSUME IInv, [Next]_vars, foreground # {} /\ foreground' = {}, NEW c \in Control, Waiting(c)
      PROVE  Current(c)' # {}
  <2>1. PICK token \in Token : ForegroundDone(token)
    BY <1>1, CapIsNatural DEF Next, vars, Submit, Fire, RunCallback, Cancel, ForegroundBegin
  <2>2. IInv' /\ Awake(c)'
    BY <1>1, <2>1, ForegroundDoneOK
  <2>3. queue'[c] \in Seq(Callback)
    BY <2>2 DEF IInv, TypeOK, Callback
  <2>4. {j \in DOMAIN queue'[c] : queue'[c][j].generation = ctl'[c].generation} = {Len(queue'[c])}
    BY <2>2, <2>3, LastIsCurrent DEF Awake
  <2>. QED BY <2>4 DEF Current
<1>2. IInv /\ [Next]_vars => [foreground # {} /\ foreground' = {} =>
         \A c \in Control : Waiting(c) => Current(c)' # {}]_vars
  BY <1>1
<1>. QED BY Waits, <1>2, PTL DEF Spec, PromptWake

(* No control starts once it is cancelled, nor beside foreground work, cap   *)
(* and switched-off sensor included (lines 87-91, 297).                      *)
THEOREM StartsAlone == Spec => NoStartBehindForeground
<1>1. IInv /\ [Next]_vars => [\A c \in Control : ~ctl[c].started /\ ctl'[c].started =>
         foreground = {} /\ ~ctl[c].cancelled]_vars
  BY StepOK
<1>. QED BY Waits, <1>1, PTL DEF Spec, NoStartBehindForeground
================================================================================
