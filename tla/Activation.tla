------------------------------ MODULE Activation ------------------------------
(***************************************************************************)
(* The startup activation of a published batch database: a Lua session     *)
(* (lua/ue/index/batch_runtime.lua, batch_guard.lua) has a Python helper   *)
(* describe the publication, arms watches on everything it rests on, has a *)
(* second helper validate it (src/tools/clangd_batch_activation.py), and   *)
(* only then starts clangd on the frozen database.  An input that changes  *)
(* takes the authority back, and the answers of running requests with it.  *)
(*                                                                         *)
(* Abstracted: a file is its version; a certificate is the versions of all *)
(* files the receipts bind; an entry of the frozen database is the set of  *)
(* original commands it stands for.  Server options, environments and the  *)
(* probing of the watch backend are one outcome, a fault.  A cooldown may  *)
(* be over at any time.                                                    *)
(***************************************************************************)
EXTENDS Naturals, FiniteSets, Sequences, SequencesExt

CONSTANTS Dependencies,  \* files the receipts bind
          Products,      \* frozen and original database, receipts
          Active,        \* the product that names the generation
          Document,      \* the dependency open in a buffer
          Commands,      \* of the original database
          Frozen,        \* databases that may be published: sequences of sets of commands
          Clients, MaxAttempts, MaxEdits, MaxFaults

VARIABLES disk, edits, faults,
          info,      \* batches.json: a stamp, the certificate, the database
          dirty,     \* the document has unsaved changes
          latest,    \* the newest attempt, the session's record; 0 is none
          record,    \* [attempts -> what the session knows of it]
          helper,    \* [attempts -> its helper process]
          events,    \* [attempts -> changes its watches have not reported yet]
          client,    \* [Clients -> the language server of a root]
          answer     \* to the last protected request: the result, or that it is stale
environment == <<disk, edits, faults, info, dirty>>
vars == <<environment, latest, record, helper, events, client, answer>>

Files == Dependencies \cup Products
Attempts == 1..MaxAttempts
None == [kind |-> "none"]
Idle == [state |-> "idle"]
Unused == [phase |-> "unused"]

(* _coverage: every original command is in the frozen database once, as it  *)
(* is or as a member of a batch, and nothing else is.                       *)
Covers(entries) == /\ \A i, j \in DOMAIN entries : i # j => entries[i] \cap entries[j] = {}
                   /\ UNION ToSet(entries) = Commands /\ {} \notin ToSet(entries)

Init == /\ disk = [f \in Files |-> 0] /\ edits = 0 /\ faults = 0
        /\ info \in [stamp : {1}, cert : {disk}, frozen : {f \in Frozen : Covers(f)}]
        /\ dirty = FALSE
        /\ latest = 0 /\ record = [a \in Attempts |-> Unused]
        /\ helper = [a \in Attempts |-> None] /\ events = [a \in Attempts |-> {}]
        /\ client = [c \in Clients |-> Idle] /\ answer = "none"

-----------------------------------------------------------------------------
(* What an attempt may rely on.                                             *)
Failed(a) == record[a].phase = "failed"
Ready(a) == record[a].phase = "ready" /\ record[a].guard = "ready"
Current(a) == /\ latest = a /\ ~Failed(a) /\ info.stamp = record[a].stamp
              /\ disk[Active] = record[a].generation

Attached(a) == {c \in Clients : client[c].state = "attached" /\ client[c].attempt = a}

(* guard:invalidate takes the authority at once; cleanup and fallback run   *)
(* on the main loop.  An attempt that has no guard yet falls back at once.  *)
Guarded(r) == r.guard \in {"validating", "ready"}
Invalidated(r) == IF Guarded(r) THEN [r EXCEPT !.guard = "invalidated"] ELSE r
Rejected(r) == IF r.guard = "none" THEN [r EXCEPT !.phase = "failed"] ELSE Invalidated(r)
Invalidate(a) == record' = [record EXCEPT ![a] = Invalidated(@)]
Reject(a) == record' = [record EXCEPT ![a] = Rejected(@)]

-----------------------------------------------------------------------------
(* The world.  A change is an event for the watches that are armed.         *)
Watched(a, f) == record[a].phase # "unused" /\ Guarded(record[a]) /\ f \in record[a].armed
Noticed(f) == [a \in Attempts |-> events[a] \cup (IF Watched(a, f) THEN {f} ELSE {})]
Touch(f) == /\ edits < MaxEdits /\ edits' = edits + 1
            /\ disk' = [disk EXCEPT ![f] = @ + 1] /\ events' = Noticed(f)

Edit == /\ \E f \in Files : Touch(f)
        /\ UNCHANGED <<faults, info, dirty, latest, record, helper, client, answer>>

Publish ==
    /\ edits < MaxEdits /\ edits' = edits + 1 /\ events' = Noticed("info")
    /\ \E frozen \in Frozen :
          info' = [stamp |-> info.stamp + 1, cert |-> disk, frozen |-> frozen]
    /\ UNCHANGED <<disk, faults, dirty, latest, record, helper, client, answer>>

(* A buffer of an attached client invalidates when it changes or is saved.  *)
Heard == IF latest # 0 /\ Attached(latest) # {} THEN Invalidate(latest) ELSE UNCHANGED record
Modify == /\ ~dirty /\ dirty' = TRUE /\ Heard
          /\ UNCHANGED <<disk, edits, faults, info, latest, helper, events, client, answer>>
Save == /\ dirty /\ dirty' = FALSE /\ Touch(Document) /\ Heard
        /\ UNCHANGED <<faults, info, latest, helper, client, answer>>

Fault == faults < MaxFaults /\ faults' = faults + 1 /\ UNCHANGED <<disk, edits, info, dirty>>

-----------------------------------------------------------------------------
(* A root is opened: the record of this publication answers, or a new one   *)
(* begins; a failed one is tried again when its helpers are gone.           *)
Fresh(a) == [phase |-> "describing", guard |-> "none", stamp |-> info.stamp, cert |-> info.cert,
             frozen |-> info.frozen, generation |-> disk[Active], armed |-> {}]
Original == [state |-> "original"]
Launched(a) == IF ~dirty /\ Ready(a) THEN [state |-> "starting", attempt |-> a] ELSE Original

Known == latest # 0 /\ record[latest].stamp = info.stamp
Retry == Failed(latest) /\ helper[latest] = None /\ record[latest].generation = disk[Active]

OpenBlocked(c) ==
    /\ client[c] = Idle /\ dirty
    /\ IF latest = 0 THEN UNCHANGED record ELSE Reject(latest)
    /\ client' = [client EXCEPT ![c] = Original]
    /\ UNCHANGED <<environment, latest, helper, events, answer>>

OpenKnown(c) ==
    /\ client[c] = Idle /\ ~dirty /\ Known
    /\ IF record[latest].generation # disk[Active]
       THEN Reject(latest) /\ client' = [client EXCEPT ![c] = Original]
       ELSE /\ client' = [client EXCEPT ![c] =
                 IF Failed(latest) \/ Ready(latest) THEN Launched(latest) ELSE [state |-> "waiting", attempt |-> latest]]
            /\ UNCHANGED record
    /\ UNCHANGED <<environment, latest, helper, events, answer>>

OpenNew(c) ==
    /\ client[c] = Idle /\ ~dirty /\ latest < MaxAttempts
    /\ ~Known \/ (Known /\ Retry)
    /\ latest' = latest + 1
    /\ record' = [a \in Attempts |-> IF a = latest + 1 THEN Fresh(a)
                                     ELSE IF a = latest THEN Invalidated(record[a]) ELSE record[a]]
    /\ helper' = [helper EXCEPT ![latest + 1] = [kind |-> "describe"]]
    /\ client' = [client EXCEPT ![c] = [state |-> "waiting", attempt |-> latest + 1]]
    /\ UNCHANGED <<environment, events, answer>>

(* The description names what to watch; it grants nothing.                  *)
Described(a) ==
    /\ helper[a].kind = "describe"
    /\ helper' = [helper EXCEPT ![a] = None]
    /\ IF record[a].phase # "describing" THEN UNCHANGED record
       ELSE IF dirty \/ ~Current(a) THEN Reject(a)
       ELSE record' = [record EXCEPT ![a].phase = "probing"]
    /\ UNCHANGED <<environment, latest, events, client, answer>>

BeginWatching(a) ==
    /\ record[a].phase = "probing"
    /\ IF dirty \/ ~Current(a) THEN Reject(a)
       ELSE record' = [record EXCEPT ![a].phase = "validating", ![a].guard = "validating"]
    /\ UNCHANGED <<environment, latest, helper, events, client, answer>>

Inputs == Files \cup {"info"}
Arm(a) ==
    /\ record[a].phase = "validating" /\ record[a].guard = "validating"
    /\ \E f \in Inputs \ record[a].armed : record' = [record EXCEPT ![a].armed = @ \cup {f}]
    /\ UNCHANGED <<environment, latest, helper, events, client, answer>>

(* Every watch is armed: the helper reads the publication, then each file,  *)
(* then what the publication consists of once more.                         *)
\* Fault seed: the validation starts with the first watch.
ArmedOne(a) == record[a].armed # {}
Armed(a) == record[a].armed = Inputs
Verify(a) ==
    /\ record[a].phase = "validating" /\ record[a].guard = "validating" /\ helper[a] = None
    /\ Armed(a)
    /\ IF dirty THEN Invalidate(a) /\ UNCHANGED helper
       ELSE /\ helper' = [helper EXCEPT ![a] =
                 [kind |-> "validate", info |-> info, ok |-> Covers(info.frozen), left |-> Files]]
            /\ UNCHANGED record
    /\ UNCHANGED <<environment, latest, events, client, answer>>

Read(a) ==
    /\ helper[a].kind = "validate" /\ helper[a].left # {}
    /\ \E f \in helper[a].left : helper' = [helper EXCEPT ![a].left = @ \ {f},
          ![a].ok = @ /\ disk[f] = helper[a].info.cert[f]]
    /\ UNCHANGED <<environment, latest, record, events, client, answer>>

Recheck(a) ==
    /\ helper[a].kind = "validate" /\ helper[a].left = {}
    /\ helper' = [helper EXCEPT ![a] = [kind |-> "verdict", stamp |-> helper[a].info.stamp,
          ok |-> /\ helper[a].ok /\ info = helper[a].info
                 /\ \A f \in Products : disk[f] = helper[a].info.cert[f]]]
    /\ UNCHANGED <<environment, latest, record, events, client, answer>>

(* The verdict reaches the main loop.                                       *)
Certifies(a) == ~dirty /\ Current(a) /\ helper[a].ok /\ helper[a].stamp = record[a].stamp
Verdict(a) ==
    /\ helper[a].kind = "verdict"
    /\ helper' = [helper EXCEPT ![a] = None]
    /\ IF record[a].guard # "validating" THEN UNCHANGED record
       ELSE IF Certifies(a)
            THEN record' = [record EXCEPT ![a].phase = "ready", ![a].guard = "ready"]
            ELSE Invalidate(a)
    /\ UNCHANGED <<environment, latest, events, client, answer>>

HelperFails(a) ==
    /\ helper[a] # None /\ Fault
    /\ helper' = [helper EXCEPT ![a] = None]
    /\ IF Failed(a) THEN UNCHANGED record ELSE Reject(a)
    /\ UNCHANGED <<latest, events, client, answer>>

(* A watch reports; the guard has already let go when the main loop cleans  *)
(* up, restarts the clients of the record and lets the waiting roots go.    *)
Report(a) ==
    /\ record[a].phase # "unused" /\ Guarded(record[a]) /\ events[a] # {}
    /\ events' = [events EXCEPT ![a] = {}] /\ Invalidate(a)
    /\ UNCHANGED <<environment, latest, helper, client, answer>>

CleanUp(a) ==
    /\ record[a].phase \notin {"unused", "failed"} /\ record[a].guard = "invalidated"
    /\ record' = [record EXCEPT ![a].phase = "failed"]
    /\ events' = [events EXCEPT ![a] = {}]
    /\ client' = [c \in Clients |-> IF c \in Attached(a) THEN [state |-> "restart"] ELSE client[c]]
    /\ answer' = IF \E c \in Attached(a) : client[c].asked THEN "stale" ELSE answer
    /\ UNCHANGED <<environment, latest, helper>>

Abandon ==
    /\ latest # 0 /\ ~Failed(latest) /\ Attached(latest) = {} /\ Reject(latest)
    /\ UNCHANGED <<environment, latest, helper, events, client, answer>>

-----------------------------------------------------------------------------
(* The language servers.  A root that waited starts when its record is      *)
(* ready or has failed, on whichever database the newest record allows.     *)
Settled(a) == record[a].phase \in {"ready", "failed"}
Launch(c) ==
    /\ client[c].state = "waiting" /\ Settled(client[c].attempt)
    /\ client' = [client EXCEPT ![c] = Launched(latest)]
    /\ UNCHANGED <<environment, latest, record, helper, events, answer>>

(* A server started on the frozen database belongs to its attempt; when it  *)
(* is no longer the session's, or has lost its authority, it starts again.  *)
Attach(c) ==
    /\ client[c].state = "starting"
    /\ LET a == client[c].attempt
           stays == latest = a /\ Ready(a)
       IN  /\ client' = [client EXCEPT ![c] =
                IF stays THEN [state |-> "attached", attempt |-> a, asked |-> FALSE]
                ELSE [state |-> "restart"]]
           /\ IF stays /\ dirty THEN Invalidate(a) ELSE UNCHANGED record
    /\ UNCHANGED <<environment, latest, helper, events, answer>>

Exit(c) ==
    /\ client[c].state \in {"original", "restart", "attached"}
    /\ client' = [client EXCEPT ![c] = Idle]
    /\ UNCHANGED <<environment, latest, record, helper, events, answer>>

(* References and renames pass the guard twice: when they are sent, and     *)
(* when their answer comes.                                                 *)
Permits(c) == record[client[c].attempt].guard = "ready"
Ask(c) ==
    /\ client[c].state = "attached" /\ ~client[c].asked /\ Permits(c)
    /\ client' = [client EXCEPT ![c].asked = TRUE] /\ answer' = "none"
    /\ UNCHANGED <<environment, latest, record, helper, events>>
Answer(c) ==
    /\ client[c].state = "attached" /\ client[c].asked
    /\ client' = [client EXCEPT ![c].asked = FALSE]
    /\ answer' = IF Permits(c) THEN "result" ELSE "stale"
    /\ UNCHANGED <<environment, latest, record, helper, events>>

-----------------------------------------------------------------------------
Session(a) == \/ Described(a) \/ BeginWatching(a) \/ Arm(a) \/ Verify(a) \/ Read(a)
              \/ Recheck(a) \/ Verdict(a) \/ HelperFails(a) \/ Report(a) \/ CleanUp(a)
Server(c) == \/ OpenBlocked(c) \/ OpenKnown(c) \/ OpenNew(c) \/ Launch(c) \/ Attach(c)
             \/ Exit(c) \/ Ask(c) \/ Answer(c)
Next == \/ Edit \/ Publish \/ Modify \/ Save \/ Abandon
        \/ \E a \in Attempts : Session(a)
        \/ \E c \in Clients : Server(c)
Spec == Init /\ [][Next]_vars

-----------------------------------------------------------------------------
(* A result that reaches the user comes from a publication that covers each *)
(* original command once and whose every input still has the certified bytes,   *)
(* unless the change is so new that no watch has reported it; and from no   *)
(* server beside a document with unsaved changes.                           *)
Certified(a) ==
    /\ ~dirty
    /\ \A n \in Commands : Cardinality({i \in DOMAIN record[a].frozen : n \in record[a].frozen[i]}) = 1
    /\ info.stamp = record[a].stamp \/ "info" \in events[a]
    /\ \A f \in Files : disk[f] = record[a].cert[f] \/ f \in events[a]
ResultsAreCertified ==
    [][\A c \in Clients : client[c].state = "attached" /\ answer' = "result" /\ answer = "none"
                          /\ client[c].asked /\ ~client'[c].asked
        => Certified(client[c].attempt)]_vars
=============================================================================
