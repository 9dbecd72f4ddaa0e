-------------------------------- MODULE DapProbe --------------------------------
(***************************************************************************)
(* The gate that lets iOS debugging be called working                      *)
(* (tools/ios_dap_protocol_probe.py): `attach` proves that the process with *)
(* the given pid is the given application, drives lldb-dap to a breakpoint  *)
(* and away again, does the same with the lldb command line, and looks for  *)
(* the application once more; the two preflights only look for tools.       *)
(*                                                                         *)
(* Requests and answers are matched by number; a thread reads the adapter's *)
(* output, and the probe takes events from a queue and puts back those it   *)
(* did not want.  Every wait may time out, the adapter may refuse or die,   *)
(* and the application may end and its pid be used again.                   *)
(*                                                                         *)
(* Abstracted: a stop is what the probe reads of it: an entry or a signal;  *)
(* a breakpoint with the requested line in its top frame, only further up   *)
(* among the frames asked for, or in none; the line reached under another   *)
(* reason.  Texts and redaction are left out.                               *)
(***************************************************************************)
EXTENDS Naturals, Sequences, TLC

CONSTANTS MaxStops,  \* bootstrap stops that are skipped: 8 in the code
          MaxFaults  \* refusals, deaths and reuses of the pid

VARIABLES host,      \* what the local files are like
          device,    \* the process that has the pid
          adapter,   \* lldb-dap: requests it has not handled, its output, its session
          inbox,     \* what the reader thread has filed: answers and events
          lldb,      \* the command line debugger
          probe,     \* the probe's own state
          report, faults
vars == <<host, device, adapter, inbox, lldb, probe, report, faults>>
world == <<host, device, faults>>

Stops == {"signal", "breakpoint", "caller", "near", "merged"}
AtTop(stop) == stop \in {"breakpoint", "merged"}
AtLine(stop) == AtTop(stop) \/ stop = "caller"
Says(fact) == IF fact THEN "yes" ELSE "no"
NoFacts == [loaded |-> FALSE, verified |-> FALSE, reason |-> "none", frame |-> FALSE, ack |-> FALSE]

Init == /\ host \in [files : BOOLEAN, match : BOOLEAN, dsym : BOOLEAN, loaded : BOOLEAN]
        /\ device = [who |-> "app", held |-> "none", at |-> "running", hit |-> "none"]
        /\ adapter = [up |-> FALSE, todo |-> <<>>, out |-> <<>>, attach |-> 0]
        /\ inbox = [answers |-> {}, events |-> <<>>]
        /\ lldb = "off"
        /\ probe = [pc |-> "start", seq |-> 0, wait |-> 0, attach |-> 0, attached |-> FALSE,
                    stops |-> 0, deferred |-> <<>>, found |-> "nothing", facts |-> NoFacts]
        /\ report = "none" /\ faults = 0

-----------------------------------------------------------------------------
(* The world: the application ends and the pid may name another process.    *)
Fault == faults < MaxFaults /\ faults' = faults + 1
AppEnds == /\ Fault /\ device.who # "gone"
           /\ \E who \in {"gone", "other"} :
                 device' = [device EXCEPT !.who = who, !.held = "none", !.at = "running"]
           /\ UNCHANGED <<host, adapter, inbox, lldb, probe, report>>

-----------------------------------------------------------------------------
(* The adapter handles requests in their order.  It answers `attach` once   *)
(* it is configured, and then tells of the stop it attached with.           *)
Answer(seq, ok, body) == [kind |-> "response", seq |-> seq, ok |-> ok, body |-> body]
Event(name, body) == [kind |-> "event", name |-> name, body |-> body]
Out(ms) == adapter' = [adapter EXCEPT !.todo = Tail(@), !.out = @ \o ms]
Current == adapter.todo[1]
Handles(name) == adapter.up /\ adapter.todo # <<>> /\ Current.name = name
Holds == device.held = "dap"
Idle == UNCHANGED <<host, inbox, lldb, probe, report, faults>>

Refuse == /\ adapter.up /\ adapter.todo # <<>> /\ Fault
          /\ Out(<<Answer(Current.seq, FALSE, "none")>>)
          /\ UNCHANGED <<host, device, inbox, lldb, probe, report>>

Initialize == Handles("initialize") /\ Out(<<Answer(Current.seq, TRUE, "none")>>)
              /\ UNCHANGED device /\ Idle

Attach ==
    /\ Handles("attach")
    /\ IF device.who = "gone" THEN Out(<<Answer(Current.seq, FALSE, "none")>>) /\ UNCHANGED device
       ELSE /\ adapter' = [adapter EXCEPT !.todo = Tail(@), !.attach = Current.seq,
                             !.out = @ \o <<Event("process", "none"), Event("initialized", "none"),
                                Event("output", Says(host.loaded /\ device.who = "app"))>>]
            /\ device' = [device EXCEPT !.held = "dap", !.at = "entry"]
    /\ Idle

SetBreakpoints == /\ Handles("setBreakpoints")
                  /\ \E verified \in BOOLEAN : Out(<<Answer(Current.seq, TRUE, Says(verified))>>)
                  /\ UNCHANGED device /\ Idle
ConfigurationDone ==
    /\ Handles("configurationDone")
    /\ Out(<<Answer(Current.seq, TRUE, "none"), Answer(adapter.attach, TRUE, "none")>>
           \o (IF Holds THEN <<Event("stopped", "entry")>> ELSE <<>>))
    /\ UNCHANGED device /\ Idle
Threads == /\ Handles("threads") /\ Out(<<Answer(Current.seq, TRUE, Says(Holds))>>)
           /\ UNCHANGED device /\ Idle
Continue == /\ Handles("continue")
            /\ Out(<<Answer(Current.seq, Holds, "none")>>)
            /\ device' = IF Holds THEN [device EXCEPT !.at = "running"] ELSE device
            /\ Idle
Stop == /\ adapter.up /\ Holds /\ device.at = "running"
        /\ \E at \in Stops :
              /\ device' = [device EXCEPT !.at = at, !.hit =
                    IF device.who # "app" \/ ~AtLine(at) THEN @
                    ELSE IF AtTop(at) \/ @ = "top" THEN "top" ELSE "frames"]
              /\ adapter' = [adapter EXCEPT !.out = Append(@, Event("stopped", at))]
        /\ Idle
StackTrace == /\ Handles("stackTrace")
              /\ Out(<<Answer(Current.seq, Holds /\ device.at # "running", Says(AtLine(device.at)))>>)
              /\ UNCHANGED device /\ Idle
Released == IF Holds THEN [device EXCEPT !.held = "none", !.at = "running"] ELSE device
Disconnect == /\ Handles("disconnect") /\ Out(<<Answer(Current.seq, TRUE, "none")>>)
              /\ device' = Released /\ Idle

(* It may die; what it held stays stopped, runs on, or ends.                *)
Die == /\ adapter.up /\ Fault /\ adapter' = [adapter EXCEPT !.up = FALSE]
       /\ device' \in {device, Released, [device EXCEPT !.who = "gone", !.held = "none"]}
       /\ UNCHANGED <<host, inbox, lldb, probe, report>>

Adapter == \/ Refuse \/ Initialize \/ Attach \/ SetBreakpoints \/ ConfigurationDone \/ Threads
           \/ Continue \/ Stop \/ StackTrace \/ Disconnect \/ Die

(* _read_messages: answers by number, events in their order.                *)
ReadMessage ==
    /\ adapter.out # <<>> /\ adapter' = [adapter EXCEPT !.out = Tail(@)]
    /\ LET message == adapter.out[1] IN
       inbox' = IF message.kind = "response" THEN [inbox EXCEPT !.answers = @ \cup {message}]
                ELSE [inbox EXCEPT !.events = Append(@, message)]
    /\ UNCHANGED <<world, lldb, probe, report>>

-----------------------------------------------------------------------------
(* The probe's requests and waits.                                          *)
Sent(p, pc) == [p EXCEPT !.pc = pc, !.seq = @ + 1, !.wait = p.seq + 1, !.found = "nothing"]
Send(p, name, pc) ==
    /\ probe' = Sent(p, pc)
    /\ adapter' = [adapter EXCEPT !.todo = Append(@, [name |-> name, seq |-> p.seq + 1])]
Ask(p, name) == Send(p, name, name)
Ends(status) == report' = status /\ probe' = [probe EXCEPT !.pc = "end"]

Listens == [initialized |-> "initialized", marker |-> "output", entry |-> "stopped",
            stopped |-> "stopped"]
Listening == probe.pc \in DOMAIN Listens /\ probe.found = "nothing"
Waits == {"initialize", "setBreakpoints", "configurationDone", "attach", "threads", "continue",
          "stackTrace", "disconnect"}

(* event, output_marker: other events are put back when the wait is over,   *)
(* behind what has come in meanwhile.                                       *)
Wanted == inbox.events # <<>> /\ inbox.events[1].name = Listens[probe.pc]
TakeEvent ==
    /\ Listening /\ inbox.events # <<>>
    /\ LET event == inbox.events[1] IN
       probe' = IF Wanted THEN [probe EXCEPT !.found = event.body]
                ELSE [probe EXCEPT !.deferred = Append(@, event)]
    /\ inbox' = [inbox EXCEPT !.events = Tail(@)]
    /\ UNCHANGED <<world, adapter, lldb, report>>
PutBack == inbox' = [inbox EXCEPT !.events = @ \o probe.deferred]
Calm(p) == [p EXCEPT !.deferred = <<>>]

(* The loop over stops: other stops are left behind, up to a limit.         *)
IsBreakpoint(stop) == stop \in {"breakpoint", "caller", "near", "merged"}
Exhausted(p) == p.stops = MaxStops
Abandon(p) == IF p.attached /\ ~p.facts.ack THEN Send(p, "disconnect", "goodbye")
              ELSE probe' = [p EXCEPT !.pc = "close"] /\ UNCHANGED adapter
Consider(p, stop) ==
    IF IsBreakpoint(stop) THEN Ask([p EXCEPT !.facts.reason = stop], "stackTrace")
    ELSE IF Exhausted(p) THEN Abandon(p)
    ELSE Ask([p EXCEPT !.stops = @ + 1, !.facts.reason = stop], "continue")

Heard ==
    /\ probe.pc \in DOMAIN Listens /\ probe.found # "nothing" /\ PutBack
    /\ LET p == Calm(probe)
           body == probe.found
           step(pc) == probe' = [p EXCEPT !.pc = pc, !.found = "nothing", !.attached = TRUE]
                       /\ UNCHANGED adapter
       IN CASE p.pc = "initialized" -> step("marker")
            [] p.pc = "marker" -> IF body = "yes" THEN Ask([p EXCEPT !.facts.loaded = TRUE], "setBreakpoints")
                                  ELSE Abandon(p)
            [] p.pc = "entry" -> Ask([p EXCEPT !.facts.reason = body], "threads")
            [] OTHER -> Consider(p, body)
    /\ UNCHANGED <<world, lldb, report>>

(* response: the answer with the number of the request.                     *)
Replies(seq) == {a \in inbox.answers : a.seq = seq}
Follow(p, body) ==
    CASE p.pc = "initialize" -> Send([p EXCEPT !.attach = p.seq + 1], "attach", "initialized")
      [] p.pc = "setBreakpoints" -> Ask([p EXCEPT !.facts.verified = body = "yes"], "configurationDone")
      [] p.pc = "configurationDone" -> /\ probe' = [p EXCEPT !.pc = "attach", !.wait = p.attach]
                                       /\ UNCHANGED adapter
      [] p.pc = "attach" -> probe' = [p EXCEPT !.pc = "entry"] /\ UNCHANGED adapter
      [] p.pc = "threads" -> Consider(p, p.facts.reason)
      [] p.pc = "continue" -> probe' = [p EXCEPT !.pc = "stopped"] /\ UNCHANGED adapter
      [] p.pc = "stackTrace" -> Ask([p EXCEPT !.facts.frame = body = "yes"], "disconnect")
      [] OTHER -> probe' = [p EXCEPT !.pc = "close", !.facts.ack = TRUE] /\ UNCHANGED adapter
Answered ==
    /\ probe.pc \in Waits
    /\ \E answer \in Replies(probe.wait) :
          /\ inbox' = [inbox EXCEPT !.answers = @ \ {answer}]
          /\ IF answer.ok THEN Follow(probe, answer.body) ELSE Abandon(probe)
    /\ UNCHANGED <<world, lldb, report>>

(* No answer in time, or an adapter that is gone.                           *)
Interrupted ==
    /\ Listening \/ (probe.pc \in Waits /\ Replies(probe.wait) = {})
    /\ PutBack /\ Abandon(Calm(probe))
    /\ UNCHANGED <<world, lldb, report>>

(* The failed probe's disconnect is sent once and its outcome ignored.      *)
Goodbye == /\ probe.pc = "goodbye" /\ probe' = [probe EXCEPT !.pc = "close"]
           /\ UNCHANGED <<world, adapter, inbox, lldb, report>>

(* close: an adapter that sees its input end lets go; one that is killed    *)
(* may leave the application stopped.                                       *)
GatePassed(facts) == /\ facts.loaded /\ facts.verified /\ facts.reason \in {"breakpoint", "caller", "near"}
                     /\ facts.frame /\ facts.ack
Close == /\ probe.pc = "close" /\ adapter' = [adapter EXCEPT !.up = FALSE]
         /\ device' \in {device, Released}
         /\ IF GatePassed(probe.facts) THEN probe' = [probe EXCEPT !.pc = "cli"] /\ UNCHANGED report
            ELSE Ends("failed")
         /\ UNCHANGED <<host, inbox, lldb, faults>>

-----------------------------------------------------------------------------
(* attach: what is checked before and after.                                *)
CheckHost ==
    /\ probe.pc = "start" /\ report = "none"
    /\ IF host.files /\ host.match /\ host.dsym
       THEN probe' = [probe EXCEPT !.pc = "identify"] /\ UNCHANGED report
       ELSE Ends(IF host.files /\ host.match THEN "blocked" ELSE "failed")
    /\ UNCHANGED <<world, adapter, inbox, lldb>>

(* process_payload: the process with the pid runs the application's program.*)
Proven == device.who = "app"
Unproven == Fault /\ Ends("failed") /\ UNCHANGED <<host, device, adapter, inbox, lldb>>
Identify ==
    /\ probe.pc = "identify"
    /\ \/ Unproven
       \/ /\ ~Proven /\ Ends("failed") /\ UNCHANGED <<world, adapter, inbox, lldb>>
       \/ /\ Proven /\ probe' = Sent(probe, "initialize")
          /\ adapter' = [adapter EXCEPT !.up = TRUE, !.todo = <<[name |-> "initialize", seq |-> 1]>>]
          /\ UNCHANGED <<world, inbox, lldb, report>>
\* Fault seed: the application is not looked for again.
SurvivesAnyway == TRUE
Survives == Proven
Survived ==
    /\ probe.pc = "survive"
    /\ \/ Unproven
       \/ Ends(IF Survives THEN "passed" ELSE "failed") /\ UNCHANGED <<world, adapter, inbox, lldb>>

-----------------------------------------------------------------------------
(* cli_attach_probe: attach, look until everything is seen, detach, quit.   *)
ByCli == device.held = "cli"
CliAttach ==
    /\ probe.pc = "cli" /\ lldb' = "up" /\ probe' = [probe EXCEPT !.pc = "cliLook"]
    /\ device' = IF device.who # "gone" /\ device.held = "none"
                 THEN [device EXCEPT !.held = "cli", !.at = "entry"] ELSE device
    /\ UNCHANGED <<host, adapter, inbox, report, faults>>
CliSees == ByCli /\ host.loaded /\ device.who = "app"
CliLook == /\ probe.pc = "cliLook" /\ CliSees /\ probe' = [probe EXCEPT !.pc = "cliDetach"]
           /\ UNCHANGED <<world, adapter, inbox, lldb, report>>
CliDetach ==
    /\ probe.pc = "cliDetach" /\ ByCli
    /\ device' = [device EXCEPT !.held = "none", !.at = "running"]
    /\ probe' = [probe EXCEPT !.pc = "cliQuit"]
    /\ UNCHANGED <<host, adapter, inbox, lldb, report, faults>>
CliQuit == /\ probe.pc = "cliQuit" /\ lldb' = "off" /\ probe' = [probe EXCEPT !.pc = "survive"]
           /\ UNCHANGED <<world, adapter, inbox, report>>

(* A marker that does not come, facts that were not seen in time, no        *)
(* detachment or a bad exit: what is attached is let go of, or lldb killed. *)
CliFails ==
    /\ probe.pc \in {"cliLook", "cliDetach", "cliQuit"} /\ lldb' = "off" /\ Ends("failed")
    /\ device' \in (IF ByCli THEN {device, [device EXCEPT !.held = "none", !.at = "running"]} ELSE {device})
    /\ UNCHANGED <<host, adapter, inbox, faults>>

-----------------------------------------------------------------------------
(* The preflights name every tool that is missing.  What depends on another *)
(* tool is not looked for without it.                                       *)
Modern == {"selected-xcode-unavailable", "apple-lldb-dap-unavailable", "devicectl-unavailable",
           "lldb-coredevice-commands-unavailable", "signing-identity-probe-failed",
           "no-valid-signing-identity", "device-list-failed", "no-available-physical-ios-device"}
Excludes == ("signing-identity-probe-failed" :> "no-valid-signing-identity")
            @@ ("device-list-failed" :> "no-available-physical-ios-device")
PreflightBlockers(missing) ==
    {b \in Modern \cap missing : \A a \in DOMAIN Excludes \cap missing : Excludes[a] # b}

LegacyTools == {"selected-xcode-unavailable", "ios-deploy-unavailable",
                "apple-lldb-dap-unavailable", "lldb-remote-ios-sysroot-unavailable"}
LegacyDeploy == {"ios-deploy-version-failed", "explicit-legacy-device-unavailable"}
LegacyDevice == {"legacy-backend-requires-pre-ios17", "legacy-device-support-layout-mismatch",
                 "legacy-system-symbols-missing"}
LegacyBlockers(missing, parsed) ==
    (LegacyTools \cap missing)
    \cup (IF "ios-deploy-unavailable" \in missing THEN {}
          ELSE (LegacyDeploy \cap missing)
               \cup (IF parsed THEN LegacyDevice \cap missing ELSE {"explicit-legacy-device-unavailable"}))

Preflight(blockers) ==
    /\ probe.pc = "start" /\ report = "none"
    /\ Ends(IF blockers = {} THEN "ready" ELSE "blocked")
    /\ UNCHANGED <<world, adapter, inbox, lldb>>
Missing == {{a, b} : a, b \in Modern \cup LegacyTools \cup LegacyDeploy \cup LegacyDevice} \cup {{}}
Preflights == \E missing \in Missing : \/ Preflight(PreflightBlockers(missing))
                                       \/ \E parsed \in BOOLEAN : Preflight(LegacyBlockers(missing, parsed))

-----------------------------------------------------------------------------
Probe == \/ TakeEvent \/ Heard \/ Answered \/ Interrupted \/ Goodbye \/ Close
         \/ CheckHost \/ Identify \/ Survived \/ CliAttach \/ CliLook \/ CliDetach
         \/ CliQuit \/ CliFails \/ Preflights
Next == AppEnds \/ Adapter \/ ReadMessage \/ Probe
Spec == Init /\ [][Next]_vars

-----------------------------------------------------------------------------
(* A passing report is earned: the local files and the loaded image agree,  *)
(* the application itself stopped with the requested line in one of the     *)
(* frames asked for, and it is the same application that runs on            *)
(* afterwards, held by nobody (attach).                                     *)
PassedIsEarned ==
    [][report' = "passed" /\ report # "passed" =>
         /\ host.files /\ host.match /\ host.dsym /\ host.loaded
         /\ device.hit # "none" /\ device.who = "app" /\ device.held = "none"]_vars

(* A passing report says that the application stopped in the requested line:*)
(* "the top frame must map to the requested source" (the module's head).    *)
PassedAtTheTop == [][report' = "passed" /\ report # "passed" => device.hit = "top"]_vars
=============================================================================
