----------------------------- MODULE DeviceSync -----------------------------
(***************************************************************************)
(* The Raspberry of the club and the server it polls                       *)
(* (modules/automation, scripts/ardenne_access_service.py).  The server    *)
(* keeps a table of commands that it shows in every snapshot until they    *)
(* are acknowledged or expire; the device caches the last snapshot under   *)
(* its revision, runs the commands it has not run yet and acknowledges     *)
(* them.  The network loses requests and answers; the device may stop      *)
(* between any two of its steps and keeps what its SQLite file holds.      *)
(*                                                                         *)
(* A page of the back office (admin/automation) sends manual commands and  *)
(* follows each one by asking for it every second, for ten seconds.        *)
(*                                                                         *)
(* The revision is a hash of the content: here it is the content.  Every   *)
(* deadline is a step that may happen at any time after the creation.      *)
(***************************************************************************)
EXTENDS AccessGrants, FiniteSetsExt

CONSTANTS
    MaxCommands,   \* bound: commands; they are numbered in the order of createdAt
    MaxEvents,     \* bound: events reported by the device
    MaxPolls       \* bound: answers on their way to the page that follows a command

ASSUME DeviceAssumption ==
    {MaxCommands, MaxEvents, MaxPolls} \subseteq Nat /\ None \notin 1..MaxCommands

Commands == 1..MaxCommands
Events == 1..MaxEvents

VARIABLES
    commands,   \* access_commands
    server,     \* access_devices row, light intervals covering the present, recorded events
    raspi,      \* the process of the device: its step, the answer on its way, its queue
    disk,       \* the SQLite file of the device
    relays,     \* what the PLC did: pulses per command, and stops of the device after a pulse
    panel       \* the page of the back office, for this device

deviceVars == <<commands, server, raspi, disk, relays, panel>>

Content == [codes : SUBSET ((STRING) \X Codes), lit : BOOLEAN, ids : SUBSET Commands]
NoRevision == [codes |-> {}, lit |-> FALSE, ids |-> {}]
Answers == {"none", "lost", "200", "304"}
Shown == [command : Commands, status : {"PENDING", "DELIVERED", "SUCCESS", "FAILED", "EXPIRED"}]

DeviceTypeOK ==
    /\ commands \in [Commands -> [status : {"absent", "asked", "PENDING", "DELIVERED", "SUCCESS",
                                            "FAILED", "EXPIRED"},
                                  manual : BOOLEAN, late : BOOLEAN, raced : BOOLEAN]]
    /\ server \in [active : BOOLEAN, online : BOOLEAN, lit : BOOLEAN, events : SUBSET Events]
    /\ raspi.pc \in {"idle", "waiting", "execute", "mark", "ack", "flush"}
    /\ raspi.answer \in Answers /\ raspi.queue \subseteq Commands
    /\ disk.executed \subseteq Commands /\ disk.sent \subseteq disk.events /\ disk.events \subseteq Events
    /\ relays \in [pulses : [Commands -> Nat], cut : [Commands -> Nat]]
    /\ panel.pending \in BOOLEAN /\ panel.mixed \in BOOLEAN
    /\ panel.tone \in {"none", "progress", "success", "failed"}
    /\ {panel.feedback, panel.posting, panel.timer} \subseteq Commands \cup {None}
    /\ panel.answers \subseteq Shown

Asleep == [pc |-> "idle", answer |-> "none", content |-> NoRevision, queue |-> {}, outcome |-> "SUCCESS"]

Unused == [pending |-> FALSE, tone |-> "none", feedback |-> None, posting |-> None, timer |-> None,
           answers |-> {}, mixed |-> FALSE]

DeviceInit ==
    /\ commands = [c \in Commands |-> [status |-> "absent", manual |-> FALSE, late |-> FALSE,
                                       raced |-> FALSE]]
    /\ server = [active |-> TRUE, online |-> TRUE, lit |-> FALSE, events |-> {}]
    /\ raspi = Asleep
    /\ disk = [known |-> FALSE, revision |-> NoRevision, executed |-> {}, lightOn |-> FALSE,
               events |-> {}, sent |-> {}]
    /\ relays = [pulses |-> [c \in Commands |-> 0], cut |-> [c \in Commands |-> 0]]
    /\ panel = Unused

\* the device goes on whether its users are active or those of the page are
DeviceStep == \E c \in {"device", "panel"} : Step(c)

InFlight(c) == commands[c].status \in {"PENDING", "DELIVERED"}
Fresh == {c \in Commands : commands[c].status = "absent"}

-----------------------------------------------------------------------------
(* The table of commands *)
\* mutant: a command already delivered does not expire
ExpirePending(t) ==
    [c \in Commands |-> IF t[c].late /\ t[c].status = "PENDING" THEN [t[c] EXCEPT !.status = "EXPIRED"]
                        ELSE t[c]]

\* expireStaleCommands
expireStaleCommands(t) ==
    [c \in Commands |-> IF t[c].late /\ t[c].status \in {"PENDING", "DELIVERED"}
                        THEN [t[c] EXCEPT !.status = "EXPIRED"] ELSE t[c]]
findDeliverableCommands(t) == {c \in Commands : t[c].status \in {"PENDING", "DELIVERED"} /\ ~t[c].late}
findActivePendingCommandForDevice == {c \in findDeliverableCommands(commands) : commands[c].manual}
markDelivered(t, ids) ==
    [c \in Commands |-> IF c \in ids /\ t[c].status = "PENDING"
                        THEN [t[c] EXCEPT !.status = "DELIVERED"] ELSE t[c]]
ackCommand(t, c, s) == IF t[c].status = "DELIVERED" THEN [t EXCEPT ![c].status = s] ELSE t

Asked == {c \in Commands : commands[c].status = "asked"}
createCommand(c, manual, s) ==
    commands' = [commands EXCEPT ![c] = [status |-> s, manual |-> manual, late |-> FALSE,
                                         raced |-> Asked # {}]]

-----------------------------------------------------------------------------
(* The back office *)
queueCommand(c) ==
    /\ Request("device")
    /\ Fresh # {} /\ c = Min(Fresh)
    /\ createCommand(c, FALSE, "PENDING")
    /\ UNCHANGED <<server, raspi, disk, relays>>

\* isOffline, and the search of a command in flight; the row comes in a later call
Accepts == server.active /\ server.online /\ findActivePendingCommandForDevice = {}

\* from the page of another employee
queueManualCommand(c) ==
    /\ Request("device")
    /\ Fresh # {} /\ c = Min(Fresh)
    /\ Accepts
    /\ createCommand(c, TRUE, "asked")
    /\ UNCHANGED <<server, raspi, disk, relays>>

ManualCommandCreated(c) ==
    /\ DeviceStep
    /\ commands[c].status = "asked"
    /\ commands' = [commands EXCEPT ![c].status = "PENDING"]
    /\ UNCHANGED <<server, raspi, disk, relays>>

CommandDeadline(c) ==
    /\ DeviceStep
    /\ InFlight(c) /\ ~commands[c].late
    /\ commands' = [commands EXCEPT ![c].late = TRUE]
    /\ UNCHANGED <<server, raspi, disk, relays>>

revokeDevice ==
    /\ Request("device")
    /\ server.active
    /\ server' = [server EXCEPT !.active = FALSE]
    /\ UNCHANGED <<commands, raspi, disk, relays>>

\* nothing heard for AUTOMATION_DEVICE_OFFLINE_AFTER_SECONDS
DeviceSilent ==
    /\ Step("device")
    /\ server.online
    /\ server' = [server EXCEPT !.online = FALSE]
    /\ UNCHANGED <<commands, raspi, disk, relays>>

\* an interval of the light begins or ends, a zone is created or its margins change
LightPlanChanges ==
    /\ Request("device")
    /\ server' = [server EXCEPT !.lit = ~@]
    /\ UNCHANGED <<commands, raspi, disk, relays>>

-----------------------------------------------------------------------------
(* buildSnapshot: the answer is 304 when the device holds this revision,   *)
(* and only another answer marks the commands DELIVERED                    *)
SnapshotOf(t) == [codes |-> ActiveCodes, lit |-> server.lit, ids |-> findDeliverableCommands(t)]
NotModified(revision, content) == disk.known /\ revision = content

buildSnapshot ==
    LET t == expireStaleCommands(commands)
        content == SnapshotOf(t)
    IN  /\ commands' = IF NotModified(disk.revision, content) THEN t ELSE markDelivered(t, content.ids)
        /\ raspi' = [raspi EXCEPT !.pc = "waiting", !.content = content,
                                  !.answer = IF NotModified(disk.revision, content) THEN "304" ELSE "200"]
        /\ others' = expireStale(others)

-----------------------------------------------------------------------------
(* The loop of the device *)
PollSnapshot ==
    /\ DeviceStep
    /\ raspi.pc = "idle" /\ server.active
    /\ buildSnapshot
    /\ UNCHANGED <<booked, grants, granting, revoking, server, disk, relays>>

AnswerLost ==
    /\ Fault("device")
    /\ raspi.pc = "waiting" /\ raspi.answer # "lost"
    /\ raspi' = [raspi EXCEPT !.answer = "lost"]
    /\ UNCHANGED <<commands, server, disk, relays>>

\* sync_snapshot: an error keeps the cache
SnapshotFailed ==
    /\ DeviceStep
    /\ raspi.pc = "waiting" /\ raspi.answer = "lost"
    /\ raspi' = [Asleep EXCEPT !.pc = "flush"]
    /\ UNCHANGED <<commands, server, disk, relays>>

SnapshotNotModified ==
    /\ DeviceStep
    /\ raspi.pc = "waiting" /\ raspi.answer = "304"
    /\ raspi' = [Asleep EXCEPT !.pc = "flush"]
    /\ UNCHANGED <<commands, server, disk, relays>>

\* apply_snapshot: the cache and its revision are replaced in one transaction
SnapshotApplied ==
    /\ DeviceStep
    /\ raspi.pc = "waiting" /\ raspi.answer = "200"
    /\ disk' = [disk EXCEPT !.known = TRUE, !.revision = raspi.content]
    /\ raspi' = [Asleep EXCEPT !.pc = "execute", !.queue = raspi.content.ids]
    /\ UNCHANGED <<commands, server, relays>>

\* _execute_commands takes them in the order of the snapshot
Current == Min(raspi.queue)

CommandsDone ==
    /\ DeviceStep
    /\ raspi.pc = "execute" /\ raspi.queue = {}
    /\ raspi' = [Asleep EXCEPT !.pc = "flush"]
    /\ UNCHANGED <<commands, server, disk, relays>>

\* has_executed: only the acknowledgement is sent again, always SUCCESS
AlreadyExecuted ==
    /\ DeviceStep
    /\ raspi.pc = "execute" /\ raspi.queue # {} /\ Current \in disk.executed
    /\ raspi' = [raspi EXCEPT !.pc = "ack", !.outcome = "SUCCESS"]
    /\ UNCHANGED <<commands, server, disk, relays>>

\* _run_command and _pulse_coil
RunCommand ==
    /\ DeviceStep
    /\ raspi.pc = "execute" /\ raspi.queue # {} /\ Current \notin disk.executed
    /\ raspi' = [raspi EXCEPT !.pc = "mark", !.outcome = "SUCCESS"]
    /\ relays' = [relays EXCEPT !.pulses[Current] = @ + 1]
    /\ UNCHANGED <<commands, server, disk>>

\* the PLC does not answer, before or after the pulse
RunCommandFails ==
    /\ Fault("device") \/ Fault("panel")
    /\ raspi.pc = "execute" /\ raspi.queue # {} /\ Current \notin disk.executed
    /\ raspi' = [raspi EXCEPT !.pc = "mark", !.outcome = "FAILED"]
    /\ \E pulsed \in {0, 1} : relays' = [relays EXCEPT !.pulses[Current] = @ + pulsed]
    /\ UNCHANGED <<commands, server, disk>>

\* mutant: only a command that succeeded is remembered
MarkSuccess ==
    /\ DeviceStep
    /\ raspi.pc = "mark"
    /\ disk' = [disk EXCEPT !.executed = @ \cup (IF raspi.outcome = "SUCCESS" THEN {Current} ELSE {})]
    /\ raspi' = [raspi EXCEPT !.pc = "ack"]
    /\ UNCHANGED <<commands, server, relays>>

\* mark_executed
MarkExecuted ==
    /\ DeviceStep
    /\ raspi.pc = "mark"
    /\ disk' = [disk EXCEPT !.executed = @ \cup {Current}]
    /\ raspi' = [raspi EXCEPT !.pc = "ack"]
    /\ UNCHANGED <<commands, server, relays>>

\* POST .../ack: an HTTP error of the server is an answer like another
SendAck ==
    /\ DeviceStep
    /\ raspi.pc = "ack"
    /\ commands' = IF server.active THEN ackCommand(commands, Current, raspi.outcome) ELSE commands
    /\ raspi' = [raspi EXCEPT !.pc = "execute", !.queue = @ \ {Current}]
    /\ UNCHANGED <<server, disk, relays>>

\* no answer: the exception leaves sync_snapshot and the rest of the queue is dropped
AckLost ==
    /\ Fault("device")
    /\ raspi.pc = "ack"
    /\ commands' \in {commands, IF server.active THEN ackCommand(commands, Current, raspi.outcome)
                                ELSE commands}
    /\ raspi' = [Asleep EXCEPT !.pc = "flush"]
    /\ UNCHANGED <<server, disk, relays>>

\* flush_events then send_heartbeat: recordEvents ignores an event it has
FlushEvents ==
    /\ DeviceStep
    /\ raspi.pc = "flush"
    /\ server' = IF server.active THEN [server EXCEPT !.events = @ \cup disk.events, !.online = TRUE]
                 ELSE server
    /\ disk' = IF server.active THEN [disk EXCEPT !.sent = disk.events] ELSE disk
    /\ raspi' = Asleep
    /\ UNCHANGED <<commands, relays>>

\* the events arrive and the answer does not: they stay to be sent
FlushAnswerLost ==
    /\ Fault("device")
    /\ raspi.pc = "flush" /\ server.active
    /\ server' = [server EXCEPT !.events = @ \cup disk.events]
    /\ raspi' = Asleep
    /\ UNCHANGED <<commands, disk, relays>>

\* evaluate_lighting, between two synchronisations, on the cache alone
EvaluateLighting ==
    /\ Step("device")
    /\ raspi.pc = "idle" /\ disk.lightOn # disk.revision.lit
    /\ disk' = [disk EXCEPT !.lightOn = disk.revision.lit]
    /\ UNCHANGED <<commands, server, raspi, relays>>

\* process_keypad_codes and validate_code: the cache alone says whether the door is
\* pulsed; each attempt, granted or denied, is an event
KeypadCode ==
    /\ Request("device")
    /\ raspi.pc = "idle" /\ Cardinality(disk.events) < MaxEvents
    /\ disk' = [disk EXCEPT !.events = @ \cup {Cardinality(@) + 1}]
    /\ UNCHANGED <<commands, server, raspi, relays>>

\* the device stops and restarts: its queue is lost
DeviceRestart ==
    /\ Fault("device")
    /\ raspi.pc # "idle"
    /\ relays' = IF raspi.pc = "mark" THEN [relays EXCEPT !.cut[Current] = @ + 1] ELSE relays
    /\ raspi' = Asleep
    /\ UNCHANGED <<commands, server, disk>>

-----------------------------------------------------------------------------
(* The page.  One timer by device: to follow a command stops the one before *)
handleManualCommand(c) ==
    /\ Request("panel")
    /\ ~panel.pending
    /\ Fresh # {} /\ c = Min(Fresh)
    /\ Accepts
    /\ createCommand(c, TRUE, "asked")
    /\ panel' = [panel EXCEPT !.pending = TRUE, !.tone = "progress", !.feedback = None, !.posting = c]
    /\ UNCHANGED <<server, raspi, disk, relays>>

\* the list of devices is refreshed every five seconds: the button may be there
CommandRefused ==
    /\ Request("panel")
    /\ ~panel.pending /\ ~Accepts
    /\ panel' = [panel EXCEPT !.tone = "failed", !.feedback = None]
    /\ UNCHANGED <<commands, server, raspi, disk, relays>>

pollCommand ==
    /\ Step("panel")
    /\ panel.posting # None /\ commands[panel.posting].status # "asked"
    /\ panel' = [panel EXCEPT !.posting = None, !.timer = panel.posting]
    /\ UNCHANGED <<commands, server, raspi, disk, relays>>

\* the command may exist and be carried out
CommandAnswerLost ==
    /\ Fault("panel")
    /\ panel.posting # None
    /\ panel' = [panel EXCEPT !.posting = None, !.pending = FALSE, !.tone = "failed", !.feedback = None]
    /\ UNCHANGED <<commands, server, raspi, disk, relays>>

\* GET /admin/automation-commands/:id
getCommand ==
    /\ Step("panel")
    /\ panel.timer # None /\ Cardinality(panel.answers) < MaxPolls
    /\ panel' = [panel EXCEPT !.answers = @ \cup {[command |-> panel.timer,
                                                   status |-> commands[panel.timer].status]}]
    /\ panel' # panel
    /\ UNCHANGED <<commands, server, raspi, disk, relays>>

Tone(s) == CASE s = "SUCCESS" -> "success" [] s \in {"FAILED", "EXPIRED"} -> "failed" [] OTHER -> "progress"

\* whichever command it is about, a last status stops the timer and frees the buttons
CommandAnswer(a) ==
    LET last == Tone(a.status) # "progress"
    IN  /\ Step("panel")
        /\ a \in panel.answers
        /\ panel' = [panel EXCEPT !.answers = @ \ {a}, !.feedback = a.command, !.tone = Tone(a.status),
                                  !.timer = IF last THEN None ELSE @,
                                  !.pending = @ /\ ~last,
                                  !.mixed = @ \/ (last /\ panel.posting # None)]
        /\ UNCHANGED <<commands, server, raspi, disk, relays>>

\* POLL_TIMEOUT_MS: shown as expired, whatever becomes of it
CommandTimeout ==
    /\ Step("panel")
    /\ panel.timer # None
    /\ panel' = [panel EXCEPT !.tone = "failed", !.feedback = panel.timer, !.timer = None, !.pending = FALSE]
    /\ UNCHANGED <<commands, server, raspi, disk, relays>>

PanelNext ==
    \/ \E c \in Commands : handleManualCommand(c)
    \/ CommandRefused \/ pollCommand \/ CommandAnswerLost \/ getCommand \/ CommandTimeout
    \/ \E a \in panel.answers : CommandAnswer(a)

-----------------------------------------------------------------------------
DeviceNext ==
    \/ \E c \in Commands :
        \/ queueCommand(c) \/ queueManualCommand(c)
        \/ ManualCommandCreated(c) \/ CommandDeadline(c)
    \/ revokeDevice \/ DeviceSilent \/ LightPlanChanges
    \/ AnswerLost \/ SnapshotFailed \/ SnapshotNotModified \/ SnapshotApplied
    \/ CommandsDone \/ AlreadyExecuted \/ RunCommand \/ RunCommandFails \/ MarkExecuted
    \/ SendAck \/ AckLost \/ FlushEvents \/ FlushAnswerLost
    \/ EvaluateLighting \/ KeypadCode \/ DeviceRestart

PremisesNext ==
    \/ AccessNext /\ UNCHANGED deviceVars
    \/ DeviceNext /\ UNCHANGED <<accessVars, panel>>
    \/ PanelNext /\ UNCHANGED accessVars
    \/ PollSnapshot /\ UNCHANGED panel

PremisesInit == BaseInit /\ AccessInit /\ DeviceInit
premisesVars == <<baseVars, accessVars, deviceVars>>
PremisesSpec == PremisesInit /\ [][PremisesNext]_premisesVars

\* What goes on by itself: the loop of the device, the clock, and the timer of the page
DeviceLoop ==
    \/ PollSnapshot /\ UNCHANGED panel
    \/ /\ \/ SnapshotFailed \/ SnapshotNotModified \/ SnapshotApplied \/ CommandsDone
          \/ AlreadyExecuted \/ RunCommand \/ MarkExecuted \/ SendAck \/ FlushEvents
       /\ UNCHANGED <<accessVars, panel>>
Clock(c) == (CommandDeadline(c) \/ ManualCommandCreated(c)) /\ UNCHANGED <<accessVars, panel>>
PanelClock == (pollCommand \/ CommandTimeout) /\ UNCHANGED accessVars

-----------------------------------------------------------------------------
(* A command moves the relay once, however often it is delivered; a second *)
(* time only for each stop of the device between the pulse and the line    *)
(* that remembers it (ardenne_access_service.py:456-457).  A command the   *)
(* server holds for SUCCESS or FAILED was tried by the device.  Two manual *)
(* commands wait together only if two handlers checked before either wrote *)
(* (automation.service.ts:203).  The page that sent a command announces    *)
(* success only of a command acknowledged as such, its buttons wait only   *)
(* for a request or a timer of its own, and while it follows a command     *)
(* they wait, unless the last answer about an earlier one came between     *)
(* (admin/automation/page.tsx:301).                                        *)
CommandsRunOnce ==
    \A c \in Commands :
        /\ relays.pulses[c] <= 1 + relays.cut[c]
        /\ commands[c].status \in {"SUCCESS", "FAILED"} => c \in disk.executed
        /\ \A d \in findActivePendingCommandForDevice :
            c < d /\ c \in findActivePendingCommandForDevice => commands[d].raced
        /\ panel.tone = "success" /\ panel.feedback = c => commands[c].status = "SUCCESS"
        /\ panel.timer = c /\ ~panel.mixed => panel.pending
        /\ panel.pending => {panel.posting, panel.timer} # {None}

(* Every command ends: acknowledged, or expired at the next synchronisation *)
(* after its deadline, as long as the device is not revoked.  So again and  *)
(* again, between two requests, no command is in flight.  And again and     *)
(* again the buttons of the page are free.                                  *)
CommandsSettle ==
    /\ []<>(server.active => \A c \in Commands : ~InFlight(c))
    /\ []<>(~panel.pending)

(* RASPBERRY_PROTOCOL.md:142: a command reappears at every call as long as *)
(* it is not acknowledged.  So a device that is told that nothing changed  *)
(* has run every command that waits for it.                                *)
NothingHiddenBy304 ==
    [][SnapshotNotModified => findDeliverableCommands(commands) \cap raspi.content.ids \subseteq disk.executed]_premisesVars
=============================================================================
