----------------------------- MODULE DisplayService -----------------------------
(***************************************************************************)
(* The display's way from the loop to the panel: loop() of src/main.cpp    *)
(* refreshes its snapshot and publishes it every so often, into a queue of *)
(* one that is overwritten (src/display_service.cpp); a task on the other  *)
(* core takes what is there, or times out, and updates the controller.     *)
(* Any build may have the display; what moves the snapshot depends on the  *)
(* profile.                                                                *)
(***************************************************************************)
EXTENDS DisplayController, Sequences

CONSTANTS Profiles,         \* the profiles a firmware is built with
          PublishInterval,  \* kDisplayPublishIntervalMs
          ReceiveTimeout,   \* of xQueueReceive
          TaskGap,          \* the longest time between two rounds of the task
          BeginTime,        \* the longest time the task takes to start the panel
          MaxEvents,        \* bound: how many packets, errors and other events there are
          MaxUptime         \* bound: how long the firmware is followed

ASSUME ServiceAssumption ==
  /\ Profiles \subseteq {"kUsbBridge", "kListenOnly", "kControlledTest"}
  /\ PublishInterval \in Nat \ {0} /\ ReceiveTimeout \in Nat \ {0}
  /\ TaskGap \in Nat /\ TaskGap >= ReceiveTimeout /\ BeginTime \in Nat
  /\ MaxEvents \in Nat
  /\ MaxUptime \in 0..(MsMod - 1)

\* The boot screen outlasts a put-off drawing; a mark and an overlay are still on
\* when a drawing that was put off, or the end of the boot screen, lets them in.
ASSUME WaitsAssumption ==
  /\ RenderInterval <= BootDuration
  /\ RenderInterval + TaskGap <= ActivityHold
  /\ BootDuration + TaskGap <= FaultOverlay

VARIABLES now_ms,
          profile,
          counted,          \* what the components count: the snapshot's sources
          snapshot,         \* snapshot, the loop's
          last_publish_ms,  \* last_display_publish_ms
          queue,            \* queue_: empty, or the newest snapshot
          task,             \* how far run() is: "created", "starting" or "running"
          current, controller,
          screen,           \* what the panel was last made to show
          events,           \* how many events there were, up to MaxEvents
          waited_ms,        \* time since the task's last round
          \* history:
          quiet_ms,         \* time the task has run since anything was counted
          unseen_ms,        \* 1 + the age of the newest packet not yet shown, or 0
          unseen_fault_ms   \* the same of the newest error

loopVars == <<profile, counted, snapshot, last_publish_ms>>
taskVars == <<task, current, controller, screen>>
seen     == <<unseen_ms, unseen_fault_ms>>
displayVars == <<now_ms, loopVars, queue, taskVars, waited_ms, events, quiet_ms, seen>>

DisplayInit ==
  /\ now_ms = 0
  /\ profile \in Profiles
  /\ counted = [packets |-> 0, errors |-> 0, fault |-> FALSE, armed |-> FALSE,
                moved |-> FALSE]
  /\ snapshot = InitSnapshot /\ last_publish_ms = 0
  /\ queue = <<>>
  /\ task = "created" /\ current = InitSnapshot
  /\ controller = BeginController(InitSnapshot, 0) /\ screen = "dark"
  /\ waited_ms = 0 /\ events = 0 /\ quiet_ms = 0 /\ unseen_ms = 0 /\ unseen_fault_ms = 0

----------------------------------------------------------------------------
(* What the loop's components count, between two publications *)

Event ==
  /\ events < MaxEvents
  /\ events' = events + 1
  /\ quiet_ms' = 0
  /\ UNCHANGED <<now_ms, profile, last_publish_ms, queue, taskVars, waited_ms>>

\* A frame captured, a host packet decoded or a query completed.  Only the
\* capture writes the snapshot at once.
CountPacket ==
  /\ Event
  /\ profile = "kControlledTest" => counted.armed
  /\ counted' = [counted EXCEPT !.packets = @ + 1, !.moved = TRUE, !.armed = FALSE]
  /\ snapshot' = IF profile = "kListenOnly"
                   THEN [snapshot EXCEPT !.rx_packets = counted.packets + 1,
                                         !.rx_active = TRUE]
                   ELSE snapshot
  /\ unseen_ms' = IF screen \in {"dark", "boot"} THEN 0 ELSE 1
  /\ UNCHANGED unseen_fault_ms

\* A frame rejected or a query failed.
CountError ==
  /\ Event
  /\ profile = "kControlledTest" => counted.armed
  /\ counted' = [counted EXCEPT !.errors = @ + 1, !.armed = FALSE,
                                !.fault = (profile = "kControlledTest")]
  /\ unseen_fault_ms' = 1
  /\ UNCHANGED <<snapshot, unseen_ms>>

\* Bytes to or from the host, ARM, and RECOVER.
CountOther ==
  /\ Event
  /\ \/ /\ profile = "kUsbBridge"
        /\ counted' = [counted EXCEPT !.moved = TRUE]
     \/ /\ profile = "kControlledTest" /\ ~counted.fault
        /\ counted' = [counted EXCEPT !.armed = TRUE]
     \/ /\ profile = "kControlledTest"
        /\ counted' = [counted EXCEPT !.armed = FALSE, !.fault = FALSE]
  /\ UNCHANGED <<snapshot, seen>>

----------------------------------------------------------------------------
(* The loop's end: refresh and publish *)

RefreshDisplaySnapshot ==
  LET s == [snapshot EXCEPT !.error_count = counted.errors]
  IN  CASE profile = "kUsbBridge" ->
             [s EXCEPT !.host_active = counted.moved, !.tx_packets = counted.packets]
        [] profile = "kListenOnly" ->
             [s EXCEPT !.rx_packets = counted.packets]
        [] profile = "kControlledTest" ->
             [s EXCEPT !.aux_enabled = counted.armed, !.tx_active = counted.moved,
                       !.tx_packets = counted.packets,
                       !.state = IF counted.fault THEN "kFault" ELSE "kSafeBaseline"]

\* Mutant: the pulses are left on.
PulsesOff_KeepRx(s) == [s EXCEPT !.tx_active = FALSE, !.host_active = FALSE]

PulsesOff(s) ==
  [s EXCEPT !.rx_active = FALSE, !.tx_active = FALSE, !.host_active = FALSE]

PublishDue == ElapsedMs(now_ms, last_publish_ms) >= PublishInterval

\* xQueueOverwrite replaces what the task has not taken.
Publish ==
  /\ PublishDue
  /\ last_publish_ms' = now_ms
  /\ queue' = <<RefreshDisplaySnapshot>>
  /\ snapshot' = PulsesOff(RefreshDisplaySnapshot)
  /\ counted' = [counted EXCEPT !.moved = FALSE]
  /\ UNCHANGED <<now_ms, profile, taskVars, waited_ms, events, quiet_ms, seen>>

----------------------------------------------------------------------------
(* The task *)

\* The time of begin() is read before the panel is started, which takes a while.
BeginTask ==
  /\ task = "created"
  /\ task' = "starting"
  /\ controller' = BeginController(current, now_ms)
  /\ screen' = "boot"
  /\ waited_ms' = 0
  /\ UNCHANGED <<now_ms, loopVars, queue, current, events, quiet_ms, seen>>

\* Mutant: a time-out is taken for an empty snapshot.
Received_Nothing == IF queue = <<>> THEN InitSnapshot ELSE Head(queue)

\* xQueueReceive: what is in the queue, or what was taken last.
Received == IF queue = <<>> THEN current ELSE Head(queue)

\* One round of run().
TaskRound ==
  /\ task # "created"
  /\ queue # <<>> \/ waited_ms >= ReceiveTimeout
  /\ LET o    == UpdateController(controller, Received, now_ms)
         view == o.controller.last_view
     IN  /\ controller' = o.controller
         /\ screen' = IF o.drawn THEN ScreenOf(view) ELSE screen
         /\ unseen_ms' =
              IF \/ screen' = "fault"
                 \/ /\ screen' = "main"
                    /\ view.show_rx_activity \/ view.show_tx_activity
                    /\ view.snapshot.rx_packets + view.snapshot.tx_packets = counted.packets
                THEN 0 ELSE unseen_ms
         /\ unseen_fault_ms' =
              IF screen' = "fault" /\ view.snapshot.error_count = counted.errors
                THEN 0 ELSE unseen_fault_ms
  /\ current' = Received
  /\ queue' = <<>>
  /\ task' = "running"
  /\ waited_ms' = 0
  /\ UNCHANGED <<now_ms, loopVars, events, quiet_ms>>

----------------------------------------------------------------------------
(* Time *)

\* From a count to the screen that shows it: its publication, its reception, and
\* the time since the last drawing.
DrawTime == PublishInterval + RenderInterval + 2 * TaskGap

\* From a count to the last screen with its mark: its pulse is on until the second
\* publication.
MarkTime == DrawTime + PublishInterval + ActivityHold

\* A silence is not measured beyond the time after which everything is at rest.
LongQuiet == MarkTime + FaultOverlay

Aged(age) == IF age > 0 THEN age + 1 ELSE 0

\* A round of the loop is shorter than a step of this clock.
Pass ==
  /\ now_ms < MaxUptime
  /\ ~PublishDue
  /\ waited_ms < IF task = "running" THEN TaskGap ELSE BeginTime
  /\ now_ms' = now_ms + 1
  /\ waited_ms' = waited_ms + 1
  /\ quiet_ms' = IF task = "running" /\ quiet_ms < LongQuiet THEN quiet_ms + 1 ELSE quiet_ms
  /\ unseen_ms' = Aged(unseen_ms)
  /\ unseen_fault_ms' =
       IF screen \in {"dark", "boot"} THEN unseen_fault_ms ELSE Aged(unseen_fault_ms)
  /\ UNCHANGED <<loopVars, queue, taskVars, events>>

DisplayNext ==
  \/ CountPacket \/ CountError \/ CountOther
  \/ Publish
  \/ BeginTask \/ TaskRound
  \/ Pass

DisplaySpec == DisplayInit /\ [][DisplayNext]_displayVars

----------------------------------------------------------------------------
(* What must be true of it *)

\* The newest packet gets on the screen with its mark before the mark expires,
\* though drawings are put off and snapshots overwritten; only a fault takes
\* precedence.  (Packets counted while the boot screen is on are not marked.)
ActivityShown == unseen_ms <= DrawTime + 1

\* Every new error gets its overlay, also one that came while the boot screen
\* was on, and one whose fault was recovered before the next publication.
FaultShown == unseen_fault_ms <= DrawTime + 1

\* When nothing has been counted for as long as that takes, the panel shows the
\* last counts, and after the marks' time no mark.
ScreenSettles ==
  LET view == controller.last_view
  IN  screen \in {"main", "fault"} =>
        /\ quiet_ms > DrawTime =>
             /\ view.snapshot.rx_packets + view.snapshot.tx_packets = counted.packets
             /\ view.snapshot.error_count = counted.errors
             /\ view.snapshot.state = "kFault" <=> counted.fault
             /\ view.snapshot.aux_enabled => counted.armed
        /\ quiet_ms > MarkTime =>
             ~view.show_rx_activity /\ ~view.show_tx_activity

\* The fault screen is temporary: it is not there when nothing has happened for
\* longer than the overlay lasts.
OverlayTemporary == quiet_ms > DrawTime + FaultOverlay => screen # "fault"
================================================================================
