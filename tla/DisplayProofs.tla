------------------------------ MODULE DisplayProofs ------------------------------
(***************************************************************************)
(* Proofs about DisplayService: what is counted gets on the panel in time  *)
(* and off it again, for every schedule of loop and task, every profile    *)
(* and every interval.                                                     *)
(***************************************************************************)
EXTENDS DisplayService, TLAPS

\* The firmware is followed for less than half the clock: beyond it a deadline
\* that has passed is pending again (run display_uptime).
BelowHalfTheClock ==
  /\ MaxUptime + FaultOverlay < MsMod \div 2
  /\ MaxUptime + ActivityHold < MsMod \div 2

LEMMA Constants ==
  /\ MsMod \in Nat \ {0} /\ MsMod \div 2 \in Nat /\ 2 * (MsMod \div 2) <= MsMod
  /\ ActivityHold \in Nat \ {0} /\ FaultOverlay \in Nat \ {0}
  /\ RenderInterval \in Nat \ {0} /\ BootDuration \in Nat \ {0}
  /\ PublishInterval \in Nat \ {0} /\ ReceiveTimeout \in Nat \ {0}
  /\ TaskGap \in Nat \ {0} /\ BeginTime \in Nat
  /\ MaxUptime \in Nat /\ MaxUptime < MsMod
BY MillisAssumption, DisplayAssumption, ServiceAssumption

----------------------------------------------------------------------------
(* The clock, while it is below its half *)

LEMMA ElapsedIsDifference ==
  ASSUME NEW now \in Nat, NEW then \in 0..now
  PROVE  ElapsedMs(now, then) = now - then
BY DEF ElapsedMs

\* A deadline that was set is the sum, and it is pending until it is reached.
LEMMA DeadlineIsSum ==
  ASSUME BelowHalfTheClock, NEW now \in 0..MaxUptime,
         NEW hold \in {ActivityHold, FaultOverlay}
  PROVE  (now + hold) % MsMod = now + hold
<1>1. now + hold \in 0..(MsMod - 1)
  BY Constants DEF BelowHalfTheClock
<1>2. QED
  BY <1>1, Constants

LEMMA PendingIsAhead ==
  ASSUME BelowHalfTheClock, NEW now \in 0..MaxUptime, NEW deadline \in Nat,
         deadline <= now + ActivityHold \/ deadline <= now + FaultOverlay
  PROVE  DeadlinePending(now, deadline) <=> deadline > now
<1>1. CASE deadline >= now
  <2>1. deadline - now \in 0..(MsMod - 1) /\ deadline - now < MsMod \div 2
    BY <1>1, Constants DEF BelowHalfTheClock
  <2>2. (deadline - now) % MsMod = deadline - now
    BY <2>1, Constants
  <2>3. QED
    BY <1>1, <2>1, <2>2 DEF DeadlinePending
<1>2. CASE deadline < now
  <2> DEFINE ahead == (deadline - now) + MsMod
  <2>1. ahead \in 0..(MsMod - 1) /\ ahead >= MsMod \div 2
    BY <1>2, Constants DEF BelowHalfTheClock
  <2>2. (deadline - now) % MsMod = ahead
    BY <1>2, <2>1, Constants
  <2>3. QED
    BY <1>2, <2>1, <2>2, Constants DEF DeadlinePending
<1>3. QED
  BY <1>1, <1>2

----------------------------------------------------------------------------
(* Types *)

Snapshot ==
  [state : {"kSafeBaseline", "kFault"}, host_active : BOOLEAN, aux_enabled : BOOLEAN,
   rx_active : BOOLEAN, tx_active : BOOLEAN,
   rx_packets : Nat, tx_packets : Nat, error_count : Nat]

Model == [last_snapshot : Snapshot, rx_until : Nat, tx_until : Nat, fault_until : Nat]

ViewModel == [snapshot : Snapshot, show_rx_activity : BOOLEAN,
              show_tx_activity : BOOLEAN, show_fault_overlay : BOOLEAN]

Controller == [model : Model, last_view : ViewModel, showing_boot : BOOLEAN,
               boot_started_ms : Nat, last_render_ms : Nat]

Counts == [packets : Nat, errors : Nat, fault : BOOLEAN, armed : BOOLEAN,
           moved : BOOLEAN]

DisplayType ==
  /\ now_ms \in 0..MaxUptime
  /\ profile \in {"kUsbBridge", "kListenOnly", "kControlledTest"}
  /\ counted \in Counts /\ snapshot \in Snapshot
  /\ last_publish_ms \in 0..now_ms /\ now_ms - last_publish_ms <= PublishInterval
  /\ queue = <<>> \/ \E s \in Snapshot : queue = <<s>>
  /\ task \in {"created", "starting", "running"}
  /\ current \in Snapshot /\ controller \in Controller
  /\ screen \in {"dark", "boot", "main", "fault"}
  /\ waited_ms \in Nat /\ waited_ms <= now_ms /\ quiet_ms \in Nat
  /\ unseen_ms \in Nat /\ unseen_fault_ms \in Nat

Drawn == screen \in {"main", "fault"}

\* What the screen says of the task and of its controller.
ScreenFollowsTask ==
  /\ screen = "dark" <=> task = "created"
  /\ task = "starting" => screen = "boot"
  /\ task # "running" => current = InitSnapshot
  /\ task = "running" => waited_ms <= TaskGap
  /\ screen = "boot" =>
       /\ controller.showing_boot
       /\ controller.boot_started_ms = controller.last_render_ms
       /\ now_ms - waited_ms < controller.boot_started_ms + BootDuration
  /\ Drawn => ~controller.showing_boot /\ screen = ScreenOf(controller.last_view)

\* The controller looks back on what it was given, never ahead of the clock.
ControllerInStep ==
  LET m == controller.model
  IN  /\ m.last_snapshot = current
      /\ controller.boot_started_ms <= now_ms - waited_ms
      /\ controller.last_render_ms <= now_ms - waited_ms
      /\ m.rx_until <= (now_ms - waited_ms) + ActivityHold
      /\ m.tx_until <= (now_ms - waited_ms) + ActivityHold
      /\ m.fault_until <= (now_ms - waited_ms) + FaultOverlay

DisplayInv == DisplayType /\ ScreenFollowsTask /\ ControllerInStep

----------------------------------------------------------------------------
(* A round of the task *)

NextModel == UpdateModel(controller.model, Received, now_ms)
NextView  == View(NextModel, now_ms)

\* What the newest snapshot that was published moves.
MovesRx == Moved(Received.rx_active, Received.rx_packets, current.rx_packets)
MovesTx == Moved(Received.tx_active, Received.tx_packets, current.tx_packets)
IsFault == NewFault(current, Received)

LEMMA ReceivedIs ==
  ASSUME DisplayType
  PROVE  Received \in Snapshot
BY DEF DisplayType, Received

LEMMA NextModelIs ==
  ASSUME BelowHalfTheClock, DisplayInv
  PROVE  /\ NextModel \in Model /\ NextModel.last_snapshot = Received
         /\ NextModel.rx_until =
              IF MovesRx THEN now_ms + ActivityHold ELSE controller.model.rx_until
         /\ NextModel.tx_until =
              IF MovesTx THEN now_ms + ActivityHold ELSE controller.model.tx_until
         /\ NextModel.fault_until =
              IF IsFault THEN now_ms + FaultOverlay ELSE controller.model.fault_until
<1> USE DEF DisplayInv
<1>1. now_ms \in 0..MaxUptime /\ current \in Snapshot /\ controller.model \in Model
      /\ controller.model.last_snapshot = current
  BY DEF DisplayType, ControllerInStep, Controller
<1>2. /\ (now_ms + ActivityHold) % MsMod = now_ms + ActivityHold
      /\ (now_ms + FaultOverlay) % MsMod = now_ms + FaultOverlay
  BY <1>1, DeadlineIsSum
<1>3. /\ now_ms + ActivityHold \in Nat /\ now_ms + FaultOverlay \in Nat
      /\ controller.model.rx_until \in Nat /\ controller.model.tx_until \in Nat
      /\ controller.model.fault_until \in Nat
  BY <1>1, Constants DEF Model
<1> DEFINE rx == IF MovesRx THEN now_ms + ActivityHold ELSE controller.model.rx_until
           tx == IF MovesTx THEN now_ms + ActivityHold ELSE controller.model.tx_until
           fault == IF IsFault THEN now_ms + FaultOverlay ELSE controller.model.fault_until
<1>4. NextModel = [last_snapshot |-> Received, rx_until |-> rx, tx_until |-> tx,
                   fault_until |-> fault]
  BY <1>1, <1>2 DEF NextModel, UpdateModel, MovesRx, MovesTx, IsFault
<1>5. rx \in Nat /\ tx \in Nat /\ fault \in Nat
  BY <1>3
<1> HIDE DEF rx, tx, fault
<1>6. NextModel \in Model /\ NextModel.last_snapshot = Received
      /\ NextModel.rx_until = rx /\ NextModel.tx_until = tx /\ NextModel.fault_until = fault
  BY <1>4, <1>5, ReceivedIs DEF Model
<1>7. QED
  BY <1>6 DEF rx, tx, fault

\* Deadlines only move ahead, and never further than their hold.
LEMMA DeadlinesAhead ==
  ASSUME BelowHalfTheClock, DisplayInv
  PROVE  /\ NextModel.rx_until \in controller.model.rx_until..(now_ms + ActivityHold)
         /\ NextModel.tx_until \in controller.model.tx_until..(now_ms + ActivityHold)
         /\ NextModel.fault_until \in controller.model.fault_until..(now_ms + FaultOverlay)
<1>1. now_ms \in Nat /\ waited_ms \in Nat /\ controller.model \in Model
  BY DEF DisplayInv, DisplayType, Controller
<1>2. /\ controller.model.rx_until <= now_ms + ActivityHold
      /\ controller.model.tx_until <= now_ms + ActivityHold
      /\ controller.model.fault_until <= now_ms + FaultOverlay
  BY <1>1, Constants DEF DisplayInv, ControllerInStep, Model
<1>3. QED
  BY <1>1, <1>2, NextModelIs, Constants DEF Model

LEMMA NextViewIs ==
  ASSUME BelowHalfTheClock, DisplayInv
  PROVE  /\ NextView \in ViewModel /\ NextView.snapshot = Received
         /\ NextView.show_rx_activity <=> NextModel.rx_until > now_ms
         /\ NextView.show_tx_activity <=> NextModel.tx_until > now_ms
         /\ NextView.show_fault_overlay <=> NextModel.fault_until > now_ms
<1>1. now_ms \in 0..MaxUptime
  BY DEF DisplayInv, DisplayType
<1>2. NextModel \in Model /\ NextModel.last_snapshot = Received
  BY NextModelIs
<1>3. /\ DeadlinePending(now_ms, NextModel.rx_until) <=> NextModel.rx_until > now_ms
      /\ DeadlinePending(now_ms, NextModel.tx_until) <=> NextModel.tx_until > now_ms
      /\ DeadlinePending(now_ms, NextModel.fault_until) <=> NextModel.fault_until > now_ms
  BY <1>1, <1>2, DeadlinesAhead, PendingIsAhead, Constants DEF Model
<1>4. \A n, d : DeadlinePending(n, d) \in BOOLEAN
  BY DEF DeadlinePending
<1>5. QED
  BY <1>2, <1>3, <1>4, ReceivedIs DEF NextView, View, ViewModel, DisplayInv

\* What the panel and the controller make of it.
StaysBoot ==
  /\ screen = "boot" /\ screen' = "boot"
  /\ now_ms < controller.boot_started_ms + BootDuration
  /\ controller'.showing_boot
  /\ controller'.last_view = controller.last_view
  /\ controller'.last_render_ms = controller.last_render_ms

StaysDrawn ==
  /\ Drawn /\ screen' = screen
  /\ NextView = controller.last_view \/ now_ms < controller.last_render_ms + RenderInterval
  /\ ~controller'.showing_boot
  /\ controller'.last_view = controller.last_view
  /\ controller'.last_render_ms = controller.last_render_ms

Draws ==
  /\ screen' = ScreenOf(NextView)
  /\ screen = "boot" => now_ms >= controller.boot_started_ms + BootDuration
  /\ Drawn => now_ms >= controller.last_render_ms + RenderInterval
  /\ ~controller'.showing_boot
  /\ controller'.last_view = NextView
  /\ controller'.last_render_ms = now_ms

LEMMA RoundOutcome ==
  ASSUME BelowHalfTheClock, DisplayInv, TaskRound
  PROVE  /\ controller' \in Controller /\ controller'.model = NextModel
         /\ controller'.boot_started_ms = controller.boot_started_ms
         /\ StaysBoot \/ StaysDrawn \/ Draws
<1> DEFINE c == controller
           o == UpdateController(c, Received, now_ms)
           booting == c.showing_boot /\ ElapsedMs(now_ms, c.boot_started_ms) < BootDuration
           updated == [c EXCEPT !.model = NextModel, !.showing_boot = booting]
           drawn   == [updated EXCEPT !.last_view = NextView, !.last_render_ms = now_ms]
<1>1. /\ controller' = o.controller
      /\ screen' = IF o.drawn THEN ScreenOf(o.controller.last_view) ELSE screen
  BY DEF TaskRound
<1>2. /\ c \in Controller /\ NextModel \in Model /\ NextView \in ViewModel
      /\ now_ms \in Nat /\ waited_ms \in Nat
      /\ c.boot_started_ms \in 0..now_ms /\ c.last_render_ms \in 0..now_ms
  BY NextModelIs, NextViewIs DEF DisplayInv, DisplayType, ControllerInStep, Controller
<1>3. /\ ElapsedMs(now_ms, c.boot_started_ms) = now_ms - c.boot_started_ms
      /\ ElapsedMs(now_ms, c.last_render_ms) = now_ms - c.last_render_ms
  BY <1>2, ElapsedIsDifference
<1>4. screen = "boot" \/ Drawn
  BY DEF TaskRound, DisplayInv, ScreenFollowsTask, DisplayType, Drawn
<1>5. /\ screen = "boot" => c.showing_boot /\ c.boot_started_ms = c.last_render_ms
      /\ Drawn => ~c.showing_boot
  BY DEF DisplayInv, ScreenFollowsTask
<1>6. booting \in BOOLEAN
  BY <1>2 DEF Controller
<1>7. /\ updated \in Controller /\ updated.model = NextModel
      /\ updated.boot_started_ms = c.boot_started_ms
      /\ updated.showing_boot = booting
      /\ updated.last_view = c.last_view /\ updated.last_render_ms = c.last_render_ms
  BY <1>2, <1>6 DEF Controller
<1>8. /\ drawn \in Controller /\ drawn.model = NextModel
      /\ drawn.boot_started_ms = c.boot_started_ms
      /\ drawn.showing_boot = booting
      /\ drawn.last_view = NextView /\ drawn.last_render_ms = now_ms
  BY <1>2, <1>6, <1>7 DEF Controller
<1>9. o = CASE booting \/ (~c.showing_boot /\ NextView = c.last_view) ->
                 [controller |-> updated, drawn |-> FALSE]
            [] ~booting /\ (c.showing_boot \/ NextView # c.last_view)
                 /\ ElapsedMs(now_ms, c.last_render_ms) < RenderInterval ->
                 [controller |-> updated, drawn |-> FALSE]
            [] OTHER -> [controller |-> drawn, drawn |-> TRUE]
  BY DEF UpdateController, PutOff, NextModel, NextView
<1> HIDE DEF o, updated, drawn
<1>10. CASE booting
  <2>1. o = [controller |-> updated, drawn |-> FALSE]
    BY <1>9, <1>10
  <2>2. screen = "boot" /\ now_ms < c.boot_started_ms + BootDuration
    BY <1>2, <1>3, <1>4, <1>5, <1>10, Constants
  <2>3. QED
    BY <1>1, <1>7, <1>10, <2>1, <2>2 DEF StaysBoot
<1>11. CASE ~booting /\ ~c.showing_boot
             /\ (NextView = c.last_view \/ now_ms - c.last_render_ms < RenderInterval)
  <2>1. o = [controller |-> updated, drawn |-> FALSE]
    BY <1>3, <1>9, <1>11
  <2>2. Drawn
    BY <1>4, <1>5, <1>11
  <2>3. NextView = c.last_view \/ now_ms < c.last_render_ms + RenderInterval
    BY <1>2, <1>11, Constants
  <2>4. QED
    BY <1>1, <1>7, <1>11, <2>1, <2>2, <2>3 DEF StaysDrawn
<1>12. CASE ~booting /\ (c.showing_boot \/ (NextView # c.last_view
                            /\ ~(now_ms - c.last_render_ms < RenderInterval)))
  <2>1. c.showing_boot => screen = "boot"
                          /\ now_ms >= c.boot_started_ms + BootDuration
    BY <1>2, <1>3, <1>4, <1>5, <1>12, Constants
  <2>2. ~(now_ms - c.last_render_ms < RenderInterval)
    BY <1>2, <1>5, <1>12, <2>1, Constants, WaitsAssumption
  <2>3. o = [controller |-> drawn, drawn |-> TRUE]
    BY <1>3, <1>9, <1>12, <2>2
  <2>4. screen = "boot" => now_ms >= c.boot_started_ms + BootDuration
    BY <1>5, <2>1
  <2>5. now_ms >= c.last_render_ms + RenderInterval
    BY <1>2, <2>2, Constants
  <2>6. QED
    BY <1>1, <1>8, <1>12, <2>3, <2>4, <2>5 DEF Draws
<1>13. QED
  BY <1>10, <1>11, <1>12

----------------------------------------------------------------------------
(* The invariant of types and screens *)

LEMMA InitSnapshotIs ==
  /\ InitSnapshot \in Snapshot
  /\ InitSnapshot.rx_packets = 0 /\ InitSnapshot.tx_packets = 0
  /\ InitSnapshot.error_count = 0 /\ InitSnapshot.state = "kSafeBaseline"
  /\ ~InitSnapshot.aux_enabled /\ ~InitSnapshot.rx_active /\ ~InitSnapshot.tx_active
BY DEF InitSnapshot, Snapshot

\* Nothing is marked when the boot screen comes up.
LEMMA BeginOutcome ==
  ASSUME NEW now \in 0..MaxUptime, NEW c, c = BeginController(InitSnapshot, now)
  PROVE  /\ c \in Controller /\ c.model.last_snapshot = InitSnapshot
         /\ c.model.rx_until = 0 /\ c.model.tx_until = 0 /\ c.model.fault_until = 0
         /\ c.showing_boot /\ c.boot_started_ms = now /\ c.last_render_ms = now
<1> DEFINE m == UpdateModel(InitModel, InitSnapshot, now)
<1>1. m = [last_snapshot |-> InitSnapshot, rx_until |-> 0, tx_until |-> 0,
           fault_until |-> 0]
  BY InitSnapshotIs DEF UpdateModel, InitModel, Moved, NewFault
<1>2. m \in Model
  BY <1>1, InitSnapshotIs DEF Model
<1>3. View(m, now) \in ViewModel
  <2>1. \A n, d : DeadlinePending(n, d) \in BOOLEAN
    BY DEF DeadlinePending
  <2>2. QED
    BY <1>1, <2>1, InitSnapshotIs DEF View, ViewModel
<1>4. c = [model |-> m, last_view |-> View(m, now), showing_boot |-> TRUE,
           boot_started_ms |-> now, last_render_ms |-> now]
  BY DEF BeginController
<1> HIDE DEF m
<1>5. now \in Nat
  OBVIOUS
<1>6. QED
  BY <1>1, <1>2, <1>3, <1>4, <1>5 DEF Controller

LEMMA CountOutcome ==
  ASSUME DisplayType, CountPacket \/ CountError \/ CountOther
  PROVE  /\ counted' \in Counts /\ snapshot' \in Snapshot /\ quiet_ms' = 0
         /\ UNCHANGED <<now_ms, profile, last_publish_ms, queue, taskVars, waited_ms>>
         /\ unseen_ms' \in Nat /\ unseen_fault_ms' \in Nat
<1>1. counted \in Counts /\ snapshot \in Snapshot /\ unseen_ms \in Nat
      /\ unseen_fault_ms \in Nat
  BY DEF DisplayType
<1>2. /\ quiet_ms' = 0
      /\ UNCHANGED <<now_ms, profile, last_publish_ms, queue, taskVars, waited_ms>>
  BY DEF CountPacket, CountError, CountOther, Event
<1>3. CASE CountPacket
  <2>1. counted' = [packets |-> counted.packets + 1, errors |-> counted.errors,
                    fault |-> counted.fault, armed |-> FALSE, moved |-> TRUE]
    BY <1>1, <1>3 DEF CountPacket, Counts
  <2>2. counted' \in Counts
    BY <1>1, <2>1 DEF Counts
  <2>3. counted.packets + 1 \in Nat
    BY <1>1 DEF Counts
  <2>4. snapshot' \in Snapshot
    BY <1>1, <1>3, <2>3 DEF CountPacket, Snapshot
  <2>5. unseen_ms' \in Nat /\ unseen_fault_ms' \in Nat
    BY <1>1, <1>3 DEF CountPacket
  <2>6. QED
    BY <1>2, <2>2, <2>4, <2>5
<1>4. CASE CountError
  <2> DEFINE faulty == (profile = "kControlledTest")
  <2>1. counted' = [packets |-> counted.packets, errors |-> counted.errors + 1,
                    fault |-> faulty, armed |-> FALSE, moved |-> counted.moved]
    BY <1>1, <1>4 DEF CountError, Counts
  <2>2. faulty \in BOOLEAN
    OBVIOUS
  <2> HIDE DEF faulty
  <2>3. counted' \in Counts
    BY <1>1, <2>1, <2>2 DEF Counts
  <2>4. snapshot' \in Snapshot /\ unseen_ms' \in Nat /\ unseen_fault_ms' \in Nat
    BY <1>1, <1>4 DEF CountError
  <2>5. QED
    BY <1>2, <2>3, <2>4
<1>5. CASE CountOther
  BY <1>1, <1>2, <1>5 DEF CountOther, Counts, seen
<1>6. QED
  BY <1>3, <1>4, <1>5

LEMMA RefreshIs ==
  ASSUME DisplayType
  PROVE  LET s == RefreshDisplaySnapshot
         IN  /\ s \in Snapshot /\ PulsesOff(s) \in Snapshot
             /\ s.error_count = counted.errors
             /\ s.rx_active = snapshot.rx_active
             /\ s.rx_packets = IF profile = "kListenOnly" THEN counted.packets
                               ELSE snapshot.rx_packets
             /\ s.tx_packets = IF profile = "kListenOnly" THEN snapshot.tx_packets
                               ELSE counted.packets
             /\ s.tx_active = IF profile = "kControlledTest" THEN counted.moved
                              ELSE snapshot.tx_active
             /\ s.aux_enabled = IF profile = "kControlledTest" THEN counted.armed
                                ELSE snapshot.aux_enabled
             /\ s.state = IF profile = "kControlledTest"
                            THEN IF counted.fault THEN "kFault" ELSE "kSafeBaseline"
                            ELSE snapshot.state
<1> DEFINE s == RefreshDisplaySnapshot
<1>1. counted \in Counts /\ snapshot \in Snapshot
  BY DEF DisplayType
<1>2. CASE profile = "kUsbBridge"
  <2>1. s = [[snapshot EXCEPT !.error_count = counted.errors] EXCEPT
               !.host_active = counted.moved, !.tx_packets = counted.packets]
    BY <1>2 DEF RefreshDisplaySnapshot
  <2>2. QED
    BY <1>1, <1>2, <2>1 DEF Snapshot, Counts, PulsesOff
<1>3. CASE profile = "kListenOnly"
  <2>1. s = [[snapshot EXCEPT !.error_count = counted.errors] EXCEPT
               !.rx_packets = counted.packets]
    BY <1>3 DEF RefreshDisplaySnapshot
  <2>2. QED
    BY <1>1, <1>3, <2>1 DEF Snapshot, Counts, PulsesOff
<1>4. CASE profile = "kControlledTest"
  <2>1. s = [[snapshot EXCEPT !.error_count = counted.errors] EXCEPT
               !.aux_enabled = counted.armed, !.tx_active = counted.moved,
               !.tx_packets = counted.packets,
               !.state = IF counted.fault THEN "kFault" ELSE "kSafeBaseline"]
    BY <1>4 DEF RefreshDisplaySnapshot
  <2>2. QED
    BY <1>1, <1>4, <2>1 DEF Snapshot, Counts, PulsesOff
<1>5. QED
  BY <1>2, <1>3, <1>4 DEF DisplayType

LEMMA DisplayInvInit ==
  ASSUME DisplayInit
  PROVE  DisplayInv
<1>1. controller \in Controller /\ controller.model.last_snapshot = InitSnapshot
      /\ controller.model.rx_until = 0 /\ controller.model.tx_until = 0
      /\ controller.model.fault_until = 0
      /\ controller.boot_started_ms = 0 /\ controller.last_render_ms = 0
  BY Constants, BeginOutcome DEF DisplayInit
<1>2. counted \in Counts
  BY DEF DisplayInit, Counts
<1>3. DisplayType
  BY <1>1, <1>2, Constants, InitSnapshotIs, ServiceAssumption DEF DisplayInit, DisplayType
<1>4. ScreenFollowsTask
  BY DEF DisplayInit, ScreenFollowsTask, Drawn
<1>5. ControllerInStep
  BY <1>1, Constants DEF DisplayInit, ControllerInStep
<1>6. QED
  BY <1>3, <1>4, <1>5 DEF DisplayInv

LEMMA DisplayInvRound ==
  ASSUME BelowHalfTheClock, DisplayInv, TaskRound
  PROVE  DisplayInv'
<1>1. /\ UNCHANGED <<now_ms, profile, counted, snapshot, last_publish_ms, quiet_ms>>
      /\ current' = Received /\ queue' = <<>> /\ task' = "running" /\ waited_ms' = 0
      /\ task # "created"
  BY DEF TaskRound, loopVars
<1>2. unseen_ms' \in Nat /\ unseen_fault_ms' \in Nat
  BY DEF TaskRound, DisplayInv, DisplayType
<1>3. /\ controller' \in Controller /\ controller'.model = NextModel
      /\ controller'.boot_started_ms = controller.boot_started_ms
      /\ StaysBoot \/ StaysDrawn \/ Draws
  BY RoundOutcome
<1>4. screen' \in {"boot", "main", "fault"} /\ (screen' = "boot" <=> StaysBoot)
  BY <1>3 DEF StaysBoot, StaysDrawn, Draws, Drawn, ScreenOf
<1>5. DisplayType'
  BY <1>1, <1>2, <1>3, <1>4, ReceivedIs, Constants DEF DisplayInv, DisplayType
<1>6. ScreenFollowsTask'
  <2>1. now_ms \in Nat /\ waited_ms \in Nat
    BY DEF DisplayInv, DisplayType
  <2>2. Drawn' => ~controller'.showing_boot /\ screen' = ScreenOf(controller'.last_view)
    BY <1>3, <1>4 DEF StaysDrawn, Draws, Drawn, DisplayInv, ScreenFollowsTask
  <2>3. screen' = "boot" =>
          /\ controller'.showing_boot
          /\ controller'.boot_started_ms = controller'.last_render_ms
          /\ now_ms' - waited_ms' < controller'.boot_started_ms + BootDuration
    BY <1>1, <1>3, <1>4, <2>1 DEF StaysBoot, DisplayInv, ScreenFollowsTask
  <2>4. QED
    BY <1>1, <1>4, <2>2, <2>3, Constants DEF ScreenFollowsTask
<1>7. ControllerInStep'
  <2>1. now_ms \in Nat /\ waited_ms \in Nat /\ controller \in Controller
    BY DEF DisplayInv, DisplayType
  <2>2. controller.boot_started_ms <= now_ms /\ controller.last_render_ms <= now_ms
    BY <2>1 DEF DisplayInv, ControllerInStep, Controller
  <2>3. controller'.last_render_ms <= now_ms
    BY <1>3, <2>1, <2>2 DEF StaysBoot, StaysDrawn, Draws
  <2>4. NextModel.last_snapshot = Received
    BY NextModelIs
  <2>5. /\ NextModel.rx_until <= now_ms + ActivityHold
        /\ NextModel.tx_until <= now_ms + ActivityHold
        /\ NextModel.fault_until <= now_ms + FaultOverlay
    BY DeadlinesAhead
  <2>6. now_ms' - waited_ms' = now_ms
    BY <1>1, <2>1
  <2>7. QED
    BY <1>1, <1>3, <2>2, <2>3, <2>4, <2>5, <2>6 DEF ControllerInStep
<1>8. QED
  BY <1>5, <1>6, <1>7 DEF DisplayInv

LEMMA DisplayInvStep ==
  ASSUME BelowHalfTheClock, DisplayInv, [DisplayNext]_displayVars
  PROVE  DisplayInv'
<1> USE DEF DisplayInv
<1>1. CASE CountPacket \/ CountError \/ CountOther
  <2>1. counted' \in Counts /\ snapshot' \in Snapshot /\ quiet_ms' = 0
        /\ UNCHANGED <<now_ms, profile, last_publish_ms, queue, taskVars, waited_ms>>
        /\ unseen_ms' \in Nat /\ unseen_fault_ms' \in Nat
    BY <1>1, CountOutcome
  <2>2. QED
    BY <2>1 DEF DisplayType, ScreenFollowsTask, ControllerInStep, Drawn, taskVars
<1>2. CASE Publish
  <2>1. UNCHANGED <<now_ms, profile, taskVars, waited_ms, quiet_ms, seen>>
        /\ last_publish_ms' = now_ms
    BY <1>2 DEF Publish
  <2>2. queue' = <<RefreshDisplaySnapshot>> /\ snapshot' = PulsesOff(RefreshDisplaySnapshot)
    BY <1>2 DEF Publish
  <2>3. counted' \in Counts
    BY <1>2 DEF Publish, DisplayType, Counts
  <2>4. DisplayType'
    BY <2>1, <2>2, <2>3, RefreshIs, Constants DEF DisplayType, taskVars, seen
  <2>5. QED
    BY <2>1, <2>4 DEF ScreenFollowsTask, ControllerInStep, Drawn, taskVars
<1>3. CASE BeginTask
  <2>1. /\ UNCHANGED <<now_ms, loopVars, queue, current, quiet_ms, seen>>
        /\ task' = "starting" /\ screen' = "boot" /\ waited_ms' = 0
        /\ controller' = BeginController(InitSnapshot, now_ms)
        /\ current = InitSnapshot
    BY <1>3 DEF BeginTask, ScreenFollowsTask, DisplayType
  <2>2. now_ms \in 0..MaxUptime
    BY DEF DisplayType
  <2>3. /\ controller' \in Controller /\ controller'.model.last_snapshot = InitSnapshot
        /\ controller'.model.rx_until = 0 /\ controller'.model.tx_until = 0
        /\ controller'.model.fault_until = 0 /\ controller'.showing_boot
        /\ controller'.boot_started_ms = now_ms /\ controller'.last_render_ms = now_ms
    BY <2>1, <2>2, BeginOutcome
  <2>4. DisplayType'
    BY <2>1, <2>3 DEF DisplayType, loopVars, seen
  <2>5. ScreenFollowsTask'
    BY <2>1, <2>2, <2>3, Constants DEF ScreenFollowsTask, Drawn
  <2>6. ControllerInStep'
    BY <2>1, <2>2, <2>3, Constants DEF ControllerInStep
  <2>7. QED
    BY <2>4, <2>5, <2>6
<1>4. CASE TaskRound
  BY <1>4, DisplayInvRound
<1>5. CASE Pass
  <2>1. /\ UNCHANGED <<loopVars, queue, taskVars>>
        /\ now_ms < MaxUptime /\ ~PublishDue
        /\ task = "running" => waited_ms < TaskGap
        /\ now_ms' = now_ms + 1 /\ waited_ms' = waited_ms + 1
    BY <1>5 DEF Pass
  <2>2. now_ms \in Nat /\ waited_ms \in Nat /\ last_publish_ms \in 0..now_ms
        /\ now_ms - waited_ms = now_ms' - waited_ms'
    BY <2>1 DEF DisplayType
  <2>3. quiet_ms' \in Nat /\ unseen_ms' \in Nat /\ unseen_fault_ms' \in Nat
    BY <1>5 DEF Pass, Aged, DisplayType
  <2>4. now_ms - last_publish_ms < PublishInterval
    BY <2>1, <2>2, ElapsedIsDifference, Constants DEF PublishDue
  <2>5. DisplayType'
    BY <2>1, <2>2, <2>3, <2>4, Constants DEF DisplayType, loopVars, taskVars
  <2>6. ScreenFollowsTask'
    BY <2>1, <2>2, Constants DEF ScreenFollowsTask, Drawn, taskVars
  <2>7. ControllerInStep'
    BY <2>1, <2>2 DEF ControllerInStep, taskVars
  <2>8. QED
    BY <2>5, <2>6, <2>7
<1>6. CASE UNCHANGED displayVars
  BY <1>6 DEF displayVars, loopVars, taskVars, seen, DisplayType, ScreenFollowsTask,
              ControllerInStep, Drawn
<1>7. QED
  BY <1>1, <1>2, <1>3, <1>4, <1>5, <1>6 DEF DisplayNext

----------------------------------------------------------------------------
(* What was counted settles: on the way, with the task and on the screen *)

\* A snapshot that holds all that was counted.
Settled(s) ==
  /\ s.rx_packets = IF profile = "kListenOnly" THEN counted.packets ELSE 0
  /\ s.tx_packets = IF profile = "kListenOnly" THEN 0 ELSE counted.packets
  /\ s.error_count = counted.errors
  /\ s.state = "kFault" <=> counted.fault
  /\ s.aux_enabled => counted.armed

\* What the profile never counts is not in the loop's snapshot.
LoopKeepsProfile ==
  /\ IF profile = "kListenOnly" THEN snapshot.tx_packets = 0 ELSE snapshot.rx_packets = 0
  /\ profile # "kControlledTest" =>
       /\ ~counted.fault /\ ~counted.armed
       /\ snapshot.state = "kSafeBaseline" /\ ~snapshot.aux_enabled

QuietInTime == quiet_ms <= now_ms /\ (quiet_ms > 0 => task = "running")

\* Each place holds the last counts when they are older than the way there.
PublishedSettles == quiet_ms > now_ms - last_publish_ms => Settled(Received)

CurrentSettles == quiet_ms > PublishInterval + waited_ms => Settled(current)

ViewSettles ==
  Drawn =>
    /\ quiet_ms > PublishInterval + (now_ms - controller.last_render_ms)
         => Settled(controller.last_view.snapshot)
    /\ quiet_ms > PublishInterval + waited_ms
         => \/ Settled(controller.last_view.snapshot)
            \/ now_ms - waited_ms < controller.last_render_ms + RenderInterval

SettledInv ==
  LoopKeepsProfile /\ QuietInTime /\ PublishedSettles /\ CurrentSettles /\ ViewSettles

LEMMA RefreshSettles ==
  ASSUME DisplayType, LoopKeepsProfile
  PROVE  Settled(RefreshDisplaySnapshot)
<1> DEFINE s == RefreshDisplaySnapshot
<1>1. /\ s.error_count = counted.errors
      /\ s.rx_packets = IF profile = "kListenOnly" THEN counted.packets
                        ELSE snapshot.rx_packets
      /\ s.tx_packets = IF profile = "kListenOnly" THEN snapshot.tx_packets
                        ELSE counted.packets
      /\ s.aux_enabled = IF profile = "kControlledTest" THEN counted.armed
                         ELSE snapshot.aux_enabled
      /\ s.state = IF profile = "kControlledTest"
                     THEN IF counted.fault THEN "kFault" ELSE "kSafeBaseline"
                     ELSE snapshot.state
  BY RefreshIs
<1>2. counted \in Counts
  BY DEF DisplayType
<1> HIDE DEF s
<1>3. QED
  BY <1>1, <1>2 DEF Settled, LoopKeepsProfile, s, Counts

LEMMA SettledInit ==
  ASSUME DisplayInit
  PROVE  SettledInv
<1>1. LoopKeepsProfile
  BY InitSnapshotIs DEF DisplayInit, LoopKeepsProfile
<1>2. QED
  BY <1>1, Constants DEF DisplayInit, SettledInv, QuietInTime, PublishedSettles,
                         CurrentSettles, ViewSettles, Drawn

LEMMA SettledCount ==
  ASSUME DisplayInv, SettledInv, CountPacket \/ CountError \/ CountOther
  PROVE  SettledInv'
<1>1. /\ quiet_ms' = 0
      /\ UNCHANGED <<now_ms, profile, last_publish_ms, queue, taskVars, waited_ms>>
  BY CountOutcome DEF DisplayInv
<1>2. counted \in Counts /\ snapshot \in Snapshot
  BY DEF DisplayInv, DisplayType
<1>3. LoopKeepsProfile'
  <2>1. CASE CountPacket
    <3>1. profile # "kListenOnly" => snapshot' = snapshot
      BY <2>1 DEF CountPacket
    <3>2. profile = "kListenOnly" => /\ snapshot'.tx_packets = snapshot.tx_packets
                                     /\ snapshot'.state = snapshot.state
                                     /\ snapshot'.aux_enabled = snapshot.aux_enabled
      BY <1>2, <2>1 DEF CountPacket, Snapshot
    <3>3. counted'.fault = counted.fault /\ ~counted'.armed
      BY <1>2, <2>1 DEF CountPacket, Counts
    <3>4. QED
      BY <1>1, <3>1, <3>2, <3>3 DEF SettledInv, LoopKeepsProfile
  <2>2. CASE CountError
    <3>1. snapshot' = snapshot /\ ~counted'.armed
          /\ (counted'.fault <=> profile = "kControlledTest")
      BY <1>2, <2>2 DEF CountError, Counts
    <3>2. QED
      BY <1>1, <3>1 DEF SettledInv, LoopKeepsProfile
  <2>3. CASE CountOther
    <3>1. snapshot' = snapshot
      BY <2>3 DEF CountOther
    <3>2. profile # "kControlledTest" =>
            counted'.fault = counted.fault /\ counted'.armed = counted.armed
      BY <1>2, <2>3 DEF CountOther, Counts
    <3>3. QED
      BY <1>1, <3>1, <3>2 DEF SettledInv, LoopKeepsProfile
  <2>4. QED
    BY <2>1, <2>2, <2>3
<1>4. /\ now_ms \in Nat /\ last_publish_ms \in 0..now_ms /\ waited_ms \in Nat
      /\ waited_ms <= now_ms
      /\ controller.last_render_ms \in Nat
      /\ controller.last_render_ms <= now_ms - waited_ms
  BY DEF DisplayInv, DisplayType, ControllerInStep, Controller
<1>5. QED
  BY <1>1, <1>3, <1>4, Constants
     DEF SettledInv, QuietInTime, PublishedSettles, CurrentSettles, ViewSettles, taskVars

LEMMA SettledPublish ==
  ASSUME DisplayInv, SettledInv, Publish
  PROVE  SettledInv'
<1> DEFINE s == RefreshDisplaySnapshot
<1>1. /\ UNCHANGED <<now_ms, profile, task, current, controller, screen, waited_ms, quiet_ms>>
      /\ last_publish_ms' = now_ms
      /\ queue' = <<s>> /\ snapshot' = PulsesOff(s)
      /\ counted' = [counted EXCEPT !.moved = FALSE]
  BY DEF Publish, taskVars
<1>2. counted \in Counts /\ s \in Snapshot
  BY RefreshIs DEF DisplayInv, DisplayType
<1>3. /\ counted'.packets = counted.packets /\ counted'.errors = counted.errors
      /\ counted'.fault = counted.fault /\ counted'.armed = counted.armed
  BY <1>1, <1>2 DEF Counts
<1>4. Settled(s)
  BY RefreshSettles DEF DisplayInv, SettledInv
<1> HIDE DEF s
<1>5. Received' = s
  BY <1>1 DEF Received
<1>6. PublishedSettles'
  BY <1>1, <1>3, <1>4, <1>5 DEF PublishedSettles, Settled
<1>7. CurrentSettles'
  BY <1>1, <1>3 DEF CurrentSettles, Settled, SettledInv
<1>8. ViewSettles'
  BY <1>1, <1>3 DEF ViewSettles, Settled, SettledInv, Drawn
<1>9. /\ snapshot'.rx_packets = s.rx_packets /\ snapshot'.tx_packets = s.tx_packets
      /\ snapshot'.state = s.state /\ snapshot'.aux_enabled = s.aux_enabled
  BY <1>1, <1>2 DEF PulsesOff, Snapshot
<1>10. LoopKeepsProfile'
  <2>1. profile # "kControlledTest" =>
          s.state = snapshot.state /\ s.aux_enabled = snapshot.aux_enabled
    BY RefreshIs DEF DisplayInv, s
  <2>2. QED
    BY <1>1, <1>3, <1>4, <1>9, <2>1 DEF LoopKeepsProfile, Settled, SettledInv
<1>11. QED
  BY <1>1, <1>6, <1>7, <1>8, <1>10 DEF SettledInv, QuietInTime

LEMMA SettledRound ==
  ASSUME BelowHalfTheClock, DisplayInv, SettledInv, TaskRound
  PROVE  SettledInv'
<1>1. /\ UNCHANGED <<now_ms, profile, counted, snapshot, last_publish_ms, quiet_ms>>
      /\ current' = Received /\ queue' = <<>> /\ task' = "running" /\ waited_ms' = 0
  BY DEF TaskRound, loopVars
<1>2. now_ms \in Nat /\ waited_ms \in Nat /\ quiet_ms \in Nat
      /\ last_publish_ms \in 0..now_ms /\ now_ms - last_publish_ms <= PublishInterval
  BY DEF DisplayInv, DisplayType
<1>3. Received' = Received
  BY <1>1 DEF Received
<1>4. quiet_ms > PublishInterval => Settled(Received)
  BY <1>2, Constants DEF SettledInv, PublishedSettles
<1>5. LoopKeepsProfile' /\ QuietInTime'
  BY <1>1 DEF LoopKeepsProfile, QuietInTime, SettledInv
<1>6. PublishedSettles'
  BY <1>1, <1>3 DEF PublishedSettles, Settled, SettledInv
<1>7. CurrentSettles'
  BY <1>1, <1>2, <1>4, Constants DEF CurrentSettles, Settled
<1>8. ViewSettles'
  <2> DEFINE shown == controller.last_view.snapshot
  <2>1. controller'.last_render_ms \in Nat /\ controller'.last_render_ms <= now_ms
    BY <1>1, <1>2, DisplayInvRound DEF DisplayInv, ControllerInStep, DisplayType, Controller
  <2>2. CASE StaysBoot
    BY <2>2 DEF StaysBoot, ViewSettles, Drawn
  <2>3. CASE Draws
    <3>1. controller'.last_view.snapshot = Received /\ controller'.last_render_ms = now_ms
      BY <2>3, NextViewIs DEF Draws
    <3>2. QED
      BY <1>1, <1>2, <1>4, <3>1, Constants DEF ViewSettles, Settled
  <2>4. CASE StaysDrawn
    <3>1. /\ Drawn /\ UNCHANGED screen
          /\ controller'.last_view = controller.last_view
          /\ controller'.last_render_ms = controller.last_render_ms
      BY <2>4 DEF StaysDrawn
    <3>2. quiet_ms > PublishInterval + (now_ms - controller.last_render_ms)
            => Settled(shown)
      BY <3>1 DEF SettledInv, ViewSettles
    <3>3. shown = Received \/ now_ms < controller.last_render_ms + RenderInterval
      BY <2>4, NextViewIs DEF StaysDrawn
    <3>4. quiet_ms > PublishInterval
            => Settled(shown) \/ now_ms < controller.last_render_ms + RenderInterval
      BY <1>4, <3>3
    <3> HIDE DEF shown
    <3>5. Settled(shown)' <=> Settled(shown)
      BY <1>1, <3>1 DEF Settled, shown
    <3>6. /\ quiet_ms' > PublishInterval + (now_ms' - controller'.last_render_ms)
               => Settled(shown)'
          /\ quiet_ms' > PublishInterval + waited_ms'
               => Settled(shown)'
                  \/ now_ms' - waited_ms' < controller'.last_render_ms + RenderInterval
      BY <1>1, <1>2, <3>1, <3>2, <3>4, <3>5, Constants
    <3>7. QED
      BY <3>6 DEF ViewSettles, shown
  <2>5. QED
    BY <2>2, <2>3, <2>4, RoundOutcome
<1>9. QED
  BY <1>5, <1>6, <1>7, <1>8 DEF SettledInv

\* What a step of the clock does to the histories.
LEMMA PassOutcome ==
  ASSUME DisplayInv, Pass
  PROVE  /\ UNCHANGED <<profile, counted, snapshot, last_publish_ms, queue, task,
                        current, controller, screen>>
         /\ now_ms' = now_ms + 1 /\ waited_ms' = waited_ms + 1
         /\ quiet_ms' \in quiet_ms..(quiet_ms + 1)
         /\ task # "running" => quiet_ms' = quiet_ms
         /\ unseen_ms' = IF unseen_ms > 0 THEN unseen_ms + 1 ELSE 0
         /\ unseen_fault_ms' = IF Drawn /\ unseen_fault_ms > 0 THEN unseen_fault_ms + 1
                               ELSE unseen_fault_ms
<1>1. quiet_ms \in Nat /\ unseen_ms \in Nat /\ unseen_fault_ms \in Nat
      /\ screen \in {"dark", "boot", "main", "fault"}
  BY DEF DisplayInv, DisplayType
<1>2. quiet_ms' = IF task = "running" /\ quiet_ms < LongQuiet THEN quiet_ms + 1 ELSE quiet_ms
  BY DEF Pass
<1>3. unseen_ms' = IF unseen_ms > 0 THEN unseen_ms + 1 ELSE 0
  BY DEF Pass, Aged
<1>4. unseen_fault_ms' = IF Drawn /\ unseen_fault_ms > 0 THEN unseen_fault_ms + 1
                         ELSE unseen_fault_ms
  BY <1>1 DEF Pass, Aged, Drawn
<1>5. /\ UNCHANGED <<profile, counted, snapshot, last_publish_ms, queue, task,
                     current, controller, screen>>
      /\ now_ms' = now_ms + 1 /\ waited_ms' = waited_ms + 1
  BY DEF Pass, loopVars, taskVars
<1>6. QED
  BY <1>1, <1>2, <1>3, <1>4, <1>5

LEMMA SettledPass ==
  ASSUME DisplayInv, SettledInv, Pass
  PROVE  SettledInv'
<1>1. /\ UNCHANGED <<profile, counted, snapshot, last_publish_ms, queue, task,
                     current, controller, screen>>
      /\ now_ms' = now_ms + 1 /\ waited_ms' = waited_ms + 1
      /\ quiet_ms' \in quiet_ms..(quiet_ms + 1)
      /\ task # "running" => quiet_ms' = quiet_ms
  BY PassOutcome
<1>2. /\ now_ms \in Nat /\ waited_ms \in Nat /\ quiet_ms \in Nat
      /\ last_publish_ms \in 0..now_ms
      /\ controller.last_render_ms \in Nat
      /\ controller.last_render_ms <= now_ms - waited_ms
  BY DEF DisplayInv, DisplayType, ControllerInStep, Controller
<1>3. LoopKeepsProfile' /\ QuietInTime'
  BY <1>1, <1>2 DEF LoopKeepsProfile, QuietInTime, SettledInv
<1>4. \/ quiet_ms' = 0
      \/ quiet_ms \in Nat /\ quiet_ms' <= quiet_ms + 1
  BY <1>1, <1>2
<1>5. PublishedSettles'
  <2>1. Received' = Received
    BY <1>1 DEF Received
  <2>2. QED
    BY <1>1, <1>2, <2>1 DEF PublishedSettles, Settled, SettledInv
<1>6. CurrentSettles'
  BY <1>1, <1>2, Constants DEF CurrentSettles, Settled, SettledInv
<1>7. ViewSettles'
  BY <1>1, <1>2, Constants DEF ViewSettles, Settled, SettledInv, Drawn
<1>8. QED
  BY <1>3, <1>5, <1>6, <1>7 DEF SettledInv

LEMMA SettledBegin ==
  ASSUME DisplayInv, SettledInv, BeginTask
  PROVE  SettledInv'
<1>1. /\ UNCHANGED <<now_ms, profile, counted, snapshot, last_publish_ms, queue, current,
                     quiet_ms>>
      /\ task' = "starting" /\ screen' = "boot" /\ waited_ms' = 0 /\ task = "created"
  BY DEF BeginTask, loopVars
<1>2. quiet_ms = 0 /\ now_ms \in Nat /\ last_publish_ms \in 0..now_ms
  BY <1>1 DEF SettledInv, QuietInTime, DisplayInv, DisplayType
<1>3. LoopKeepsProfile' /\ QuietInTime' /\ PublishedSettles' /\ CurrentSettles' /\ ViewSettles'
  BY <1>1, <1>2, Constants
     DEF SettledInv, LoopKeepsProfile, QuietInTime, PublishedSettles, CurrentSettles,
         ViewSettles, Drawn
<1>4. QED
  BY <1>3 DEF SettledInv

LEMMA SettledStep ==
  ASSUME BelowHalfTheClock, DisplayInv, SettledInv, [DisplayNext]_displayVars
  PROVE  SettledInv'
<1>1. CASE UNCHANGED displayVars
  BY <1>1 DEF displayVars, loopVars, taskVars, SettledInv, LoopKeepsProfile, QuietInTime,
              PublishedSettles, CurrentSettles, ViewSettles, Drawn, Settled, Received
<1>2. QED
  BY <1>1, SettledCount, SettledPublish, SettledBegin, SettledRound, SettledPass
     DEF DisplayNext

\* What is long settled is on the screen.
LEMMA ScreenIsSettled ==
  ASSUME DisplayInv, SettledInv, Drawn, quiet_ms > DrawTime
  PROVE  Settled(controller.last_view.snapshot)
<1>1. task = "running" /\ waited_ms <= TaskGap
  BY DEF DisplayInv, ScreenFollowsTask, DisplayType, Drawn
<1>2. /\ now_ms \in Nat /\ waited_ms \in Nat /\ quiet_ms \in Nat
      /\ controller.last_render_ms \in Nat
  BY DEF DisplayInv, DisplayType, Controller
<1>3. quiet_ms > PublishInterval + RenderInterval + 2 * TaskGap
  BY DEF DrawTime
<1>4. quiet_ms > PublishInterval + waited_ms
  BY <1>1, <1>2, <1>3, Constants
<1>5. CASE now_ms - waited_ms < controller.last_render_ms + RenderInterval
  <2>1. quiet_ms > PublishInterval + (now_ms - controller.last_render_ms)
    BY <1>1, <1>2, <1>3, <1>5, Constants
  <2>2. QED
    BY <2>1 DEF SettledInv, ViewSettles
<1>6. QED
  BY <1>4, <1>5 DEF SettledInv, ViewSettles

----------------------------------------------------------------------------
(* The overlay goes off *)

\* A mark that is on the screen has not expired, or not for longer than a drawing
\* may be put off.
Lingers(shown, until) ==
  shown => /\ controller.last_render_ms < until
           /\ now_ms - waited_ms < until + RenderInterval

\* The overlay's deadline is as old as the silence, up to the way to the task.
OverlayInv ==
  /\ controller.model.fault_until + quiet_ms
       <= now_ms + FaultOverlay + PublishInterval + TaskGap
  /\ Drawn => Lingers(controller.last_view.show_fault_overlay,
                      controller.model.fault_until)

\* What settled is no news.
LEMMA SettledIsOld ==
  ASSUME DisplayInv, SettledInv, task # "created",
         quiet_ms > PublishInterval + TaskGap
  PROVE  /\ Settled(current) /\ Settled(Received)
         /\ ~IsFault
         /\ current.rx_packets = Received.rx_packets
         /\ current.tx_packets = Received.tx_packets
<1>1. /\ now_ms \in Nat /\ waited_ms \in Nat /\ quiet_ms \in Nat
      /\ last_publish_ms \in 0..now_ms /\ now_ms - last_publish_ms <= PublishInterval
      /\ counted \in Counts
  BY DEF DisplayInv, DisplayType
<1>2. task = "running" /\ waited_ms <= TaskGap
  BY <1>1, Constants DEF SettledInv, QuietInTime, DisplayInv, ScreenFollowsTask
<1>3. Settled(current)
  BY <1>1, <1>2, Constants DEF SettledInv, CurrentSettles
<1>4. Settled(Received)
  BY <1>1, Constants DEF SettledInv, PublishedSettles
<1>5. QED
  BY <1>3, <1>4 DEF Settled, IsFault, NewFault

\* The mark that was on the screen, the one of the next view and the one that is on
\* the screen after the round, with the deadlines before and after it.
MarkMoves(shown, next, after, old, until) ==
  /\ old \in Nat /\ until \in Nat /\ old <= until
  /\ next => until > now_ms
  /\ Drawn => Lingers(shown, old)
  /\ \/ StaysDrawn /\ after = shown /\ (NextView = controller.last_view => next = shown)
     \/ Draws /\ after = next

\* A round keeps a mark no longer: it is drawn while it is pending, and stays on
\* only if it still is or the drawing is put off.
LEMMA LingersRound ==
  ASSUME DisplayInv, TaskRound,
         NEW shown, NEW next, NEW after, NEW old, NEW until,
         MarkMoves(shown, next, after, old, until)
  PROVE  after => /\ controller'.last_render_ms < until
                  /\ now_ms' - waited_ms' < until + RenderInterval
<1>1. /\ now_ms \in Nat /\ waited_ms \in Nat /\ controller.last_render_ms \in Nat
      /\ now_ms' = now_ms /\ waited_ms' = 0
  BY DEF TaskRound, DisplayInv, DisplayType, Controller
<1> USE DEF MarkMoves
<1>2. ASSUME after
      PROVE  controller'.last_render_ms < until /\ now_ms < until + RenderInterval
  <2>1. CASE StaysDrawn /\ after = shown /\ (NextView = controller.last_view => next = shown)
    <3>1. Drawn /\ controller'.last_render_ms = controller.last_render_ms
          /\ (next \/ now_ms < controller.last_render_ms + RenderInterval)
      BY <1>2, <2>1 DEF StaysDrawn
    <3>2. controller.last_render_ms < old
      BY <1>2, <2>1, <3>1 DEF Lingers
    <3>3. QED
      BY <1>1, <3>1, <3>2, Constants
  <2>2. CASE Draws /\ after = next
    BY <1>1, <1>2, <2>2, Constants DEF Draws
  <2>3. QED
    BY <2>1, <2>2
<1>3. QED
  BY <1>1, <1>2

LEMMA OverlayRound ==
  ASSUME BelowHalfTheClock, DisplayInv, SettledInv, OverlayInv, TaskRound
  PROVE  OverlayInv'
<1> DEFINE m == controller.model
<1>1. /\ now_ms \in Nat /\ waited_ms \in Nat /\ quiet_ms \in Nat
      /\ m.fault_until \in Nat /\ NextModel.fault_until \in Nat
      /\ controller'.model = NextModel
      /\ UNCHANGED <<now_ms, quiet_ms>> /\ waited_ms' = 0 /\ task # "created"
  BY RoundOutcome, NextModelIs DEF TaskRound, DisplayInv, DisplayType, Controller, Model
<1>2. NextModel.fault_until + quiet_ms
        <= now_ms + FaultOverlay + PublishInterval + TaskGap
  <2>1. CASE IsFault
    <3>1. quiet_ms <= PublishInterval + TaskGap
      BY <1>1, <2>1, SettledIsOld, Constants
    <3>2. NextModel.fault_until = now_ms + FaultOverlay
      BY <2>1, NextModelIs
    <3>3. QED
      BY <1>1, <3>1, <3>2, Constants
  <2>2. CASE ~IsFault
    BY <2>2, NextModelIs DEF OverlayInv
  <2>3. QED
    BY <2>1, <2>2
<1>3. ASSUME Drawn'
      PROVE  Lingers(controller.last_view.show_fault_overlay, m.fault_until)'
  <2>1. m.fault_until <= NextModel.fault_until
    BY <1>1, DeadlinesAhead, Constants
  <2>2. NextView.show_fault_overlay => NextModel.fault_until > now_ms
    BY NextViewIs
  <2>3. Drawn => Lingers(controller.last_view.show_fault_overlay, m.fault_until)
    BY DEF OverlayInv
  <2>4. \/ StaysDrawn /\ controller'.last_view = controller.last_view
        \/ Draws /\ controller'.last_view = NextView
    BY <1>3, RoundOutcome DEF StaysBoot, StaysDrawn, Draws, Drawn
  <2> DEFINE shown == controller.last_view.show_fault_overlay
             next  == NextView.show_fault_overlay
             after == controller'.last_view.show_fault_overlay
  <2>5. \/ StaysDrawn /\ after = shown /\ (NextView = controller.last_view => next = shown)
        \/ Draws /\ after = next
    BY <2>4
  <2> HIDE DEF shown, next, after
  <2>6. MarkMoves(shown, next, after, m.fault_until, NextModel.fault_until)
    BY <1>1, <2>1, <2>2, <2>3, <2>5 DEF next, shown, MarkMoves
  <2>7. after => /\ controller'.last_render_ms < NextModel.fault_until
                 /\ now_ms' - waited_ms' < NextModel.fault_until + RenderInterval
    BY <2>6, LingersRound
  <2>8. QED
    BY <1>1, <2>7 DEF Lingers, after
<1>4. QED
  BY <1>1, <1>2, <1>3 DEF OverlayInv

LEMMA OverlayInit ==
  ASSUME DisplayInit
  PROVE  OverlayInv
<1>1. controller.model.fault_until = 0
  BY BeginOutcome, Constants DEF DisplayInit
<1>2. QED
  BY <1>1, Constants DEF OverlayInv, DisplayInit, Drawn

LEMMA OverlayStep ==
  ASSUME BelowHalfTheClock, DisplayInv, SettledInv, OverlayInv, [DisplayNext]_displayVars
  PROVE  OverlayInv'
<1>1. /\ now_ms \in Nat /\ waited_ms \in Nat /\ waited_ms <= now_ms
      /\ quiet_ms \in Nat /\ quiet_ms <= now_ms
      /\ controller.model.fault_until \in Nat
      /\ controller.model.fault_until <= now_ms + FaultOverlay
  BY Constants DEF DisplayInv, DisplayType, Controller, Model, ControllerInStep, SettledInv,
                   QuietInTime
<1>2. CASE CountPacket \/ CountError \/ CountOther
  <2>1. quiet_ms' = 0 /\ UNCHANGED <<now_ms, taskVars, waited_ms>>
    BY <1>2, CountOutcome DEF DisplayInv
  <2>2. QED
    BY <1>1, <2>1, Constants DEF OverlayInv, Drawn, Lingers, taskVars
<1>3. CASE Publish
  BY <1>3 DEF Publish, OverlayInv, Drawn, Lingers, taskVars
<1>4. CASE BeginTask
  <2>1. UNCHANGED <<now_ms, quiet_ms>> /\ screen' = "boot"
        /\ controller' = BeginController(InitSnapshot, now_ms)
    BY <1>4 DEF BeginTask, DisplayInv, ScreenFollowsTask
  <2>2. controller'.model.fault_until = 0
    BY <2>1, BeginOutcome DEF DisplayInv, DisplayType
  <2>3. QED
    BY <1>1, <2>1, <2>2, Constants DEF OverlayInv, Drawn
<1>5. CASE TaskRound
  BY <1>5, OverlayRound
<1>6. CASE Pass
  <2>1. UNCHANGED <<controller, screen>> /\ now_ms' = now_ms + 1
        /\ waited_ms' = waited_ms + 1 /\ quiet_ms' \in quiet_ms..(quiet_ms + 1)
    BY <1>6, PassOutcome
  <2>2. QED
    BY <1>1, <2>1, Constants DEF OverlayInv, Drawn, Lingers
<1>7. CASE UNCHANGED displayVars
  BY <1>7 DEF displayVars, taskVars, OverlayInv, Drawn, Lingers
<1>8. QED
  BY <1>2, <1>3, <1>4, <1>5, <1>6, <1>7 DEF DisplayNext

\* OverlayTemporary, below half the clock: the fault screen is gone when nothing has
\* happened for the way to the panel and the overlay's time.
THEOREM OverlayGoesOff == ASSUME BelowHalfTheClock PROVE DisplaySpec => []OverlayTemporary
<1>1. DisplayInit => DisplayInv /\ SettledInv /\ OverlayInv
  BY DisplayInvInit, SettledInit, OverlayInit
<1>2. DisplayInv /\ SettledInv /\ OverlayInv /\ [DisplayNext]_displayVars
        => (DisplayInv /\ SettledInv /\ OverlayInv)'
  BY DisplayInvStep, SettledStep, OverlayStep
<1>3. DisplayInv /\ SettledInv /\ OverlayInv => OverlayTemporary
  <2>1. SUFFICES ASSUME DisplayInv, OverlayInv, screen = "fault"
                 PROVE  quiet_ms <= DrawTime + FaultOverlay
    BY Constants DEF OverlayTemporary, DrawTime, DisplayInv, DisplayType
  <2>2. /\ controller.last_view.show_fault_overlay
        /\ Drawn /\ task = "running" /\ waited_ms <= TaskGap
    BY <2>1 DEF DisplayInv, ScreenFollowsTask, DisplayType, Drawn, ScreenOf
  <2>3. /\ now_ms \in Nat /\ waited_ms \in Nat /\ quiet_ms \in Nat
        /\ controller.model.fault_until \in Nat
    BY <2>1 DEF DisplayInv, DisplayType, Controller, Model
  <2>4. now_ms - waited_ms < controller.model.fault_until + RenderInterval
    BY <2>1, <2>2 DEF OverlayInv, Lingers
  <2>5. QED
    BY <2>1, <2>2, <2>3, <2>4, Constants DEF OverlayInv, DrawTime
<1>4. QED
  BY <1>1, <1>2, <1>3, PTL DEF DisplaySpec

----------------------------------------------------------------------------
(* The marks go off *)

Pulses(s) == s.rx_active \/ s.tx_active

\* A pulse is on until the publication after the one that carried it.
PulsesInTime ==
  /\ counted.moved \/ Pulses(snapshot) => quiet_ms <= now_ms - last_publish_ms
  /\ Pulses(Received) => quiet_ms <= (now_ms - last_publish_ms) + PublishInterval

\* A mark's deadline is as old as the silence, up to the pulse's way to the task.
MarkDeadlines ==
  LET latest == now_ms + ActivityHold + 2 * PublishInterval + TaskGap
  IN  /\ controller.model.rx_until + quiet_ms <= latest
      /\ controller.model.tx_until + quiet_ms <= latest

MarksLinger ==
  Drawn => /\ Lingers(controller.last_view.show_rx_activity, controller.model.rx_until)
           /\ Lingers(controller.last_view.show_tx_activity, controller.model.tx_until)

MarksInv == PulsesInTime /\ MarkDeadlines /\ MarksLinger

LEMMA MarksInit ==
  ASSUME DisplayInit
  PROVE  MarksInv
<1>1. controller.model.rx_until = 0 /\ controller.model.tx_until = 0
  BY BeginOutcome, Constants DEF DisplayInit
<1>2. ~Pulses(snapshot) /\ ~Pulses(Received) /\ ~counted.moved
  BY InitSnapshotIs DEF DisplayInit, Pulses, Received
<1>3. QED
  BY <1>1, <1>2, Constants DEF MarksInv, PulsesInTime, MarkDeadlines, MarksLinger,
                               DisplayInit, Drawn

LEMMA MarksRound ==
  ASSUME BelowHalfTheClock, DisplayInv, SettledInv, MarksInv, TaskRound
  PROVE  MarksInv'
<1> DEFINE m == controller.model
           latest == now_ms + ActivityHold + 2 * PublishInterval + TaskGap
<1>1. /\ now_ms \in Nat /\ waited_ms \in Nat /\ quiet_ms \in Nat
      /\ last_publish_ms \in 0..now_ms /\ now_ms - last_publish_ms <= PublishInterval
      /\ m.rx_until \in Nat /\ m.tx_until \in Nat
      /\ NextModel.rx_until \in Nat /\ NextModel.tx_until \in Nat
      /\ controller'.model = NextModel /\ current' = Received /\ queue' = <<>>
      /\ UNCHANGED <<now_ms, counted, snapshot, last_publish_ms, quiet_ms>>
      /\ waited_ms' = 0 /\ task # "created"
  BY RoundOutcome, NextModelIs
     DEF TaskRound, loopVars, DisplayInv, DisplayType, Controller, Model
<1>2. PulsesInTime'
  <2>1. Received' = Received
    BY <1>1 DEF Received
  <2>2. QED
    BY <1>1, <2>1 DEF PulsesInTime, MarksInv, Pulses
<1>3. MarkDeadlines'
  <2>1. MovesRx \/ MovesTx => quiet_ms <= 2 * PublishInterval + TaskGap
    <3>1. CASE Pulses(Received)
      BY <1>1, <3>1, Constants DEF MarksInv, PulsesInTime
    <3>2. CASE ~Pulses(Received)
      <4>1. SUFFICES ASSUME MovesRx \/ MovesTx, quiet_ms > PublishInterval + TaskGap
                     PROVE  FALSE
        BY <1>1, Constants
      <4>2. current.rx_packets = Received.rx_packets
            /\ current.tx_packets = Received.tx_packets
        BY <1>1, <4>1, SettledIsOld
      <4>3. QED
        BY <3>2, <4>1, <4>2 DEF MovesRx, MovesTx, Moved, Pulses
    <3>3. QED
      BY <3>1, <3>2
  <2>2. NextModel.rx_until + quiet_ms <= latest
    BY <1>1, <2>1, NextModelIs, Constants DEF MarksInv, MarkDeadlines
  <2>3. NextModel.tx_until + quiet_ms <= latest
    BY <1>1, <2>1, NextModelIs, Constants DEF MarksInv, MarkDeadlines
  <2>4. QED
    BY <1>1, <2>2, <2>3 DEF MarkDeadlines
<1>4. ASSUME Drawn'
      PROVE  /\ Lingers(controller.last_view.show_rx_activity, m.rx_until)'
             /\ Lingers(controller.last_view.show_tx_activity, m.tx_until)'
  <2>1. \/ StaysDrawn /\ controller'.last_view = controller.last_view
        \/ Draws /\ controller'.last_view = NextView
    BY <1>4, RoundOutcome DEF StaysBoot, StaysDrawn, Draws, Drawn
  <2> DEFINE rx  == controller.last_view.show_rx_activity
             rx2 == NextView.show_rx_activity
             rx3 == controller'.last_view.show_rx_activity
             tx  == controller.last_view.show_tx_activity
             tx2 == NextView.show_tx_activity
             tx3 == controller'.last_view.show_tx_activity
  <2>2. /\ \/ StaysDrawn /\ rx3 = rx /\ (NextView = controller.last_view => rx2 = rx)
           \/ Draws /\ rx3 = rx2
        /\ \/ StaysDrawn /\ tx3 = tx /\ (NextView = controller.last_view => tx2 = tx)
           \/ Draws /\ tx3 = tx2
    BY <2>1
  <2>3. /\ rx2 => NextModel.rx_until > now_ms
        /\ tx2 => NextModel.tx_until > now_ms
    BY NextViewIs
  <2>4. Drawn => Lingers(rx, m.rx_until) /\ Lingers(tx, m.tx_until)
    BY DEF MarksInv, MarksLinger
  <2>5. m.rx_until <= NextModel.rx_until /\ m.tx_until <= NextModel.tx_until
    BY <1>1, DeadlinesAhead, Constants
  <2> HIDE DEF rx, rx2, rx3, tx, tx2, tx3
  <2>6. MarkMoves(rx, rx2, rx3, m.rx_until, NextModel.rx_until)
    BY <1>1, <2>2, <2>3, <2>4, <2>5 DEF MarkMoves
  <2>7. MarkMoves(tx, tx2, tx3, m.tx_until, NextModel.tx_until)
    BY <1>1, <2>2, <2>3, <2>4, <2>5 DEF MarkMoves
  <2>8. /\ rx3 => /\ controller'.last_render_ms < NextModel.rx_until
                  /\ now_ms' - waited_ms' < NextModel.rx_until + RenderInterval
        /\ tx3 => /\ controller'.last_render_ms < NextModel.tx_until
                  /\ now_ms' - waited_ms' < NextModel.tx_until + RenderInterval
    BY <2>6, <2>7, LingersRound
  <2>9. QED
    BY <1>1, <2>8 DEF Lingers, rx3, tx3
<1>5. QED
  BY <1>1, <1>2, <1>3, <1>4 DEF MarksInv, MarksLinger

LEMMA MarksStep ==
  ASSUME BelowHalfTheClock, DisplayInv, SettledInv, MarksInv, [DisplayNext]_displayVars
  PROVE  MarksInv'
<1> USE DEF MarksInv
<1>1. /\ now_ms \in Nat /\ waited_ms \in Nat /\ waited_ms <= now_ms
      /\ quiet_ms \in Nat /\ quiet_ms <= now_ms
      /\ last_publish_ms \in 0..now_ms /\ now_ms - last_publish_ms <= PublishInterval
      /\ controller.model.rx_until \in Nat /\ controller.model.tx_until \in Nat
      /\ controller.model.rx_until <= now_ms + ActivityHold
      /\ controller.model.tx_until <= now_ms + ActivityHold
  BY Constants DEF DisplayInv, DisplayType, Controller, Model, ControllerInStep, SettledInv,
                   QuietInTime
<1>2. CASE CountPacket \/ CountError \/ CountOther
  <2>1. /\ quiet_ms' = 0
        /\ UNCHANGED <<now_ms, last_publish_ms, queue, taskVars, waited_ms>>
    BY <1>2, CountOutcome DEF DisplayInv
  <2>2. PulsesInTime'
    BY <1>1, <2>1, Constants DEF PulsesInTime
  <2>3. MarkDeadlines'
    BY <1>1, <2>1, Constants DEF MarkDeadlines, taskVars
  <2>4. MarksLinger'
    BY <2>1 DEF MarksLinger, Lingers, Drawn, taskVars
  <2>5. QED
    BY <2>2, <2>3, <2>4
<1>3. CASE Publish
  <2> DEFINE s == RefreshDisplaySnapshot
  <2>1. /\ UNCHANGED <<now_ms, taskVars, waited_ms, quiet_ms>> /\ last_publish_ms' = now_ms
        /\ queue' = <<s>> /\ snapshot' = PulsesOff(s)
        /\ counted' = [counted EXCEPT !.moved = FALSE]
    BY <1>3 DEF Publish
  <2>2. s \in Snapshot /\ counted \in Counts
        /\ (Pulses(s) => counted.moved \/ Pulses(snapshot))
    BY RefreshIs DEF DisplayInv, DisplayType, Pulses
  <2> HIDE DEF s
  <2>3. ~counted'.moved /\ ~Pulses(snapshot') /\ Received' = s
    BY <2>1, <2>2 DEF Counts, Snapshot, PulsesOff, Pulses, Received
  <2>4. Pulses(s) => quiet_ms <= PublishInterval
    BY <1>1, <2>2, Constants DEF PulsesInTime
  <2>5. PulsesInTime'
    BY <1>1, <2>1, <2>3, <2>4, Constants DEF PulsesInTime, Pulses
  <2>6. QED
    BY <2>1, <2>5 DEF MarkDeadlines, MarksLinger, Lingers, Drawn, taskVars
<1>4. CASE BeginTask
  <2>1. UNCHANGED <<now_ms, counted, snapshot, last_publish_ms, queue, current, quiet_ms>>
        /\ screen' = "boot"
        /\ controller' = BeginController(InitSnapshot, now_ms)
    BY <1>4 DEF BeginTask, loopVars, DisplayInv, ScreenFollowsTask
  <2>2. controller'.model.rx_until = 0 /\ controller'.model.tx_until = 0
    BY <2>1, BeginOutcome DEF DisplayInv, DisplayType
  <2>3. PulsesInTime'
    BY <2>1 DEF PulsesInTime, Pulses, Received
  <2>4. QED
    BY <1>1, <2>1, <2>2, <2>3, Constants DEF MarkDeadlines, MarksLinger, Drawn
<1>5. CASE TaskRound
  BY <1>5, MarksRound
<1>6. CASE Pass
  <2>1. /\ UNCHANGED <<counted, snapshot, last_publish_ms, queue, current, controller, screen>>
        /\ now_ms' = now_ms + 1
        /\ waited_ms' = waited_ms + 1 /\ quiet_ms' \in quiet_ms..(quiet_ms + 1)
    BY <1>6, PassOutcome
  <2>2. PulsesInTime'
    BY <1>1, <2>1, Constants DEF PulsesInTime, Pulses, Received
  <2>3. MarkDeadlines'
    BY <1>1, <2>1, Constants DEF MarkDeadlines
  <2>4. MarksLinger'
    BY <1>1, <2>1, Constants DEF MarksLinger, Drawn, Lingers
  <2>5. QED
    BY <2>2, <2>3, <2>4
<1>7. CASE UNCHANGED displayVars
  BY <1>7 DEF displayVars, loopVars, taskVars, PulsesInTime, MarkDeadlines, MarksLinger,
              Drawn, Lingers, Pulses, Received
<1>8. QED
  BY <1>2, <1>3, <1>4, <1>5, <1>6, <1>7 DEF DisplayNext

\* ScreenSettles, below half the clock: after a silence the panel holds what was
\* counted, however often snapshots were overwritten and drawings put off on the
\* way, and later no mark is left on it.
THEOREM ScreenComesToRest == ASSUME BelowHalfTheClock PROVE DisplaySpec => []ScreenSettles
<1>1. DisplayInit => DisplayInv /\ SettledInv /\ MarksInv
  BY DisplayInvInit, SettledInit, MarksInit
<1>2. DisplayInv /\ SettledInv /\ MarksInv /\ [DisplayNext]_displayVars
        => (DisplayInv /\ SettledInv /\ MarksInv)'
  BY DisplayInvStep, SettledStep, MarksStep
<1>3. DisplayInv /\ SettledInv /\ MarksInv => ScreenSettles
  <2>1. SUFFICES ASSUME DisplayInv, SettledInv, MarksInv, Drawn
                 PROVE  ScreenSettles
    BY DEF ScreenSettles, Drawn
  <2> DEFINE view == controller.last_view
  <2>2. /\ now_ms \in Nat /\ waited_ms \in Nat /\ quiet_ms \in Nat
        /\ controller.model.rx_until \in Nat /\ controller.model.tx_until \in Nat
        /\ counted \in Counts /\ view.snapshot \in Snapshot
    BY <2>1 DEF DisplayInv, DisplayType, Controller, Model, ViewModel
  <2>3. task = "running" /\ waited_ms <= TaskGap
    BY <2>1 DEF DisplayInv, ScreenFollowsTask, DisplayType, Drawn
  <2>4. ASSUME quiet_ms > DrawTime
        PROVE  /\ view.snapshot.rx_packets + view.snapshot.tx_packets = counted.packets
               /\ view.snapshot.error_count = counted.errors
               /\ view.snapshot.state = "kFault" <=> counted.fault
               /\ view.snapshot.aux_enabled => counted.armed
    <3>1. Settled(view.snapshot)
      BY <2>1, <2>4, ScreenIsSettled
    <3>2. counted.packets \in Nat
      BY <2>2 DEF Counts
    <3>3. QED
      BY <3>1, <3>2 DEF Settled
  <2>5. ASSUME quiet_ms > MarkTime
        PROVE  ~view.show_rx_activity /\ ~view.show_tx_activity
    <3>1. quiet_ms > 2 * PublishInterval + RenderInterval + 2 * TaskGap + ActivityHold
      BY <2>2, <2>5, Constants DEF MarkTime, DrawTime
    <3>2. /\ view.show_rx_activity
               => now_ms - waited_ms < controller.model.rx_until + RenderInterval
          /\ view.show_tx_activity
               => now_ms - waited_ms < controller.model.tx_until + RenderInterval
      BY <2>1 DEF MarksInv, MarksLinger, Lingers
    <3>3. QED
      BY <2>1, <2>2, <2>3, <3>1, <3>2, Constants DEF MarksInv, MarkDeadlines
  <2>6. QED
    BY <2>4, <2>5 DEF ScreenSettles
<1>4. QED
  BY <1>1, <1>2, <1>3, PTL DEF DisplaySpec

----------------------------------------------------------------------------
(* The newest packet gets its mark *)

Total(s) == s.rx_packets + s.tx_packets

\* What the task knows of but has not drawn is put off since its last drawing, and
\* its mark lasts until the put-off is over.
PutOffInTime(age, until, hold) ==
  /\ now_ms - waited_ms < controller.last_render_ms + RenderInterval
  /\ controller.last_render_ms + hold <= until
  /\ controller.last_render_ms + (age - 1) <= now_ms + PublishInterval + TaskGap

LEMMA StillPending ==
  ASSUME DisplayInv, task = "running", NEW age, NEW until \in Nat, NEW hold \in Nat,
         PutOffInTime(age, until, hold), RenderInterval + TaskGap <= hold
  PROVE  until > now_ms
<1>1. now_ms \in Nat /\ waited_ms \in Nat /\ waited_ms <= TaskGap
      /\ controller.last_render_ms \in Nat
  BY DEF DisplayInv, DisplayType, ScreenFollowsTask, Controller
<1>2. QED
  BY <1>1, Constants DEF PutOffInTime

LEMMA PutOffAgain ==
  ASSUME DisplayInv, TaskRound, StaysDrawn,
         now_ms < controller.last_render_ms + RenderInterval,
         NEW age \in Nat, NEW old \in Nat, NEW until \in Nat, NEW hold \in Nat,
         \/ PutOffInTime(age, old, hold) /\ old <= until
         \/ until = now_ms + hold /\ age - 1 <= PublishInterval + TaskGap
  PROVE  /\ now_ms' - waited_ms' < controller'.last_render_ms + RenderInterval
         /\ controller'.last_render_ms + hold <= until
         /\ controller'.last_render_ms + (age - 1) <= now_ms' + PublishInterval + TaskGap
<1>1. /\ now_ms \in Nat /\ waited_ms \in Nat /\ controller.last_render_ms \in Nat
      /\ controller.last_render_ms <= now_ms - waited_ms
      /\ now_ms' = now_ms /\ waited_ms' = 0
      /\ controller'.last_render_ms = controller.last_render_ms
  BY DEF TaskRound, StaysDrawn, DisplayInv, DisplayType, ControllerInStep, Controller
<1>2. QED
  BY <1>1, Constants DEF PutOffInTime

\* No age is above the way to the panel.
LEMMA PutOffBound ==
  ASSUME DisplayInv, task = "running", NEW age \in Nat, NEW until, NEW hold,
         \/ age - 1 <= PublishInterval + waited_ms
         \/ PutOffInTime(age, until, hold)
  PROVE  age <= DrawTime + 1
<1>1. now_ms \in Nat /\ waited_ms \in Nat /\ waited_ms <= TaskGap
      /\ controller.last_render_ms \in Nat
  BY DEF DisplayInv, DisplayType, ScreenFollowsTask, Controller
<1>2. QED
  BY <1>1, Constants DEF PutOffInTime, DrawTime

TotalsGrow == Total(current) <= Total(Received) /\ Total(Received) <= counted.packets

UnseenInTime ==
  /\ unseen_ms > 0 => Drawn
  /\ unseen_ms - 1 > now_ms - last_publish_ms => Total(Received) = counted.packets
  /\ unseen_ms - 1 > PublishInterval + waited_ms => Total(current) = counted.packets

UnseenPutOff ==
  unseen_ms > 0 /\ Total(current) = counted.packets =>
    \/ PutOffInTime(unseen_ms, controller.model.rx_until, ActivityHold)
    \/ PutOffInTime(unseen_ms, controller.model.tx_until, ActivityHold)

ActivityInv == TotalsGrow /\ UnseenInTime /\ UnseenPutOff

LEMMA SnapshotTotal ==
  ASSUME NEW s \in Snapshot
  PROVE  Total(s) \in Nat
BY DEF Snapshot, Total

LEMMA ActivityInit ==
  ASSUME DisplayInit
  PROVE  ActivityInv
<1>1. Total(current) = 0 /\ Total(Received) = 0
  BY InitSnapshotIs DEF DisplayInit, Received, Total
<1>2. QED
  BY <1>1, Constants DEF DisplayInit, ActivityInv, TotalsGrow, UnseenInTime, UnseenPutOff

LEMMA ActivityRound ==
  ASSUME BelowHalfTheClock, DisplayInv, SettledInv, ActivityInv, TaskRound
  PROVE  ActivityInv'
<1> DEFINE m == controller.model
           rest == counted.packets
<1>1. /\ now_ms \in Nat /\ waited_ms \in Nat /\ unseen_ms \in Nat
      /\ last_publish_ms \in 0..now_ms /\ now_ms - last_publish_ms <= PublishInterval
      /\ m.rx_until \in Nat /\ m.tx_until \in Nat
      /\ NextModel.rx_until \in Nat /\ NextModel.tx_until \in Nat
      /\ Total(current) \in Nat /\ Total(Received) \in Nat /\ rest \in Nat
  BY NextModelIs, ReceivedIs, SnapshotTotal
     DEF DisplayInv, DisplayType, Controller, Model, Counts
<1>2. /\ UNCHANGED <<now_ms, counted, last_publish_ms>>
      /\ waited_ms' = 0 /\ task # "created"
      /\ controller'.model = NextModel /\ current' = Received /\ queue' = <<>>
  BY RoundOutcome DEF TaskRound, loopVars
<1>3. Received' = Received
  BY <1>2 DEF Received
<1>4. Total(current) <= Total(Received) /\ Total(Received) <= rest
  BY DEF ActivityInv, TotalsGrow
<1>5. TotalsGrow'
  BY <1>1, <1>2, <1>3, <1>4 DEF TotalsGrow, Total
<1>6. unseen_ms' = 0 \/ unseen_ms' = unseen_ms
  BY DEF TaskRound
<1>7. unseen_ms - 1 > PublishInterval => Total(Received) = rest
  BY <1>1, Constants DEF ActivityInv, UnseenInTime
<1>8. \/ unseen_ms' = 0
      \/ /\ unseen_ms' = unseen_ms /\ unseen_ms > 0 /\ Drawn
         /\ task = "running" /\ waited_ms <= TaskGap
  BY <1>1, <1>6 DEF ActivityInv, UnseenInTime, Drawn, DisplayInv, ScreenFollowsTask, DisplayType
<1>9. CASE unseen_ms' = 0
  BY <1>1, <1>2, <1>5, <1>9, Constants DEF ActivityInv, UnseenInTime, UnseenPutOff
<1>10. CASE /\ unseen_ms' = unseen_ms /\ unseen_ms > 0 /\ Drawn
            /\ task = "running" /\ waited_ms <= TaskGap
  <2>1. StaysDrawn \/ Draws
    BY <1>10, RoundOutcome DEF StaysBoot, Drawn
  <2>2. Drawn'
    BY <2>1 DEF StaysDrawn, Draws, Drawn, ScreenOf
  <2>3. UnseenInTime'
    BY <1>1, <1>2, <1>3, <1>7, <1>10, <2>2, Constants DEF UnseenInTime, ActivityInv, Total
  <2>4. ASSUME Total(Received) = rest
        PROVE  \/ PutOffInTime(unseen_ms, m.rx_until, ActivityHold)'
               \/ PutOffInTime(unseen_ms, m.tx_until, ActivityHold)'
    <3>1. ActivityHold \in Nat /\ RenderInterval + TaskGap <= ActivityHold
      BY Constants, WaitsAssumption
    <3>2. /\ m.rx_until <= NextModel.rx_until /\ m.tx_until <= NextModel.tx_until
      BY <1>1, DeadlinesAhead, Constants
    <3> DEFINE Waits(old, until) ==
                 \/ PutOffInTime(unseen_ms, old, ActivityHold) /\ old <= until
                 \/ /\ until = now_ms + ActivityHold
                    /\ unseen_ms - 1 <= PublishInterval + TaskGap
    <3>3. \/ Waits(m.rx_until, NextModel.rx_until) \/ Waits(m.tx_until, NextModel.tx_until)
      <4>1. CASE Total(current) = rest
        BY <1>10, <3>2, <4>1 DEF ActivityInv, UnseenPutOff
      <4>2. CASE Total(current) # rest
        <5>1. unseen_ms - 1 <= PublishInterval + TaskGap
          BY <1>1, <1>10, <4>2, Constants DEF ActivityInv, UnseenInTime
        <5>2. MovesRx \/ MovesTx
          BY <2>4, <4>2 DEF MovesRx, MovesTx, Moved, Total
        <5>3. QED
          BY <5>1, <5>2, NextModelIs
      <4>3. QED
        BY <4>1, <4>2
    <3>4. NextModel.rx_until > now_ms \/ NextModel.tx_until > now_ms
      <4>1. \A old, until \in Nat : Waits(old, until) => until > now_ms
        <5>1. SUFFICES ASSUME NEW old \in Nat, NEW until \in Nat, Waits(old, until)
                       PROVE  until > now_ms
          OBVIOUS
        <5>2. CASE PutOffInTime(unseen_ms, old, ActivityHold) /\ old <= until
          BY <1>1, <1>10, <3>1, <5>2, StillPending
        <5>3. CASE until = now_ms + ActivityHold
          BY <1>1, <5>3, Constants
        <5>4. QED
          BY <5>1, <5>2, <5>3
      <4> HIDE DEF Waits
      <4>2. QED
        BY <1>1, <3>3, <4>1
    <3>5. NextView.show_rx_activity \/ NextView.show_tx_activity
      BY <3>4, NextViewIs
    <3>6. controller'.last_view # NextView
      <4>1. SUFFICES ASSUME controller'.last_view = NextView
                     PROVE  FALSE
        OBVIOUS
      <4>2. screen' = ScreenOf(controller'.last_view)
        BY <2>2, DisplayInvRound DEF DisplayInv, ScreenFollowsTask
      <4>3. screen' \in {"main", "fault"}
        BY <2>2 DEF Drawn
      <4>4. Total(controller'.last_view.snapshot) = rest
        BY <2>4, <4>1, NextViewIs
      <4>5. unseen_ms' = 0
        BY <3>5, <4>1, <4>3, <4>4 DEF TaskRound, Total
      <4>6. QED
        BY <1>10, <4>5
    <3>7. StaysDrawn /\ now_ms < controller.last_render_ms + RenderInterval
      BY <2>1, <3>6 DEF StaysDrawn, Draws
    <3>8. \A old, until \in Nat : Waits(old, until) =>
             /\ now_ms' - waited_ms' < controller'.last_render_ms + RenderInterval
             /\ controller'.last_render_ms + ActivityHold <= until
             /\ controller'.last_render_ms + (unseen_ms - 1)
                  <= now_ms' + PublishInterval + TaskGap
      BY <1>1, <3>1, <3>7, PutOffAgain
    <3> HIDE DEF Waits
    <3>9. QED
      BY <1>1, <1>2, <1>10, <3>3, <3>8 DEF PutOffInTime
  <2>5. UnseenPutOff'
    BY <1>2, <2>4 DEF UnseenPutOff, Total
  <2>6. QED
    BY <1>5, <2>3, <2>5 DEF ActivityInv
<1>11. QED
  BY <1>8, <1>9, <1>10

LEMMA ActivityStep ==
  ASSUME BelowHalfTheClock, DisplayInv, SettledInv, ActivityInv, [DisplayNext]_displayVars
  PROVE  ActivityInv'
<1>1. /\ now_ms \in Nat /\ waited_ms \in Nat /\ unseen_ms \in Nat
      /\ last_publish_ms \in 0..now_ms
      /\ Total(current) \in Nat /\ Total(Received) \in Nat /\ counted \in Counts
      /\ counted.packets \in Nat /\ controller.last_render_ms \in Nat
      /\ screen \in {"dark", "boot", "main", "fault"}
  BY ReceivedIs, SnapshotTotal DEF DisplayInv, DisplayType, Counts, Controller
<1> USE DEF ActivityInv
<1>2. CASE CountPacket \/ CountError \/ CountOther
  <2>1. UNCHANGED <<now_ms, profile, last_publish_ms, queue, taskVars, waited_ms>>
    BY <1>2, CountOutcome DEF DisplayInv
  <2>2. Received' = Received /\ current' = current
    BY <2>1 DEF Received, taskVars
  <2>3. CASE CountPacket
    <3>1. counted'.packets = counted.packets + 1
      BY <1>1, <2>3 DEF CountPacket, Counts
    <3>2. unseen_ms' \in {0, 1} /\ (unseen_ms' > 0 => Drawn)
      BY <1>1, <2>3 DEF CountPacket, Drawn
    <3>3. TotalsGrow'
      BY <1>1, <2>2, <3>1 DEF TotalsGrow, Total
    <3>4. Total(current)' # counted'.packets
      BY <1>1, <2>2, <3>1 DEF TotalsGrow, Total
    <3>5. UnseenInTime'
      <4>1. /\ ~(unseen_ms' - 1 > now_ms' - last_publish_ms')
            /\ ~(unseen_ms' - 1 > PublishInterval + waited_ms')
        <5>1. /\ now_ms' - last_publish_ms' \in Nat
              /\ PublishInterval + waited_ms' \in Nat
          BY <1>1, <2>1, Constants
        <5>2. unseen_ms' = 0 \/ unseen_ms' = 1
          BY <3>2
        <5>3. QED
          BY <5>1, <5>2
      <4>2. Drawn <=> Drawn'
        BY <2>1 DEF Drawn, taskVars
      <4>3. QED
        BY <3>2, <4>1, <4>2 DEF UnseenInTime
    <3>6. UnseenPutOff'
      BY <3>4 DEF UnseenPutOff
    <3>7. QED
      BY <3>3, <3>5, <3>6
  <2>4. CASE CountError \/ CountOther
    <3>1. counted'.packets = counted.packets /\ unseen_ms' = unseen_ms
      BY <1>1, <2>4 DEF CountError, CountOther, Counts, seen
    <3>2. QED
      BY <2>1, <2>2, <3>1
         DEF TotalsGrow, UnseenInTime, UnseenPutOff, PutOffInTime, Total, Drawn, taskVars
  <2>5. QED
    BY <1>2, <2>3, <2>4
<1>3. CASE Publish
  <2> DEFINE s == RefreshDisplaySnapshot
  <2>1. /\ UNCHANGED <<now_ms, profile, taskVars, waited_ms, unseen_ms>>
        /\ last_publish_ms' = now_ms /\ queue' = <<s>>
        /\ counted' = [counted EXCEPT !.moved = FALSE]
    BY <1>3 DEF Publish, seen
  <2>2. Total(s) = counted.packets
    BY <1>1, RefreshSettles DEF DisplayInv, SettledInv, Settled, Total
  <2> HIDE DEF s
  <2>3. Received' = s /\ counted'.packets = counted.packets
    BY <1>1, <2>1 DEF Received, Counts
  <2>4. Total(Received)' = counted'.packets /\ Total(current)' = Total(current)
    BY <2>1, <2>2, <2>3 DEF Total, taskVars
  <2>5. TotalsGrow'
    BY <1>1, <2>3, <2>4 DEF TotalsGrow
  <2>6. UnseenInTime' /\ UnseenPutOff'
    BY <2>1, <2>3, <2>4 DEF UnseenInTime, UnseenPutOff, PutOffInTime, Drawn, taskVars
  <2>7. QED
    BY <2>5, <2>6
<1>4. CASE BeginTask
  <2>1. UNCHANGED <<now_ms, counted, queue, current, unseen_ms, last_publish_ms>>
        /\ screen = "dark"
    BY <1>4 DEF BeginTask, seen, loopVars, DisplayInv, ScreenFollowsTask
  <2>2. unseen_ms = 0
    BY <1>1, <2>1 DEF UnseenInTime, Drawn
  <2>3. waited_ms' = 0
    BY <1>4 DEF BeginTask
  <2>4. TotalsGrow'
    BY <2>1 DEF TotalsGrow, Total, Received
  <2>5. QED
    BY <1>1, <2>1, <2>2, <2>3, <2>4, Constants DEF UnseenInTime, UnseenPutOff
<1>5. CASE TaskRound
  BY <1>5, ActivityRound
<1>6. CASE Pass
  <2>1. /\ UNCHANGED <<counted, last_publish_ms, queue, current, controller, screen>>
        /\ now_ms' = now_ms + 1 /\ waited_ms' = waited_ms + 1
        /\ unseen_ms' = IF unseen_ms > 0 THEN unseen_ms + 1 ELSE 0
    BY <1>6, PassOutcome
  <2>2. Received' = Received
    BY <2>1 DEF Received
  <2>3. TotalsGrow'
    BY <2>1, <2>2 DEF TotalsGrow, Total
  <2>4. UnseenInTime'
    BY <1>1, <2>1, <2>2, Constants DEF UnseenInTime, Total, Drawn
  <2>5. UnseenPutOff'
    BY <1>1, <2>1, Constants DEF UnseenPutOff, PutOffInTime, Total
  <2>6. QED
    BY <2>3, <2>4, <2>5
<1>7. CASE UNCHANGED displayVars
  BY <1>7 DEF displayVars, loopVars, taskVars, seen, TotalsGrow, UnseenInTime, UnseenPutOff,
              PutOffInTime, Total, Received, Drawn
<1>8. QED
  BY <1>2, <1>3, <1>4, <1>5, <1>6, <1>7 DEF DisplayNext

\* ActivityShown, below half the clock: the newest packet is on the screen with a
\* mark, or behind the fault screen, within the way to the panel.
THEOREM PacketsAreShown == ASSUME BelowHalfTheClock PROVE DisplaySpec => []ActivityShown
<1>1. DisplayInit => DisplayInv /\ SettledInv /\ ActivityInv
  BY DisplayInvInit, SettledInit, ActivityInit
<1>2. DisplayInv /\ SettledInv /\ ActivityInv /\ [DisplayNext]_displayVars
        => (DisplayInv /\ SettledInv /\ ActivityInv)'
  BY DisplayInvStep, SettledStep, ActivityStep
<1>3. DisplayInv /\ ActivityInv => ActivityShown
  <2>1. SUFFICES ASSUME DisplayInv, ActivityInv, unseen_ms > 0
                 PROVE  unseen_ms <= DrawTime + 1
    BY Constants DEF ActivityShown, DisplayInv, DisplayType, DrawTime
  <2>2. task = "running"
    BY <2>1 DEF ActivityInv, UnseenInTime, Drawn, DisplayInv, ScreenFollowsTask, DisplayType
  <2>3. unseen_ms \in Nat /\ waited_ms \in Nat
    BY <2>1 DEF DisplayInv, DisplayType
  <2>4. \/ unseen_ms - 1 <= PublishInterval + waited_ms
        \/ PutOffInTime(unseen_ms, controller.model.rx_until, ActivityHold)
        \/ PutOffInTime(unseen_ms, controller.model.tx_until, ActivityHold)
    BY <2>1, <2>3, Constants DEF ActivityInv, UnseenInTime, UnseenPutOff
  <2>5. QED
    BY <2>1, <2>2, <2>3, <2>4, PutOffBound
<1>4. QED
  BY <1>1, <1>2, <1>3, PTL DEF DisplaySpec

----------------------------------------------------------------------------
(* Every error gets its overlay *)

ErrorsGrow ==
  /\ current.error_count <= Received.error_count
  /\ Received.error_count <= counted.errors
  /\ unseen_fault_ms > 0 => counted.errors > 0

FaultInTime ==
  /\ ~Drawn => unseen_fault_ms <= 1
  /\ unseen_fault_ms - 1 > now_ms - last_publish_ms
       => Received.error_count = counted.errors
  /\ unseen_fault_ms - 1 > PublishInterval + waited_ms
       => current.error_count = counted.errors

\* An error the task knows of is put off, or waits for the end of the boot screen.
FaultPutOff ==
  unseen_fault_ms > 0 /\ current.error_count = counted.errors =>
    /\ Drawn => PutOffInTime(unseen_fault_ms, controller.model.fault_until, FaultOverlay)
    /\ screen = "boot" =>
         controller.model.fault_until >= controller.boot_started_ms + FaultOverlay

FaultInv == ErrorsGrow /\ FaultInTime /\ FaultPutOff

LEMMA FaultInit ==
  ASSUME DisplayInit
  PROVE  FaultInv
<1>1. current.error_count = 0 /\ Received.error_count = 0
  BY InitSnapshotIs DEF DisplayInit, Received
<1>2. QED
  BY <1>1, Constants DEF DisplayInit, FaultInv, ErrorsGrow, FaultInTime, FaultPutOff

LEMMA FaultRound ==
  ASSUME BelowHalfTheClock, DisplayInv, SettledInv, FaultInv, TaskRound
  PROVE  FaultInv'
<1> DEFINE m == controller.model
           rest == counted.errors
           known == current.error_count
           got == Received.error_count
<1>1. /\ now_ms \in Nat /\ waited_ms \in Nat /\ unseen_fault_ms \in Nat
      /\ last_publish_ms \in 0..now_ms /\ now_ms - last_publish_ms <= PublishInterval
      /\ m.fault_until \in Nat /\ NextModel.fault_until \in Nat
      /\ known \in Nat /\ got \in Nat /\ rest \in Nat
      /\ controller.boot_started_ms \in Nat
      /\ controller.boot_started_ms <= now_ms - waited_ms
  <2>1. DisplayType /\ ControllerInStep
    BY DEF DisplayInv
  <2>2. known \in Nat /\ got \in Nat /\ rest \in Nat
    BY <2>1, ReceivedIs DEF DisplayType, Counts, Snapshot
  <2>3. m.fault_until \in Nat /\ NextModel.fault_until \in Nat
    BY <2>1, NextModelIs DEF DisplayType, Controller, Model
  <2>4. controller.boot_started_ms \in Nat
    BY <2>1 DEF DisplayType, Controller
  <2>5. QED
    BY <2>1, <2>2, <2>3, <2>4 DEF DisplayType, ControllerInStep
<1>2. /\ UNCHANGED <<now_ms, counted, last_publish_ms>>
      /\ waited_ms' = 0 /\ task # "created" /\ current' = Received /\ queue' = <<>>
      /\ controller'.model = NextModel
      /\ controller'.boot_started_ms = controller.boot_started_ms
  BY RoundOutcome DEF TaskRound, loopVars
<1>3. Received' = Received
  BY <1>2 DEF Received
<1>4. known <= got /\ got <= rest /\ (unseen_fault_ms > 0 => rest > 0)
  BY DEF FaultInv, ErrorsGrow
<1>5. unseen_fault_ms' = 0 \/ (unseen_fault_ms' = unseen_fault_ms /\ unseen_fault_ms > 0)
  BY <1>1 DEF TaskRound
<1>6. ErrorsGrow'
  BY <1>1, <1>2, <1>3, <1>4, <1>5 DEF ErrorsGrow
<1>7. m.fault_until <= NextModel.fault_until
  BY <1>1, DeadlinesAhead, Constants
<1>8. got # known => NextModel.fault_until = now_ms + FaultOverlay
  BY NextModelIs DEF IsFault, NewFault
<1>9. unseen_fault_ms - 1 > PublishInterval => got = rest
  BY <1>1, Constants DEF FaultInv, FaultInTime
<1>10. CASE unseen_fault_ms' = 0
  BY <1>1, <1>2, <1>6, <1>10, Constants DEF FaultInv, FaultInTime, FaultPutOff
<1>11. CASE unseen_fault_ms' = unseen_fault_ms /\ unseen_fault_ms > 0
  <2>1. FaultInTime'
    <3>1. Drawn => Drawn'
      BY RoundOutcome DEF StaysBoot, StaysDrawn, Draws, Drawn, ScreenOf
    <3>2. QED
      BY <1>1, <1>2, <1>3, <1>9, <1>11, <3>1, Constants DEF FaultInTime, FaultInv
  <2>2. known = rest => task = "running" /\ waited_ms <= TaskGap
    BY <1>4, <1>11, InitSnapshotIs DEF DisplayInv, ScreenFollowsTask
  <2>3. FaultOverlay \in Nat /\ RenderInterval + TaskGap <= FaultOverlay
    BY Constants, WaitsAssumption
  <2>4. ASSUME got = rest, controller'.last_view = NextView, Drawn'
        PROVE  NextModel.fault_until <= now_ms
    <3>1. screen' = ScreenOf(NextView)
      BY <2>4, DisplayInvRound DEF DisplayInv, ScreenFollowsTask
    <3>2. NextView.snapshot.error_count = rest
      BY <2>4, NextViewIs
    <3>3. screen' # "fault"
      BY <1>11, <2>4, <3>2 DEF TaskRound
    <3>4. QED
      BY <1>1, <3>1, <3>3, NextViewIs DEF ScreenOf
  <2>5. CASE StaysBoot
    <3>1. got = rest =>
            NextModel.fault_until >= controller.boot_started_ms + FaultOverlay
      <4>1. CASE known = rest
        BY <1>1, <1>4, <1>7, <1>11, <2>5, <4>1, Constants DEF FaultInv, FaultPutOff, StaysBoot
      <4>2. CASE known # rest
        BY <1>1, <1>8, <4>2, Constants
      <4>3. QED
        BY <4>1, <4>2
    <3>2. screen' = "boot"
      BY <2>5 DEF StaysBoot
    <3>3. QED
      BY <1>2, <1>6, <2>1, <3>1, <3>2 DEF FaultInv, FaultPutOff, Drawn
  <2>6. CASE Drawn /\ (StaysDrawn \/ Draws)
    <3>1. Drawn'
      BY <2>6 DEF StaysDrawn, Draws, Drawn, ScreenOf
    <3>2. ASSUME got = rest
          PROVE  PutOffInTime(unseen_fault_ms, m.fault_until, FaultOverlay)'
      <4>1. \/ /\ PutOffInTime(unseen_fault_ms, m.fault_until, FaultOverlay)
               /\ task = "running"
            \/ /\ NextModel.fault_until = now_ms + FaultOverlay
               /\ unseen_fault_ms - 1 <= PublishInterval + TaskGap
        <5>1. CASE known = rest
          BY <1>11, <2>2, <2>6, <5>1 DEF FaultInv, FaultPutOff
        <5>2. CASE known # rest
          <6>1. task = "running" /\ waited_ms <= TaskGap
            BY <2>6 DEF Drawn, DisplayInv, ScreenFollowsTask, DisplayType
          <6>2. unseen_fault_ms - 1 <= PublishInterval + TaskGap
            BY <1>1, <5>2, <6>1, Constants DEF FaultInv, FaultInTime
          <6>3. QED
            BY <1>8, <3>2, <5>2, <6>2
        <5>3. QED
          BY <5>1, <5>2
      <4>2. NextModel.fault_until > now_ms
        BY <1>1, <1>7, <2>3, <4>1, StillPending, Constants
      <4>3. controller'.last_view # NextView
        BY <1>1, <2>4, <3>1, <3>2, <4>2
      <4>4. StaysDrawn /\ now_ms < controller.last_render_ms + RenderInterval
        BY <2>6, <4>3 DEF StaysDrawn, Draws
      <4>5. /\ now_ms' - waited_ms' < controller'.last_render_ms + RenderInterval
            /\ controller'.last_render_ms + FaultOverlay <= NextModel.fault_until
            /\ controller'.last_render_ms + (unseen_fault_ms - 1)
                 <= now_ms' + PublishInterval + TaskGap
        BY <1>1, <1>7, <2>3, <4>1, <4>4, PutOffAgain
      <4>6. QED
        BY <1>2, <1>11, <4>5 DEF PutOffInTime
    <3>3. QED
      BY <1>2, <1>6, <2>1, <3>1, <3>2 DEF FaultInv, FaultPutOff, Drawn
  <2>7. CASE screen = "boot" /\ Draws
    <3>1. Drawn' /\ controller'.last_view = NextView
      BY <2>7 DEF Draws, Drawn, ScreenOf
    <3>2. got # rest
      <4>1. SUFFICES ASSUME got = rest
                     PROVE  NextModel.fault_until > now_ms
        BY <1>1, <2>4, <3>1
      <4>2. CASE known = rest
        <5>1. m.fault_until >= controller.boot_started_ms + FaultOverlay
          BY <1>11, <2>7, <4>2 DEF FaultInv, FaultPutOff
        <5>2. now_ms - waited_ms < controller.boot_started_ms + BootDuration
          BY <2>7 DEF DisplayInv, ScreenFollowsTask
        <5>3. QED
          BY <1>1, <1>7, <2>2, <4>2, <5>1, <5>2, Constants, WaitsAssumption
      <4>3. CASE known # rest
        BY <1>1, <1>8, <4>1, <4>3, Constants
      <4>4. QED
        BY <4>2, <4>3
    <3>3. QED
      BY <1>2, <1>6, <2>1, <3>2 DEF FaultInv, FaultPutOff
  <2>8. QED
    BY <2>5, <2>6, <2>7, RoundOutcome DEF StaysDrawn, TaskRound, DisplayInv,
       ScreenFollowsTask, DisplayType, Drawn
<1>12. QED
  BY <1>5, <1>10, <1>11

LEMMA FaultStep ==
  ASSUME BelowHalfTheClock, DisplayInv, SettledInv, FaultInv, [DisplayNext]_displayVars
  PROVE  FaultInv'
<1>1. /\ now_ms \in Nat /\ waited_ms \in Nat /\ unseen_fault_ms \in Nat
      /\ last_publish_ms \in 0..now_ms
      /\ counted \in Counts /\ counted.errors \in Nat /\ controller.last_render_ms \in Nat
      /\ screen \in {"dark", "boot", "main", "fault"}
  BY DEF DisplayInv, DisplayType, Counts, Controller
<1>2. current.error_count \in Nat /\ Received.error_count \in Nat
  BY ReceivedIs DEF DisplayInv, DisplayType, Snapshot
<1> USE DEF FaultInv
<1>3. CASE CountPacket \/ CountError \/ CountOther
  <2>1. UNCHANGED <<now_ms, profile, last_publish_ms, queue, taskVars, waited_ms>>
    BY <1>3, CountOutcome DEF DisplayInv
  <2>2. Received' = Received /\ current' = current
    BY <2>1 DEF Received, taskVars
  <2>3. CASE CountError
    <3>1. counted'.errors = counted.errors + 1 /\ unseen_fault_ms' = 1
      BY <1>1, <2>3 DEF CountError, Counts
    <3>2. ErrorsGrow' /\ current'.error_count # counted'.errors
      BY <1>1, <1>2, <2>2, <3>1 DEF ErrorsGrow
    <3>3. FaultInTime'
      <4>1. /\ ~(unseen_fault_ms' - 1 > now_ms' - last_publish_ms')
            /\ ~(unseen_fault_ms' - 1 > PublishInterval + waited_ms')
            /\ unseen_fault_ms' <= 1
        BY <1>1, <2>1, <3>1, Constants
      <4>2. QED
        BY <4>1 DEF FaultInTime
    <3>4. QED
      BY <3>2, <3>3 DEF FaultPutOff
  <2>4. CASE CountPacket \/ CountOther
    <3>1. counted'.errors = counted.errors /\ unseen_fault_ms' = unseen_fault_ms
      BY <1>1, <2>4 DEF CountPacket, CountOther, Counts, seen
    <3>2. QED
      BY <2>1, <2>2, <3>1
         DEF ErrorsGrow, FaultInTime, FaultPutOff, PutOffInTime, Drawn, taskVars
  <2>5. QED
    BY <1>3, <2>3, <2>4
<1>4. CASE Publish
  <2> DEFINE s == RefreshDisplaySnapshot
  <2>1. /\ UNCHANGED <<now_ms, profile, taskVars, waited_ms, unseen_fault_ms>>
        /\ last_publish_ms' = now_ms /\ queue' = <<s>>
        /\ counted' = [counted EXCEPT !.moved = FALSE]
    BY <1>4 DEF Publish, seen
  <2>2. s.error_count = counted.errors
    BY RefreshIs DEF DisplayInv
  <2> HIDE DEF s
  <2>3. Received' = s /\ counted'.errors = counted.errors
    BY <1>1, <2>1 DEF Received, Counts
  <2>4. ErrorsGrow'
    BY <1>1, <1>2, <2>1, <2>2, <2>3 DEF ErrorsGrow, taskVars
  <2>5. FaultInTime' /\ FaultPutOff'
    BY <2>1, <2>2, <2>3 DEF FaultInTime, FaultPutOff, PutOffInTime, Drawn, taskVars
  <2>6. QED
    BY <2>4, <2>5
<1>5. CASE BeginTask
  <2>1. /\ UNCHANGED <<now_ms, counted, queue, current, unseen_fault_ms, last_publish_ms>>
        /\ screen = "dark" /\ screen' = "boot" /\ waited_ms' = 0
        /\ current.error_count = 0
    BY <1>5, InitSnapshotIs DEF BeginTask, seen, loopVars, DisplayInv, ScreenFollowsTask
  <2>2. unseen_fault_ms <= 1
    BY <2>1 DEF FaultInTime, Drawn
  <2>3. ErrorsGrow'
    BY <2>1 DEF ErrorsGrow, Received
  <2>4. FaultInTime'
    BY <1>1, <2>1, <2>2, Constants DEF FaultInTime
  <2>5. FaultPutOff'
    BY <1>1, <2>1 DEF FaultPutOff, ErrorsGrow
  <2>6. QED
    BY <2>3, <2>4, <2>5
<1>6. CASE TaskRound
  BY <1>6, FaultRound
<1>7. CASE Pass
  <2>1. /\ UNCHANGED <<counted, last_publish_ms, queue, current, controller, screen>>
        /\ now_ms' = now_ms + 1 /\ waited_ms' = waited_ms + 1
        /\ unseen_fault_ms' = IF Drawn /\ unseen_fault_ms > 0 THEN unseen_fault_ms + 1
                              ELSE unseen_fault_ms
    BY <1>7, PassOutcome
  <2>2. Received' = Received
    BY <2>1 DEF Received
  <2>3. ErrorsGrow'
    BY <1>1, <2>1, <2>2 DEF ErrorsGrow
  <2>4. FaultInTime'
    BY <1>1, <2>1, <2>2, Constants DEF FaultInTime, Drawn
  <2>5. FaultPutOff'
    BY <1>1, <2>1, Constants DEF FaultPutOff, PutOffInTime, Drawn
  <2>6. QED
    BY <2>3, <2>4, <2>5
<1>8. CASE UNCHANGED displayVars
  BY <1>8 DEF displayVars, loopVars, taskVars, seen, ErrorsGrow, FaultInTime, FaultPutOff,
              PutOffInTime, Received, Drawn
<1>9. QED
  BY <1>3, <1>4, <1>5, <1>6, <1>7, <1>8 DEF DisplayNext

\* FaultShown, below half the clock: the newest error has its overlay on the screen
\* within the way to the panel, also if it came while the boot screen was on.
THEOREM ErrorsAreShown == ASSUME BelowHalfTheClock PROVE DisplaySpec => []FaultShown
<1>1. DisplayInit => DisplayInv /\ SettledInv /\ FaultInv
  BY DisplayInvInit, SettledInit, FaultInit
<1>2. DisplayInv /\ SettledInv /\ FaultInv /\ [DisplayNext]_displayVars
        => (DisplayInv /\ SettledInv /\ FaultInv)'
  BY DisplayInvStep, SettledStep, FaultStep
<1>3. DisplayInv /\ FaultInv => FaultShown
  <2>1. SUFFICES ASSUME DisplayInv, FaultInv, unseen_fault_ms > 1
                 PROVE  unseen_fault_ms <= DrawTime + 1
    BY Constants DEF FaultShown, DisplayInv, DisplayType, DrawTime
  <2>2. unseen_fault_ms \in Nat /\ waited_ms \in Nat
    BY <2>1 DEF DisplayInv, DisplayType
  <2>3. Drawn /\ task = "running"
    BY <2>1, <2>2 DEF FaultInv, FaultInTime, Drawn, DisplayInv, ScreenFollowsTask, DisplayType
  <2>4. \/ unseen_fault_ms - 1 <= PublishInterval + waited_ms
        \/ PutOffInTime(unseen_fault_ms, controller.model.fault_until, FaultOverlay)
    BY <2>1, <2>2, <2>3, Constants DEF FaultInv, FaultInTime, FaultPutOff
  <2>5. QED
    BY <2>1, <2>2, <2>3, <2>4, PutOffBound
<1>4. QED
  BY <1>1, <1>2, <1>3, PTL DEF DisplaySpec

================================================================================
