---------------------------- MODULE DisplayController ----------------------------
(***************************************************************************)
(* What the TFT shows: DisplayModel of include/display_model.hpp, which    *)
(* turns counters that moved into marks that last a while, and             *)
(* DisplayController of src/display_controller.cpp, which draws a changed  *)
(* view at most once in a while.  Both are records; their methods are      *)
(* operators, for the task that owns them (DisplayService).                *)
(* A drawn screen is its kind and the view it was drawn from; the layout   *)
(* is left out.  Of the snapshot four fields are left out: profile is a    *)
(* constant of a running firmware, host_ready changes at most once, at the *)
(* first refresh of the capture profile, while the boot screen is on, and  *)
(* fault_code and busy_timeout_count change only when error_count or state *)
(* does.                                                                   *)
(***************************************************************************)
EXTENDS Millis

CONSTANTS ActivityHold,    \* kActivityHoldMs
          FaultOverlay,    \* kFaultOverlayMs
          RenderInterval,  \* kMinimumRenderIntervalMs
          BootDuration     \* kBootDurationMs

ASSUME DisplayAssumption ==
  {ActivityHold, FaultOverlay, RenderInterval, BootDuration} \subseteq 1..(MsMod \div 2 - 1)

\* DisplaySnapshot{} as setup() leaves it.
InitSnapshot ==
  [state |-> "kSafeBaseline", host_active |-> FALSE, aux_enabled |-> FALSE,
   rx_active |-> FALSE, tx_active |-> FALSE,
   rx_packets |-> 0, tx_packets |-> 0, error_count |-> 0]

----------------------------------------------------------------------------
(* DisplayModel *)

\* int32_t(deadline - now) > 0: the deadline is ahead, by less than half the clock.
DeadlinePending(now, deadline) ==
  LET ahead == (deadline - now) % MsMod IN ahead > 0 /\ ahead < MsMod \div 2

InitModel == [last_snapshot |-> InitSnapshot, rx_until |-> 0, tx_until |-> 0,
              fault_until |-> 0]

\* Mutant: a fault counts as new for as long as it lasts.
NewFault_AnyFault(last, s)  == s.state = "kFault" \/ s.error_count # last.error_count

NewFault(last, s) ==
  \/ s.state = "kFault" /\ last.state # "kFault"
  \/ s.error_count # last.error_count

\* Mutant: activity is seen by its pulse alone.
Moved_PulseOnly(active, count, last) == active

Moved(active, count, last) == active \/ count # last

UpdateModel(model, s, now) ==
  LET last == model.last_snapshot
      Until(moved, hold, old) == IF moved THEN (now + hold) % MsMod ELSE old
  IN  [last_snapshot |-> s,
       rx_until |-> Until(Moved(s.rx_active, s.rx_packets, last.rx_packets),
                          ActivityHold, model.rx_until),
       tx_until |-> Until(Moved(s.tx_active, s.tx_packets, last.tx_packets),
                          ActivityHold, model.tx_until),
       fault_until |-> Until(NewFault(last, s), FaultOverlay, model.fault_until)]

\* DisplayViewModel: the snapshot and the marks that are still on.
View(model, now) ==
  [snapshot |-> model.last_snapshot,
   show_rx_activity   |-> DeadlinePending(now, model.rx_until),
   show_tx_activity   |-> DeadlinePending(now, model.tx_until),
   show_fault_overlay |-> DeadlinePending(now, model.fault_until)]

----------------------------------------------------------------------------
(* DisplayController *)

\* begin() draws the boot screen.
BeginController(s, now) ==
  LET model == UpdateModel(InitModel, s, now)
  IN  [model |-> model, last_view |-> View(model, now), showing_boot |-> TRUE,
       boot_started_ms |-> now, last_render_ms |-> now]

\* Mutant: a view that is not drawn yet is taken for the one on the screen.
PutOff_Forgotten(c, view) == [c EXCEPT !.last_view = view]

\* A view that comes too soon after the last is left for the next update.
PutOff(c, view) == c

\* update(): the controller it leaves, and whether it drew last_view.
UpdateController(c, s, now) ==
  LET model   == UpdateModel(c.model, s, now)
      view    == View(model, now)
      booting == c.showing_boot /\ ElapsedMs(now, c.boot_started_ms) < BootDuration
      updated == [c EXCEPT !.model = model, !.showing_boot = booting]
  IN  CASE booting \/ (~c.showing_boot /\ view = c.last_view) ->
             [controller |-> updated, drawn |-> FALSE]
        [] ~booting /\ (c.showing_boot \/ view # c.last_view)
             /\ ElapsedMs(now, c.last_render_ms) < RenderInterval ->
             [controller |-> PutOff(updated, view), drawn |-> FALSE]
        [] OTHER ->
             [controller |-> [updated EXCEPT !.last_view = view, !.last_render_ms = now],
              drawn |-> TRUE]

\* renderFault or renderMain.
ScreenOf(view) == IF view.show_fault_overlay THEN "fault" ELSE "main"
================================================================================
