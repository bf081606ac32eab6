------------------------------- MODULE MCAlerts -------------------------------
(* Alerts for TLC: no rule yet, or a global rule with one of the VM or the preset. *)
EXTENDS Alerts, TLC

Set(scope, w, c, polls, recovery, enabled) ==
  [scope |-> scope, warning |-> w, critical |-> c, polls |-> polls,
   recovery |-> recovery, enabled |-> enabled]

Global == Set("global", 1, 0, 1, TRUE, TRUE)
Vm == Set("vm", 0, 2, 2, TRUE, TRUE)
Preset == Set("preset", 1, 2, 1, FALSE, TRUE)

AllSettings == {Global, Preset, Vm, [Vm EXCEPT !.warning = 1], [Vm EXCEPT !.enabled = FALSE]}
Beginnings == {<<>>, <<Global, Vm>>, <<Global, Preset>>}

==============================================================================
