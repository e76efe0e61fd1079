----------------------------- MODULE Overrides -----------------------------
(***************************************************************************)
(* Feed, rapid and spindle speed overrides: the serial interrupt sets a    *)
(* flag for each override character, protocol_exec_rt_system copies the    *)
(* flags, clears them all and computes the new values in uint8_t.          *)
(*                                                                         *)
(* The spindle stop, which shares the accessory flags, is in Realtime.     *)
(***************************************************************************)
EXTENDS Integers

CONSTANTS
  DEFAULT_OVERRIDE, MIN_OVERRIDE, MAX_OVERRIDE,   \* config.h, in percent, alike for feed and spindle
  COARSE_INCREMENT, FINE_INCREMENT,
  RAPID_OVERRIDE_MEDIUM, RAPID_OVERRIDE_LOW,
  Characters,    \* override characters the host sends
  MaxCharacters  \* bound: characters in a behaviour

Steps == {"RESET", "COARSE_PLUS", "COARSE_MINUS", "FINE_PLUS", "FINE_MINUS"}
Rapids == {"RESET", "MEDIUM", "LOW"}

\* The ranges config.h allows, and increments that stay below 256 from the maximum.
ASSUME OverrideAssumption ==
  /\ DEFAULT_OVERRIDE \in Nat /\ MIN_OVERRIDE \in Nat /\ MAX_OVERRIDE \in Nat
  /\ 1 <= MIN_OVERRIDE /\ MIN_OVERRIDE <= DEFAULT_OVERRIDE /\ DEFAULT_OVERRIDE <= MAX_OVERRIDE
  /\ COARSE_INCREMENT \in Nat /\ FINE_INCREMENT \in Nat
  /\ MAX_OVERRIDE + COARSE_INCREMENT + FINE_INCREMENT < 256
  /\ COARSE_INCREMENT + FINE_INCREMENT <= DEFAULT_OVERRIDE
  /\ RAPID_OVERRIDE_MEDIUM \in Nat /\ RAPID_OVERRIDE_LOW \in Nat
  /\ Characters \subseteq ({"feed", "spindle"} \X Steps) \cup ({"rapid"} \X Rapids)
  /\ MaxCharacters \in Nat

VARIABLES
  pc,        \* "exec": about to copy the flags of pass's group, "apply": copied, not cleared
  pass,      \* which of the two groups the pass has come to
  rt_exec,   \* the copy
  motion,    \* sys_rt_exec_motion_override
  accessory, \* sys_rt_exec_accessory_override
  f_override, r_override, spindle_speed_ovr,
  sent       \* bound: characters sent

values == <<f_override, r_override, spindle_speed_ovr>>
vars == <<pc, pass, rt_exec, motion, accessory, values, sent>>

Defaults ==
  f_override' = DEFAULT_OVERRIDE /\ r_override' = DEFAULT_OVERRIDE /\ spindle_speed_ovr' = DEFAULT_OVERRIDE

Init ==
  /\ pc = "exec" /\ pass = "motion" /\ rt_exec = {} /\ motion = {} /\ accessory = {}
  /\ f_override = DEFAULT_OVERRIDE /\ r_override = DEFAULT_OVERRIDE
  /\ spindle_speed_ovr = DEFAULT_OVERRIDE
  /\ sent = 0

UInt8(n) == n % 256
Within(n) ==
  IF n < MIN_OVERRIDE THEN MIN_OVERRIDE ELSE IF n > MAX_OVERRIDE THEN MAX_OVERRIDE ELSE n

Amount(step, increment, flags) == IF step \in flags THEN increment ELSE 0

\* Mutant of NewOverride: a reset is applied after the increments.
NewOverrideResetLast(value, flags) ==
  IF "RESET" \in flags THEN DEFAULT_OVERRIDE
  ELSE Within(value + Amount("COARSE_PLUS", COARSE_INCREMENT, flags)
                    - Amount("COARSE_MINUS", COARSE_INCREMENT, flags)
                    + Amount("FINE_PLUS", FINE_INCREMENT, flags)
                    - Amount("FINE_MINUS", FINE_INCREMENT, flags))

\* The new feed or spindle speed override: every sum is kept in a uint8_t.
NewOverride(value, flags) ==
  LET old == IF "RESET" \in flags THEN DEFAULT_OVERRIDE ELSE value
      a == UInt8(old + Amount("COARSE_PLUS", COARSE_INCREMENT, flags))
      b == UInt8(a - Amount("COARSE_MINUS", COARSE_INCREMENT, flags))
      c == UInt8(b + Amount("FINE_PLUS", FINE_INCREMENT, flags))
      d == UInt8(c - Amount("FINE_MINUS", FINE_INCREMENT, flags))
  IN Within(d)

NewRapid(flags) ==
  IF "LOW" \in flags THEN RAPID_OVERRIDE_LOW
  ELSE IF "MEDIUM" \in flags THEN RAPID_OVERRIDE_MEDIUM
  ELSE IF "RESET" \in flags THEN DEFAULT_OVERRIDE ELSE r_override

Seen(group) == {flag[2] : flag \in {f \in rt_exec : f[1] = group}}

\* Lines 408 and 434: no flag, and the group is done with.
Copy ==
  /\ pc = "exec"
  /\ LET flags == IF pass = "motion" THEN motion ELSE accessory
     IN IF flags = {}
        THEN /\ pass' = (IF pass = "motion" THEN "accessory" ELSE "motion")
             /\ UNCHANGED <<pc, rt_exec>>
        ELSE pc' = "apply" /\ rt_exec' = flags /\ UNCHANGED pass
  /\ UNCHANGED <<motion, accessory, values, sent>>

\* Lines 410-432: all motion flags are cleared, those copied are applied.
ApplyMotion ==
  /\ pc = "apply" /\ pass = "motion"
  /\ pc' = "exec" /\ pass' = "accessory"
  /\ motion' = {}
  /\ f_override' = NewOverride(f_override, Seen("feed"))
  /\ r_override' = NewRapid(Seen("rapid"))
  /\ UNCHANGED <<rt_exec, accessory, spindle_speed_ovr, sent>>

ApplyAccessory ==
  /\ pc = "apply" /\ pass = "accessory"
  /\ pc' = "exec" /\ pass' = "motion"
  /\ accessory' = {}
  /\ spindle_speed_ovr' = NewOverride(spindle_speed_ovr, Seen("spindle"))
  /\ UNCHANGED <<rt_exec, motion, f_override, r_override, sent>>

\* M2 and M30, between two passes.
ProgramEnd ==
  /\ pc = "exec" /\ pass = "motion"
  /\ Defaults
  /\ UNCHANGED <<pc, pass, rt_exec, motion, accessory, sent>>

\* The loop in main.c, after an abort.
Restart ==
  /\ pc = "exec" /\ pass = "motion"
  /\ Defaults /\ motion' = {} /\ accessory' = {}
  /\ UNCHANGED <<pc, pass, rt_exec, sent>>

\* The serial interrupt, at any moment.
Receive ==
  /\ sent < MaxCharacters /\ sent' = sent + 1
  /\ \E ch \in Characters :
       IF ch[1] = "spindle" THEN accessory' = accessory \cup {ch} /\ UNCHANGED motion
       ELSE motion' = motion \cup {ch} /\ UNCHANGED accessory
  /\ UNCHANGED <<pc, pass, rt_exec, values>>

Next == Copy \/ ApplyMotion \/ ApplyAccessory \/ ProgramEnd \/ Restart \/ Receive
Spec == Init /\ [][Next]_vars

-----------------------------------------------------------------------------
(* Properties *)

\* Overrides never leave the limits of config.h.
TypeOK ==
  /\ pc \in {"exec", "apply"} /\ pass \in {"motion", "accessory"}
  /\ rt_exec \subseteq Characters /\ motion \subseteq Characters /\ accessory \subseteq Characters
  /\ f_override \in MIN_OVERRIDE..MAX_OVERRIDE
  /\ spindle_speed_ovr \in MIN_OVERRIDE..MAX_OVERRIDE
  /\ r_override \in {DEFAULT_OVERRIDE, RAPID_OVERRIDE_MEDIUM, RAPID_OVERRIDE_LOW}
  /\ sent \in 0..MaxCharacters

\* What a pass should make of a value: each flag's amount, added up without wrapping.
Ideal(value, flags) ==
  Within((IF "RESET" \in flags THEN DEFAULT_OVERRIDE ELSE value)
           + Amount("COARSE_PLUS", COARSE_INCREMENT, flags) - Amount("COARSE_MINUS", COARSE_INCREMENT, flags)
           + Amount("FINE_PLUS", FINE_INCREMENT, flags) - Amount("FINE_MINUS", FINE_INCREMENT, flags))

\* Far enough from zero that no sum can wrap.
Roomy(value) == value >= COARSE_INCREMENT + FINE_INCREMENT

\* The feed and the spindle speed override move by the amounts that were asked for, in
\* whatever combination the flags have gathered before the pass, when the value is not
\* right above zero.
FollowsWhenRoomy ==
  [][/\ ApplyMotion /\ Roomy(f_override) => f_override' = Ideal(f_override, Seen("feed"))
     /\ ApplyAccessory /\ Roomy(spindle_speed_ovr)
          => spindle_speed_ovr' = Ideal(spindle_speed_ovr, Seen("spindle"))]_vars
=============================================================================
