-------------------------- MODULE OverridesProofs --------------------------
(***************************************************************************)
(* The overrides stay within their limits, and follow the commands when no *)
(* uint8_t sum can wrap, whatever limits and increments config.h gives.    *)
(***************************************************************************)
EXTENDS Overrides, TLAPS

USE DEF Steps, Rapids

\* A value that fits into a uint8_t is kept.
LEMMA Fits == ASSUME NEW n \in Int, 0 <= n, n < 256 PROVE UInt8(n) = n
  BY DEF UInt8

LEMMA WithinLimits == ASSUME NEW n \in Int PROVE Within(n) \in MIN_OVERRIDE..MAX_OVERRIDE
  BY OverrideAssumption DEF Within, OverrideAssumption

LEMMA AmountIs ==
  ASSUME NEW step, NEW increment \in Nat, NEW flags
  PROVE  Amount(step, increment, flags) \in {0, increment}
  BY DEF Amount

LEMMA UInt8Type == ASSUME NEW n \in Int PROVE UInt8(n) \in Int
  BY DEF UInt8

\* Whatever wraps, the result is within the limits.
LEMMA NewOverrideWithin ==
  ASSUME NEW value \in MIN_OVERRIDE..MAX_OVERRIDE, NEW flags
  PROVE  NewOverride(value, flags) \in MIN_OVERRIDE..MAX_OVERRIDE
<1> DEFINE old == IF "RESET" \in flags THEN DEFAULT_OVERRIDE ELSE value
           a == UInt8(old + Amount("COARSE_PLUS", COARSE_INCREMENT, flags))
           b == UInt8(a - Amount("COARSE_MINUS", COARSE_INCREMENT, flags))
           c == UInt8(b + Amount("FINE_PLUS", FINE_INCREMENT, flags))
           d == UInt8(c - Amount("FINE_MINUS", FINE_INCREMENT, flags))
<1>1. old \in Int
  BY OverrideAssumption DEF OverrideAssumption
<1>2. \A s \in Steps : Amount(s, COARSE_INCREMENT, flags) \in Int /\ Amount(s, FINE_INCREMENT, flags) \in Int
  BY OverrideAssumption DEF OverrideAssumption, Amount
<1> HIDE DEF old
<1>3. a \in Int
  BY <1>1, <1>2, UInt8Type
<1> HIDE DEF a
<1>4. b \in Int
  BY <1>3, <1>2, UInt8Type
<1> HIDE DEF b
<1>5. c \in Int
  BY <1>4, <1>2, UInt8Type
<1> HIDE DEF c
<1>6. d \in Int
  BY <1>5, <1>2, UInt8Type
<1> HIDE DEF d
<1>7. Within(d) \in MIN_OVERRIDE..MAX_OVERRIDE
  BY <1>6, WithinLimits
<1> QED
  BY <1>7 DEF NewOverride, old, a, b, c, d

\* With room below, nothing wraps and the amounts simply add up.
LEMMA NewOverrideIdeal ==
  ASSUME NEW value \in MIN_OVERRIDE..MAX_OVERRIDE, NEW flags, Roomy(value)
  PROVE  NewOverride(value, flags) = Ideal(value, flags)
<1> DEFINE old == IF "RESET" \in flags THEN DEFAULT_OVERRIDE ELSE value
           cp == Amount("COARSE_PLUS", COARSE_INCREMENT, flags)
           cm == Amount("COARSE_MINUS", COARSE_INCREMENT, flags)
           fp == Amount("FINE_PLUS", FINE_INCREMENT, flags)
           fm == Amount("FINE_MINUS", FINE_INCREMENT, flags)
<1>1. /\ old \in Int /\ old <= MAX_OVERRIDE
      /\ old >= COARSE_INCREMENT + FINE_INCREMENT
  BY OverrideAssumption DEF OverrideAssumption, Roomy
<1>2. /\ cp \in {0, COARSE_INCREMENT} /\ cm \in {0, COARSE_INCREMENT}
      /\ fp \in {0, FINE_INCREMENT} /\ fm \in {0, FINE_INCREMENT}
  BY OverrideAssumption, AmountIs DEF OverrideAssumption
<1>3. COARSE_INCREMENT \in Nat /\ FINE_INCREMENT \in Nat /\ MAX_OVERRIDE \in Nat
      /\ MAX_OVERRIDE + COARSE_INCREMENT + FINE_INCREMENT < 256
  BY OverrideAssumption DEF OverrideAssumption
<1>4. /\ NewOverride(value, flags) = Within(UInt8(UInt8(UInt8(UInt8(old + cp) - cm) + fp) - fm))
      /\ Ideal(value, flags) = Within(old + cp - cm + fp - fm)
  BY DEF NewOverride, Ideal
<1> HIDE DEF old, cp, cm, fp, fm
<1> DEFINE a == old + cp
           b == a - cm
           c == b + fp
           d == c - fm
<1>5. UInt8(a) = a /\ UInt8(b) = b /\ UInt8(c) = c /\ UInt8(d) = d
  BY <1>1, <1>2, <1>3, Fits
<1>6. UInt8(UInt8(UInt8(UInt8(a) - cm) + fp) - fm) = d
  BY <1>5, Zenon
<1>7. old + cp - cm + fp - fm = d
  BY <1>1, <1>2, <1>3
<1> QED
  BY <1>4, <1>6, <1>7, Zenon

-----------------------------------------------------------------------------
LEMMA TypeInit == ASSUME Init PROVE TypeOK
  BY OverrideAssumption DEF Init, TypeOK, OverrideAssumption

LEMMA TypeStep == ASSUME TypeOK, [Next]_vars PROVE TypeOK'
<1> USE OverrideAssumption DEF OverrideAssumption
<1> USE DEF TypeOK
<1>1. CASE Copy
  BY <1>1 DEF Copy, values
<1>2. CASE ApplyMotion
  <2>1. f_override' \in MIN_OVERRIDE..MAX_OVERRIDE
    BY <1>2, NewOverrideWithin DEF ApplyMotion
  <2>2. r_override' \in {DEFAULT_OVERRIDE, RAPID_OVERRIDE_MEDIUM, RAPID_OVERRIDE_LOW}
    BY <1>2 DEF ApplyMotion, NewRapid
  <2> QED
    BY <1>2, <2>1, <2>2 DEF ApplyMotion
<1>3. CASE ApplyAccessory
  <2>1. spindle_speed_ovr' \in MIN_OVERRIDE..MAX_OVERRIDE
    BY <1>3, NewOverrideWithin DEF ApplyAccessory
  <2> QED
    BY <1>3, <2>1 DEF ApplyAccessory
<1>4. CASE ProgramEnd
  BY <1>4 DEF ProgramEnd, Defaults
<1>5. CASE Restart
  BY <1>5 DEF Restart, Defaults
<1>6. CASE Receive
  BY <1>6 DEF Receive, values
<1>7. CASE UNCHANGED vars
  BY <1>7 DEF vars, values
<1> QED
  BY <1>1, <1>2, <1>3, <1>4, <1>5, <1>6, <1>7 DEF Next

\* The overrides are always within the limits of config.h, wrapped sums included.
THEOREM WithinAlways == Spec => []TypeOK
  BY TypeInit, TypeStep, PTL DEF Spec

\* With room below, feed and spindle speed overrides move by what the flags ask for.
THEOREM CommandsFollowed == Spec => FollowsWhenRoomy
<1>1. ASSUME TypeOK, ApplyMotion, Roomy(f_override)
      PROVE  f_override' = Ideal(f_override, Seen("feed"))
  BY <1>1, NewOverrideIdeal DEF TypeOK, ApplyMotion
<1>2. ASSUME TypeOK, ApplyAccessory, Roomy(spindle_speed_ovr)
      PROVE  spindle_speed_ovr' = Ideal(spindle_speed_ovr, Seen("spindle"))
  BY <1>2, NewOverrideIdeal DEF TypeOK, ApplyAccessory
<1>3. TypeOK /\ [Next]_vars =>
        [/\ ApplyMotion /\ Roomy(f_override) => f_override' = Ideal(f_override, Seen("feed"))
         /\ ApplyAccessory /\ Roomy(spindle_speed_ovr)
              => spindle_speed_ovr' = Ideal(spindle_speed_ovr, Seen("spindle"))]_vars
  BY <1>1, <1>2
<1> QED
  BY <1>3, WithinAlways, PTL DEF Spec, FollowsWhenRoomy
=============================================================================
