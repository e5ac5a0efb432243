----------------------------- MODULE RpkCommon -----------------------------
(***************************************************************************)
(* What rpk-config and the firmware share (rpk-common): the numbers of     *)
(* actions, macros and settings, and the defaults of the settings.  A      *)
(* 32-bit float is the pair of its 16-bit halves, the low one first.       *)
(***************************************************************************)
EXTENDS Integers, TLC

PROTOCOL_VERSION == 1

\* keycodes::key_range
BASIC_MIN == 4
BASIC_A == 4
BASIC_1 == 30
BASIC_0 == 39
LAYER == 1536
TOGGLE == 1792
SET_LAYOUT == 2048
ONESHOT == 2304
MACROS_MIN == 4096
MACROS_MAX == 8191

\* keycodes::macro_types
MODIFIER == 0
DUAL_ACTION == 1
TAP == 2
HOLD_RELEASE == 3
HOLD == 4
RELEASE == 5
DELAY == 6
TAPDANCE == 7

\* globals: mouse profiles are settings 0..2, timeouts 3..6.
COMPOSITE_BIT == 256
COMPOSITE_PART_BIT == 512
MouseProfiles == 0..2
DEBOUNCE_SETTLE_TIME == 5
DefaultTimeouts == [i \in 3..6 |-> CASE i = 4 -> 20 [] i = DEBOUNCE_SETTLE_TIME -> 524 [] OTHER -> 180]

\* MouseConfig: curve (two floats), max_time, min_ticks_per_ms and max_ticks_per_ms for
\* movement and scroll.  Slow, normal and fast differ in the last one.
MouseConfig(max_move, max_scroll) ==
  [movement |-> <<<<52429, 15820>>, <<0, 16128>>, <<0, 17530>>, <<55050, 15523>>, max_move>>,
   scroll   |-> <<<<0, 0>>, <<0, 0>>, <<16384, 17820>>, <<55050, 15395>>, max_scroll>>]

DefaultProfiles ==
  (0 :> MouseConfig(<<0, 16256>>, <<0, 16000>>))
    @@ (1 :> MouseConfig(<<0, 16448>>, <<0, 16128>>))
    @@ (2 :> MouseConfig(<<0, 16544>>, <<0, 16256>>))
=============================================================================
