---------------------------- MODULE RetryBackoff ----------------------------
(***************************************************************************)
(* The delay before the next attempt (edgesync_retry.c): the loop that     *)
(* multiplies, its cap and its jitter, one step per iteration, from any    *)
(* configuration an application may pass to edgesync_init.                 *)
(*                                                                         *)
(* Word is the number of values of a uint32_t; a uint64_t has Word * Word  *)
(* values, and a product is reduced to it as the hardware does.            *)
(***************************************************************************)
EXTENDS Integers

CONSTANTS
  Word,              \* 2^32
  DefaultInitial,    \* CONFIG_EDGESYNC_DEFAULT_RETRY_INITIAL_MS
  DefaultMax         \* CONFIG_EDGESYNC_DEFAULT_RETRY_MAX_MS

Uint32 == 0 .. Word - 1
Uint64 == 0 .. Word * Word - 1
DefaultMultiplier == 2

ASSUME WordAssumption ==
  /\ Word \in Nat /\ Word > 2
  /\ DefaultInitial \in Uint32 /\ DefaultMax \in Uint32   \* Kconfig gives no range

VARIABLES pc, cfg, attempt, random, base, i, delay
vars == <<pc, cfg, attempt, random, base, i, delay>>
input == <<cfg, attempt, random>>

Configs == [initial : Uint32, max : Uint32, multiplier : Uint32, jitter : BOOLEAN]
Bug_OnlyZeroMultiplier(c) ==
  [c EXCEPT !.initial = IF @ = 0 THEN DefaultInitial ELSE @,
            !.max = IF @ = 0 THEN DefaultMax ELSE @,
            !.multiplier = IF @ = 0 THEN DefaultMultiplier ELSE @]
\* edgesync_retry_apply_defaults
Defaulted(c) ==
  [c EXCEPT !.initial = IF @ = 0 THEN DefaultInitial ELSE @,
            !.max = IF @ = 0 THEN DefaultMax ELSE @,
            !.multiplier = IF @ < 2 THEN DefaultMultiplier ELSE @]

\* edgesync_init applies the defaults; the first attempt has no delay.
Init ==
  /\ \E c \in Configs : cfg = Defaulted(c)
  /\ attempt \in Uint32 /\ random \in Uint32
  /\ pc = IF attempt = 0 THEN "done" ELSE "loop"
  /\ base = cfg.initial /\ i = 0 /\ delay = 0

Bug_OneTooMany == i <= attempt - 1
InLoop == i < attempt - 1

Multiply ==
  /\ pc = "loop" /\ InLoop /\ base < cfg.max
  /\ base' = (base * cfg.multiplier) % (Word * Word) /\ i' = i + 1
  /\ UNCHANGED <<pc, input, delay>>
Break ==
  /\ pc = "loop" /\ InLoop /\ base >= cfg.max
  /\ base' = cfg.max /\ pc' = "jitter"
  /\ UNCHANGED <<input, i, delay>>
Bug_NoClamp ==
  /\ pc = "loop" /\ ~InLoop
  /\ pc' = "jitter"
  /\ UNCHANGED <<input, base, i, delay>>
Clamp ==
  /\ pc = "loop" /\ ~InLoop
  /\ base' = IF base > cfg.max THEN cfg.max ELSE base
  /\ pc' = "jitter"
  /\ UNCHANGED <<input, i, delay>>

\* Equal jitter: half fixed, half random.
Jittered(b, r) == (b \div 2) + (r % ((b \div 2) + 1))
Jitter ==
  /\ pc = "jitter"
  /\ delay' = LET j == Jittered(base, random) IN
                CASE ~cfg.jitter \/ base = 0 -> base
                  [] j > cfg.max -> cfg.max
                  [] OTHER -> j
  /\ pc' = "done"
  /\ UNCHANGED <<input, base, i>>
Done == pc = "done" /\ UNCHANGED vars

Next == Multiply \/ Break \/ Clamp \/ Jitter \/ Done
Spec == Init /\ [][Next]_vars

-----------------------------------------------------------------------------
(* Properties.                                                             *)

\* The types, of the widths the code declares: base is a uint64_t.
TypeOK ==
  /\ pc \in {"loop", "jitter", "done"} /\ cfg \in Configs
  /\ attempt \in Uint32 /\ random \in Uint32
  /\ base \in Uint64 /\ i \in Nat /\ delay \in Uint32

\* Powers(b)[n] is b^n.
Powers(b) == LET pow[n \in Nat] == IF n = 0 THEN 1 ELSE b * pow[n - 1] IN pow

\* The unjittered delay is min(max, initial * multiplier^(attempt - 1)), as
\* RELIABILITY.md:68-79 and edgesync_retry.h:39-44 define it; jitter takes away
\* at most half of it and never adds to it.
Power == cfg.initial * Powers(cfg.multiplier)[attempt - 1]
Curve == IF Power > cfg.max THEN cfg.max ELSE Power
FollowsCurve ==
  pc = "done" /\ attempt > 0 =>
    /\ delay <= Curve /\ 2 * delay >= Curve - 1
    /\ ~cfg.jitter => delay = Curve

\* The delay never exceeds retry_max_ms, defaulted or not.
DelayCapped == pc = "done" => delay <= cfg.max

\* The loop does not run attempt_count times, which may be 2^32 - 1, in the
\* worker's task: each iteration at least doubles what the cap bounds.  An
\* initial delay of 0, possible only when its default is 0, stays 0 and is not
\* bounded so (README, section 5).
LoopIsShort == cfg.initial > 0 => Powers(2)[i] <= 2 * Word
=============================================================================
