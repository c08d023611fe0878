------------------------------ MODULE Protocol ------------------------------
(***************************************************************************)
(* The consensus arithmetic of src/protocol.rs: the emission schedule, a   *)
(* record with the fields of EmissionSchedule that the arithmetic reads.   *)
(***************************************************************************)
EXTENDS Integers

\* HALVING_INTERVAL_BLOCKS: the interval is calibrated from the cap.
HalvingInterval(maximum_supply, initial_reward) ==
    maximum_supply \div (2 * initial_reward)

\* EmissionSchedule::new, called with the three constants it is built from.
EmissionSchedule(maximum_supply, initial_reward, max_halvings) ==
    [ maximum_supply   |-> maximum_supply,
      halving_interval |-> HalvingInterval(maximum_supply, initial_reward),
      initial_reward   |-> initial_reward,
      max_halvings     |-> max_halvings ]

\* A schedule built by EmissionSchedule: the interval is calibrated so that
\* 2 * interval * initial_reward does not exceed the cap.
IsSchedule(s) ==
    /\ s.maximum_supply \in Nat
    /\ s.halving_interval \in Nat \ {0}
    /\ s.initial_reward \in Nat \ {0}
    /\ s.max_halvings \in Nat
    /\ 2 * (s.halving_interval * s.initial_reward) <= s.maximum_supply

\* reward >> count: a halving for every place.
ShiftRight(reward, count) ==
    LET shifted[i \in 0..count] == IF i = 0 THEN reward ELSE shifted[i - 1] \div 2
    IN  shifted[count]

\* Mutant of BlockReward: the epoch number is off by one at its boundary.
BlockRewardLateHalving(schedule, height) ==
    LET late == (IF height = 0 THEN 0 ELSE height - 1) \div schedule.halving_interval
    IN  IF late >= schedule.max_halvings
        THEN 0 ELSE ShiftRight(schedule.initial_reward, late)

\* EmissionSchedule::block_reward.
BlockReward(schedule, height) ==
    LET halving_count == height \div schedule.halving_interval
    IN  IF halving_count >= schedule.max_halvings
        THEN 0
        ELSE ShiftRight(schedule.initial_reward, halving_count)

\* u64::div_ceil, which fee rates and congestion steps are rounded with.
DivCeil(a, b) == (a + b - 1) \div b
=============================================================================
