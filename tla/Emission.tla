------------------------------ MODULE Emission ------------------------------
(***************************************************************************)
(* EmissionSchedule::issued_through as the loop it is: one step takes a    *)
(* whole halving epoch, or what is left of it, and halves the reward.  The *)
(* per-height formula that block validation uses (BlockReward) and this    *)
(* loop are two independent computations of one schedule.                  *)
(***************************************************************************)
EXTENDS Protocol, FiniteSetsExt

CONSTANTS Schedules,   \* the emission schedules considered
          Heights      \* the heights the loop is asked about

VARIABLES schedule,          \* self
          height,            \* the argument
          total,             \* what has been issued so far
          remaining_blocks,  \* blocks not accounted for yet
          reward,            \* the subsidy of the current epoch
          halving_count      \* the number of the current epoch

issueVars == <<schedule, height, total, remaining_blocks, reward, halving_count>>

ASSUME SchedulesAssumption == \A s \in Schedules : IsSchedule(s)
ASSUME HeightsAssumption == Heights \subseteq Nat

IssueTypeOK ==
    /\ schedule \in Schedules
    /\ height \in Heights
    /\ total \in Nat
    /\ remaining_blocks \in Nat
    /\ reward \in Nat
    /\ halving_count \in Nat

IssueInit ==
    /\ schedule \in Schedules
    /\ height \in Heights
    /\ total = 0
    /\ remaining_blocks = height + 1
    /\ reward = schedule.initial_reward
    /\ halving_count = 0

\* The loop goes on: the while condition, and no break on a zero reward.
Running ==
    /\ remaining_blocks > 0
    /\ halving_count < schedule.max_halvings
    /\ halving_count > 0 => reward > 0

\* The blocks of this iteration: min(halving_interval, remaining_blocks).
EpochBlocks == IF schedule.halving_interval <= remaining_blocks
               THEN schedule.halving_interval ELSE remaining_blocks

\* Mutant of IssueEpoch: the reward is not halved.
IssueEpochUnhalved ==
    /\ Running
    /\ total' = total + reward * EpochBlocks
    /\ remaining_blocks' = remaining_blocks - EpochBlocks
    /\ halving_count' = halving_count + 1
    /\ UNCHANGED <<schedule, height, reward>>

\* One iteration of the loop.
IssueEpoch ==
    /\ Running
    /\ total' = total + reward * EpochBlocks
    /\ remaining_blocks' = remaining_blocks - EpochBlocks
    /\ halving_count' = halving_count + 1
    /\ reward' = reward \div 2
    /\ UNCHANGED <<schedule, height>>

IssueNext == IssueEpoch

IssueSpec == IssueInit /\ [][IssueNext]_issueVars

-----------------------------------------------------------------------------
\* The supply never exceeds the configured maximum, whatever height is asked
\* for: the cap design.md promises and protocol.rs tests at one height.
SupplyWithinCap == total <= schedule.maximum_supply

\* When the loop ends, it has issued exactly what BlockReward grants to the
\* heights 0..height, including the epochs the early break skips.
IssuedMatchesRewards ==
    ~Running =>
      total = SumFunction([ h \in 0..height |-> BlockReward(schedule, h) ])
=============================================================================
