-------------------------------- MODULE MCLocks --------------------------------
(* The threads of a node with the operations each of them calls. *)
EXTENDS Locks

RunningNode ==
    [ window     |-> { SendTab, GetStatus, Refresh, ResetToGenesis },
      peer       |-> { ReceiveBlock, BlocksFromHeight, SubmitTransaction },
      controller |-> { MineBlock },
      background |-> { SynchronizeBlock, ChangePeers } ]
================================================================================
