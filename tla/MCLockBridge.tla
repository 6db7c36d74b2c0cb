---------------------------- MODULE MCLockBridge ----------------------------
(***************************************************************************)
(* Instances of LockBridge for TLC: one room and two encoders, of which    *)
(* the second is not registered.                                           *)
(***************************************************************************)
EXTENDS LockBridge, TLC

CONSTANTS kRoom, kOther, enc, gone, job

Ask(device) == [device |-> device, room |-> "101", credential |-> "new"]

(* A row the bridge can deliver, one it cannot, and one of another kind.   *)
DrainRequests == {Ask(enc), Ask(gone)}
DrainPayloads == DrainRequests \cup {job}

MCLockKey == <<enc, "101">> :> kRoom
=============================================================================
