--------------------------- MODULE AbstractStore ----------------------------
(***************************************************************************)
(* What ConnectionStore promises its caller: the steps of Store, in the    *)
(* order Update and Close take them.                                       *)
(***************************************************************************)
EXTENDS Store

CONSTANTS
    Inputs,         \* the updateData a caller may hand in
    MaxBatch        \* bound on the messages one Update reports

VARIABLE phase      \* "idle", in "poll", "closing", "closed", or "error"

storeVars == <<receiving, sending, updateData, phase>>

StoreInit ==
    /\ receiving = {} /\ sending = {}
    /\ updateData = NoUpdate
    /\ phase = "idle"

Fail == /\ phase' = "error"
        /\ receiving' = {} /\ sending' = {} /\ updateData' = NoUpdate

(* Update. *)
CallUpdate ==
    /\ phase = "idle"
    /\ \E data \in Inputs :
          IF Refused(data) THEN Fail ELSE phase' = "poll" /\ HandOver(data)

ReturnUpdate ==
    /\ phase = "poll" /\ phase' = "idle"
    /\ Report(MaxBatch) \/ ReportNothing

UpdateFails ==
    /\ phase = "poll"
    /\ "SocketError" \in Faults
    /\ Fail

(* Close, with an updateData of its own. *)
CallClose ==
    /\ phase = "idle" /\ phase' = "closing"
    /\ StopAll /\ updateData' = NoUpdate
KeepsClosing == phase = "closing" /\ FlushMore /\ UNCHANGED phase
CloseFails ==
    /\ phase = "closing" /\ sending # {}
    /\ {"LingeringLost", "SocketError"} \cap Faults # {}
    /\ Fail
ReturnClose == phase = "closing" /\ sending = {} /\ phase' = "closed"
                  /\ UNCHANGED <<receiving, sending, updateData>>

StoreNext == \/ CallUpdate \/ ReturnUpdate \/ UpdateFails
             \/ CallClose \/ KeepsClosing \/ CloseFails \/ ReturnClose

StoreSpec == StoreInit /\ [][StoreNext]_storeVars
=============================================================================
