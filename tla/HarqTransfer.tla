---------------------------- MODULE HarqTransfer ----------------------------
(***************************************************************************)
(* What the HARQ loop promises about every transport block: the UE sends   *)
(* it, the eNB decides once whether it was delivered or dropped, and the   *)
(* UE learns that very verdict.  Nothing is said of processes, feedback    *)
(* bits or channels.                                                       *)
(***************************************************************************)
CONSTANT Tbs   \* the transport blocks, by identity

VARIABLES
  sender,    \* what the UE knows: "unsent", "sent", "acked", "discarded"
  receiver   \* what the eNB decided: "open", "delivered", "dropped"

transferVars == <<sender, receiver>>

Learnt(verdict) == IF verdict = "delivered" THEN "acked" ELSE "discarded"

TransferInit ==
  /\ sender = [t \in Tbs |-> "unsent"]
  /\ receiver = [t \in Tbs |-> "open"]

\* The UE puts a new TB on the air.
Transmit(t) ==
  /\ sender[t] = "unsent"
  /\ sender' = [sender EXCEPT ![t] = "sent"]
  /\ UNCHANGED receiver

\* The eNB decodes the TB, or gives it up.
Decide(t) ==
  /\ sender[t] = "sent" /\ receiver[t] = "open"
  /\ \E verdict \in {"delivered", "dropped"} :
       receiver' = [receiver EXCEPT ![t] = verdict]
  /\ UNCHANGED sender

\* The UE frees the process, on the verdict the eNB gave.
Learn(t) ==
  /\ sender[t] = "sent" /\ receiver[t] # "open"
  /\ sender' = [sender EXCEPT ![t] = Learnt(receiver[t])]
  /\ UNCHANGED receiver

TransferNext == \E t \in Tbs : Transmit(t) \/ Decide(t) \/ Learn(t)

\* A TB that was sent is decided, and a decision reaches the UE.
TransferFairness ==
  \A t \in Tbs : WF_transferVars(Decide(t)) /\ WF_transferVars(Learn(t))

TransferSpec == TransferInit /\ [][TransferNext]_transferVars

FairTransferSpec == TransferSpec /\ TransferFairness
=============================================================================
