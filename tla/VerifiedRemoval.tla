--------------------------- MODULE VerifiedRemoval ---------------------------
(***************************************************************************)
(* What both archive jobs of the NAS promise (README.md:40): something of  *)
(* the cloud's archive is removed from it only when the NAS has it.        *)
(***************************************************************************)
VARIABLES onCloud,   \* what the cloud's archive holds
          onNas      \* what the NAS holds an intact copy of

Arrives == onCloud \subseteq onCloud' /\ onNas' = onNas

\* Copies are made, and may be damaged.
CopiesChange == onCloud' = onCloud

Removed == onCloud' \subseteq onCloud /\ onCloud \subseteq onCloud' \cup onNas /\ onNas' = onNas

RemovalSpec ==
    onCloud = {} /\ onNas = {} /\ [][Arrives \/ CopiesChange \/ Removed]_<<onCloud, onNas>>
=============================================================================
