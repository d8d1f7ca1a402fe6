------------------------------- MODULE MCLate -------------------------------
(***************************************************************************)
(* Tasks that outlive their lease; and, as they have no state in common,   *)
(* in behaviours of their own the documents that are generated and the XML *)
(* that is read.                                                           *)
(***************************************************************************)
EXTENDS MCProcessing, MCDocuments

LateInit == Init /\ DocumentsInit

LateNext ==
    \/ DocumentsInit /\ Next /\ UNCHANGED <<generated, scanVars>>
    \/ Init /\ DocumentsNext /\ UNCHANGED vars

LateSpec == LateInit /\ [][LateNext]_<<vars, generated, scanVars>>
=============================================================================
