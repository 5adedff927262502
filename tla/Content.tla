------------------------------ MODULE Content -------------------------------
(***************************************************************************)
(* The board and private mail together, over one set of sessions and block *)
(* lists.  A session is at one prompt at a time.                           *)
(***************************************************************************)
EXTENDS Boards, Mail

vars == <<memberVars, boardVars, mailVars>>

TypeOK == MembersTypeOK /\ BoardsTypeOK /\ MailTypeOK

Init == MembersInit /\ BoardsInit /\ MailInit

Next ==
    \/ MembersNext /\ UNCHANGED <<boardVars, mailVars>>
    \/ BoardsNext /\ UNCHANGED mailVars
    \/ MailNext /\ UNCHANGED boardVars

Spec == Init /\ [][Next]_vars
=============================================================================
