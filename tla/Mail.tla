-------------------------------- MODULE Mail --------------------------------
(***************************************************************************)
(* Private mail (menu/mail.go, store/mail.go): an inbox each, messages     *)
(* composed once and delivered row by row to the To and CC recipients,     *)
(* reading, deleting, blocking and reporting from the message.             *)
(***************************************************************************)
EXTENDS Members

VARIABLES
    mail,        \* private_message rows
    lastMail,    \* the highest id given out (AUTOINCREMENT)
    reading,     \* the message each session has open: its id and sender, id 0: none
    sending      \* recipients each session's composed message still has to reach

mailVars == <<mail, lastMail, reading, sending>>

\* read: read_at is set; shown (history): Get has fetched the row for its recipient's
\* screen.  Subject and body are left out.
MailRow == [id : 1 .. MaxRows, from : Users, to : Users, read : BOOLEAN, shown : BOOLEAN]
NoMail == [id |-> 0]

MailTypeOK ==
    /\ mail \subseteq MailRow
    /\ lastMail \in 0 .. MaxRows
    /\ reading \in [Sessions -> [id : 1 .. MaxRows, from : Users] \cup {NoMail}]
    /\ sending \in [Sessions -> Seq(Users)]

MailInit ==
    /\ mail = {}
    /\ lastMail = 0
    /\ reading = [s \in Sessions |-> NoMail]
    /\ sending = [s \in Sessions |-> <<>>]

EnterMail(s) ==
    /\ at[s] = "menu"
    /\ GoTo(s, "inbox")
    /\ UNCHANGED <<who, blocks, rows, mailVars>>

\* Mail.Inbox of the user without the senders he blocks
Inbox(u) == {m \in mail : m.to = u /\ m.from \notin BlockedBy(u)}

\* readMail, the SELECT of Mail.Get.  (A number typed on a list drawn before the row was
\* deleted finds nothing, and RunMail draws the list again.)
Get(s) ==
    /\ at[s] = "inbox"
    /\ \E m \in Inbox(who[s]) :
        /\ mail' = (mail \ {m}) \cup {[m EXCEPT !.shown = TRUE]}
        /\ reading' = [reading EXCEPT ![s] = [id |-> m.id, from |-> m.from]]
        /\ GoTo(s, IF m.read THEN "mail" ELSE "get")
    /\ UNCHANGED <<who, blocks, rows, lastMail, sending>>

\* ... and its UPDATE of read_at, by id, if the row fetched had none.  When it fails, Get
\* returns the message all the same.
GetMarks(s) ==
    /\ at[s] = "get"
    /\ mail' \in {mail, {[m EXCEPT !.read = @ \/ m.id = reading[s].id] : m \in mail}}
    /\ GoTo(s, "mail")
    /\ UNCHANGED <<who, blocks, rows, lastMail, reading, sending>>

\* Mutant: an id comes back once its row is gone.
FreshMailIdReused == CHOOSE i \in 1 .. MaxRows : \A m \in mail : m.id # i

\* AUTOINCREMENT
FreshMailId == lastMail + 1

\* Mutant: a handle nobody has is taken for user 0.
RecipientsUnresolved(u) == {<<t>> : t \in Users \cup {0}}

\* composeMail: a To of any handle, then CCs; pickCC skips the caller, the To and
\* whom it has taken already.
Recipients(u) ==
    {<<t>> : t \in Users} \cup
    {l \in Users \X Users : l[2] \notin {u, l[1]}}

\* The message is typed and ready to go to everyone on the list.
ComposeMail(s) ==
    /\ at[s] = "inbox"
    /\ rows < MaxRows
    /\ \E list \in Recipients(who[s]) :
        sending' = [sending EXCEPT ![s] = list]
    /\ GoTo(s, "send")
    /\ UNCHANGED <<who, blocks, rows, mail, lastMail, reading>>

\* [R]eply to the message on screen
ReplyMail(s) ==
    /\ at[s] = "mail"
    /\ rows < MaxRows
    /\ sending' = [sending EXCEPT ![s] = <<reading[s].from>>]
    /\ reading' = [reading EXCEPT ![s] = NoMail]
    /\ GoTo(s, "send")
    /\ UNCHANGED <<who, blocks, rows, mail, lastMail>>

\* sendToMany, one recipient: Mail.Send, or an error and on to the next
Send(s) ==
    /\ at[s] = "send"
    /\ sending[s] # <<>>
    /\ \/ /\ OneMoreRow
          /\ mail' = mail \cup {[id |-> FreshMailId, from |-> who[s], to |-> Head(sending[s]),
                                 read |-> FALSE, shown |-> FALSE]}
          /\ lastMail' = lastMail + 1
       \/ UNCHANGED <<mail, lastMail, rows>>
    /\ sending' = [sending EXCEPT ![s] = Tail(@)]
    /\ UNCHANGED <<at, who, blocks, reading>>

SendDone(s) ==
    /\ at[s] = "send"
    /\ sending[s] = <<>>
    /\ GoTo(s, "inbox")
    /\ UNCHANGED <<who, blocks, rows, mailVars>>

\* [D]elete: DELETE ... WHERE id = ? AND to_id = ?
DeleteMail(s) ==
    /\ at[s] = "mail"
    /\ mail' = {m \in mail : ~ (m.id = reading[s].id /\ m.to = who[s])}
    /\ reading' = [reading EXCEPT ![s] = NoMail]
    /\ GoTo(s, "inbox")
    /\ UNCHANGED <<who, blocks, rows, lastMail, sending>>

\* [B]lock sender, or re[P]ort and [Q], which change nothing kept here
MailDone(s) ==
    /\ at[s] = "mail"
    /\ Block(who[s], reading[s].from) \/ UNCHANGED <<blocks, rows>>
    /\ reading' = [reading EXCEPT ![s] = NoMail]
    /\ GoTo(s, "inbox")
    /\ UNCHANGED <<who, mail, lastMail, sending>>

\* [Q]uit, or a hangup
LeaveMail(s) ==
    /\ at[s] \in {"inbox", "mail"}
    /\ reading' = [reading EXCEPT ![s] = NoMail]
    /\ GoTo(s, "menu")
    /\ UNCHANGED <<who, blocks, rows, mail, lastMail, sending>>

MailNext ==
    \E s \in Sessions :
        \/ EnterMail(s) \/ Get(s) \/ GetMarks(s) \/ ComposeMail(s) \/ ReplyMail(s)
        \/ Send(s) \/ SendDone(s) \/ DeleteMail(s) \/ MailDone(s) \/ LeaveMail(s)

-----------------------------------------------------------------------------
(* Properties.                                                             *)

\* Mail is gone only after its recipient had it on his screen, though two sessions of
\* his work the same inbox, one deletes by the id of a message the other has deleted
\* before, and the mark of its reading may have failed (mail.go, readMail; store/mail.go,
\* Get and Delete).
ReadBeforeDeleted == [][\A m \in mail : (\A n \in mail' : n.id # m.id) => m.shown]_mail
=============================================================================
