-------------------------------- MODULE Mail --------------------------------
(***************************************************************************)
(* What the text of a message becomes on its way: the header that Message  *)
(* puts before the text and takes off again, what MessagesModel tells of   *)
(* the message to its writer and to its reader, and where the buttons of   *)
(* MessagesFrame send an answer or take a contact from.                    *)
(*                                                                         *)
(* A text is a sequence of lines, the pieces between its line breaks, and  *)
(* a line is the sequence of its parts between the colons, without the     *)
(* blanks around them.  Keys are written as compare() sees them, without   *)
(* case, and the name of a contact is its address.                         *)
(***************************************************************************)
EXTENDS Integers, Sequences, FiniteSetsExt

CONSTANTS
    Users,     \* the addresses of the wallets that run this program
    Strangers, \* other addresses
    Bodies,    \* the texts a user may enter
    None       \* no address

Addresses == Users \cup Strangers

ASSUME MailAssumption ==
    /\ Bodies \subseteq Seq(Seq(STRING) \ {<<>>})
    /\ Addresses \cup {None} \subseteq STRING /\ None \notin Addresses
    /\ Addresses \cap {"Me", "-"} = {} /\ None # "Me"

VARIABLES
    mail,     \* the message: who wrote what to whom, and the text that was sent
    friends,  \* AddressBookModel::contacts of each user
    answer    \* SendMessageFrame of the user who answers: who, and the address in the form

mailVars == <<mail, friends, answer>>

NoMail == [writer |-> None, reader |-> None, body |-> <<>>, named |-> FALSE, text |-> <<>>]
NoAnswer == [by |-> None, to |-> None]

MailTypeOK ==
    /\ mail.writer \in Users \cup {None} /\ mail.reader \in Addresses \cup {None}
    /\ mail.named \in BOOLEAN /\ mail.body \in Bodies \cup {<<>>}
    /\ friends \in [Users -> SUBSET STRING]
    /\ answer \in [by : Users \cup {None}, to : STRING]

(***************************************************************************)
(* Message                                                                 *)
(***************************************************************************)
isEmpty(line) == line = <<"">>
Blank(line) == line \in {<<"">>, <<" ">>}

\* The lines from the first one that is not blank.
WithoutLeadingBlanks(text) ==
    LET written == {i \in DOMAIN text : ~Blank(text[i])}
    IN IF written = {} THEN <<>> ELSE SubSeq(text, Min(written), Len(text))

\* Mutation of parseMessage: a line without a colon ends the header and does not undo it.
ParseStopsEarly(text) ==
    LET lines == WithoutLeadingBlanks(text)
        ends == {i \in DOMAIN lines : Len(lines[i]) < 2}
        head == IF ends = {} THEN lines ELSE SubSeq(lines, 1, Min(ends) - 1)
    IN [header |-> [i \in DOMAIN head |-> <<head[i][1], head[i][2]>>],
        message |-> IF ends = {} THEN text ELSE SubSeq(lines, Min(ends) + 1, Len(lines))]

\* The lines before the first empty one are the header, if all of them have a colon, and the
\* message is what comes after it.  An empty line is not read when it is the last one.
parseMessage(text) ==
    LET lines == WithoutLeadingBlanks(text)
        empty == {i \in DOMAIN lines : isEmpty(lines[i])}
        head == IF empty = {} THEN lines ELSE SubSeq(lines, 1, Min(empty) - 1)
        isHeader == \A i \in DOMAIN head : Len(head[i]) >= 2
    IN [header |-> IF isHeader THEN [i \in DOMAIN head |-> <<head[i][1], head[i][2]>>] ELSE <<>>,
        message |-> IF isHeader /\ empty # {} /\ Min(empty) < Len(lines)
                    THEN SubSeq(lines, Min(empty) + 1, Len(lines)) ELSE text]

makeTextMessage(message, header) ==
    IF header = <<>> THEN message ELSE header \o <<<<"">>>> \o message

getMessage(text) == parseMessage(text).message

getFullMessage(text) == makeTextMessage(getMessage(text), parseMessage(text).header)

FirstValue(header, key) ==
    LET found == {i \in DOMAIN header : header[i][1] = key}
    IN IF found = {} THEN None ELSE header[Min(found)][2]

getHeaderValue(text, key) == FirstValue(parseMessage(text).header, key)

(***************************************************************************)
(* MessagesModel: what user u is told of the message.  Its writer pays.    *)
(***************************************************************************)
getName(u, address) == IF address \in friends[u] THEN address ELSE None

Roles(u) ==
    LET output == u = mail.writer
        from == getHeaderValue(mail.text, "From")
    IN [type |-> IF output THEN "OUTPUT" ELSE "INPUT",
        message |-> getMessage(mail.text),
        fullMessage |-> getFullMessage(mail.text),
        from |-> from,
        fromLabel |-> IF from = u THEN "Me" ELSE getName(u, from),
        to |-> IF output THEN mail.reader ELSE u,
        toLabel |-> IF output THEN getName(u, mail.reader) ELSE "Me"]

\* The columns of the list.
OrDash(label) == IF label = None THEN "-" ELSE label

Columns(role) ==
    [type |-> IF role.type = "OUTPUT" THEN "Sent" ELSE "Received",
     message |-> role.message, hasReplyTo |-> role.from # None,
     from |-> OrDash(role.fromLabel), to |-> OrDash(role.toLabel)]

Row(u) == Columns(Roles(u))

(***************************************************************************)
(* What the users do.                                                      *)
(***************************************************************************)
MailInit ==
    /\ mail = NoMail
    /\ friends = [u \in Users |-> {}]
    /\ answer = NoAnswer

\* SendMessageFrame::sendClicked().  With an address that validateAddress() refuses nothing is
\* sent, and the writer's own is left out.  A new message takes the place of the last one.
Write(u, to, body, named) ==
    /\ to \in Addresses \ {u}
    /\ \E i \in DOMAIN body : ~Blank(body[i])
    /\ mail' = [writer |-> u, reader |-> to, body |-> body, named |-> named,
                text |-> makeTextMessage(body, IF named THEN <<<<"From", u>>>> ELSE <<>>)]
    /\ answer' = NoAnswer
    /\ UNCHANGED friends

Unknown(u, address) == address \notin friends[u] \cup {u, None}

Sees(u) == u \in {mail.writer, mail.reader} \ {None}

\* currentMessageChanged() enables the buttons.
ReplyEnabled(u) == Roles(u).from \notin {u, None}
AddContactEnabled(u) == Unknown(u, Roles(u).to) \/ Unknown(u, Roles(u).from)

Correspondent(u, role) ==
    CASE role.to # u -> role.to
      [] role.to = u /\ role.from # u -> role.from
      [] OTHER -> None

replyTo(u) == answer' = [by |-> u, to |-> Correspondent(u, Roles(u))]

replyClicked(u) ==
    /\ Sees(u) /\ ReplyEnabled(u)
    /\ replyTo(u)
    /\ UNCHANGED <<mail, friends>>

\* A double click on a message without a sender, or with oneself, shows its details.
messageDoubleClicked(u) == Row(u).hasReplyTo /\ replyClicked(u)

\* The sender goes first.
extractContact(u) ==
    IF Unknown(u, Roles(u).from) THEN Roles(u).from ELSE Roles(u).to

saveContact(u) ==
    /\ Sees(u) /\ AddContactEnabled(u)
    /\ friends' = [friends EXCEPT ![u] = @ \cup {extractContact(u)}]
    /\ UNCHANGED <<mail, answer>>

\* The answer is sent; setAddress() has checked the box that names the sender.  It may name
\* anything a text without the writer's address starts with.
SendAnswer(body) ==
    /\ answer.to # None
    /\ Write(answer.by, answer.to, body, TRUE)

MailNext ==
    \/ \E u \in Users, to \in Addresses, body \in Bodies, named \in BOOLEAN : Write(u, to, body, named)
    \/ \E u \in Users : replyClicked(u) \/ messageDoubleClicked(u) \/ saveContact(u)
    \/ \E body \in Bodies : SendAnswer(body)

MailSpec == MailInit /\ [][MailNext]_mailVars

-----------------------------------------------------------------------------
HasHeader(body) == Len(WithoutLeadingBlanks(body)[1]) >= 2

(* A message is read as it was written, by the one it was written to and   *)
(* in the list of its writer, and an answer goes to the other one of them. *)
(* The header is told from the text only by its place: a text without the  *)
(* writer's address whose first line has a colon, such as the address of a *)
(* page, is taken for a header, and is not shown when an empty line        *)
(* follows.                                                                *)
MailIsUnderstood ==
    (mail # NoMail /\ (mail.named \/ ~HasHeader(mail.body))) =>
        /\ getFullMessage(mail.text) = mail.text
        /\ \A u \in {mail.writer, mail.reader} \cap Users :
               /\ Row(u).message = mail.body
               /\ Row(u).hasReplyTo = mail.named
               /\ (Row(u).from = "Me") = (mail.named /\ u = mail.writer)
               /\ (Row(u).to = "Me") = (u = mail.reader)
        /\ answer # NoAnswer => {answer.by, answer.to} = {mail.writer, mail.reader}
=============================================================================
