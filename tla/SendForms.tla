----------------------------- MODULE SendForms -----------------------------
(***************************************************************************)
(* The two forms from which coins leave the wallet: SendFrame with its     *)
(* TransferFrames, with which DepositsFrame shares the signal of a         *)
(* completed transaction, and SendMessageFrame with its                    *)
(* MessageAddressFrames.                                                   *)
(*                                                                         *)
(* Both keep a list of rows and a fee field whose minimum follows what is  *)
(* to be paid for.  A row is closed in one event and destroyed in a later  *)
(* one, which takes it from the list and calculates the fee again; the end *)
(* of a send may come in between, and clears the form.  The user waits     *)
(* for the events that were posted before.  The forms have no state in     *)
(* common: "form" tells which one a behaviour is about.                    *)
(***************************************************************************)
EXTENDS Integers, SequencesExt, FiniteSetsExt, FiniteSets

CONSTANTS
    Own,            \* the address of the wallet
    Others,         \* other addresses
    Named,          \* the name a contact of each of them has
    MESSAGE_AMOUNT, \* paid to each recipient of a message
    CHAR_PRICE,     \* for a character of a message, or of a comment
    MinimumFee,     \* of a transaction: CurrencyAdapter::getMinimumFee()
    RowLimit,       \* of a message: 9.  Bound on the rows of a transaction
    SizeLimit,      \* bound on the length of a message
    CommentLimit,   \* bound on the length of a comment
    Raise,          \* bound on what the user adds to the minimal fee; m_feeSpin has a maximum
    Amounts,        \* the amounts on the balance label, and of a deposit
    Coin,           \* 10^CurrencyAdapter::getNumberOfDecimalPlaces(), and of the fields: 10^7
    Wrap            \* quint64 wraps at 2^64

\* The name of somebody who is no contact is not an address.
Texts == {"", Own} \cup Others \cup {Named[a] : a \in Others}

\* What a form costs at most; m_feeSpin shows less than 2^64 by far.
MaximalFee ==
    RowLimit * (MESSAGE_AMOUNT + CommentLimit * CHAR_PRICE) + SizeLimit * CHAR_PRICE + MinimumFee + Raise

ASSUME FormsAssumption ==
    /\ Own \notin Others
    /\ MESSAGE_AMOUNT \in Nat \ {0} /\ CHAR_PRICE \in Nat \ {0} /\ MinimumFee \in Nat
    /\ RowLimit \in Nat \ {0} /\ SizeLimit \in Nat /\ CommentLimit \in Nat /\ Raise \in Nat
    /\ Amounts \subseteq Nat /\ Coin \in Nat \ {0}
    /\ Wrap \in Nat /\ MaximalFee < Wrap

VARIABLES
    form,       \* "transfers" or "message"
    rows,       \* m_transfers or m_addressFrames
    orphans,    \* closed TransferFrames that m_transfers has forgotten
    size,       \* the length of the message
    onChain,    \* m_ttlCheck, "Save encrypted message on the blockchain"
    minimum,    \* of m_feeSpin
    fee,        \* the value of m_feeSpin
    known,      \* the addresses in AddressBookModel
    sending,    \* a transaction is on its way
    \* observation
    resetFull   \* reset() found as many rows as there may be

formVars == <<form, rows, orphans, size, onChain, minimum, fee, known, sending, resetFull>>

NewRow == [to |-> "", size |-> 0, fixed |-> FALSE, closed |-> FALSE]

FormsTypeOK ==
    /\ form \in {"transfers", "message"}
    /\ rows \in Seq([to : Texts, size : 0..CommentLimit, fixed : BOOLEAN, closed : BOOLEAN])
    /\ Len(rows) <= RowLimit
    /\ orphans \in 0..2 * RowLimit
    /\ size \in 0..SizeLimit /\ onChain \in BOOLEAN
    /\ minimum \in 0..MaximalFee /\ fee \in minimum..MaximalFee
    /\ known \subseteq Others
    /\ sending \in BOOLEAN /\ resetFull \in BOOLEAN

(***************************************************************************)
(* CurrencyAdapter.  Amounts are read from the labels and the fields they  *)
(* are shown in: what stands before the point, after it, and the unit of   *)
(* its last place.  Commas between the thousands are passed over.          *)
(***************************************************************************)
formatAmount(amount) == [whole |-> amount \div Coin, fraction |-> amount % Coin, unit |-> Coin]

\* Zeros in places too many are passed over, too; other digits there make the amount 0.
parseAmount(text) ==
    IF text.unit <= Coin THEN text.whole * Coin + text.fraction * (Coin \div text.unit)
    ELSE LET spare == text.unit \div Coin
         IN IF text.fraction % spare # 0 THEN 0 ELSE text.whole * Coin + text.fraction \div spare

Read(amount) == parseAmount(formatAmount(amount))

(***************************************************************************)
(* The fee.                                                                *)
(***************************************************************************)
MessagePrice(recipients, length) ==
    recipients * MESSAGE_AMOUNT + Max({length - 1, 0}) * CHAR_PRICE

CommentsPrice(list) ==
    LET upTo[i \in 0..Len(list)] ==
            IF i = 0 THEN MinimumFee ELSE upTo[i - 1] + list[i].size * CHAR_PRICE
    IN upTo[Len(list)]

\* The minimum and the value of m_feeSpin become the least that pays for the form.
Charge(amount) == minimum' = Read(amount) /\ fee' = minimum'

recalculateFeeValue(list, length, keep) ==
    Charge(IF keep THEN MessagePrice(Len(list), length) ELSE 0)

updateFee(list) == Charge(CommentsPrice(list))

Recalculate(list) ==
    IF form = "transfers" THEN updateFee(list) ELSE recalculateFeeValue(list, size, onChain)

(***************************************************************************)
(* The rows.                                                               *)
(***************************************************************************)
\* addRecipientClicked(): the button that removes the only row is disabled.
WithNewRow(list) ==
    IF list = <<>> THEN <<[NewRow EXCEPT !.fixed = TRUE]>>
    ELSE Append([list EXCEPT ![1].fixed = FALSE], NewRow)

\* Mutation of WithRecipient: any number of recipients is taken.
WithAnyRecipient(list) == WithNewRow(list)

WithRecipient(list) ==
    IF form = "message" /\ Len(list) = RowLimit THEN list ELSE WithNewRow(list)

\* The slot of destroyed().
Without(list, i) ==
    LET left == RemoveAt(list, i)
    IN IF Len(left) = 1 THEN [left EXCEPT ![1].fixed = TRUE] ELSE left

Closed(list) == [i \in DOMAIN list |-> [list[i] EXCEPT !.closed = TRUE]]

RowsAreClosed == orphans > 0 \/ \E i \in DOMAIN rows : rows[i].closed
UserMayEdit == ~RowsAreClosed

FormsInit ==
    /\ form \in {"transfers", "message"}
    /\ rows = <<[NewRow EXCEPT !.fixed = TRUE]>> /\ orphans = 0
    /\ size = 0 /\ onChain = FALSE
    /\ minimum = (IF form = "transfers" THEN MinimumFee ELSE 0) /\ fee = minimum
    /\ known \in SUBSET Others
    /\ sending = FALSE /\ resetFull = FALSE

addRecipientClicked ==
    /\ UserMayEdit
    /\ Len(rows) = RowLimit => form = "message"
    /\ rows' = WithRecipient(rows)
    /\ IF form = "message" /\ rows' # rows THEN recalculateFeeValue(rows', size, onChain)
       ELSE UNCHANGED <<minimum, fee>>
    /\ UNCHANGED <<form, orphans, size, onChain, known, sending, resetFull>>

\* close() of a TransferFrame, deleteLater() of a MessageAddressFrame.
RemoveClicked(i) ==
    /\ UserMayEdit /\ i \in DOMAIN rows /\ ~rows[i].fixed
    /\ rows' = [rows EXCEPT ![i].closed = TRUE]
    /\ UNCHANGED <<form, orphans, size, onChain, minimum, fee, known, sending, resetFull>>

RowDestroyed(i) ==
    /\ i \in DOMAIN rows /\ rows[i].closed
    /\ rows' = Without(rows, i)
    /\ Recalculate(rows')
    /\ UNCHANGED <<form, orphans, size, onChain, known, sending, resetFull>>

OrphanDestroyed ==
    /\ orphans > 0 /\ orphans' = orphans - 1
    /\ rows' = (IF Len(rows) = 1 THEN [rows EXCEPT ![1].fixed = TRUE] ELSE rows)
    /\ updateFee(rows)
    /\ UNCHANGED <<form, size, onChain, known, sending, resetFull>>

\* Mutation of Clear: no row is added for those that go.
ClearAddsNone ==
    IF form = "transfers"
    THEN /\ rows' = <<>>
         /\ orphans' = orphans + Len(rows)
         /\ UNCHANGED <<size, minimum, fee, resetFull>>
    ELSE /\ rows' = Closed(rows)
         /\ size' = 0
         /\ recalculateFeeValue(rows', 0, onChain)
         /\ resetFull' = (Len(rows) = RowLimit)
         /\ UNCHANGED orphans

\* All rows of SendFrame are closed and forgotten, those of SendMessageFrame only closed.
Clear ==
    IF form = "transfers"
    THEN /\ rows' = WithRecipient(<<>>)
         /\ orphans' = orphans + Len(rows)
         /\ UNCHANGED <<size, minimum, fee, resetFull>>
    ELSE /\ rows' = WithRecipient(Closed(rows))
         /\ size' = 0
         /\ recalculateFeeValue(rows', 0, onChain)
         /\ resetFull' = (Len(rows) = RowLimit)
         /\ UNCHANGED orphans

clearAllClicked ==
    /\ UserMayEdit
    /\ Clear
    /\ UNCHANGED <<form, onChain, known, sending>>

(***************************************************************************)
(* What the user enters.                                                   *)
(***************************************************************************)
\* A contact's name is replaced by "name <address>", of which getAddress() takes the address.
Address(text) ==
    IF \E a \in known : Named[a] = text THEN CHOOSE a \in known : Named[a] = text ELSE text

AddressEntered(i, text) ==
    /\ UserMayEdit /\ i \in DOMAIN rows
    /\ rows' = [rows EXCEPT ![i].to = Address(text)]
    /\ UNCHANGED <<form, orphans, size, onChain, minimum, fee, known, sending, resetFull>>

commentEdited(i, length) ==
    /\ form = "transfers" /\ UserMayEdit /\ i \in DOMAIN rows
    /\ rows' = [rows EXCEPT ![i].size = length]
    /\ updateFee(rows')
    /\ UNCHANGED <<form, orphans, size, onChain, known, sending, resetFull>>

messageTextChanged(length) ==
    /\ form = "message" /\ UserMayEdit
    /\ size' = length
    /\ recalculateFeeValue(rows, length, onChain)
    /\ UNCHANGED <<form, rows, orphans, onChain, known, sending, resetFull>>

\* Mutation of ttlCheckStateChanged: the fee is not calculated again.
TtlKeepsFee ==
    /\ form = "message" /\ UserMayEdit
    /\ onChain' = ~onChain
    /\ UNCHANGED <<form, rows, orphans, size, minimum, fee, known, sending, resetFull>>

ttlCheckStateChanged ==
    /\ form = "message" /\ UserMayEdit
    /\ onChain' = ~onChain
    /\ recalculateFeeValue(rows, size, onChain')
    /\ UNCHANGED <<form, rows, orphans, size, known, sending, resetFull>>

FeeEntered(more) ==
    /\ UserMayEdit
    /\ fee' = minimum + more
    /\ UNCHANGED <<form, rows, orphans, size, onChain, minimum, known, sending, resetFull>>

(***************************************************************************)
(* From the other pages.                                                   *)
(***************************************************************************)
\* SendMessageFrame::setAddress(), of replyTo() and sendTo(): the rows are deleted at once.
WriteTo(address) ==
    /\ form = "message" /\ UserMayEdit
    /\ rows' = <<[NewRow EXCEPT !.to = address, !.fixed = TRUE]>>
    /\ size' = 0
    /\ recalculateFeeValue(rows', 0, onChain)
    /\ UNCHANGED <<form, orphans, onChain, known, sending, resetFull>>

sendTo(contact) == contact \in known /\ WriteTo(contact)

\* AddressBookFrame, from its own button and to save the contact of a message.
addClicked(address, label) ==
    /\ UserMayEdit /\ address \in Others /\ label # ""
    /\ known' = known \cup {address}
    /\ UNCHANGED <<form, rows, orphans, size, onChain, minimum, fee, sending, resetFull>>

\* SendFrame::setAddress(): in the first row without an address, or in a new one.
setAddress(address) ==
    /\ form = "transfers" /\ UserMayEdit
    /\ LET empty == {i \in DOMAIN rows : rows[i].to = ""}
           list == IF empty = {} THEN WithRecipient(rows) ELSE rows
           at == IF empty = {} THEN Len(list) ELSE Min(empty)
       IN /\ Len(list) <= RowLimit
          /\ rows' = [list EXCEPT ![at].to = address]
    /\ UNCHANGED <<form, orphans, size, onChain, minimum, fee, known, sending, resetFull>>

payTo(contact) == contact \in known /\ setAddress(contact)

(***************************************************************************)
(* Sending.                                                                *)
(***************************************************************************)
validateAddress(text) == text \in Others \cup {Own}

MaySendTransfers ==
    /\ form = "transfers" /\ UserMayEdit /\ ~sending
    /\ \A i \in DOMAIN rows : validateAddress(rows[i].to)
    /\ Read(fee) >= MinimumFee

\* What a message costs: its recipients, what each of them is paid, and the rest of the fee.
Recipients == {i \in DOMAIN rows : rows[i].to \notin {"", Own}}
PaidToRecipients == MESSAGE_AMOUNT * Cardinality(Recipients)
NetworkFee == IF onChain THEN (Read(fee) - PaidToRecipients + Wrap) % Wrap ELSE Read(fee)

\* The text is charged as it was typed: the header with the writer's address that sendClicked() may
\* put before it is longer than what recalculateFeeValue() counted, and is sent with it.
MaySendMessage(balance) ==
    /\ form = "message" /\ UserMayEdit /\ ~sending /\ size > 0
    /\ \A i \in Recipients : validateAddress(rows[i].to)
    /\ onChain => NetworkFee <= Read(balance) /\ PaidToRecipients <= Read(balance)

SendBegins ==
    /\ sending' = TRUE
    /\ UNCHANGED <<form, rows, orphans, size, onChain, minimum, fee, known, resetFull>>

SendTransfers == MaySendTransfers /\ SendBegins
SendMessage(balance) == MaySendMessage(balance) /\ SendBegins

\* DepositsFrame: a deposit is a transaction like those of SendFrame.
depositClicked(amount, balance) ==
    /\ form = "transfers" /\ UserMayEdit /\ ~sending
    /\ Read(amount) # 0 /\ Read(amount) + MinimumFee <= balance
    /\ SendBegins

\* The user may have edited the form, opened another wallet or closed rows since.
SendCompleted(error) ==
    /\ sending /\ sending' = FALSE
    /\ IF error THEN UNCHANGED <<rows, orphans, size, minimum, fee, resetFull>> ELSE Clear
    /\ UNCHANGED <<form, onChain, known>>

-----------------------------------------------------------------------------
FormsUser ==
    \/ addRecipientClicked \/ clearAllClicked \/ ttlCheckStateChanged \/ SendTransfers
    \/ \E i \in DOMAIN rows : RemoveClicked(i)
    \/ \E i \in DOMAIN rows, text \in Texts : AddressEntered(i, text)
    \/ \E i \in DOMAIN rows, length \in 0..CommentLimit : commentEdited(i, length)
    \/ \E length \in 0..SizeLimit : messageTextChanged(length)
    \/ \E more \in 0..Raise : FeeEntered(more)
    \/ \E address \in Others : WriteTo(address) \/ addClicked(address, Named[address])
    \/ \E contact \in Others : sendTo(contact) \/ payTo(contact)
    \/ \E balance \in Amounts : SendMessage(balance)
    \/ \E amount, balance \in Amounts : depositClicked(amount, balance)

FormsNext ==
    \/ FormsUser
    \/ \E i \in DOMAIN rows : RowDestroyed(i)
    \/ OrphanDestroyed
    \/ \E error \in BOOLEAN : SendCompleted(error)

FormsSpec == FormsInit /\ [][FormsNext]_formVars

-----------------------------------------------------------------------------
(***************************************************************************)
(* Properties.                                                             *)
(***************************************************************************)

(* Whenever a send is taken, what leaves is what the fee field showed, the *)
(* coins given with a message on the chain included, and pays for the      *)
(* recipients and the characters that were typed, not for those of a       *)
(* header put before them.  The amounts are taken from the fee without a   *)
(* check: they wrap when the field shows less, so every step that adds a   *)
(* row, destroys one, or changes the text or the choice has to bring the   *)
(* field up to date.                                                       *)
PaidIsShown ==
    /\ MaySendTransfers => Read(fee) = fee /\ CommentsPrice(rows) <= fee
    /\ onChain /\ (\E balance \in Amounts : MaySendMessage(balance)) =>
           /\ PaidToRecipients + NetworkFee = fee
           /\ MessagePrice(Cardinality(Recipients), size) <= fee

(* A form always has a row to fill in, however rows are closed and the end *)
(* of a send comes between a row's close and its destruction, with one     *)
(* exception: reset() of a message with 9 rows adds none, and all of them  *)
(* are on their way out.                                                   *)
RowsKept == rows = <<>> => form = "message" /\ resetFull
=============================================================================
