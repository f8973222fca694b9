------------------------------- MODULE SimStock -------------------------------
(***************************************************************************)
(* The stock of SIMs of one product line: the main stock, the stock each   *)
(* customer holds, the log of movements that explains both, the cards      *)
(* whose serial was typed in, and the SIM a sale takes and gives back.     *)
(*                                                                         *)
(* Sources: inventory/services.py and its callers in sales/services.py and *)
(* customers/services.py.                                                  *)
(*                                                                         *)
(* A service is one transaction that locks the balances before it reads    *)
(* them: one action.  Approving a customer's payment is two: it chooses    *)
(* the oldest sale that waits for its SIM without locking it, then locks   *)
(* it.  Every sale here sells a new SIM.                                   *)
(***************************************************************************)
EXTENDS LedgerSum, FiniteSets

CONSTANTS
    NumCustomers,   \* customers that may hold stock
    NumSales,       \* bound: sales ever entered
    OnAccount,      \* the sales that are on a customer's account
    NumCards,       \* SIMs whose serial is known
    MaxMoves,       \* bound: rows of the log
    Amounts,        \* quantities that may be typed
    RowsDeleted,    \* may a balance row be deleted that rows of the log name?
    Overlap         \* may other requests run while a payment is approved?

ASSUME StockBoundsAssumption ==
    /\ NumCustomers \in Nat /\ NumSales \in Nat /\ NumCards \in Nat /\ MaxMoves \in Nat
    /\ Amounts \subseteq Nat \ {0} /\ RowsDeleted \in BOOLEAN /\ Overlap \in BOOLEAN

\* The main stock is place 0, a customer's stock has the customer's number.
Main == 0
Customer == 1..NumCustomers
Place == {Main} \cup Customer
Nowhere == -1
Nobody == 0         \* the payer is no customer
Sale == 1..NumSales
NoSale == 0
Card == 1..NumCards
NoCard == 0
Move == 1..MaxMoves
NoMove == 0

VARIABLES
    quantity,   \* SimStockBalance.quantity of each place
    rows,       \* the places whose balance row exists
    log,        \* SimStockMovement: the rows of the log
    card,       \* SimCard: each known serial
    sale,       \* the columns of sales.Sale the stock depends on
    picked      \* the sale an approved payment has chosen, NoSale when none

vars == <<quantity, rows, log, card, sale, picked>>

FreeMove ==
    [type |-> "none", quantity |-> 0, from |-> Nowhere, to |-> Nowhere, customer |-> Nobody, sale |-> NoSale]
UnknownCard == [status |-> "none", customer |-> Nobody, sale |-> NoSale, movement |-> NoMove]
UnsoldSale ==
    [status |-> "none", account |-> Nobody, serial |-> NoCard, from |-> "none", movement |-> NoMove]

\* An adjustment, a damaged SIM and one sold by hand are rows of one kind: they
\* name one balance.
Types == {"receive", "allocate", "return", "correction", "consume", "reversal"}

MoveRow ==
    [type: Types \cup {"none"}, quantity: Nat, from: Place \cup {Nowhere}, to: Place \cup {Nowhere},
     customer: Customer \cup {Nobody}, sale: Sale \cup {NoSale}]
CardRow ==
    [status: {"none", "main", "customer", "consumed"}, customer: Customer \cup {Nobody},
     sale: Sale \cup {NoSale}, movement: Move \cup {NoMove}]
SaleRow ==
    [status: {"none", "awaiting", "pending", "paid", "cancelled", "deleted"},
     account: Customer \cup {Nobody}, serial: Card \cup {NoCard},
     from: {"none", "main", "customer"}, movement: Move \cup {NoMove}]

TypeOK ==
    /\ quantity \in [Place -> Nat] /\ rows \subseteq Place
    /\ log \in [Move -> MoveRow] /\ card \in [Card -> CardRow] /\ sale \in [Sale -> SaleRow]
    /\ picked \in Sale \cup {NoSale}

Init ==
    /\ quantity = [p \in Place |-> 0] /\ rows = {}
    /\ log = [k \in Move |-> FreeMove]
    /\ card = [c \in Card |-> UnknownCard]
    /\ sale = [s \in Sale |-> UnsoldSale]
    /\ picked = NoSale

Exists(s) == sale[s].status \notin {"none", "deleted"}

\* Nothing runs beside the approval of a payment, or everything that does not
\* need the customer it has locked.
MayRun == picked = NoSale \/ Overlap
CustomerFree(c) == picked # NoSale => sale[picked].account # c

\* The next row of the log: a set with its number, empty when the bound is hit.
NewMove == {k \in Move : log[k].type = "none" /\ \A j \in 1..(k - 1) : log[j].type # "none"}

\* What a row of the log says of the stock of a place.
Effect(m, p) == (IF m.to = p THEN m.quantity ELSE 0) - (IF m.from = p THEN m.quantity ELSE 0)

\* Mutant of Record: the balance is not looked at before it is debited.
RecordUnchecked(k, m) ==
    /\ log' = [log EXCEPT ![k] = m]
    /\ quantity' = [p \in Place |-> quantity[p] + Effect(m, p)]

\* A row is added to the log and the balances it names change.
Record(k, m) ==
    /\ m.from # Nowhere => quantity[m.from] >= m.quantity
    /\ log' = [log EXCEPT ![k] = m]
    /\ quantity' = [p \in Place |-> quantity[p] + Effect(m, p)]

-----------------------------------------------------------------------------
\* Stock comes, goes to customers and comes back.

\* Either no serial is typed or one for each SIM.
Serials(n) == {{}} \cup {S \in SUBSET Card : Cardinality(S) = n}

\* receive_main_stock
Receive(k, n, serials) ==
    /\ \A c \in serials : card[c].status = "none"
    /\ Record(k, [FreeMove EXCEPT !.type = "receive", !.quantity = n, !.to = Main])
    /\ rows' = rows \cup {Main}
    /\ card' = [c \in Card |-> IF c \in serials
                    THEN [UnknownCard EXCEPT !.status = "main", !.movement = k] ELSE card[c]]
    /\ UNCHANGED <<sale, picked>>

\* allocate_to_customer
Allocate(k, customer, n, serials) ==
    /\ \A c \in serials : card[c].status = "main"
    /\ Record(k, [FreeMove EXCEPT !.type = "allocate", !.quantity = n, !.from = Main,
                                  !.to = customer, !.customer = customer])
    /\ rows' = rows \cup {Main, customer}
    /\ card' = [c \in Card |-> IF c \in serials
                    THEN [card[c] EXCEPT !.status = "customer", !.customer = customer, !.movement = k]
                    ELSE card[c]]
    /\ UNCHANGED <<sale, picked>>

\* return_from_customer: the serial may be another customer's.
Return(k, customer, n, serials) ==
    /\ \A c \in serials : card[c].status = "customer"
    /\ Record(k, [FreeMove EXCEPT !.type = "return", !.quantity = n, !.from = customer,
                                  !.to = Main, !.customer = customer])
    /\ rows' = rows \cup {Main, customer}
    /\ card' = [c \in Card |-> IF c \in serials
                    THEN [card[c] EXCEPT !.status = "main", !.customer = Nobody, !.movement = k]
                    ELSE card[c]]
    /\ UNCHANGED <<sale, picked>>

\* What a correction of one balance writes to the log.
Correction(p, n) ==
    [FreeMove EXCEPT !.type = "correction", !.customer = p,
        !.quantity = IF n > 0 THEN n ELSE -n,
        !.from = IF n < 0 THEN p ELSE Nowhere, !.to = IF n > 0 THEN p ELSE Nowhere]

\* adjust_balance
Adjust(k, p, n) ==
    /\ p \in rows /\ quantity[p] + n >= 0
    /\ Record(k, Correction(p, n))
    /\ UNCHANGED <<rows, card, sale, picked>>

\* set_balance_quantity, and clear_balance when n is 0
SetQuantity(k, p, n) ==
    /\ p \in rows /\ n # quantity[p]
    /\ Record(k, Correction(p, n - quantity[p]))
    /\ UNCHANGED <<rows, card, sale, picked>>

\* mark_damaged and record_manual_sale
TakeOut(k, p, n) ==
    /\ p \in rows
    /\ Record(k, Correction(p, -n))
    /\ UNCHANGED <<rows, card, sale, picked>>

MayDeleteRow(p) == RowsDeleted \/ \A k \in Move : log[k].from # p /\ log[k].to # p

\* delete_balance_row: the log forgets the row.
DeleteRow(p) ==
    /\ p \in rows /\ quantity[p] = 0 /\ MayDeleteRow(p)
    /\ rows' = rows \ {p}
    /\ log' = [k \in Move |-> [log[k] EXCEPT !.from = IF @ = p THEN Nowhere ELSE @,
                                             !.to = IF @ = p THEN Nowhere ELSE @]]
    /\ UNCHANGED <<quantity, card, sale, picked>>

\* What happens to a card whose last movement is deleted.
CardWithout(k, c) ==
    CASE card[c].movement # k -> card[c]
      [] card[c].movement = k /\ log[k].type = "receive" -> UnknownCard
      [] card[c].movement = k /\ log[k].type = "allocate" ->
            [card[c] EXCEPT !.status = "main", !.customer = Nobody, !.movement = NoMove]
      [] card[c].movement = k /\ log[k].type = "return" ->
            [card[c] EXCEPT !.status = "customer", !.customer = log[k].customer, !.movement = NoMove]
      [] OTHER -> [card[c] EXCEPT !.movement = NoMove]

\* Mutant of DeleteMovement: the row goes, what it did stays.
DeleteRowOnly(k) ==
    /\ log[k].type \notin {"none", "consume", "reversal"}
    /\ log' = [log EXCEPT ![k] = FreeMove]
    /\ card' = [c \in Card |-> CardWithout(k, c)]
    /\ UNCHANGED <<quantity, rows, sale, picked>>

\* Mutant of DeleteMovement: a sale's movement is deleted like any other.
DeleteAnyMovement(k) ==
    LET m == log[k] IN
    /\ m.type # "none" /\ m.to # Nowhere => quantity[m.to] >= m.quantity
    /\ quantity' = [p \in Place |-> quantity[p] - Effect(m, p)]
    /\ log' = [log EXCEPT ![k] = FreeMove]
    /\ card' = [c \in Card |-> CardWithout(k, c)]
    /\ UNCHANGED <<rows, sale, picked>>

\* delete_movement: what the movement moved is put back.
DeleteMovement(k) ==
    LET m == log[k] IN
    /\ m.type \notin {"none", "consume", "reversal"}
    /\ m.to # Nowhere => quantity[m.to] >= m.quantity
    /\ quantity' = [p \in Place |-> quantity[p] - Effect(m, p)]
    /\ log' = [log EXCEPT ![k] = FreeMove]
    /\ card' = [c \in Card |-> CardWithout(k, c)]
    /\ UNCHANGED <<rows, sale, picked>>

-----------------------------------------------------------------------------
\* The SIM a sale takes.

Consumed(s) == sale[s].from # "none"

\* resolve_sim_customer: who the payer's name stands for.  Sales are edited and
\* customers renamed, so it is chosen when the SIM is taken; a name that several
\* customers have takes none.
Payer == Customer \cup {Nobody}

\* The payer's own stock first, then the main one.
Source(payer) == IF payer \in Customer /\ quantity[payer] > 0 THEN payer ELSE Main

\* consume_sim_for_sale: the card that was typed in must be where the SIM is
\* taken from.
Consume(k, s, payer, status) ==
    LET from == Source(payer)
        c == sale[s].serial IN
    /\ Record(k, [FreeMove EXCEPT !.type = "consume", !.quantity = 1, !.from = from,
                                  !.customer = payer, !.sale = s])
    /\ rows' = rows \cup {from} \cup ({payer} \cap Customer)
    /\ c # NoCard => IF from = Main THEN card[c].status = "main"
                     ELSE card[c].status = "customer" /\ card[c].customer = from
    /\ card' = [d \in Card |-> IF d = c
                    THEN [status |-> "consumed", customer |-> payer, sale |-> s, movement |-> k]
                    ELSE card[d]]
    /\ sale' = [sale EXCEPT ![s].status = status, ![s].movement = k,
                            ![s].from = IF from = Main THEN "main" ELSE "customer"]

\* A sale whose SIM need not move only changes its status.
OnlyStatus(s, status) ==
    /\ sale' = [sale EXCEPT ![s].status = status]
    /\ UNCHANGED <<quantity, rows, log, card>>

\* Mutant of ConsumeOnce: a sale takes a SIM whenever it is asked to.
ConsumeAgain(k, s, payer, status) == Consume(k, s, payer, status)

\* A sale takes a SIM the first time it is asked to.
ConsumeOnce(k, s, payer, status) ==
    IF Consumed(s) THEN OnlyStatus(s, status) ELSE Consume(k, s, payer, status)

\* Mutant of GiveBack: the card is forgotten.
GiveBackNoCard(k, s) ==
    LET to == IF sale[s].from = "main" THEN Main ELSE log[sale[s].movement].customer IN
    /\ Record(k, [FreeMove EXCEPT !.type = "reversal", !.quantity = 1, !.to = to,
                                  !.customer = to, !.sale = s])
    /\ rows' = rows \cup {to}
    /\ card' = card

\* reverse_sim_for_cancelled_sale: the SIM goes back where it was taken from,
\* and so does the card.
GiveBack(k, s) ==
    LET to == IF sale[s].from = "main" THEN Main ELSE log[sale[s].movement].customer IN
    /\ Record(k, [FreeMove EXCEPT !.type = "reversal", !.quantity = 1, !.to = to,
                                  !.customer = to, !.sale = s])
    /\ rows' = rows \cup {to}
    /\ card' = [c \in Card |->
          IF card[c].sale # s THEN card[c]
          ELSE [status |-> IF to = Main THEN "main" ELSE "customer", movement |-> k, sale |-> NoSale,
                customer |-> IF to = Main THEN Nobody ELSE card[c].customer]]

-----------------------------------------------------------------------------
\* A sale's life.

\* create_sale: an on-account sale waits for approval.
EnterSale(s, account, serial) ==
    /\ account # Nobody <=> s \in OnAccount
    /\ sale[s].status = "none" /\ \A t \in 1..(s - 1) : sale[t].status # "none"
    /\ sale' = [sale EXCEPT ![s] =
          [UnsoldSale EXCEPT !.status = IF account = Nobody THEN "pending" ELSE "awaiting",
                             !.account = account, !.serial = serial]]
    /\ UNCHANGED <<quantity, rows, log, card, picked>>

\* mark_sale_paid
PaySale(k, s, payer) ==
    /\ sale[s].status = "pending"
    /\ ConsumeOnce(k, s, payer, "paid")
    /\ UNCHANGED picked

\* approve_sale, with post_on_account_sale
ApproveSale(k, s, payer) ==
    /\ sale[s].status = "awaiting" /\ CustomerFree(sale[s].account)
    /\ ConsumeOnce(k, s, payer, "pending")
    /\ UNCHANGED picked

\* cancel_sale locks the customer of an on-account sale, but not of one that
\* nobody has approved.
CancelSale(k, s) ==
    /\ Exists(s) /\ sale[s].status # "cancelled"
    /\ sale[s].account # Nobody /\ sale[s].status # "awaiting" => CustomerFree(sale[s].account)
    /\ IF Consumed(s)
       THEN /\ GiveBack(k, s)
            /\ sale' = [sale EXCEPT ![s].status = "cancelled", ![s].from = "none", ![s].movement = NoMove]
       ELSE OnlyStatus(s, "cancelled")
    /\ UNCHANGED picked

\* delete_sale_permanently.  A row of the log that refers to a deleted sale
\* stands for one whose link has been cleared.
DeleteSale(k, s) ==
    /\ Exists(s)
    /\ sale[s].account # Nobody => CustomerFree(sale[s].account)
    /\ IF Consumed(s) THEN GiveBack(k, s) ELSE UNCHANGED <<quantity, rows, log, card>>
    /\ sale' = [sale EXCEPT ![s] = [UnsoldSale EXCEPT !.status = "deleted"]]
    /\ UNCHANGED picked

-----------------------------------------------------------------------------
\* A customer's payment is approved.

Waiting(c) ==
    {s \in Sale : Exists(s) /\ sale[s].account = c /\ sale[s].status # "cancelled" /\ ~Consumed(s)}

\* consume_pending_new_sim_for_customer finds the oldest sale that waits ...
PickSale(c) ==
    /\ picked = NoSale
    /\ \E s \in Waiting(c) : (\A t \in Waiting(c) : s <= t) /\ picked' = s
    /\ UNCHANGED <<quantity, rows, log, card, sale>>

\* ... and lets it take its SIM.
PickedConsumes(k, payer) ==
    /\ picked # NoSale /\ picked' = NoSale
    /\ ConsumeOnce(k, picked, payer, sale[picked].status)

\* No SIM, an ambiguous payer, a card that is elsewhere, a deadlock: the
\* approval is undone as a whole.
PickedFails ==
    /\ picked # NoSale /\ picked' = NoSale
    /\ UNCHANGED <<quantity, rows, log, card, sale>>

-----------------------------------------------------------------------------

StockStep ==
    \/ \E k \in NewMove, n \in Amounts : \E serials \in Serials(n) :
          \/ Receive(k, n, serials)
          \/ \E customer \in Customer : Allocate(k, customer, n, serials)
          \/ \E customer \in Customer : Return(k, customer, n, serials)
    \/ \E k \in NewMove, p \in Place, n \in Amounts \cup {0} :
          \/ SetQuantity(k, p, n)
          \/ n # 0 /\ (Adjust(k, p, n) \/ Adjust(k, p, -n))
          \/ n # 0 /\ TakeOut(k, p, n)
    \/ \E p \in Place : DeleteRow(p)
    \/ \E k \in Move : DeleteMovement(k)

SaleStep ==
    \/ \E s \in Sale, account \in Customer \cup {Nobody}, serial \in Card \cup {NoCard} :
          EnterSale(s, account, serial)
    \/ \E k \in NewMove, s \in Sale, payer \in Payer : PaySale(k, s, payer) \/ ApproveSale(k, s, payer)
    \/ \E k \in NewMove, s \in Sale :
          \/ CancelSale(k, s)
          \/ DeleteSale(k, s)

Next ==
    \/ MayRun /\ (StockStep \/ SaleStep)
    \/ \E c \in Customer : PickSale(c)
    \/ \E k \in NewMove, payer \in Payer : PickedConsumes(k, payer)
    \/ PickedFails

Spec == Init /\ [][Next]_vars

-----------------------------------------------------------------------------
\* Properties.

\* No stock is overdrawn, by movements, corrections, sales or by undoing any of
\* them (_record_movement, delete_movement, consume_sim_for_sale).
NeverOverdrawn == \A p \in Place : quantity[p] >= 0

\* The stock of every place is what the log says of it, whatever is deleted
\* from the log (delete_movement puts back what the movement moved).
StockMatchesLog ==
    \A p \in Place : quantity[p] = Total([k \in Move |-> Effect(log[k], p)], MaxMoves)

RowsOf(s, type) == Cardinality({k \in Move : log[k].type = type /\ log[k].sale = s})

\* A sale takes one SIM, and gives it back once before it takes another: paying,
\* approving a payment, cancelling and deleting never move it twice.
SimTakenOnce ==
    \A s \in Sale : RowsOf(s, "consume") - RowsOf(s, "reversal") = IF Consumed(s) THEN 1 ELSE 0

\* While a sale has its SIM, the movement that says where it came from is in the
\* log and is the sale's: reversing it finds the customer.
SourceIsKnown ==
    \A s \in Sale : Consumed(s) =>
        /\ sale[s].movement # NoMove
        /\ log[sale[s].movement].type = "consume" /\ log[sale[s].movement].sale = s
        /\ sale[s].from = "customer" => log[sale[s].movement].customer \in Customer

\* A card is sold exactly while the sale that took it has its SIM: no movement,
\* deletion or reversal brings a sold card back, or leaves one sold by nobody.
SoldCardHasItsSale ==
    \A c \in Card :
        /\ card[c].status = "consumed" <=> card[c].sale # NoSale
        /\ card[c].sale # NoSale =>
              /\ Consumed(card[c].sale) /\ sale[card[c].sale].serial = c
              /\ card[c].movement = sale[card[c].sale].movement
        /\ \A s \in Sale : Consumed(s) /\ sale[s].serial = c => card[c].sale = s

-----------------------------------------------------------------------------
\* What the repository says and the code does not do.

\* reverse_sim_for_cancelled_sale: "Restore SIM stock if it was consumed for
\* this sale": a cancelled sale has no SIM.
CancelledSaleHasNoSim == \A s \in Sale : sale[s].status = "cancelled" => ~Consumed(s)
=============================================================================
