---------------------------- MODULE SimStockProofs ----------------------------
(***************************************************************************)
(* Theorems about SimStock, for any number of customers, sales, cards and  *)
(* rows of the log.                                                        *)
(*                                                                         *)
(* What a step does to the stock is one of four things: a row is added to  *)
(* the log, a row is taken out, a balance row is forgotten, nothing.  The  *)
(* first part proves that each of them keeps the quantities what the log   *)
(* says; the second follows the SIM of a sale and its card; the third      *)
(* counts the rows of a sale.                                              *)
(***************************************************************************)
EXTENDS SimStock, LedgerSumProofs, FiniteSetTheorems

\* An unused row of the log moves nothing.
FreeRowsAreFree == \A k \in Move : log[k].type = "none" => log[k] = FreeMove

StockInv == TypeOK /\ FreeRowsAreFree /\ StockMatchesLog

-----------------------------------------------------------------------------
\* Rows and their effects.

\* The numbers in use are integers, and no place is nowhere.
LEMMA Numbers ==
    /\ Place \subseteq Int /\ Customer \subseteq Place /\ Main \in Place /\ Nowhere \notin Place
    /\ MaxMoves \in Nat /\ Move = 1..MaxMoves /\ Move \subseteq Nat \ {0}
    /\ Main \notin Customer /\ Nobody \notin Customer /\ NoMove \notin Move
    /\ Sale \subseteq Nat \ {0} /\ Card \subseteq Nat \ {0}
BY StockBoundsAssumption DEF Place, Customer, Main, Nowhere, Move, Nobody, NoMove, Sale, Card

\* What a row says of a place is an integer, 0 for an unused row.
LEMMA EffectType ==
    ASSUME NEW m \in MoveRow, NEW p \in Place
    PROVE  Effect(m, p) \in Int
BY Numbers DEF Effect, MoveRow

\* A movement that does not exist counts for nothing.
LEMMA FreeMoveTyped ==
    /\ FreeMove \in MoveRow
    /\ \A p \in Place : Effect(FreeMove, p) = 0
<1>1. FreeMove \in MoveRow
  BY Numbers DEF FreeMove, MoveRow, Nobody, NoSale
<1>2. \A p \in Place : Effect(FreeMove, p) = 0
  BY Numbers DEF FreeMove, Effect
<1> QED BY <1>1, <1>2

\* The sums of StockMatchesLog are over functions to the integers.
LEMMA EffectsType ==
    ASSUME NEW l \in [Move -> MoveRow], NEW p \in Place
    PROVE  [k \in Move |-> Effect(l[k], p)] \in [1..MaxMoves -> Int]
<1>1. \A k \in Move : Effect(l[k], p) \in Int
  BY EffectType
<1> QED BY <1>1, Numbers

\* What the rows of a log say together of the stock of a place.
LogSum(l, p) == Total([j \in Move |-> Effect(l[j], p)], MaxMoves)

\* One changed row of the log changes its sum by the difference.
LEMMA EffectsChange ==
    ASSUME NEW l \in [Move -> MoveRow], NEW k \in Move, NEW m \in MoveRow, NEW p \in Place,
           NEW l2, l2 = [l EXCEPT ![k] = m]
    PROVE  LogSum(l2, p) = LogSum(l, p) + (Effect(m, p) - Effect(l[k], p))
<1> DEFINE f == [j \in Move |-> Effect(l[j], p)]
           g == [j \in Move |-> Effect(l2[j], p)]
<1>1. l2 \in [Move -> MoveRow] /\ l2[k] = m /\ \A j \in Move : j # k => l2[j] = l[j]
  OBVIOUS
<1>2. f \in [1..MaxMoves -> Int] /\ g \in [1..MaxMoves -> Int]
  BY <1>1, EffectsType
<1>3. g[k] = Effect(m, p) /\ f[k] = Effect(l[k], p)
  BY <1>1
<1>4. \A j \in 1..MaxMoves : j # k => g[j] = f[j]
  BY <1>1, Numbers
<1>5. k \in 1..MaxMoves /\ MaxMoves \in Nat
  BY Numbers
<1> HIDE DEF f, g
<1>6. Total(g, MaxMoves) = Total(f, MaxMoves) + (g[k] - f[k])
  BY <1>2, <1>4, <1>5, TotalChange
<1> QED BY <1>3, <1>6 DEF f, g, LogSum

-----------------------------------------------------------------------------
\* The four things a step does to the stock.

\* A row is added.
LEMMA RecordKeepsStock ==
    ASSUME StockInv, NEW k \in NewMove, NEW m \in MoveRow, m.type # "none", Record(k, m)
    PROVE  /\ quantity' \in [Place -> Nat] /\ log' \in [Move -> MoveRow]
           /\ FreeRowsAreFree' /\ StockMatchesLog'
<1>1. k \in Move /\ log[k] = FreeMove
  BY DEF NewMove, StockInv, FreeRowsAreFree
<1>2. log' = [log EXCEPT ![k] = m] /\ quantity' = [p \in Place |-> quantity[p] + Effect(m, p)]
  BY DEF Record
<1>3. quantity \in [Place -> Nat] /\ log \in [Move -> MoveRow]
  BY DEF StockInv, TypeOK
<1>4. log' \in [Move -> MoveRow]
  BY <1>1, <1>2, <1>3
<1>5. ASSUME NEW p \in Place
      PROVE  quantity[p] + Effect(m, p) \in Nat
  BY <1>3, Numbers DEF Record, Effect, MoveRow
<1>6. FreeRowsAreFree'
  BY <1>1, <1>2, <1>3 DEF StockInv, FreeRowsAreFree
<1>7. ASSUME NEW p \in Place
      PROVE  quantity'[p] = Total([j \in Move |-> Effect(log'[j], p)], MaxMoves)
  <2>1. quantity[p] = Total([j \in Move |-> Effect(log[j], p)], MaxMoves)
    BY DEF StockInv, StockMatchesLog
  <2>2. Effect(log[k], p) = 0
    BY <1>1, FreeMoveTyped
  <2>3. LogSum(log', p) = LogSum(log, p) + (Effect(m, p) - Effect(log[k], p))
    BY <1>1, <1>2, <1>3, EffectsChange
  <2>4. Effect(m, p) \in Int
    BY EffectType
  <2> QED BY <1>2, <1>3, <2>1, <2>2, <2>3, <2>4 DEF LogSum
<1> QED BY <1>2, <1>4, <1>5, <1>6, <1>7 DEF StockMatchesLog

\* A row is taken out.
LEMMA DeleteMovementKeepsStock ==
    ASSUME StockInv, NEW k \in Move, DeleteMovement(k)
    PROVE  /\ quantity' \in [Place -> Nat] /\ log' \in [Move -> MoveRow]
           /\ FreeRowsAreFree' /\ StockMatchesLog'
<1> DEFINE m == log[k]
<1>1. quantity \in [Place -> Nat] /\ log \in [Move -> MoveRow] /\ m \in MoveRow
  BY DEF StockInv, TypeOK
<1>2. log' = [log EXCEPT ![k] = FreeMove] /\ quantity' = [p \in Place |-> quantity[p] - Effect(m, p)]
  BY DEF DeleteMovement
<1>3. m.to # Nowhere => quantity[m.to] >= m.quantity
  BY DEF DeleteMovement
<1>4. log' \in [Move -> MoveRow]
  BY <1>1, <1>2, FreeMoveTyped
<1>5. ASSUME NEW p \in Place
      PROVE  quantity[p] - Effect(m, p) \in Nat
  BY <1>1, <1>3, Numbers DEF Effect, MoveRow
<1>6. FreeRowsAreFree'
  BY <1>1, <1>2 DEF StockInv, FreeRowsAreFree
<1>7. ASSUME NEW p \in Place
      PROVE  quantity'[p] = Total([j \in Move |-> Effect(log'[j], p)], MaxMoves)
  <2>1. quantity[p] = Total([j \in Move |-> Effect(log[j], p)], MaxMoves)
    BY DEF StockInv, StockMatchesLog
  <2>2. Effect(FreeMove, p) = 0 /\ FreeMove \in MoveRow
    BY FreeMoveTyped
  <2>3. LogSum(log', p) = LogSum(log, p) + (Effect(FreeMove, p) - Effect(m, p))
    BY <1>1, <1>2, <2>2, EffectsChange
  <2>4. Effect(m, p) \in Int
    BY <1>1, EffectType
  <2> QED BY <1>1, <1>2, <2>1, <2>2, <2>3, <2>4 DEF LogSum
<1> QED BY <1>2, <1>4, <1>5, <1>6, <1>7 DEF StockMatchesLog

\* A balance row that holds nothing is forgotten by the log.
LEMMA DeleteRowKeepsStock ==
    ASSUME StockInv, NEW q \in Place, DeleteRow(q)
    PROVE  /\ quantity' \in [Place -> Nat] /\ log' \in [Move -> MoveRow]
           /\ FreeRowsAreFree' /\ StockMatchesLog'
<1>1. quantity \in [Place -> Nat] /\ log \in [Move -> MoveRow]
  BY DEF StockInv, TypeOK
<1>2. /\ quantity' = quantity /\ quantity[q] = 0
      /\ log' = [k \in Move |-> [log[k] EXCEPT !.from = IF @ = q THEN Nowhere ELSE @,
                                               !.to = IF @ = q THEN Nowhere ELSE @]]
  BY DEF DeleteRow
<1>3. ASSUME NEW k \in Move
      PROVE  /\ log'[k] \in MoveRow /\ log'[k].type = log[k].type
             /\ \A p \in Place : Effect(log'[k], p) = IF p = q THEN 0 ELSE Effect(log[k], p)
             /\ log[k].from # q /\ log[k].to # q => log'[k] = log[k]
  <2>1. log[k] \in MoveRow
    BY <1>1
  <2>2. log'[k] = [log[k] EXCEPT !.from = IF @ = q THEN Nowhere ELSE @,
                                 !.to = IF @ = q THEN Nowhere ELSE @]
    BY <1>2
  <2>3. log'[k] \in MoveRow /\ log'[k].type = log[k].type
    BY <2>1, <2>2 DEF MoveRow
  <2>4. \A p \in Place : Effect(log'[k], p) = IF p = q THEN 0 ELSE Effect(log[k], p)
    BY <2>1, <2>2, Numbers DEF MoveRow, Effect
  <2>5. log[k].from # q /\ log[k].to # q => log'[k] = log[k]
    <3> SUFFICES ASSUME log[k].from # q, log[k].to # q PROVE log'[k] = log[k]
      OBVIOUS
    <3> DEFINE old == log[k]
               new == log'[k]
    <3>1. /\ new.type = old.type /\ new.quantity = old.quantity /\ new.from = old.from
          /\ new.to = old.to /\ new.customer = old.customer /\ new.sale = old.sale
      BY <2>1, <2>2 DEF MoveRow
    <3>2. old \in MoveRow /\ new \in MoveRow
      BY <2>1, <2>3
    <3> HIDE DEF old, new
    <3>3. old = new
      BY <3>1, <3>2 DEF MoveRow
    <3> QED BY <3>3 DEF old, new
  <2> QED BY <2>3, <2>4, <2>5
<1>4. log' \in [Move -> MoveRow]
  BY <1>2, <1>3
<1>5. FreeRowsAreFree'
  BY <1>3, Numbers DEF StockInv, FreeRowsAreFree, FreeMove
<1>6. ASSUME NEW p \in Place
      PROVE  quantity'[p] = Total([j \in Move |-> Effect(log'[j], p)], MaxMoves)
  <2>1. quantity[p] = Total([j \in Move |-> Effect(log[j], p)], MaxMoves)
    BY DEF StockInv, StockMatchesLog
  <2>2. CASE p # q
    <3>1. [j \in Move |-> Effect(log'[j], p)] = [j \in Move |-> Effect(log[j], p)]
      BY <1>3, <2>2
    <3> QED BY <1>2, <2>1, <3>1
  <2>3. CASE p = q
    <3> DEFINE g == [j \in Move |-> Effect(log'[j], p)]
    <3>1. g \in [1..MaxMoves -> Int]
      BY <1>4, EffectsType
    <3>2. \A j \in 1..MaxMoves : g[j] = 0
      BY <1>3, <2>3, Numbers
    <3> HIDE DEF g
    <3>3. Total(g, MaxMoves) = 0
      BY <3>1, <3>2, Numbers, TotalOfZeros
    <3> QED BY <1>2, <2>3, <3>3 DEF g
  <2> QED BY <2>2, <2>3
<1> QED BY <1>1, <1>2, <1>4, <1>5, <1>6 DEF StockMatchesLog

\* Nothing happens to the stock.
LEMMA IdleKeepsStock ==
    ASSUME StockInv, UNCHANGED <<quantity, log>>
    PROVE  /\ quantity' \in [Place -> Nat] /\ log' \in [Move -> MoveRow]
           /\ FreeRowsAreFree' /\ StockMatchesLog'
BY DEF StockInv, TypeOK, FreeRowsAreFree, StockMatchesLog

-----------------------------------------------------------------------------
\* The sales and their cards.

\* A sale that is not entered has no SIM, and the approval of a payment has
\* chosen one that is.
UnsoldIsFree ==
    /\ \A s \in Sale : sale[s].status = "none" => ~Consumed(s)
    /\ picked # NoSale => sale[picked].status # "none"

SaleInv == SourceIsKnown /\ SoldCardHasItsSale /\ UnsoldIsFree

Inv == StockInv /\ SaleInv

\* What a step that is about no sale leaves alone: the rows of the log that
\* sales have consumed by, and which card is sold to whom.
LeavesSalesAlone ==
    /\ UNCHANGED sale /\ picked' \in {picked, NoSale}
    /\ \A k \in Move : log[k].type = "consume" =>
          log'[k].type = "consume" /\ log'[k].sale = log[k].sale /\ log'[k].customer = log[k].customer
    /\ \A c \in Card :
          /\ card'[c].sale = card[c].sale
          /\ card'[c].status = "consumed" <=> card[c].status = "consumed"
          /\ card[c].sale # NoSale => card'[c].movement = card[c].movement

\* Such a step keeps what the sales rest on.
LEMMA AloneKeepsSales ==
    ASSUME Inv, LeavesSalesAlone
    PROVE  SaleInv'
<1>1. sale \in [Sale -> SaleRow] /\ card \in [Card -> CardRow] /\ sale' = sale
  BY DEF Inv, StockInv, TypeOK, LeavesSalesAlone
<1>2. SourceIsKnown'
  <2>1. ASSUME NEW s \in Sale, Consumed(s)'
        PROVE  /\ sale'[s].movement # NoMove
               /\ log'[sale'[s].movement].type = "consume" /\ log'[sale'[s].movement].sale = s
               /\ sale'[s].from = "customer" => log'[sale'[s].movement].customer \in Customer
    <3>1. /\ sale[s].movement # NoMove
          /\ log[sale[s].movement].type = "consume" /\ log[sale[s].movement].sale = s
          /\ sale[s].from = "customer" => log[sale[s].movement].customer \in Customer
      BY <1>1, <2>1 DEF Inv, SaleInv, SourceIsKnown, Consumed
    <3>2. sale[s].movement \in Move
      BY <1>1, <3>1 DEF SaleRow
    <3> QED BY <1>1, <3>1, <3>2 DEF LeavesSalesAlone
  <2> QED BY <2>1 DEF SourceIsKnown
<1>3. SoldCardHasItsSale'
  BY <1>1 DEF Inv, SaleInv, SoldCardHasItsSale, LeavesSalesAlone, Consumed
<1>4. UnsoldIsFree'
  BY <1>1 DEF Inv, SaleInv, UnsoldIsFree, LeavesSalesAlone, Consumed
<1> QED BY <1>2, <1>3, <1>4 DEF SaleInv

\* A row added to the log changes no row that a sale has consumed by.
LEMMA RecordKeepsConsumed ==
    ASSUME Inv, NEW k \in NewMove, NEW m \in MoveRow, Record(k, m)
    PROVE  \A j \in Move : log[j].type = "consume" =>
              log'[j].type = "consume" /\ log'[j].sale = log[j].sale /\ log'[j].customer = log[j].customer
BY DEF Inv, StockInv, TypeOK, NewMove, Record

\* The movement of a sold card is a consumption.
LEMMA SoldCardMovement ==
    ASSUME Inv, NEW c \in Card, card[c].sale # NoSale
    PROVE  /\ card[c].movement \in Move /\ log[card[c].movement].type = "consume"
           /\ card[c].status = "consumed" /\ card[c].sale \in Sale
<1>1. card[c] \in CardRow
  BY DEF Inv, StockInv, TypeOK
<1>2. card[c].sale \in Sale
  BY <1>1 DEF CardRow
<1>3. Consumed(card[c].sale) /\ card[c].movement = sale[card[c].sale].movement /\ card[c].status = "consumed"
  BY DEF Inv, SaleInv, SoldCardHasItsSale
<1>4. card[c].movement # NoMove /\ log[card[c].movement].type = "consume"
  BY <1>2, <1>3 DEF Inv, SaleInv, SourceIsKnown
<1> QED BY <1>1, <1>2, <1>3, <1>4 DEF CardRow

-----------------------------------------------------------------------------
\* The actions of the stock.

\* What must be known of a step that adds a row and is about no sale.
LEMMA RecordStep ==
    ASSUME Inv, NEW k \in NewMove, NEW m \in MoveRow, m.type # "none", Record(k, m),
           card' \in [Card -> CardRow], rows' \subseteq Place, UNCHANGED <<sale, picked>>,
           \A c \in Card :
              /\ card'[c].sale = card[c].sale
              /\ card'[c].status = "consumed" <=> card[c].status = "consumed"
              /\ card[c].sale # NoSale => card'[c].movement = card[c].movement
    PROVE  Inv'
<1>1. /\ quantity' \in [Place -> Nat] /\ log' \in [Move -> MoveRow]
      /\ FreeRowsAreFree' /\ StockMatchesLog'
  BY RecordKeepsStock DEF Inv
<1>2. StockInv'
  BY <1>1 DEF Inv, StockInv, TypeOK
<1>3. LeavesSalesAlone
  BY RecordKeepsConsumed DEF LeavesSalesAlone
<1> QED BY <1>2, <1>3, AloneKeepsSales DEF Inv

\* receive_stock_to_main
LEMMA ReceiveKeeps ==
    ASSUME Inv, NEW k \in NewMove, NEW n \in Amounts, NEW serials \in SUBSET Card, Receive(k, n, serials)
    PROVE  Inv'
<1> DEFINE m == [FreeMove EXCEPT !.type = "receive", !.quantity = n, !.to = Main]
<1>1. m \in MoveRow /\ m.type # "none" /\ k \in Move
  BY Numbers, FreeMoveTyped, StockBoundsAssumption DEF MoveRow, FreeMove, Types, NewMove
<1>2. Record(k, m)
  BY DEF Receive
<1>3. card \in [Card -> CardRow] /\ rows \subseteq Place
  BY DEF Inv, StockInv, TypeOK
<1>4. ASSUME NEW c \in Card
      PROVE  /\ card'[c] \in CardRow /\ card'[c].sale = card[c].sale
             /\ card'[c].status = "consumed" <=> card[c].status = "consumed"
             /\ card[c].sale # NoSale => card'[c].movement = card[c].movement
  <2>1. CASE c \in serials
    <3>1. card'[c] = [UnknownCard EXCEPT !.status = "main", !.movement = k] /\ card[c].status = "none"
      BY <2>1 DEF Receive
    <3>2. card[c].sale = NoSale
      BY <3>1, SoldCardMovement
    <3> QED BY <1>1, <3>1, <3>2, Numbers DEF UnknownCard, CardRow
  <2>2. CASE c \notin serials
    BY <1>3, <2>2 DEF Receive
  <2> QED BY <2>1, <2>2
<1>5. card' = [c \in Card |-> card'[c]]
  BY DEF Receive
<1>6. card' \in [Card -> CardRow]
  BY <1>4, <1>5
<1>7. rows' \subseteq Place /\ UNCHANGED <<sale, picked>>
  BY <1>3, Numbers DEF Receive
<1> QED BY <1>1, <1>2, <1>4, <1>6, <1>7, RecordStep

\* allocate_stock_to_customer
LEMMA AllocateKeeps ==
    ASSUME Inv, NEW k \in NewMove, NEW customer \in Customer, NEW n \in Amounts,
           NEW serials \in SUBSET Card, Allocate(k, customer, n, serials)
    PROVE  Inv'
<1> DEFINE m == [FreeMove EXCEPT !.type = "allocate", !.quantity = n, !.from = Main,
                                 !.to = customer, !.customer = customer]
<1>1. m \in MoveRow /\ m.type # "none" /\ k \in Move
  BY Numbers, FreeMoveTyped, StockBoundsAssumption DEF MoveRow, FreeMove, Types, NewMove
<1>2. Record(k, m)
  BY DEF Allocate
<1>3. card \in [Card -> CardRow] /\ rows \subseteq Place
  BY DEF Inv, StockInv, TypeOK
<1>4. ASSUME NEW c \in Card
      PROVE  /\ card'[c] \in CardRow /\ card'[c].sale = card[c].sale
             /\ card'[c].status = "consumed" <=> card[c].status = "consumed"
             /\ card[c].sale # NoSale => card'[c].movement = card[c].movement
  <2>1. CASE c \in serials
    <3>1. /\ card'[c] = [card[c] EXCEPT !.status = "customer", !.customer = customer, !.movement = k]
          /\ card[c].status = "main"
      BY <2>1 DEF Allocate
    <3>2. card[c].sale = NoSale
      BY <3>1, SoldCardMovement
    <3> QED BY <1>1, <1>3, <3>1, <3>2, Numbers DEF CardRow
  <2>2. CASE c \notin serials
    BY <1>3, <2>2 DEF Allocate
  <2> QED BY <2>1, <2>2
<1>5. card' = [c \in Card |-> card'[c]]
  BY DEF Allocate
<1>6. card' \in [Card -> CardRow]
  BY <1>4, <1>5
<1>7. rows' \subseteq Place /\ UNCHANGED <<sale, picked>>
  BY <1>3, Numbers DEF Allocate
<1> QED BY <1>1, <1>2, <1>4, <1>6, <1>7, RecordStep

\* return_stock_to_main
LEMMA ReturnKeeps ==
    ASSUME Inv, NEW k \in NewMove, NEW customer \in Customer, NEW n \in Amounts,
           NEW serials \in SUBSET Card, Return(k, customer, n, serials)
    PROVE  Inv'
<1> DEFINE m == [FreeMove EXCEPT !.type = "return", !.quantity = n, !.from = customer,
                                 !.to = Main, !.customer = customer]
<1>1. m \in MoveRow /\ m.type # "none" /\ k \in Move
  BY Numbers, FreeMoveTyped, StockBoundsAssumption DEF MoveRow, FreeMove, Types, NewMove
<1>2. Record(k, m)
  BY DEF Return
<1>3. card \in [Card -> CardRow] /\ rows \subseteq Place
  BY DEF Inv, StockInv, TypeOK
<1>4. ASSUME NEW c \in Card
      PROVE  /\ card'[c] \in CardRow /\ card'[c].sale = card[c].sale
             /\ card'[c].status = "consumed" <=> card[c].status = "consumed"
             /\ card[c].sale # NoSale => card'[c].movement = card[c].movement
  <2>1. CASE c \in serials
    <3>1. /\ card'[c] = [card[c] EXCEPT !.status = "main", !.customer = Nobody, !.movement = k]
          /\ card[c].status = "customer"
      BY <2>1 DEF Return
    <3>2. card[c].sale = NoSale
      BY <3>1, SoldCardMovement
    <3> QED BY <1>1, <1>3, <3>1, <3>2, Numbers DEF CardRow
  <2>2. CASE c \notin serials
    BY <1>3, <2>2 DEF Return
  <2> QED BY <2>1, <2>2
<1>5. card' = [c \in Card |-> card'[c]]
  BY DEF Return
<1>6. card' \in [Card -> CardRow]
  BY <1>4, <1>5
<1>7. rows' \subseteq Place /\ UNCHANGED <<sale, picked>>
  BY <1>3, Numbers DEF Return
<1> QED BY <1>1, <1>2, <1>4, <1>6, <1>7, RecordStep

\* A correction is a row of the log about one balance.
LEMMA CorrectionTyped ==
    ASSUME NEW p \in Place, NEW n \in Int
    PROVE  Correction(p, n) \in MoveRow /\ Correction(p, n).type = "correction"
<1> DEFINE q == IF n > 0 THEN n ELSE -n
           f == IF n < 0 THEN p ELSE Nowhere
           t == IF n > 0 THEN p ELSE Nowhere
<1>1. q \in Nat /\ f \in Place \cup {Nowhere} /\ t \in Place \cup {Nowhere}
  OBVIOUS
<1>2. p \in Customer \cup {Nobody}
  BY DEF Place, Main, Nobody
<1>3. Correction(p, n) = [FreeMove EXCEPT !.type = "correction", !.customer = p, !.quantity = q,
                                          !.from = f, !.to = t]
  BY DEF Correction
<1> HIDE DEF q, f, t
<1> QED BY <1>1, <1>2, <1>3, FreeMoveTyped DEF FreeMove, MoveRow, Types

\* The corrections of one balance.
LEMMA CorrectionKeeps ==
    ASSUME Inv, NEW k \in NewMove, NEW p \in Place, NEW n \in Int,
           Record(k, Correction(p, n)), UNCHANGED <<rows, card, sale, picked>>
    PROVE  Inv'
<1>1. Correction(p, n) \in MoveRow /\ Correction(p, n).type # "none"
  BY CorrectionTyped
<1>2. card' \in [Card -> CardRow] /\ rows' \subseteq Place
  BY DEF Inv, StockInv, TypeOK
<1> QED BY <1>1, <1>2, RecordStep

\* A deleted movement is no sale's, so the cards it takes back are not sold.
LEMMA DeleteMovementKeeps ==
    ASSUME Inv, NEW k \in Move, DeleteMovement(k)
    PROVE  Inv'
<1>1. /\ quantity' \in [Place -> Nat] /\ log' \in [Move -> MoveRow]
      /\ FreeRowsAreFree' /\ StockMatchesLog'
  BY DeleteMovementKeepsStock DEF Inv
<1>2. /\ card \in [Card -> CardRow] /\ log[k] \in MoveRow /\ log \in [Move -> MoveRow]
      /\ log[k].type # "consume" /\ card' = [c \in Card |-> CardWithout(k, c)]
  BY DEF Inv, StockInv, TypeOK, DeleteMovement
<1>3. ASSUME NEW c \in Card
      PROVE  /\ card'[c] \in CardRow /\ card'[c].sale = card[c].sale
             /\ card'[c].status = "consumed" <=> card[c].status = "consumed"
             /\ card[c].sale # NoSale => card'[c].movement = card[c].movement
  <2>1. CASE card[c].movement # k
    BY <1>2, <2>1 DEF CardWithout
  <2>2. CASE card[c].movement = k
    <3>1. card[c].sale = NoSale
      BY <1>2, <2>2, SoldCardMovement
    <3>2. card[c].status # "consumed"
      BY <3>1 DEF Inv, SaleInv, SoldCardHasItsSale
    <3>3. /\ card[c] \in CardRow /\ log[k].customer \in Customer \cup {Nobody}
          /\ card'[c] = CardWithout(k, c)
      BY <1>2 DEF MoveRow
    <3>4. CASE log[k].type = "receive"
      <4>1. card'[c] = UnknownCard
        BY <2>2, <3>3, <3>4 DEF CardWithout
      <4> QED BY <3>1, <3>2, <4>1 DEF UnknownCard, CardRow
    <3>5. CASE log[k].type = "allocate"
      <4>1. card'[c] = [card[c] EXCEPT !.status = "main", !.customer = Nobody, !.movement = NoMove]
        BY <2>2, <3>3, <3>5 DEF CardWithout
      <4> QED BY <3>1, <3>2, <3>3, <4>1 DEF CardRow
    <3>6. CASE log[k].type = "return"
      <4>1. card'[c] = [card[c] EXCEPT !.status = "customer", !.customer = log[k].customer,
                                       !.movement = NoMove]
        BY <2>2, <3>3, <3>6 DEF CardWithout
      <4> QED BY <3>1, <3>2, <3>3, <4>1 DEF CardRow
    <3>7. CASE log[k].type \notin {"receive", "allocate", "return"}
      <4>1. card'[c] = [card[c] EXCEPT !.movement = NoMove]
        BY <2>2, <3>3, <3>7 DEF CardWithout
      <4> QED BY <3>1, <3>2, <3>3, <4>1 DEF CardRow
    <3> QED BY <3>4, <3>5, <3>6, <3>7
  <2> QED BY <2>1, <2>2
<1>4. card' \in [Card -> CardRow]
  BY <1>2, <1>3
<1>5. UNCHANGED <<rows, sale, picked>> /\ log' = [log EXCEPT ![k] = FreeMove]
  BY DEF DeleteMovement
<1>6. StockInv'
  BY <1>1, <1>4, <1>5 DEF Inv, StockInv, TypeOK
<1>7. LeavesSalesAlone
  BY <1>2, <1>3, <1>5 DEF LeavesSalesAlone
<1> QED BY <1>6, <1>7, AloneKeepsSales DEF Inv

\* A forgotten balance row changes neither who sold nor to whom.
LEMMA DeleteRowKeeps ==
    ASSUME Inv, NEW q \in Place, DeleteRow(q)
    PROVE  Inv'
<1>1. /\ quantity' \in [Place -> Nat] /\ log' \in [Move -> MoveRow]
      /\ FreeRowsAreFree' /\ StockMatchesLog'
  BY DeleteRowKeepsStock DEF Inv
<1>2. UNCHANGED <<card, sale, picked>> /\ rows' \subseteq rows
  BY DEF DeleteRow
<1>3. StockInv'
  BY <1>1, <1>2 DEF Inv, StockInv, TypeOK
<1>4. ASSUME NEW k \in Move
      PROVE  log'[k].type = log[k].type /\ log'[k].sale = log[k].sale /\ log'[k].customer = log[k].customer
  <2>1. log'[k] = [log[k] EXCEPT !.from = IF @ = q THEN Nowhere ELSE @,
                                 !.to = IF @ = q THEN Nowhere ELSE @]
    BY DEF DeleteRow
  <2>2. log[k] \in MoveRow
    BY DEF Inv, StockInv, TypeOK
  <2> QED BY <2>1, <2>2 DEF MoveRow
<1>5. LeavesSalesAlone
  BY <1>2, <1>4 DEF LeavesSalesAlone
<1> QED BY <1>3, <1>5, AloneKeepsSales DEF Inv

-----------------------------------------------------------------------------
\* The actions of the sales.

\* Only the row of one sale changes: its SIM, or that it has none, stays.
LEMMA SaleRowKeeps ==
    ASSUME Inv, NEW s \in Sale, UNCHANGED <<quantity, rows, log, card>>,
           NEW row \in SaleRow, sale' = [sale EXCEPT ![s] = row], row.status # "none",
           \/ row.from = sale[s].from /\ row.movement = sale[s].movement /\ row.serial = sale[s].serial
           \/ sale[s].from = "none" /\ row.from = "none",
           picked' \in {picked, NoSale}
    PROVE  Inv'
<1>1. /\ sale \in [Sale -> SaleRow] /\ picked \in Sale \cup {NoSale}
      /\ card \in [Card -> CardRow]
  BY DEF Inv, StockInv, TypeOK
<1>2. sale' \in [Sale -> SaleRow] /\ sale'[s] = row /\ \A t \in Sale : t # s => sale'[t] = sale[t]
  BY <1>1
<1>3. StockInv'
  BY <1>1, <1>2, IdleKeepsStock DEF Inv, StockInv, TypeOK
<1>4. SourceIsKnown'
  BY <1>2 DEF Inv, SaleInv, SourceIsKnown, Consumed
<1>5. SoldCardHasItsSale'
  <2>1. SUFFICES ASSUME NEW c \in Card
        PROVE  /\ card[c].status = "consumed" <=> card[c].sale # NoSale
               /\ card[c].sale # NoSale =>
                     /\ sale'[card[c].sale].from # "none" /\ sale'[card[c].sale].serial = c
                     /\ card[c].movement = sale'[card[c].sale].movement
               /\ \A t \in Sale : sale'[t].from # "none" /\ sale'[t].serial = c => card[c].sale = t
    BY DEF SoldCardHasItsSale, Consumed
  <2>2. /\ card[c].status = "consumed" <=> card[c].sale # NoSale
        /\ card[c].sale # NoSale =>
              /\ Consumed(card[c].sale) /\ sale[card[c].sale].serial = c
              /\ card[c].movement = sale[card[c].sale].movement
        /\ \A t \in Sale : Consumed(t) /\ sale[t].serial = c => card[c].sale = t
    BY DEF Inv, SaleInv, SoldCardHasItsSale
  <2>3. card[c].sale \in Sale \cup {NoSale}
    BY <1>1 DEF CardRow
  <2> QED BY <1>2, <2>2, <2>3 DEF Consumed
<1>6. UnsoldIsFree'
  BY <1>1, <1>2 DEF Inv, SaleInv, UnsoldIsFree, Consumed, NoSale
<1> QED BY <1>3, <1>4, <1>5, <1>6 DEF Inv, SaleInv

\* A sale takes its SIM.
LEMMA ConsumeKeeps ==
    ASSUME Inv, NEW k \in NewMove, NEW s \in Sale, NEW payer \in Payer,
           NEW status \in {"awaiting", "pending", "paid", "cancelled", "deleted"},
           ~Consumed(s), Consume(k, s, payer, status), picked' \in {picked, NoSale}
    PROVE  Inv'
<1> DEFINE from == Source(payer)
           c0 == sale[s].serial
           m == [FreeMove EXCEPT !.type = "consume", !.quantity = 1, !.from = from,
                                 !.customer = payer, !.sale = s]
<1>1. /\ sale \in [Sale -> SaleRow] /\ picked \in Sale \cup {NoSale} /\ rows \subseteq Place
      /\ card \in [Card -> CardRow] /\ log \in [Move -> MoveRow] /\ k \in Move /\ k # NoMove
  BY Numbers DEF Inv, StockInv, TypeOK, NewMove
<1>2. from \in Place /\ payer \in Customer \cup {Nobody} /\ (from # Main => payer \in Customer)
  BY Numbers DEF Source, Payer
<1>3. m \in MoveRow /\ m.type = "consume" /\ m.sale = s /\ m.customer = payer
  BY <1>2, FreeMoveTyped DEF FreeMove, MoveRow, Types
<1>4. Record(k, m)
  BY DEF Consume
<1>5. /\ sale' = [sale EXCEPT ![s].status = status, ![s].movement = k,
                              ![s].from = IF from = Main THEN "main" ELSE "customer"]
      /\ rows' = rows \cup {from} \cup ({payer} \cap Customer)
      /\ card' = [d \in Card |-> IF d = c0
                     THEN [status |-> "consumed", customer |-> payer, sale |-> s, movement |-> k]
                     ELSE card[d]]
      /\ c0 # NoCard => card[c0].status # "consumed"
  BY DEF Consume
<1>6. /\ sale' \in [Sale -> SaleRow] /\ \A t \in Sale : t # s => sale'[t] = sale[t]
      /\ sale'[s].status = status /\ sale'[s].movement = k /\ sale'[s].serial = c0
      /\ sale'[s].from = IF from = Main THEN "main" ELSE "customer"
  <2> DEFINE old == sale[s]
             origin == IF from = Main THEN "main" ELSE "customer"
             new == [old EXCEPT !.status = status, !.movement = k, !.from = origin]
  <2>1. old \in SaleRow /\ origin \in {"main", "customer"}
    BY <1>1
  <2>2. sale' = [sale EXCEPT ![s] = new]
    BY <1>1, <1>5
  <2> HIDE DEF old, origin
  <2>3. /\ new \in SaleRow
        /\ new.status = status /\ new.movement = k /\ new.serial = old.serial
        /\ new.from = origin
    BY <1>1, <2>1 DEF SaleRow
  <2> HIDE DEF new
  <2>4. sale' \in [Sale -> SaleRow] /\ sale'[s] = new /\ \A t \in Sale : t # s => sale'[t] = sale[t]
    BY <1>1, <2>2, <2>3
  <2> QED BY <2>3, <2>4 DEF old, origin
<1>7. card' \in [Card -> CardRow]
  BY <1>1, <1>2, <1>5 DEF CardRow
<1>8. StockInv'
  BY <1>1, <1>2, <1>3, <1>4, <1>5, <1>6, <1>7, Numbers, RecordKeepsStock DEF Inv, StockInv, TypeOK
<1>9. SourceIsKnown'
  <2>1. ASSUME NEW t \in Sale, Consumed(t)'
        PROVE  /\ sale'[t].movement # NoMove
               /\ log'[sale'[t].movement].type = "consume" /\ log'[sale'[t].movement].sale = t
               /\ sale'[t].from = "customer" => log'[sale'[t].movement].customer \in Customer
    <3>1. CASE t = s
      BY <1>1, <1>2, <1>3, <1>4, <1>6, <3>1 DEF Record
    <3>2. CASE t # s
      <4>1. /\ sale[t].movement # NoMove
            /\ log[sale[t].movement].type = "consume" /\ log[sale[t].movement].sale = t
            /\ sale[t].from = "customer" => log[sale[t].movement].customer \in Customer
        BY <1>6, <2>1, <3>2 DEF Inv, SaleInv, SourceIsKnown, Consumed
      <4>2. sale[t].movement \in Move
        BY <1>1, <4>1 DEF SaleRow
      <4> QED BY <1>3, <1>4, <1>6, <3>2, <4>1, <4>2, RecordKeepsConsumed
    <3> QED BY <3>1, <3>2
  <2> QED BY <2>1 DEF SourceIsKnown
<1>10. SoldCardHasItsSale'
  <2>1. SUFFICES ASSUME NEW c \in Card
        PROVE  /\ card'[c].status = "consumed" <=> card'[c].sale # NoSale
               /\ card'[c].sale # NoSale =>
                     /\ sale'[card'[c].sale].from # "none" /\ sale'[card'[c].sale].serial = c
                     /\ card'[c].movement = sale'[card'[c].sale].movement
               /\ \A t \in Sale : sale'[t].from # "none" /\ sale'[t].serial = c => card'[c].sale = t
    BY DEF SoldCardHasItsSale, Consumed
  <2>2. /\ card[c].status = "consumed" <=> card[c].sale # NoSale
        /\ card[c].sale # NoSale =>
              /\ Consumed(card[c].sale) /\ sale[card[c].sale].serial = c
              /\ card[c].movement = sale[card[c].sale].movement
        /\ \A t \in Sale : Consumed(t) /\ sale[t].serial = c => card[c].sale = t
    BY DEF Inv, SaleInv, SoldCardHasItsSale
  <2>3. card[c].sale \in Sale \cup {NoSale} /\ s # NoSale /\ c # NoCard
    BY <1>1, Numbers DEF CardRow, NoSale, NoCard
  <2>4. CASE c = c0
    <3>1. card'[c].status = "consumed" /\ card'[c].sale = s /\ card'[c].movement = k
      BY <1>5, <2>4
    <3>2. card[c].sale = NoSale
      BY <1>5, <2>2, <2>3, <2>4
    <3>3. ASSUME NEW t \in Sale, sale'[t].from # "none", sale'[t].serial = c
          PROVE  t = s
      <4>1. SUFFICES ASSUME t # s PROVE FALSE
        OBVIOUS
      <4>2. sale'[t] = sale[t]
        BY <1>6, <4>1
      <4>3. card[c].sale = t
        BY <2>2, <3>3, <4>2 DEF Consumed
      <4> QED BY <3>2, <4>3, Numbers DEF NoSale
    <3>4. sale'[s].from # "none"
      BY <1>6
    <3> QED BY <1>6, <2>3, <2>4, <3>1, <3>3, <3>4
  <2>5. CASE c # c0
    <3>1. card'[c] = card[c]
      BY <1>5, <2>5
    <3> QED BY <1>6, <2>2, <2>3, <2>5, <3>1 DEF Consumed
  <2> QED BY <2>4, <2>5
<1>11. UnsoldIsFree'
  BY <1>1, <1>6 DEF Inv, SaleInv, UnsoldIsFree, Consumed, NoSale
<1> QED BY <1>8, <1>9, <1>10, <1>11 DEF Inv, SaleInv

\* A sale gives its SIM back: it has none afterwards, and neither has its card.
LEMMA GiveBackKeeps ==
    ASSUME Inv, NEW k \in NewMove, NEW s \in Sale, Consumed(s), GiveBack(k, s),
           NEW row \in SaleRow, sale' = [sale EXCEPT ![s] = row], row.status # "none",
           row.from = "none", UNCHANGED picked
    PROVE  Inv'
<1> DEFINE to == IF sale[s].from = "main" THEN Main ELSE log[sale[s].movement].customer
           m == [FreeMove EXCEPT !.type = "reversal", !.quantity = 1, !.to = to,
                                 !.customer = to, !.sale = s]
<1>1. /\ sale \in [Sale -> SaleRow] /\ picked \in Sale \cup {NoSale} /\ rows \subseteq Place
      /\ card \in [Card -> CardRow] /\ log \in [Move -> MoveRow] /\ k \in Move /\ k # NoMove
  BY Numbers DEF Inv, StockInv, TypeOK, NewMove
<1>2. to \in Place
  <2>1. sale[s].from \in {"main", "customer"}
    BY <1>1 DEF Consumed, SaleRow
  <2>2. sale[s].from = "customer" => log[sale[s].movement].customer \in Customer
    BY DEF Inv, SaleInv, SourceIsKnown
  <2> QED BY <2>1, <2>2, Numbers
<1>3. m \in MoveRow /\ m.type # "none"
  <2>1. to \in Customer \cup {Nobody}
    BY <1>2 DEF Place, Main, Nobody
  <2> QED BY <1>2, <2>1, FreeMoveTyped DEF FreeMove, MoveRow, Types
<1>4. Record(k, m)
  BY DEF GiveBack
<1>5. /\ rows' = rows \cup {to}
      /\ card' = [c \in Card |->
            IF card[c].sale # s THEN card[c]
            ELSE [status |-> IF to = Main THEN "main" ELSE "customer", movement |-> k, sale |-> NoSale,
                  customer |-> IF to = Main THEN Nobody ELSE card[c].customer]]
  BY DEF GiveBack
<1>6. /\ sale' \in [Sale -> SaleRow] /\ sale'[s] = row
      /\ \A t \in Sale : t # s => sale'[t] = sale[t]
  BY <1>1
<1>7. card' \in [Card -> CardRow]
  BY <1>1, <1>5 DEF CardRow
<1>8. StockInv'
  BY <1>1, <1>2, <1>3, <1>4, <1>5, <1>6, <1>7, RecordKeepsStock DEF Inv, StockInv, TypeOK
<1>9. SourceIsKnown'
  <2>1. ASSUME NEW t \in Sale, Consumed(t)'
        PROVE  /\ sale'[t].movement # NoMove
               /\ log'[sale'[t].movement].type = "consume" /\ log'[sale'[t].movement].sale = t
               /\ sale'[t].from = "customer" => log'[sale'[t].movement].customer \in Customer
    <3>1. t # s /\ sale'[t] = sale[t] /\ Consumed(t)
      BY <1>6, <2>1 DEF Consumed
    <3>2. /\ sale[t].movement # NoMove
          /\ log[sale[t].movement].type = "consume" /\ log[sale[t].movement].sale = t
          /\ sale[t].from = "customer" => log[sale[t].movement].customer \in Customer
      BY <3>1 DEF Inv, SaleInv, SourceIsKnown
    <3>3. sale[t].movement \in Move
      BY <1>1, <3>2 DEF SaleRow
    <3> QED BY <1>3, <1>4, <3>1, <3>2, <3>3, RecordKeepsConsumed
  <2> QED BY <2>1 DEF SourceIsKnown
<1>10. SoldCardHasItsSale'
  <2>1. SUFFICES ASSUME NEW c \in Card
        PROVE  /\ card'[c].status = "consumed" <=> card'[c].sale # NoSale
               /\ card'[c].sale # NoSale =>
                     /\ sale'[card'[c].sale].from # "none" /\ sale'[card'[c].sale].serial = c
                     /\ card'[c].movement = sale'[card'[c].sale].movement
               /\ \A t \in Sale : sale'[t].from # "none" /\ sale'[t].serial = c => card'[c].sale = t
    BY DEF SoldCardHasItsSale, Consumed
  <2>2. /\ card[c].status = "consumed" <=> card[c].sale # NoSale
        /\ card[c].sale # NoSale =>
              /\ Consumed(card[c].sale) /\ sale[card[c].sale].serial = c
              /\ card[c].movement = sale[card[c].sale].movement
        /\ \A t \in Sale : Consumed(t) /\ sale[t].serial = c => card[c].sale = t
    BY DEF Inv, SaleInv, SoldCardHasItsSale
  <2>3. card[c].sale \in Sale \cup {NoSale}
    BY <1>1 DEF CardRow
  <2>4. CASE card[c].sale = s
    <3>1. card'[c].sale = NoSale /\ card'[c].status # "consumed"
      BY <1>5, <2>4
    <3>2. ASSUME NEW t \in Sale, sale'[t].from # "none", sale'[t].serial = c
          PROVE  FALSE
      BY <1>6, <2>2, <2>4, <3>2 DEF Consumed
    <3> QED BY <3>1, <3>2
  <2>5. CASE card[c].sale # s
    <3>1. card'[c] = card[c]
      BY <1>5, <2>5
    <3> QED BY <1>6, <2>2, <2>3, <2>5, <3>1 DEF Consumed
  <2> QED BY <2>4, <2>5
<1>11. UnsoldIsFree'
  BY <1>1, <1>6 DEF Inv, SaleInv, UnsoldIsFree, Consumed, NoSale
<1> QED BY <1>8, <1>9, <1>10, <1>11 DEF Inv, SaleInv

\* The statuses a sale is given: none of them is that of a sale not entered.
LEMMA StatusTyped ==
    ASSUME Inv, NEW s \in Sale,
           NEW status \in {"awaiting", "pending", "paid", "cancelled", "deleted"}
    PROVE  /\ [sale[s] EXCEPT !.status = status] \in SaleRow
           /\ [sale[s] EXCEPT !.status = status].status # "none"
           /\ [sale[s] EXCEPT !.status = status].from = sale[s].from
           /\ [sale[s] EXCEPT !.status = status].movement = sale[s].movement
           /\ [sale[s] EXCEPT !.status = status].serial = sale[s].serial
<1>1. sale[s] \in SaleRow
  BY DEF Inv, StockInv, TypeOK
<1> QED BY <1>1 DEF SaleRow

\* Only the status of a sale changes.
LEMMA OnlyStatusKeeps ==
    ASSUME Inv, NEW s \in Sale,
           NEW status \in {"awaiting", "pending", "paid", "cancelled", "deleted"},
           OnlyStatus(s, status), picked' \in {picked, NoSale}
    PROVE  Inv'
<1> DEFINE row == [sale[s] EXCEPT !.status = status]
<1>1. /\ row \in SaleRow /\ row.status # "none" /\ row.from = sale[s].from
      /\ row.movement = sale[s].movement /\ row.serial = sale[s].serial
  BY StatusTyped
<1>2. UNCHANGED <<quantity, rows, log, card>> /\ sale' = [sale EXCEPT ![s] = row]
  BY DEF OnlyStatus
<1> HIDE DEF row
<1> QED BY <1>1, <1>2, SaleRowKeeps

\* A sale that takes its SIM unless it has it.
LEMMA ConsumeOnceKeeps ==
    ASSUME Inv, NEW k \in NewMove, NEW s \in Sale, NEW payer \in Payer,
           NEW status \in {"awaiting", "pending", "paid", "cancelled", "deleted"},
           ConsumeOnce(k, s, payer, status), picked' \in {picked, NoSale}
    PROVE  Inv'
BY ConsumeKeeps, OnlyStatusKeeps DEF ConsumeOnce

\* A cancelled sale gives its SIM back.
LEMMA CancelKeeps ==
    ASSUME Inv, NEW k \in NewMove, NEW s \in Sale, CancelSale(k, s)
    PROVE  Inv'
<1>1. CASE Consumed(s)
  <2> DEFINE row == [sale[s] EXCEPT !.status = "cancelled", !.from = "none", !.movement = NoMove]
  <2>1. sale[s] \in SaleRow
    BY DEF Inv, StockInv, TypeOK
  <2>2. row \in SaleRow /\ row.status # "none" /\ row.from = "none"
    BY <2>1 DEF SaleRow
  <2>3. GiveBack(k, s) /\ UNCHANGED picked /\ sale' = [sale EXCEPT ![s] = row]
    BY <1>1 DEF CancelSale
  <2> HIDE DEF row
  <2> QED BY <1>1, <2>2, <2>3, GiveBackKeeps
<1>2. CASE ~Consumed(s)
  BY <1>2, OnlyStatusKeeps DEF CancelSale
<1> QED BY <1>1, <1>2

\* A deleted sale gives its SIM back and is a row no more.
LEMMA DeleteKeeps ==
    ASSUME Inv, NEW k \in NewMove, NEW s \in Sale, DeleteSale(k, s)
    PROVE  Inv'
<1> DEFINE row == [UnsoldSale EXCEPT !.status = "deleted"]
<1>1. row \in SaleRow /\ row.status # "none" /\ row.from = "none"
  BY DEF UnsoldSale, SaleRow
<1>2. UNCHANGED picked /\ sale' = [sale EXCEPT ![s] = row]
  BY DEF DeleteSale
<1>3. CASE Consumed(s)
  <2>1. GiveBack(k, s)
    BY <1>3 DEF DeleteSale
  <2> HIDE DEF row
  <2> QED BY <1>1, <1>2, <1>3, <2>1, GiveBackKeeps
<1>4. CASE ~Consumed(s)
  <2>1. UNCHANGED <<quantity, rows, log, card>> /\ sale[s].from = "none"
    BY <1>4 DEF DeleteSale, Consumed
  <2> HIDE DEF row
  <2> QED BY <1>1, <1>2, <2>1, SaleRowKeeps
<1> QED BY <1>3, <1>4

\* A sale is entered without a SIM.
LEMMA EnterKeeps ==
    ASSUME Inv, NEW s \in Sale, NEW account \in Customer \cup {Nobody},
           NEW serial \in Card \cup {NoCard}, EnterSale(s, account, serial)
    PROVE  Inv'
<1> DEFINE row == [UnsoldSale EXCEPT !.status = IF account = Nobody THEN "pending" ELSE "awaiting",
                                     !.account = account, !.serial = serial]
<1>1. row \in SaleRow /\ row.status # "none" /\ row.from = "none"
  BY DEF UnsoldSale, SaleRow
<1>2. UNCHANGED <<quantity, rows, log, card, picked>> /\ sale' = [sale EXCEPT ![s] = row]
  BY DEF EnterSale
<1>3. sale[s].from = "none"
  BY DEF EnterSale, Inv, SaleInv, UnsoldIsFree, Consumed
<1> HIDE DEF row
<1> QED BY <1>1, <1>2, <1>3, SaleRowKeeps

-----------------------------------------------------------------------------
\* The specification.

\* Every step of the stock keeps the invariant.
LEMMA StockStepKeeps ==
    ASSUME Inv, StockStep
    PROVE  Inv'
<1>1. ASSUME NEW k \in NewMove, NEW n \in Amounts, NEW serials \in Serials(n)
      PROVE  /\ Receive(k, n, serials) => Inv'
             /\ \A customer \in Customer : Allocate(k, customer, n, serials) => Inv'
             /\ \A customer \in Customer : Return(k, customer, n, serials) => Inv'
  <2>1. serials \in SUBSET Card
    BY DEF Serials
  <2> QED BY <2>1, ReceiveKeeps, AllocateKeeps, ReturnKeeps
<1>2. ASSUME NEW k \in NewMove, NEW p \in Place, NEW n \in Amounts \cup {0}
      PROVE  /\ SetQuantity(k, p, n) => Inv'
             /\ Adjust(k, p, n) \/ Adjust(k, p, -n) \/ TakeOut(k, p, n) => Inv'
  <2>1. n \in Int /\ -n \in Int /\ n - quantity[p] \in Int
    BY StockBoundsAssumption DEF Inv, StockInv, TypeOK
  <2>2. SetQuantity(k, p, n) => Inv'
    BY <2>1, CorrectionKeeps DEF SetQuantity
  <2>3. Adjust(k, p, n) => Inv'
    BY <2>1, CorrectionKeeps DEF Adjust
  <2>4. Adjust(k, p, -n) => Inv'
    BY <2>1, CorrectionKeeps DEF Adjust
  <2>5. TakeOut(k, p, n) => Inv'
    BY <2>1, CorrectionKeeps DEF TakeOut
  <2> QED BY <2>2, <2>3, <2>4, <2>5
<1> QED BY <1>1, <1>2, DeleteRowKeeps, DeleteMovementKeeps DEF StockStep

\* Every step of a sale keeps the invariant.
LEMMA SaleStepKeeps ==
    ASSUME Inv, SaleStep
    PROVE  Inv'
<1>1. ASSUME NEW k \in NewMove, NEW s \in Sale, NEW payer \in Payer,
             PaySale(k, s, payer) \/ ApproveSale(k, s, payer)
      PROVE  Inv'
  <2>1. picked' \in {picked, NoSale}
    BY <1>1 DEF PaySale, ApproveSale
  <2> QED BY <1>1, <2>1, ConsumeOnceKeeps DEF PaySale, ApproveSale
<1> QED BY <1>1, EnterKeeps, CancelKeeps, DeleteKeeps DEF SaleStep

\* The approval of a payment keeps the invariant, whatever ran since it chose
\* its sale.
LEMMA PickedKeeps ==
    ASSUME Inv
    PROVE  /\ \A c \in Customer : PickSale(c) => Inv'
           /\ \A k \in NewMove, payer \in Payer : PickedConsumes(k, payer) => Inv'
           /\ PickedFails => Inv'
<1>1. /\ sale \in [Sale -> SaleRow] /\ picked \in Sale \cup {NoSale}
      /\ picked # NoSale => sale[picked].status # "none"
  BY DEF Inv, StockInv, TypeOK, SaleInv, UnsoldIsFree
<1>2. ASSUME UNCHANGED <<quantity, rows, log, card, sale>>,
             picked' = NoSale \/ (picked' \in Sale /\ sale[picked'].status # "none")
      PROVE  Inv'
  <2>1. StockInv'
    BY <1>2, IdleKeepsStock DEF Inv, StockInv, TypeOK
  <2>2. SourceIsKnown' /\ SoldCardHasItsSale'
    BY <1>2 DEF Inv, SaleInv, SourceIsKnown, SoldCardHasItsSale, Consumed
  <2>3. UnsoldIsFree'
    BY <1>2 DEF Inv, SaleInv, UnsoldIsFree, Consumed
  <2> QED BY <2>1, <2>2, <2>3 DEF Inv, SaleInv
<1>3. ASSUME NEW c \in Customer, PickSale(c)
      PROVE  Inv'
  BY <1>2, <1>3 DEF PickSale, Waiting, Exists
<1>4. ASSUME NEW k \in NewMove, NEW payer \in Payer, PickedConsumes(k, payer)
      PROVE  Inv'
  <2>1. picked \in Sale /\ picked' = NoSale /\ ConsumeOnce(k, picked, payer, sale[picked].status)
    BY <1>1, <1>4 DEF PickedConsumes
  <2>2. sale[picked].status \in {"awaiting", "pending", "paid", "cancelled", "deleted"}
    BY <1>1, <2>1, Numbers DEF SaleRow, NoSale
  <2> QED BY <2>1, <2>2, ConsumeOnceKeeps
<1>5. PickedFails => Inv'
  BY <1>2 DEF PickedFails
<1> QED BY <1>3, <1>4, <1>5

\* The first state, without stock and without sales.
LEMMA InitInv == Init => Inv
<1> SUFFICES ASSUME Init PROVE Inv
  OBVIOUS
<1>1. TypeOK
  <2>1. quantity \in [Place -> Nat] /\ rows \subseteq Place /\ picked \in Sale \cup {NoSale}
    BY DEF Init
  <2>2. log \in [Move -> MoveRow]
    BY FreeMoveTyped DEF Init
  <2>3. UnknownCard \in CardRow /\ UnsoldSale \in SaleRow
    BY DEF UnknownCard, CardRow, UnsoldSale, SaleRow
  <2> QED BY <2>1, <2>2, <2>3 DEF Init, TypeOK
<1>2. FreeRowsAreFree
  BY DEF Init, FreeRowsAreFree
<1>3. StockMatchesLog
  <2>1. ASSUME NEW p \in Place
        PROVE  quantity[p] = Total([k \in Move |-> Effect(log[k], p)], MaxMoves)
    <3> DEFINE g == [k \in Move |-> Effect(log[k], p)]
    <3>1. g \in [1..MaxMoves -> Int]
      BY <1>1, EffectsType DEF TypeOK
    <3>2. \A j \in 1..MaxMoves : g[j] = 0
      BY FreeMoveTyped, Numbers DEF Init
    <3> HIDE DEF g
    <3>3. Total(g, MaxMoves) = 0
      BY <3>1, <3>2, Numbers, TotalOfZeros
    <3> QED BY <3>3 DEF g, Init
  <2> QED BY <2>1 DEF StockMatchesLog
<1>4. SaleInv
  BY DEF Init, SaleInv, SourceIsKnown, SoldCardHasItsSale, UnsoldIsFree, Consumed, UnsoldSale, UnknownCard
<1> QED BY <1>1, <1>2, <1>3, <1>4 DEF Inv, StockInv

\* Inv is an invariant.
THEOREM InvHolds == Spec => []Inv
<1>1. Init => Inv
  BY InitInv
<1>2. Inv /\ [Next]_vars => Inv'
  <2> SUFFICES ASSUME Inv, [Next]_vars PROVE Inv'
    OBVIOUS
  <2>1. CASE Next
    BY <2>1, StockStepKeeps, SaleStepKeeps, PickedKeeps DEF Next
  <2>2. CASE UNCHANGED vars
    BY <2>2, IdleKeepsStock DEF vars, Inv, StockInv, TypeOK, SaleInv, SourceIsKnown, SoldCardHasItsSale,
                                UnsoldIsFree, Consumed
  <2> QED BY <2>1, <2>2
<1> QED BY <1>1, <1>2, PTL DEF Spec

\* The variables keep their types.
THEOREM TypeCorrect == Spec => []TypeOK
BY InvHolds, PTL DEF Inv, StockInv

\* No stock is ever overdrawn.
THEOREM StockIsNeverNegative == Spec => []NeverOverdrawn
<1>1. TypeOK => NeverOverdrawn
  BY DEF TypeOK, NeverOverdrawn
<1> QED BY <1>1, TypeCorrect, PTL

\* Every quantity is what the log says of it, however rows of the log and of
\* the balances are deleted.
THEOREM StockIsLogged == Spec => []StockMatchesLog
BY InvHolds, PTL DEF Inv, StockInv

\* A sale that has its SIM can give it back where it came from.
THEOREM SourceStaysKnown == Spec => []SourceIsKnown
BY InvHolds, PTL DEF Inv, SaleInv

\* A card is sold exactly while its sale has it.
THEOREM SoldCards == Spec => []SoldCardHasItsSale
BY InvHolds, PTL DEF Inv, SaleInv

-----------------------------------------------------------------------------
\* A sale takes one SIM at a time.

RowsSet(s, type) == {k \in Move : log[k].type = type /\ log[k].sale = s}

\* The rows of a sale can be counted.
LEMMA RowsFinite ==
    ASSUME NEW s, NEW type
    PROVE  IsFiniteSet(RowsSet(s, type)) /\ RowsOf(s, type) = Cardinality(RowsSet(s, type))
           /\ RowsOf(s, type) \in Nat
<1>1. IsFiniteSet(Move)
  BY Numbers, FS_Interval
<1>2. RowsSet(s, type) \in SUBSET Move
  BY DEF RowsSet
<1>3. IsFiniteSet(RowsSet(s, type))
  BY <1>1, <1>2, FS_Subset
<1>4. RowsOf(s, type) = Cardinality(RowsSet(s, type))
  BY DEF RowsOf, RowsSet
<1> QED BY <1>3, <1>4, FS_CardinalityType

\* A step that changes no row of a sale changes no count.
LEMMA RowsSame ==
    ASSUME NEW s, NEW type,
           \A k \in Move : (log'[k].type = type /\ log'[k].sale = s) <=> (log[k].type = type /\ log[k].sale = s)
    PROVE  RowsOf(s, type)' = RowsOf(s, type)
<1>1. {k \in Move : log'[k].type = type /\ log'[k].sale = s} = {k \in Move : log[k].type = type /\ log[k].sale = s}
  OBVIOUS
<1> QED BY <1>1 DEF RowsOf

\* A row that is added is counted once, for its own sale and type.
LEMMA RowsAdded ==
    ASSUME Inv, NEW k \in NewMove, NEW m \in MoveRow, Record(k, m),
           NEW s, NEW type, type # "none"
    PROVE  RowsOf(s, type)' = RowsOf(s, type) + IF m.type = type /\ m.sale = s THEN 1 ELSE 0
<1>1. /\ k \in Move /\ log \in [Move -> MoveRow] /\ log[k].type = "none"
      /\ log' = [log EXCEPT ![k] = m]
  BY DEF Inv, StockInv, TypeOK, NewMove, Record
<1>2. log'[k] = m /\ \A j \in Move : j # k => log'[j] = log[j]
  BY <1>1
<1>3. CASE m.type = type /\ m.sale = s
  <2>1. RowsSet(s, type)' = RowsSet(s, type) \cup {k} /\ k \notin RowsSet(s, type)
    BY <1>1, <1>2, <1>3 DEF RowsSet
  <2>2. Cardinality(RowsSet(s, type) \cup {k}) = Cardinality(RowsSet(s, type)) + 1
    BY <2>1, RowsFinite, FS_AddElement
  <2>3. RowsOf(s, type)' = Cardinality(RowsSet(s, type)')
    BY DEF RowsOf, RowsSet
  <2> QED BY <1>3, <2>1, <2>2, <2>3, RowsFinite
<1>4. CASE ~(m.type = type /\ m.sale = s)
  <2>1. \A j \in Move : (log'[j].type = type /\ log'[j].sale = s) <=> (log[j].type = type /\ log[j].sale = s)
    BY <1>1, <1>2, <1>4
  <2>2. RowsOf(s, type)' = RowsOf(s, type)
    BY <2>1, RowsSame
  <2> QED BY <1>4, <2>2, RowsFinite
<1> QED BY <1>3, <1>4

\* What the rows of every sale owe to a step that takes or gives back no SIM.
LEMMA AloneKeepsTaken ==
    ASSUME SimTakenOnce,
           \A s \in Sale :
              /\ RowsOf(s, "consume")' = RowsOf(s, "consume")
              /\ RowsOf(s, "reversal")' = RowsOf(s, "reversal")
              /\ Consumed(s)' <=> Consumed(s)
    PROVE  SimTakenOnce'
BY DEF SimTakenOnce

\* No movement of the stock is a row of a sale.
LEMMA StockStepKeepsTaken ==
    ASSUME Inv, SimTakenOnce, StockStep
    PROVE  SimTakenOnce'
<1>1. log \in [Move -> MoveRow]
  BY DEF Inv, StockInv, TypeOK
<1>2. ASSUME NEW k \in NewMove, NEW m \in MoveRow, Record(k, m),
             m.type \notin {"consume", "reversal"}, UNCHANGED sale
      PROVE  SimTakenOnce'
  <2>1. ASSUME NEW s \in Sale, NEW type \in {"consume", "reversal"}
        PROVE  RowsOf(s, type)' = RowsOf(s, type)
    <3>1. /\ k \in Move /\ log[k].type = "none" /\ log' = [log EXCEPT ![k] = m]
      BY <1>2 DEF NewMove, Record
    <3>2. \A j \in Move : (log'[j].type = type /\ log'[j].sale = s) <=> (log[j].type = type /\ log[j].sale = s)
      BY <1>1, <1>2, <3>1
    <3> QED BY <3>2, RowsSame
  <2>2. \A s \in Sale : Consumed(s)' <=> Consumed(s)
    BY <1>2 DEF Consumed
  <2> QED BY <2>1, <2>2, AloneKeepsTaken
<1>3. ASSUME NEW k \in NewMove, NEW p \in Place, NEW n \in Int, Record(k, Correction(p, n)), UNCHANGED sale
      PROVE  SimTakenOnce'
  <2>1. Correction(p, n) \in MoveRow /\ Correction(p, n).type = "correction"
    BY CorrectionTyped
  <2> QED BY <1>2, <1>3, <2>1
<1>4. ASSUME NEW k \in NewMove, NEW n \in Amounts, NEW serials \in Serials(n), NEW customer \in Customer,
             Allocate(k, customer, n, serials) \/ Return(k, customer, n, serials)
      PROVE  SimTakenOnce'
  <2>1. n \in Nat /\ customer \in Customer \cup {Nobody} /\ customer \in Place /\ UNCHANGED sale
    BY <1>4, StockBoundsAssumption, Numbers DEF Allocate, Return
  <2>3. CASE Allocate(k, customer, n, serials)
    <3> DEFINE m == [FreeMove EXCEPT !.type = "allocate", !.quantity = n, !.from = Main,
                                     !.to = customer, !.customer = customer]
    <3>1. m \in MoveRow /\ m.type = "allocate"
      BY <2>1, Numbers, FreeMoveTyped DEF MoveRow, FreeMove, Types
    <3>2. Record(k, m)
      BY <2>3 DEF Allocate
    <3> HIDE DEF m
    <3> QED BY <1>2, <2>1, <3>1, <3>2
  <2>4. CASE Return(k, customer, n, serials)
    <3> DEFINE m == [FreeMove EXCEPT !.type = "return", !.quantity = n, !.from = customer,
                                     !.to = Main, !.customer = customer]
    <3>1. m \in MoveRow /\ m.type = "return"
      BY <2>1, Numbers, FreeMoveTyped DEF MoveRow, FreeMove, Types
    <3>2. Record(k, m)
      BY <2>4 DEF Return
    <3> HIDE DEF m
    <3> QED BY <1>2, <2>1, <3>1, <3>2
  <2> QED BY <1>4, <2>3, <2>4
<1>5. ASSUME NEW k \in NewMove, NEW n \in Amounts, NEW serials \in Serials(n), Receive(k, n, serials)
      PROVE  SimTakenOnce'
  <2> DEFINE m == [FreeMove EXCEPT !.type = "receive", !.quantity = n, !.to = Main]
  <2>1. m \in MoveRow /\ m.type = "receive"
    BY StockBoundsAssumption, Numbers, FreeMoveTyped DEF MoveRow, FreeMove, Types
  <2>2. Record(k, m) /\ UNCHANGED sale
    BY <1>5 DEF Receive
  <2> HIDE DEF m
  <2> QED BY <1>2, <2>1, <2>2
<1>6. ASSUME NEW k \in NewMove, NEW p \in Place, NEW n \in Amounts \cup {0},
             SetQuantity(k, p, n) \/ Adjust(k, p, n) \/ Adjust(k, p, -n) \/ TakeOut(k, p, n)
      PROVE  SimTakenOnce'
  <2>1. n \in Int /\ -n \in Int /\ n - quantity[p] \in Int
    BY StockBoundsAssumption DEF Inv, StockInv, TypeOK
  <2> QED BY <1>3, <1>6, <2>1 DEF SetQuantity, Adjust, TakeOut
<1>7. ASSUME NEW q \in Place, DeleteRow(q)
      PROVE  SimTakenOnce'
  <2>1. ASSUME NEW k \in Move
        PROVE  log'[k].type = log[k].type /\ log'[k].sale = log[k].sale
    <3>1. log'[k] = [log[k] EXCEPT !.from = IF @ = q THEN Nowhere ELSE @,
                                   !.to = IF @ = q THEN Nowhere ELSE @]
      BY <1>7 DEF DeleteRow
    <3>2. log[k] \in MoveRow
      BY <1>1
    <3> QED BY <3>1, <3>2 DEF MoveRow
  <2>2. ASSUME NEW s \in Sale, NEW type
        PROVE  RowsOf(s, type)' = RowsOf(s, type)
    BY <2>1, RowsSame
  <2>3. \A s \in Sale : Consumed(s)' <=> Consumed(s)
    BY <1>7 DEF DeleteRow, Consumed
  <2> QED BY <2>2, <2>3, AloneKeepsTaken
<1>8. ASSUME NEW k \in Move, DeleteMovement(k)
      PROVE  SimTakenOnce'
  <2>1. /\ log' = [log EXCEPT ![k] = FreeMove] /\ log[k].type \notin {"consume", "reversal"}
        /\ UNCHANGED sale
    BY <1>8 DEF DeleteMovement
  <2>2. ASSUME NEW s \in Sale, NEW type \in {"consume", "reversal"}
        PROVE  RowsOf(s, type)' = RowsOf(s, type)
    <3>1. \A j \in Move : (log'[j].type = type /\ log'[j].sale = s) <=> (log[j].type = type /\ log[j].sale = s)
      BY <1>1, <2>1 DEF FreeMove
    <3> QED BY <3>1, RowsSame
  <2>3. \A s \in Sale : Consumed(s)' <=> Consumed(s)
    BY <2>1 DEF Consumed
  <2> QED BY <2>2, <2>3, AloneKeepsTaken
<1> QED BY <1>4, <1>5, <1>6, <1>7, <1>8 DEF StockStep

\* A sale that takes its SIM gains one row.
LEMMA ConsumeKeepsTaken ==
    ASSUME Inv, SimTakenOnce, NEW k \in NewMove, NEW s \in Sale, NEW payer \in Payer,
           NEW status, ~Consumed(s), Consume(k, s, payer, status)
    PROVE  SimTakenOnce'
<1> DEFINE from == Source(payer)
           m == [FreeMove EXCEPT !.type = "consume", !.quantity = 1, !.from = from,
                                 !.customer = payer, !.sale = s]
<1>1. from \in Place /\ payer \in Customer \cup {Nobody} /\ sale \in [Sale -> SaleRow]
  BY Numbers DEF Source, Payer, Inv, StockInv, TypeOK
<1>2. m \in MoveRow /\ m.type = "consume" /\ m.sale = s
  BY <1>1, FreeMoveTyped DEF FreeMove, MoveRow, Types
<1>3. Record(k, m)
  BY DEF Consume
<1>4. sale' = [sale EXCEPT ![s].status = status, ![s].movement = k,
                           ![s].from = IF from = Main THEN "main" ELSE "customer"]
  BY DEF Consume
<1> HIDE DEF m, from
<1>5. /\ \A t \in Sale : t # s => sale'[t] = sale[t]
      /\ sale'[s].from # "none"
  BY <1>1, <1>4 DEF SaleRow
<1>6. ASSUME NEW t \in Sale
      PROVE  RowsOf(t, "consume")' - RowsOf(t, "reversal")' = IF Consumed(t)' THEN 1 ELSE 0
  <2>1. /\ RowsOf(t, "consume")' = RowsOf(t, "consume") + IF s = t THEN 1 ELSE 0
        /\ RowsOf(t, "reversal")' = RowsOf(t, "reversal")
    <3>1. RowsOf(t, "consume")' = RowsOf(t, "consume") + IF m.type = "consume" /\ m.sale = t THEN 1 ELSE 0
      BY <1>2, <1>3, RowsAdded
    <3>2. RowsOf(t, "reversal")' = RowsOf(t, "reversal") + IF m.type = "reversal" /\ m.sale = t THEN 1 ELSE 0
      BY <1>2, <1>3, RowsAdded
    <3> QED BY <1>2, <3>1, <3>2, RowsFinite
  <2>2. RowsOf(t, "consume") - RowsOf(t, "reversal") = IF Consumed(t) THEN 1 ELSE 0
    BY DEF SimTakenOnce
  <2>3. RowsOf(t, "consume") \in Nat /\ RowsOf(t, "reversal") \in Nat
    BY RowsFinite
  <2>4. Consumed(t)' <=> Consumed(t) \/ t = s
    BY <1>5 DEF Consumed
  <2> QED BY <2>1, <2>2, <2>3, <2>4
<1> QED BY <1>6 DEF SimTakenOnce

\* A sale that gives its SIM back gains the row that balances it.
LEMMA GiveBackKeepsTaken ==
    ASSUME Inv, SimTakenOnce, NEW k \in NewMove, NEW s \in Sale, Consumed(s), GiveBack(k, s),
           NEW row, sale' = [sale EXCEPT ![s] = row], row.from = "none"
    PROVE  SimTakenOnce'
<1> DEFINE to == IF sale[s].from = "main" THEN Main ELSE log[sale[s].movement].customer
           m == [FreeMove EXCEPT !.type = "reversal", !.quantity = 1, !.to = to,
                                 !.customer = to, !.sale = s]
<1>1. sale \in [Sale -> SaleRow]
  BY DEF Inv, StockInv, TypeOK
<1>2. to \in Place
  <2>1. sale[s].from \in {"main", "customer"}
    BY <1>1 DEF Consumed, SaleRow
  <2>2. sale[s].from = "customer" => log[sale[s].movement].customer \in Customer
    BY DEF Inv, SaleInv, SourceIsKnown
  <2> QED BY <2>1, <2>2, Numbers
<1>3. m \in MoveRow /\ m.type = "reversal" /\ m.sale = s
  <2>1. to \in Customer \cup {Nobody}
    BY <1>2 DEF Place, Main, Nobody
  <2> QED BY <1>2, <2>1, FreeMoveTyped DEF FreeMove, MoveRow, Types
<1>4. Record(k, m)
  BY DEF GiveBack
<1> HIDE DEF m, to
<1>5. /\ \A t \in Sale : t # s => sale'[t] = sale[t]
      /\ sale'[s] = row
  BY <1>1
<1>6. ASSUME NEW t \in Sale
      PROVE  RowsOf(t, "consume")' - RowsOf(t, "reversal")' = IF Consumed(t)' THEN 1 ELSE 0
  <2>1. /\ RowsOf(t, "consume")' = RowsOf(t, "consume")
        /\ RowsOf(t, "reversal")' = RowsOf(t, "reversal") + IF s = t THEN 1 ELSE 0
    <3>1. RowsOf(t, "consume")' = RowsOf(t, "consume") + IF m.type = "consume" /\ m.sale = t THEN 1 ELSE 0
      BY <1>3, <1>4, RowsAdded
    <3>2. RowsOf(t, "reversal")' = RowsOf(t, "reversal") + IF m.type = "reversal" /\ m.sale = t THEN 1 ELSE 0
      BY <1>3, <1>4, RowsAdded
    <3> QED BY <1>3, <3>1, <3>2, RowsFinite
  <2>2. RowsOf(t, "consume") - RowsOf(t, "reversal") = IF Consumed(t) THEN 1 ELSE 0
    BY DEF SimTakenOnce
  <2>3. RowsOf(t, "consume") \in Nat /\ RowsOf(t, "reversal") \in Nat
    BY RowsFinite
  <2>4. Consumed(t)' <=> Consumed(t) /\ t # s
    BY <1>5 DEF Consumed
  <2> QED BY <2>1, <2>2, <2>3, <2>4
<1> QED BY <1>6 DEF SimTakenOnce

\* The log stays and no sale takes or loses its SIM.
LEMMA StatusKeepsTaken ==
    ASSUME Inv, SimTakenOnce, UNCHANGED log, NEW s \in Sale, NEW row,
           sale' = [sale EXCEPT ![s] = row], row.from = sale[s].from
    PROVE  SimTakenOnce'
<1>1. sale \in [Sale -> SaleRow]
  BY DEF Inv, StockInv, TypeOK
<1>2. \A t \in Sale : Consumed(t)' <=> Consumed(t)
  BY <1>1 DEF Consumed
<1>3. ASSUME NEW t \in Sale, NEW type
      PROVE  RowsOf(t, type)' = RowsOf(t, type)
  BY RowsSame
<1> QED BY <1>2, <1>3, AloneKeepsTaken

\* A sale that takes its SIM unless it has it.
LEMMA ConsumeOnceKeepsTaken ==
    ASSUME Inv, SimTakenOnce, NEW k \in NewMove, NEW s \in Sale, NEW payer \in Payer,
           NEW status, ConsumeOnce(k, s, payer, status)
    PROVE  SimTakenOnce'
<1>1. CASE Consumed(s)
  <2> DEFINE row == [sale[s] EXCEPT !.status = status]
  <2>1. sale[s] \in SaleRow
    BY DEF Inv, StockInv, TypeOK
  <2>2. row.from = sale[s].from
    BY <2>1 DEF SaleRow
  <2>3. UNCHANGED log /\ sale' = [sale EXCEPT ![s] = row]
    BY <1>1 DEF ConsumeOnce, OnlyStatus
  <2> HIDE DEF row
  <2> QED BY <2>2, <2>3, StatusKeepsTaken
<1>2. CASE ~Consumed(s)
  BY <1>2, ConsumeKeepsTaken DEF ConsumeOnce
<1> QED BY <1>1, <1>2

\* Every step of a sale moves its SIM once or not at all.
LEMMA SaleStepKeepsTaken ==
    ASSUME Inv, SimTakenOnce, SaleStep
    PROVE  SimTakenOnce'
<1>1. sale \in [Sale -> SaleRow]
  BY DEF Inv, StockInv, TypeOK
<1>2. ASSUME NEW s \in Sale, NEW account \in Customer \cup {Nobody}, NEW serial \in Card \cup {NoCard},
             EnterSale(s, account, serial)
      PROVE  SimTakenOnce'
  <2> DEFINE row == [UnsoldSale EXCEPT !.status = IF account = Nobody THEN "pending" ELSE "awaiting",
                                       !.account = account, !.serial = serial]
  <2>1. sale[s].from = "none"
    BY <1>2 DEF EnterSale, Inv, SaleInv, UnsoldIsFree, Consumed
  <2>2. row.from = sale[s].from
    BY <2>1 DEF UnsoldSale
  <2>3. UNCHANGED log /\ sale' = [sale EXCEPT ![s] = row]
    BY <1>2 DEF EnterSale
  <2> HIDE DEF row
  <2> QED BY <2>2, <2>3, StatusKeepsTaken
<1>3. ASSUME NEW k \in NewMove, NEW s \in Sale, CancelSale(k, s)
      PROVE  SimTakenOnce'
  <2>1. CASE Consumed(s)
    <3> DEFINE row == [sale[s] EXCEPT !.status = "cancelled", !.from = "none", !.movement = NoMove]
    <3>1. row.from = "none"
      BY <1>1 DEF SaleRow
    <3>2. GiveBack(k, s) /\ sale' = [sale EXCEPT ![s] = row]
      BY <1>3, <2>1 DEF CancelSale
    <3> HIDE DEF row
    <3> QED BY <2>1, <3>1, <3>2, GiveBackKeepsTaken
  <2>2. CASE ~Consumed(s)
    <3> DEFINE row == [sale[s] EXCEPT !.status = "cancelled"]
    <3>1. row.from = sale[s].from
      BY <1>1 DEF SaleRow
    <3>2. UNCHANGED log /\ sale' = [sale EXCEPT ![s] = row]
      BY <1>3, <2>2 DEF CancelSale, OnlyStatus
    <3> HIDE DEF row
    <3> QED BY <3>1, <3>2, StatusKeepsTaken
  <2> QED BY <2>1, <2>2
<1>4. ASSUME NEW k \in NewMove, NEW s \in Sale, DeleteSale(k, s)
      PROVE  SimTakenOnce'
  <2> DEFINE row == [UnsoldSale EXCEPT !.status = "deleted"]
  <2>1. row.from = "none" /\ sale' = [sale EXCEPT ![s] = row]
    BY <1>4 DEF DeleteSale, UnsoldSale
  <2>2. CASE Consumed(s)
    <3>1. GiveBack(k, s)
      BY <1>4, <2>2 DEF DeleteSale
    <3> HIDE DEF row
    <3> QED BY <2>1, <2>2, <3>1, GiveBackKeepsTaken
  <2>3. CASE ~Consumed(s)
    <3>1. UNCHANGED log /\ row.from = sale[s].from
      BY <1>4, <2>1, <2>3 DEF DeleteSale, Consumed
    <3> HIDE DEF row
    <3> QED BY <2>1, <3>1, StatusKeepsTaken
  <2> QED BY <2>2, <2>3
<1> QED BY <1>2, <1>3, <1>4, ConsumeOnceKeepsTaken DEF SaleStep, PaySale, ApproveSale

\* A sale takes one SIM, and gives it back once before it takes another.
THEOREM TakenOnce == Spec => []SimTakenOnce
<1>1. Init => SimTakenOnce
  <2> SUFFICES ASSUME Init PROVE SimTakenOnce
    OBVIOUS
  <2>1. ASSUME NEW s \in Sale, NEW type \in {"consume", "reversal"}
        PROVE  RowsOf(s, type) = 0
    <3>1. {k \in Move : log[k].type = type /\ log[k].sale = s} = {}
      BY DEF Init, FreeMove
    <3> QED BY <3>1, FS_EmptySet DEF RowsOf
  <2>2. \A s \in Sale : ~Consumed(s)
    BY DEF Init, Consumed, UnsoldSale
  <2> QED BY <2>1, <2>2 DEF SimTakenOnce
<1>2. Inv /\ SimTakenOnce /\ [Next]_vars => SimTakenOnce'
  <2> SUFFICES ASSUME Inv, SimTakenOnce, [Next]_vars PROVE SimTakenOnce'
    OBVIOUS
  <2>1. CASE UNCHANGED <<log, sale>>
    <3>1. ASSUME NEW t \in Sale, NEW type
          PROVE  RowsOf(t, type)' = RowsOf(t, type)
      BY <2>1, RowsSame
    <3>2. \A t \in Sale : Consumed(t)' <=> Consumed(t)
      BY <2>1 DEF Consumed
    <3> QED BY <3>1, <3>2, AloneKeepsTaken
  <2>2. ASSUME NEW k \in NewMove, NEW payer \in Payer, PickedConsumes(k, payer)
        PROVE  SimTakenOnce'
    <3>1. picked \in Sale /\ ConsumeOnce(k, picked, payer, sale[picked].status)
      BY <2>2 DEF PickedConsumes, Inv, StockInv, TypeOK
    <3> QED BY <3>1, ConsumeOnceKeepsTaken
  <2> QED BY <2>1, <2>2, StockStepKeepsTaken, SaleStepKeepsTaken DEF Next, vars, PickSale, PickedFails
<1> QED BY <1>1, <1>2, InvHolds, PTL DEF Spec
=============================================================================
