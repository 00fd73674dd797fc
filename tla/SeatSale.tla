------------------------------- MODULE SeatSale -------------------------------
(***************************************************************************)
(* What selling seats promises, with no queue, no worker and no cache: a   *)
(* sale takes all the seats of its order at once, only free ones, an order *)
(* has at most one live sale, and a refund gives all its seats back.       *)
(* ConcertBooking implements this specification.                           *)
(***************************************************************************)
CONSTANTS Seat,         \* the seats of one show
          Order,        \* booking requests
          Sale,         \* potential bookings of those requests
          OrderOf,      \* the request a sale serves
          SeatsOf       \* the seats an order asks for

VARIABLES sold,         \* per sale: "none", "PAID" or "CANCEL"
          holding       \* the rows <<sale, seat>> of occupied seats

saleVars == <<sold, holding>>

SaleInit ==
  /\ sold = [b \in Sale |-> "none"]
  /\ holding = {}

Free(s) == \A row \in holding : row[2] # s

\* Every seat of the order changes hands in one step, and only if all are free.
Sell(b) ==
  /\ sold[b] = "none"
  /\ SeatsOf[OrderOf[b]] \subseteq Seat
  /\ \A s \in SeatsOf[OrderOf[b]] : Free(s)
  /\ \A c \in Sale : sold[c] = "PAID" => OrderOf[c] # OrderOf[b]
  /\ sold' = [sold EXCEPT ![b] = "PAID"]
  /\ holding' = holding \union ({b} \X SeatsOf[OrderOf[b]])

\* A refund cancels a paid sale for good and frees exactly its seats.
Return(b) ==
  /\ sold[b] = "PAID"
  /\ sold' = [sold EXCEPT ![b] = "CANCEL"]
  /\ holding' = {row \in holding : row[1] # b}

SaleNext == \E b \in Sale : Sell(b) \/ Return(b)

SaleSpec == SaleInit /\ [][SaleNext]_saleVars

=============================================================================
