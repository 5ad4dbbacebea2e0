-------------------------------- MODULE OneSale --------------------------------
(***************************************************************************)
(* What the settlement services promise about the money of one prepared    *)
(* sale: whatever order payments, confirmations and bank answers come in,  *)
(* the sale is accepted once, each provider payment either pays for it or  *)
(* is owed back to the customer and never both, and nothing is owed before *)
(* something else pays for the sale.                                       *)
(***************************************************************************)
CONSTANTS Attempts,   \* the provider attempts of the sale
          Static,     \* the cashier's static QR, as a source of payment
          None        \* no source

VARIABLES paid,       \* attempts Maybank has reported paid
          source,     \* what the sale was accepted on
          owed,       \* attempts posted as a liability to the customer
          returned    \* attempts refunded

vars == <<paid, source, owed, returned>>

Init == paid = {} /\ source = None /\ owed = {} /\ returned = {}

Pay(k) == k \notin paid /\ paid' = paid \cup {k} /\ UNCHANGED <<source, owed, returned>>

(* Accepting on an attempt that is not paid is a cashier's manual claim. *)
Accept(s) == source = None /\ source' = s /\ UNCHANGED <<paid, owed, returned>>

(* The static QR turned out not to be paid: a provider payment takes its     *)
(* place, while none has been promised back.                                 *)
Replace(k) ==
    /\ source = Static
    /\ k \in paid
    /\ owed = {}
    /\ source' = k
    /\ UNCHANGED <<paid, owed, returned>>

Owe(k) ==
    /\ k \in paid \ (owed \cup {source})
    /\ source \in paid \cup {Static}
    /\ owed' = owed \cup {k}
    /\ UNCHANGED <<paid, source, returned>>

Return(k) ==
    /\ k \in owed \ returned
    /\ returned' = returned \cup {k}
    /\ UNCHANGED <<paid, source, owed>>

Next ==
    \/ \E k \in Attempts : Pay(k) \/ Replace(k) \/ Owe(k) \/ Return(k)
    \/ \E s \in Attempts \cup {Static} : Accept(s)

Spec == Init /\ [][Next]_vars
=============================================================================
