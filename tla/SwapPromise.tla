----------------------------- MODULE SwapPromise -----------------------------
(***************************************************************************)
(* What the execution service promises the user of a swap, without rows,   *)
(* leases, providers or RPC nodes: a quote is spent on one swap, the user  *)
(* is told that a swap failed, was confirmed or is final only when it is   *)
(* so, and a final answer is never changed.                                *)
(***************************************************************************)
CONSTANTS
  Keys,       \* one swap for each idempotency key
  Quotes,
  Refusable,  \* quotes whose swap may be failed on the provider's word
  NoQuote

VARIABLES
  swap,     \* the quote each key spent, or NoQuote
  told,     \* what the user is told of each swap
  onchain,  \* the chain: has the swap succeeded, and how firmly
  erred     \* the chain: has some fork executed the swap with an error

pvars == <<swap, told, onchain, erred>>

Init ==
  /\ swap = [k \in Keys |-> NoQuote]
  /\ told = [k \in Keys |-> "nothing"]
  /\ onchain = [k \in Keys |-> "no"]
  /\ erred = [k \in Keys |-> FALSE]

Tell(k, what) == told' = [told EXCEPT ![k] = what]

Accept(k, q) ==
  /\ told[k] = "nothing" /\ \A l \in Keys : swap[l] # q
  /\ swap' = [swap EXCEPT ![k] = q]
  /\ Tell(k, "pending")
  /\ UNCHANGED <<onchain, erred>>

Fail(k) ==
  /\ told[k] = "pending" /\ (erred[k] \/ swap[k] \in Refusable)
  /\ Tell(k, "failed")
  /\ UNCHANGED <<swap, onchain, erred>>

Confirm(k) ==
  /\ told[k] = "pending" /\ onchain[k] \in {"confirmed", "finalized"}
  /\ Tell(k, "confirmed")
  /\ UNCHANGED <<swap, onchain, erred>>

Finalize(k) ==
  /\ told[k] \in {"pending", "confirmed"} /\ onchain[k] = "finalized"
  /\ Tell(k, "finalized")
  /\ UNCHANGED <<swap, onchain, erred>>

\* The chain moves by itself, and never back once it has confirmed.
Deepen(k) ==
  /\ onchain[k] \in {"no", "confirmed"}
  /\ onchain' = [onchain EXCEPT ![k] =
                   IF @ = "no" THEN "confirmed" ELSE "finalized"]
  /\ UNCHANGED <<swap, told, erred>>

Err(k) ==
  /\ erred' = [erred EXCEPT ![k] = TRUE]
  /\ UNCHANGED <<swap, told, onchain>>

Next == \E k \in Keys :
  \/ \E q \in Quotes : Accept(k, q)
  \/ Fail(k) \/ Confirm(k) \/ Finalize(k)
  \/ Deepen(k) \/ Err(k)

Spec == Init /\ [][Next]_pvars
=============================================================================
