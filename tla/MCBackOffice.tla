---------------------------- MODULE MCBackOffice ----------------------------
(***************************************************************************)
(* Instances for TLC of what works behind the API.  They share no state:   *)
(* each behaviour is about one part, and the others rest.                  *)
(*                                                                         *)
(*   delivery  one notification, two workers, two attempts                 *)
(*   wallet    two pollers of one wallet with four events                  *)
(*   feed      seven transactions heard from two endpoints                 *)
(*   pump      any five events of one mint                                 *)
(*   fx        any set of eight swaps                                      *)
(*   ledger    a deposit, its reversal and a withdrawal; two transactions  *)
(*   extract   two runs over three editions of an archive                  *)
(*   blocks    a file of two blocks, changed twice                         *)
(*   recovery  two processes, three migrations                             *)
(*   metrics   two writers, three trades in any order                      *)
(*                                                                         *)
(* As one part runs at a time, their variables are stored in s1, s2, ...,  *)
(* which are Off where a part has fewer; the notification, the ledger and  *)
(* the recovery have their own.                                            *)
(***************************************************************************)
EXTENDS NotificationDelivery, AssetLedger, IndexRecovery, TLC

CONSTANTS Off, x1, x2, Unpriced, Nothing, Spoilt

VARIABLES part, s1, s2, s3, s4, s5, s6, s7, s8

Pair == {x1, x2}

-----------------------------------------------------------------------------
\* Two events in one slot; the last two have no price.
Bought(slot, quantity, value) == [slot |-> slot, kind |-> "buy", quantity |-> quantity, value |-> value]
Wallet == INSTANCE WalletIndexer WITH
  Pollers <- Pair, PageSize <- 2, MaxPolls <- 3,
  Chain <- << Bought(1, 3, 10), [Bought(2, 2, 9) EXCEPT !.kind = "sell"],
              Bought(2, 2, Unpriced), [Bought(3, 4, Unpriced) EXCEPT !.kind = "transfer_out"] >>,
  visible <- s1, row <- s2, stored <- s3, fanned <- s4, stream <- s5, applied <- s6, poll <- s7

\* Slots out of order, transactions no decoder takes, malformed ones, and two whose
\* bytes one endpoint serves changed.
Heard(slot) == [slot |-> slot, adapts |-> TRUE, supply |-> "none", verdict |-> "swap"]
Feed == INSTANCE FeedIngest WITH
  Arrivals <- << Heard(3), [Heard(5) EXCEPT !.supply = "bad"], Heard(3),
                 [Heard(6) EXCEPT !.verdict = "none"],
                 [Heard(6) EXCEPT !.adapts = FALSE, !.verdict = "none"],
                 [Heard(8) EXCEPT !.verdict = "bad"], Heard(9) >>,
  Endpoints <- 2, Altered <- {<<1, 2>>, <<0, 4>>}, MaxSessions <- 3, NoSlot <- None,
  emitted <- s1, reconnects <- s2, session <- s3, journal <- s4, checkpoint <- s5,
  started <- s6, trades <- s7, letters <- s8

Pump == INSTANCE PumpLifecycle WITH MaxEvents <- 5, MaxReserve <- 1, events <- s1

\* Two pools; thin swaps, two of one moment, a bucket boundary and a stale end.
Priced(pool, at, sol, stable) == [pool |-> pool, at |-> at, sol |-> sol, stable |-> stable]
Fx == INSTANCE FxTape WITH
  Observations <- {Priced("a", 1, 2, 20), Priced("a", 2, 3, 31), Priced("a", 2, 1, 14),
                   Priced("a", 4, 2, 21), Priced("a", 5, 1, 10), Priced("b", 0, 4, 41),
                   Priced("b", 2, 1, 9), Priced("b", 3, 2, 20)},
  Bucket <- 3, MaxAge <- 2, MinStable <- 15, Scale <- 1000, MaxHeard <- 8, LastTime <- 9,
  heard <- s1

\* A deposit, its reversal and a withdrawal; the deposit's movement is what was claimed.
VaultAmounts == "dep" :> 2 @@ "out" :> -2 @@ "back" :> -2
VaultReversals == "dep" :> None @@ "out" :> None @@ "back" :> "dep"
VaultClaims == "claim" :> "e1"

\* Two of the migrations build the same index.
SchemaPlans == << [indexes |-> <<"x">>, drops |-> FALSE], [indexes |-> <<"y", "z">>, drops |-> TRUE],
                  [indexes |-> <<"z">>, drops |-> TRUE] >>

\* An index with a hole; the same length with other offsets; a longer file.
Part(offset, length) == [offset |-> offset, length |-> length]
Extract == INSTANCE ArchiveExtract WITH
  Procs <- Pair, Start <- 2, End <- 5, MaxHeader <- 2, MaxDownload <- 10, Retries <- 1,
  MaxCommands <- 4,
  Editions <- << [index |-> <<Part(1, 1), Part(0, 0), Part(2, 1), Part(4, 1)>>, bytes |-> 5, header |-> 1],
                 [index |-> <<Part(1, 2), Part(0, 0), Part(3, 1), Part(4, 2)>>, bytes |-> 6, header |-> 1],
                 [index |-> <<Part(1, 1), Part(2, 1), Part(3, 2), Part(5, 2)>>, bytes |-> 7, header |-> 1] >>,
  edition <- s1, job <- s2, plan <- s3, out <- s4, replay <- s5, commands <- s6

\* A frame that stands alone, and one of a chain that was cut from `whole`.
Alone(d) == [data |-> d, index |-> None, total |-> None, hash |-> None, next |-> <<>>, whole |-> d]
Cut(d, i, next, whole) == [data |-> d, index |-> i, total |-> 3, hash |-> whole, next |-> next, whole |-> whole]
Frame(f) == [kind |-> "frame", frame |-> f]
Paid(data, meta, slot, i) == [kind |-> "tx", data |-> data, meta |-> meta, slot |-> slot, index |-> i]
Entry(t) == [kind |-> "entry", txs |-> <<t>>]
Rewards(slot) == [kind |-> "rewards", slot |-> slot, frame |-> Alone(<<0>>)]
Block(slot, parent, entries, rewards) ==
  [kind |-> "block", slot |-> slot, parent |-> parent, entries |-> entries, rewards |-> rewards]
\* The file, and nodes a change may put in the place of others.
Blocks == INSTANCE ArchiveBlocks WITH
  Nodes <- [ f1 |-> Frame(Cut(<<2>>, 1, <<>>, <<1, 2, 3>>)), f2 |-> Frame(Cut(<<3>>, 2, <<>>, <<1, 2, 3>>)),
             g1 |-> Frame(Alone(<<6>>)),
             a |-> Paid(Cut(<<1>>, 0, <<"f1", "f2">>, <<1, 2, 3>>), Alone(<<4>>), 5, 0),
             b |-> Paid([Alone(<<5>>) EXCEPT !.next = <<"g1">>, !.whole = <<5, 6>>], Alone(<<7>>), 5, 1),
             c |-> Paid(Alone(<<8>>), Alone(<<9>>), 6, 0), x |-> Paid(Alone(<<8>>), Alone(<<9>>), 5, 2),
             e1 |-> Entry("a"), e2 |-> Entry("b"), e3 |-> Entry("c"), r1 |-> Rewards(5), r2 |-> Rewards(6),
             b1 |-> Block(5, 4, <<"e1", "e2">>, "r1"), b2 |-> Block(6, 5, <<"e3">>, "r2"),
             ba |-> Block(5, 4, <<"e2", "e1">>, "r1"), bb |-> Block(6, 6, <<"e3">>, "r2"),
             bc |-> Block(6, 5, <<"e3">>, "r1"), o |-> [kind |-> "other"] ],
  Written <- <<"f1", "f2", "g1", "a", "b", "e1", "e2", "r1", "b1", "c", "e3", "r2", "b2">>,
  Slots <- {5, 6}, MaxData <- 9, MaxDamage <- 2, car <- s1, damage <- s2

\* The file is in neither the order of the chain nor that of time.
Seen(order, time) == [order |-> order, time |-> time]
Curve(order, trade, complete) == [order |-> order, trade |-> trade, complete |-> complete]
Replay == INSTANCE MetricReplay WITH
  Table <- [a |-> Seen(1, 1), b |-> Seen(2, 3), c |-> Seen(3, 2), d |-> Seen(4, 5)],
  FxTimes <- {1, 2, 3}, ChartTimes <- {1, 2, 3, 5},
  Points <- [x |-> Curve(1, "a", FALSE), y |-> Curve(2, "b", TRUE), z |-> Curve(3, "a", FALSE)],
  MaxTrades <- 3, MaxPoints <- 2, Day <- 4, Bucket <- 2, Writers <- Pair, Files <- 2,
  input <- s1, writer <- s2, out <- s3

-----------------------------------------------------------------------------
OfficeVars == <<part, vars, LedgerVars, RecoveryVars, s1, s2, s3, s4, s5, s6, s7, s8>>

Off8 == s8 = Off
Off7 == s7 = Off /\ Off8
Off6 == s6 = Off /\ Off7
Off4 == s4 = Off /\ s5 = Off /\ Off6
Off3 == s3 = Off /\ Off4
Off2 == s2 = Off /\ Off3

OfficeInit ==
  /\ part \in {"delivery", "wallet", "feed", "pump", "fx", "ledger",
               "extract", "blocks", "recovery", "metrics"}
  /\ Init /\ LedgerInit /\ RecoveryInit
  /\ part # "delivery" => \A d \in Deliveries : delivery[d].channel = "telegram"
  /\ \/ part \in {"delivery", "ledger", "recovery"} /\ s1 = Off /\ Off2
     \/ part = "wallet" /\ Wallet!Init /\ Off8
     \/ part = "feed" /\ Feed!Init
     \/ part = "pump" /\ Pump!PumpInit /\ Off2
     \/ part = "fx" /\ Fx!FxInit /\ Off2
     \/ part = "extract" /\ Extract!Init /\ Off7
     \/ part = "blocks" /\ Blocks!BlocksInit /\ Off3
     \/ part = "metrics" /\ Replay!Init /\ Off4

OfficeNext ==
  /\ UNCHANGED part
  /\ \/ /\ \/ part = "delivery" /\ Next /\ UNCHANGED <<LedgerVars, RecoveryVars>>
           \/ part = "ledger" /\ LedgerNext /\ UNCHANGED <<vars, RecoveryVars>>
           \/ part = "recovery" /\ RecoveryNext /\ UNCHANGED <<vars, LedgerVars>>
        /\ UNCHANGED <<s1, s2, s3, s4, s5, s6, s7, s8>>
     \/ /\ UNCHANGED <<vars, LedgerVars, RecoveryVars>>
        /\ \/ part = "wallet" /\ Wallet!Next /\ UNCHANGED s8
           \/ part = "feed" /\ Feed!Next
           \/ part = "pump" /\ Pump!PumpNext /\ UNCHANGED <<s2, s3, s4, s5, s6, s7, s8>>
           \/ part = "fx" /\ Fx!FxNext /\ UNCHANGED <<s2, s3, s4, s5, s6, s7, s8>>
           \/ part = "extract" /\ Extract!Next /\ UNCHANGED <<s7, s8>>
           \/ part = "blocks" /\ Blocks!BlocksNext /\ UNCHANGED <<s3, s4, s5, s6, s7, s8>>
           \/ part = "metrics" /\ Replay!Next /\ UNCHANGED <<s4, s5, s6, s7, s8>>

OfficeSpec == OfficeInit /\ [][OfficeNext]_OfficeVars

OfficeSymmetry == Permutations(Pair)

-----------------------------------------------------------------------------
\* What is heard of a mint or of a watched wallet is accepted once, as it was sent,
\* and derived from what was known at its time (FeedIngest, PumpLifecycle, FxTape,
\* WalletIndexer, MetricReplay).
TapeIsTrue ==
  /\ part = "wallet" => Wallet!WalletIsTrue
  /\ part = "feed" => Feed!FeedIsTrue
  /\ part = "pump" => Pump!LifecycleHolds
  /\ part = "fx" => Fx!TapeIsTrue
  /\ part = "metrics" => Replay!ReplayIsTrue

\* What is read from an archive is what was written to it (ArchiveExtract,
\* ArchiveBlocks).
CorpusIsTrue ==
  /\ part = "extract" => Extract!CorpusIsTrue
  /\ part = "blocks" => Blocks!ReadIsWhole
=============================================================================
