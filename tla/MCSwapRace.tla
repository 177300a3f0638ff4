----------------------------- MODULE MCSwapRace ------------------------------
(***************************************************************************)
(* Instances for TLC of the race of two swaps for one quote, and of what   *)
(* a page shows: the browser's session, the live pages and the connection  *)
(* that feeds them.  They share no state and one run for its room only:    *)
(* each behaviour is about one part, and the others rest.                  *)
(*                                                                         *)
(*   race      two keys, one quote, two clients, two batches               *)
(*   session   two tabs and two users, one reload                          *)
(*   fanout    two listeners, two streams, three entries, one failed read  *)
(*   page      two intervals, three buckets, three trades, a tape and a    *)
(*             chart of two, one lost link                                 *)
(*   view      two trades replayed, one seek, one lost link, one control   *)
(*                                                                         *)
(* As one page runs at a time, their variables are stored in s1, s2, ...,  *)
(* which are Off where a page has fewer.  The tabs, listeners and users    *)
(* are the names of clients and batches, which are symmetric as well.      *)
(***************************************************************************)
EXTENDS SwapExecution, Sequences, TLC

CONSTANTS Off, None

VARIABLES part, s1, s2, s3, s4, s5, s6, s7, s8, s9, s10, s11, s12, s13, s14

Session == INSTANCE WebSession WITH
  Tabs <- Clients, Users <- Batches, MaxRequests <- 4, MaxReloads <- 1,
  page <- s1, stored <- s2, reqs <- s3, made <- s4, rev <- s5, expired <- s6, reloads <- s7,
  crossed <- s8, behind <- s9, told <- s10, resting <- s11

Fanout == INSTANCE MarketFanout WITH
  Listeners <- Clients, Tokens <- {"t1"}, Streams <- {"trades", "states"}, StateStream <- "states",
  MaxLog <- 3, MaxFrames <- 2, MaxErrors <- 1,
  log <- s1, run <- s2, running <- s3, sink <- s4, got <- s5, heard <- s6, errors <- s7, closed <- s8

Page == INSTANCE LivePage WITH
  Intervals <- {"minute", "hour"}, Buckets <- 1 .. 3, FirstBucket <- 2, MaxEvents <- 3,
  MaxQueue <- 4, MaxTape <- 2, MaxChart <- 2, MaxFetch <- 1, MaxChanges <- 2, MaxBreaks <- 1,
  market <- s1, candle <- s2, wire <- s3, source <- s4, interval <- s5, get <- s6, queue <- s7,
  timer <- s8, chart <- s9, tape <- s10, missed <- s11, newest <- s12, changes <- s13, breaks <- s14

\* One maker buys and sells again.
Replay == INSTANCE ReplayView WITH
  Trades <- << [maker |-> "m", buys |-> TRUE, amount |-> 2, at |-> 1, price |-> 3],
               [maker |-> "m", buys |-> FALSE, amount |-> 1, at |-> 1, price |-> 2] >>,
  HistoryLimit <- 2, Preview <- 1, MaxPending <- 3, MaxEpoch <- 2, MaxBreaks <- 1, MaxControls <- 1,
  srv <- s1, link <- s2, worker <- s3, view <- s4, range <- s5, control <- s6, get <- s7,
  breaks <- s8, controls <- s9, reached <- s10, fell <- s11, mixed <- s12

-----------------------------------------------------------------------------
Stores == <<s1, s2, s3, s4, s5, s6, s7, s8, s9, s10, s11, s12, s13, s14>>
RaceVars == <<part, vars, Stores>>

Off14 == s14 = Off
Off13 == s13 = Off /\ Off14
Off12 == s12 = Off /\ Off13
Off9 == s9 = Off /\ s10 = Off /\ s11 = Off /\ Off12
Off1 == /\ s1 = Off /\ s2 = Off /\ s3 = Off /\ s4 = Off /\ s5 = Off /\ s6 = Off
        /\ s7 = Off /\ s8 = Off /\ Off9

RaceInit ==
  /\ part \in {"race", "session", "fanout", "page", "view"}
  /\ Init
  /\ \/ part = "race" /\ Off1
     \/ part = "session" /\ Session!Init /\ Off12
     \/ part = "fanout" /\ Fanout!Init /\ Off9
     \/ part = "page" /\ Page!Init
     \/ part = "view" /\ Replay!Init /\ Off13

RaceNext ==
  /\ UNCHANGED part
  /\ \/ part = "race" /\ Next /\ UNCHANGED Stores
     \/ /\ \/ part = "session" /\ Session!Next /\ UNCHANGED <<s12, s13, s14>>
           \/ part = "fanout" /\ Fanout!Next /\ UNCHANGED <<s9, s10, s11, s12, s13, s14>>
           \/ part = "page" /\ Page!Next
           \/ part = "view" /\ Replay!Next /\ UNCHANGED <<s13, s14>>
        /\ UNCHANGED vars

RaceSpec == RaceInit /\ [][RaceNext]_RaceVars

RaceSymmetry == Permutations(Clients) \cup Permutations(Batches)

-----------------------------------------------------------------------------
\* A tab shows the user whose token it sends (WebSession); what was sent is shown, whole
\* and in order, or is announced to be missing (MarketFanout, LivePage, ReplayView).
PagesAreTrue ==
  /\ part = "session" => Session!SessionIsTrue
  /\ part = "fanout" => Fanout!FanoutIsTrue
  /\ part = "page" => Page!PageIsTrue
  /\ part = "view" => Replay!ViewIsTrue
=============================================================================
