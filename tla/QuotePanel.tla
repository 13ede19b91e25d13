----------------------------- MODULE QuotePanel -----------------------------
(***************************************************************************)
(* The quotes a trader sees before opening a position: the component       *)
(* RightBox, the proxy it asks for the price, and the views of TradeX it   *)
(* calls through the wallet.  The price service, the transport and the     *)
(* wallet are external.                                                    *)
(*                                                                         *)
(* Each edit of an input asks the proxy for the price; answers arrive in   *)
(* any order.  A price that differs from the one shown starts a run of     *)
(* three calls, one after the other, that set one quote each.  Runs overlap*)
(* and their calls are answered in any order.  A quote is modelled by the  *)
(* run that set it, as the amounts it is computed from.                    *)
(***************************************************************************)
EXTENDS Naturals, Sequences, SequencesExt, BagsExt

CONSTANTS
  Prices,                \* prices after rounding to cents, positive
  DaiInputs, EthInputs,  \* positive amounts
  MaxEdits               \* bound on the edits of the inputs

ASSUME BoundIsNatural == MaxEdits \in Nat

VARIABLES
  daiInput, ethInput, ethPrice,  \* 0 until they are set
  quotes,   \* leverage, exitPrice and positionFee: the run that set each
  runs,     \* the runs of the effect on [ethPrice] in flight
  newest,   \* the run started last
  asked,    \* requests the proxy waits for the price service with
  answers,  \* bag of the prices on their way to the page
  market,   \* what the price service would answer now
  edits,    \* edits so far
  slips     \* history: what went wrong since the newest run started

inputVars == <<daiInput, ethInput>>
runVars == <<runs, newest>>
vars == <<inputVars, ethPrice, quotes, runVars, asked, answers, market, edits, slips>>

Fields == <<"leverage", "exitPrice", "positionFee">>
Slip == {"unanswered", "unchanged", "rejected", "overtaken"}

\* no orders the runs by their start; done counts the fields a run has set.
Run == [no : Nat, price : Prices, dai : DaiInputs, eth : EthInputs]
NoRun == [no |-> 0, price |-> 0, dai |-> 0, eth |-> 0]

TypeOK ==
  /\ daiInput \in DaiInputs \cup {0} /\ ethInput \in EthInputs \cup {0}
  /\ ethPrice \in Prices \cup {0}
  /\ quotes \in [Range(Fields) -> Run \cup {NoRun}]
  /\ \A r \in runs : r.run \in Run /\ r.done \in 0..2
  /\ newest \in Run \cup {NoRun}
  /\ asked \in 0..MaxEdits
  /\ BagToSet(answers) \subseteq Prices
  /\ market \in Prices /\ edits \in 0..MaxEdits /\ slips \subseteq Slip

Init ==
  /\ daiInput = 0 /\ ethInput = 0 /\ ethPrice = 0
  /\ quotes = [f \in Range(Fields) |-> NoRun]
  /\ runs = {} /\ newest = NoRun
  /\ asked = 0 /\ answers = EmptyBag
  /\ market \in Prices
  /\ edits = 0 /\ slips = {}

-----------------------------------------------------------------------------
(* The inputs                                                              *)

Complete == daiInput # 0 /\ ethInput # 0

Edit_AsksOnDai(dai, eth) ==
  /\ <<dai, eth>> # <<daiInput, ethInput>> /\ (dai = daiInput \/ eth = ethInput)
  /\ edits < MaxEdits /\ edits' = edits + 1
  /\ daiInput' = dai /\ ethInput' = eth
  /\ asked' = IF dai # daiInput /\ dai # 0 /\ eth # 0 THEN asked + 1 ELSE asked
  /\ UNCHANGED <<ethPrice, quotes, runVars, answers, market, slips>>

\* setDaiInput or setEthInput with the effect on [daiInput, ethInput].
Edit(dai, eth) ==
  /\ <<dai, eth>> # <<daiInput, ethInput>> /\ (dai = daiInput \/ eth = ethInput)
  /\ edits < MaxEdits /\ edits' = edits + 1
  /\ daiInput' = dai /\ ethInput' = eth
  /\ asked' = IF dai # 0 /\ eth # 0 THEN asked + 1 ELSE asked
  /\ UNCHANGED <<ethPrice, quotes, runVars, answers, market, slips>>
-----------------------------------------------------------------------------
(* The proxy                                                               *)

MarketMoves ==
  /\ market' \in Prices \ {market}
  /\ UNCHANGED <<inputVars, ethPrice, quotes, runVars, asked, answers, edits, slips>>

ProxySends ==
  /\ asked > 0 /\ asked' = asked - 1
  /\ answers' = BagAdd(answers, market)
  /\ UNCHANGED <<inputVars, ethPrice, quotes, runVars, market, edits, slips>>

\* The price service fails or its answer lacks RAW.ETH.USD: logged, and no
\* response is ever sent.
ProxyKeepsSilent ==
  /\ asked > 0 /\ asked' = asked - 1
  /\ slips' = slips \cup {"unanswered"}
  /\ UNCHANGED <<inputVars, ethPrice, quotes, runVars, answers, market, edits>>
-----------------------------------------------------------------------------
(* The quotes                                                              *)

RunAt(no, price) == [no |-> no, price |-> price, dai |-> daiInput, eth |-> ethInput]

\* A run computes everything from the inputs of the render it starts in.
StartRun(price) ==
  IF Complete
  THEN /\ newest' = RunAt(newest.no + 1, price)
       /\ runs' = runs \cup {[run |-> newest', done |-> 0]}
       /\ slips' = {}
  ELSE UNCHANGED <<runVars, slips>>

\* The effect does not run.  Only the inputs may have changed since a run.
KeepQuotes ==
  /\ slips' = IF Complete /\ newest # RunAt(newest.no, ethPrice)
              THEN slips \cup {"unchanged"} ELSE slips
  /\ UNCHANGED runVars

\* setEthPrice with the effect on [ethPrice].
ReceivePrice(price) ==
  /\ BagIn(price, answers)
  /\ answers' = BagRemove(answers, price)
  /\ ethPrice' = price
  /\ IF price # ethPrice THEN StartRun(price) ELSE KeepQuotes
  /\ UNCHANGED <<inputVars, quotes, asked, market, edits>>

Advance_SkipsFee(r) ==
  (runs \ {r}) \cup (IF r.done = 1 THEN {} ELSE {[r EXCEPT !.done = @ + 1]})

Advance(r) ==
  (runs \ {r}) \cup (IF r.done = 2 THEN {} ELSE {[r EXCEPT !.done = @ + 1]})

\* The await of run r returns and its setState follows.
CallReturns(r) ==
  LET f == Fields[r.done + 1]
  IN  /\ quotes' = [quotes EXCEPT ![f] = r.run]
      /\ slips' = IF quotes[f] = newest THEN slips \cup {"overtaken"} ELSE slips
      /\ runs' = Advance(r)
      /\ UNCHANGED <<inputVars, ethPrice, newest, asked, answers, market, edits>>

\* No signer, no account, a revert of TradeX: nothing else of the run follows.
CallRejected(r) ==
  /\ runs' = runs \ {r}
  /\ slips' = IF r.run = newest THEN slips \cup {"rejected"} ELSE slips
  /\ UNCHANGED <<inputVars, ethPrice, quotes, newest, asked, answers, market, edits>>

ProxyStep == ProxySends \/ ProxyKeepsSilent
PageReceives == \E p \in Prices : ReceivePrice(p)
WalletStep == \E r \in runs : CallReturns(r) \/ CallRejected(r)

Next ==
  \/ \E dai \in DaiInputs \cup {0}, eth \in EthInputs \cup {0} : Edit(dai, eth)
  \/ MarketMoves \/ ProxyStep \/ PageReceives \/ WalletStep

\* The price service ends every lookup with an answer or an error, what the
\* proxy sends arrives, and the wallet ends every call.
Spec ==
  /\ Init /\ [][Next]_vars
  /\ WF_vars(ProxyStep) /\ WF_vars(PageReceives) /\ WF_vars(WalletStep)
-----------------------------------------------------------------------------
(* Properties                                                              *)

Settled == asked = 0 /\ answers = EmptyBag /\ runs = {}

\* Every quote shown is of the price and the inputs shown.
Current ==
  \A f \in Range(Fields) : quotes[f] = RunAt(quotes[f].no, ethPrice)

(* A panel at rest shows quotes of the price and the inputs it shows, all  *)
(* three alike, unless since the newest run a request was left unanswered, *)
(* the price came back unchanged for other inputs, a call of that run was  *)
(* rejected, or an earlier run wrote over it: no other order of edits,     *)
(* answers and calls leaves it wrong.                                      *)
RestIsCurrent == Settled /\ Complete /\ slips = {} => Current

(* The quotes of an edit appear in the end, unless one of these four things*)
(* happens or the inputs are cleared.                                      *)
EditsAreQuoted ==
  Complete /\ ~Current ~> Current \/ ~Complete \/ slips # {}
=============================================================================
