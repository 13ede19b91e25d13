------------------------- MODULE QuotePanel_proofs --------------------------
(***************************************************************************)
(* Proofs about QuotePanel: the types, and what a panel at rest shows, for *)
(* any prices, any inputs and any number of edits, answers and runs in     *)
(* flight.                                                                 *)
(***************************************************************************)
EXTENDS QuotePanel, TLAPS

(* No more is asked than was edited, and each run in flight is a record of *)
(* the run and of how many fields it has set.                              *)
PanelInv ==
  /\ TypeOK
  /\ asked <= edits
  /\ runs \subseteq [run : Run, done : 0..2]

\* The newest run has still to set the i-th quote.
Awaits(i) == \E r \in runs : r.run = newest /\ r.done < i

(* Until a call of the newest run is rejected or another run writes over   *)
(* it, each quote is the newest run's or that run has still to set it.     *)
NewestArrives ==
  slips \cap {"rejected", "overtaken"} = {}
    => \A i \in DOMAIN Fields : quotes[Fields[i]] = newest \/ Awaits(i)

(* With no request and no answer under way, the newest run is of the price *)
(* and the inputs shown, unless one of them was left unanswered or came    *)
(* back unchanged.                                                         *)
NewestIsCurrent ==
  asked = 0 /\ answers = EmptyBag /\ Complete /\ slips \cap {"unanswered", "unchanged"} = {}
    => newest = RunAt(newest.no, ethPrice)

RestInv == PanelInv /\ NewestArrives /\ NewestIsCurrent

-----------------------------------------------------------------------------
(* What is under way                                                       *)

(* The three fields, by their place.                                       *)
LEMMA FieldsByPlace ==
  /\ DOMAIN Fields = 1..3
  /\ Range(Fields) = {"leverage", "exitPrice", "positionFee"}
  /\ \A i \in 1..3 : Fields[i] \in Range(Fields)
  /\ \A i, j \in 1..3 : Fields[i] = Fields[j] => i = j
BY DEF Fields, Range

(* An answer that is sent is under way, and it is one of those sent.       *)
LEMMA AnswerSent ==
  ASSUME NEW B, NEW p
  PROVE  /\ BagAdd(B, p) # EmptyBag
         /\ BagToSet(BagAdd(B, p)) = BagToSet(B) \cup {p}
BY DEF BagAdd, EmptyBag, SetToBag, BagToSet

(* Receiving an answer brings no other one.                                *)
LEMMA AnswerReceived ==
  ASSUME NEW B, NEW p
  PROVE  BagToSet(BagRemove(B, p)) \subseteq BagToSet(B)
BY DEF BagRemove, BagToSet

(* A call of a run that returns leaves every other run as it is, and the   *)
(* run itself in flight unless that was its last call.                     *)
LEMMA AdvanceKeeps ==
  ASSUME NEW r \in runs, r \in [run : Run, done : 0..2]
  PROVE  /\ \A s \in runs \ {r} : s \in Advance(r)
         /\ r.done # 2 => [run |-> r.run, done |-> r.done + 1] \in Advance(r)
         /\ runs \subseteq [run : Run, done : 0..2] =>
              Advance(r) \subseteq [run : Run, done : 0..2]
<1>1. [r EXCEPT !.done = @ + 1] = [run |-> r.run, done |-> r.done + 1]
  OBVIOUS
<1>2. r.done # 2 => [run |-> r.run, done |-> r.done + 1] \in [run : Run, done : 0..2]
  OBVIOUS
<1> QED
  BY <1>1, <1>2 DEF Advance

-----------------------------------------------------------------------------
(* Types                                                                   *)

(* Every step keeps the types: what is asked is bounded by the edits, as   *)
(* only an edit asks, and a run that goes on has fields left to set.       *)
LEMMA PanelInvKept ==
  ASSUME PanelInv, [Next]_vars
  PROVE  PanelInv'
<1> USE BoundIsNatural DEF PanelInv, TypeOK
<1>1. CASE \E dai \in DaiInputs \cup {0}, eth \in EthInputs \cup {0} : Edit(dai, eth)
  BY <1>1 DEF Edit, runVars
<1>2. CASE MarketMoves
  BY <1>2 DEF MarketMoves, inputVars, runVars
<1>3. CASE ProxySends
  BY <1>3, AnswerSent DEF ProxySends, inputVars, runVars
<1>4. CASE ProxyKeepsSilent
  BY <1>4 DEF ProxyKeepsSilent, inputVars, runVars, Slip
<1>5. ASSUME NEW p \in Prices, ReceivePrice(p)
      PROVE  PanelInv'
  <2>1. CASE p # ethPrice /\ Complete
    <3>1. newest' = RunAt(newest.no + 1, p) /\ runs' = runs \cup {[run |-> newest', done |-> 0]}
          /\ slips' = {}
      BY <1>5, <2>1 DEF ReceivePrice, StartRun
    <3>2. newest.no \in Nat
      BY DEF Run, NoRun
    <3>3. newest' \in Run
      BY <2>1, <3>1, <3>2 DEF RunAt, Run, Complete
    <3> QED
      BY <1>5, <3>1, <3>3, AnswerReceived DEF ReceivePrice, inputVars, Slip
  <2>2. CASE ~(p # ethPrice /\ Complete)
    <3>1. runs' = runs /\ newest' = newest /\ slips' \subseteq Slip
      BY <1>5, <2>2 DEF ReceivePrice, StartRun, KeepQuotes, runVars, Slip
    <3> QED
      BY <1>5, <3>1, AnswerReceived DEF ReceivePrice, inputVars
  <2> QED
    BY <2>1, <2>2
<1>6. ASSUME NEW r \in runs, CallReturns(r)
      PROVE  PanelInv'
  <2>1. r \in [run : Run, done : 0..2]
    OBVIOUS
  <2>2. runs' \subseteq [run : Run, done : 0..2]
    BY <1>6, <2>1, AdvanceKeeps DEF CallReturns
  <2>3. quotes' \in [Range(Fields) -> Run \cup {NoRun}]
    BY <1>6, <2>1 DEF CallReturns
  <2>4. slips' \subseteq Slip
    BY <1>6 DEF CallReturns, Slip
  <2> QED
    BY <1>6, <2>2, <2>3, <2>4 DEF CallReturns, inputVars
<1>7. ASSUME NEW r \in runs, CallRejected(r)
      PROVE  PanelInv'
  BY <1>7 DEF CallRejected, inputVars, Slip
<1>8. CASE UNCHANGED vars
  BY <1>8 DEF vars, inputVars, runVars
<1> QED
  BY <1>1, <1>2, <1>3, <1>4, <1>5, <1>6, <1>7, <1>8
     DEF Next, ProxyStep, PageReceives, WalletStep

-----------------------------------------------------------------------------
(* What a panel at rest shows                                              *)

(* The quotes of the newest run keep arriving: a new run has all of them   *)
(* still to set, and a call sets one that its run need not set again.      *)
LEMMA NewestArrivesKept ==
  ASSUME PanelInv, NewestArrives, [Next]_vars
  PROVE  NewestArrives'
<1>1. CASE UNCHANGED <<quotes, runs, newest>> /\ slips \subseteq slips'
  BY <1>1 DEF NewestArrives, Awaits
<1>2. ASSUME NEW p \in Prices, ReceivePrice(p), p # ethPrice, Complete
      PROVE  NewestArrives'
  <2>1. [run |-> newest', done |-> 0] \in runs'
    BY <1>2 DEF ReceivePrice, StartRun
  <2>2. \A i \in 1..3 : Awaits(i)'
    BY <2>1 DEF Awaits
  <2> QED
    BY <2>2, FieldsByPlace DEF NewestArrives
<1>3. ASSUME NEW r \in runs, CallReturns(r)
      PROVE  NewestArrives'
  <2> DEFINE f == Fields[r.done + 1]
  <2>1. r \in [run : Run, done : 0..2]
    BY DEF PanelInv
  <2>2. r.done + 1 \in 1..3 /\ r.done \in 0..2
    BY <2>1
  <2>3. quotes' = [quotes EXCEPT ![f] = r.run] /\ runs' = Advance(r) /\ newest' = newest
    BY <1>3 DEF CallReturns
  <2>4. /\ slips \subseteq slips'
        /\ quotes[f] = newest => "overtaken" \in slips'
    BY <1>3 DEF CallReturns
  <2>5. quotes \in [Range(Fields) -> Run \cup {NoRun}]
    BY DEF PanelInv, TypeOK
  <2>6. SUFFICES ASSUME slips' \cap {"rejected", "overtaken"} = {}, NEW i \in 1..3
                 PROVE  quotes'[Fields[i]] = newest \/ Awaits(i)'
    BY <2>3, FieldsByPlace DEF NewestArrives
  <2>7. \A j \in 1..3 : quotes[Fields[j]] = newest \/ Awaits(j)
    BY <2>4, <2>6, FieldsByPlace DEF NewestArrives
  <2>8. quotes[f] # newest
    BY <2>4, <2>6
  <2>9. CASE r.run = newest
    <3>1. CASE i = r.done + 1
      BY <2>2, <2>3, <2>5, <2>9, <3>1, FieldsByPlace
    <3>2. CASE i > r.done + 1
      <4>1. r.done # 2
        BY <2>2, <2>6, <3>2
      <4>2. [run |-> newest, done |-> r.done + 1] \in runs'
        BY <2>1, <2>3, <2>9, <4>1, AdvanceKeeps
      <4> QED
        BY <2>3, <3>2, <4>2 DEF Awaits
    <3>3. CASE i < r.done + 1
      <4>1. quotes'[Fields[i]] = quotes[Fields[i]]
        BY <2>2, <2>3, <2>5, <2>6, <3>3, FieldsByPlace
      <4>2. ASSUME Awaits(i)
            PROVE  Awaits(i)'
        <5>1. PICK s \in runs : s.run = newest /\ s.done < i
          BY <4>2 DEF Awaits
        <5>2. s \in [run : Run, done : 0..2]
          BY DEF PanelInv
        <5>3. s # r
          BY <2>2, <2>6, <3>3, <5>1, <5>2
        <5> QED
          BY <2>1, <2>3, <5>1, <5>3, AdvanceKeeps DEF Awaits
      <4> QED
        BY <2>7, <4>1, <4>2
    <3> QED
      BY <2>2, <2>6, <3>1, <3>2, <3>3
  <2>10. CASE r.run # newest
    <3>1. \A j \in 1..3 : Awaits(j) => Awaits(j)'
      BY <2>1, <2>3, <2>10, AdvanceKeeps DEF Awaits
    <3>2. CASE i = r.done + 1
      BY <2>7, <2>8, <3>1, <3>2
    <3>3. CASE i # r.done + 1
      <4>1. quotes'[Fields[i]] = quotes[Fields[i]]
        BY <2>2, <2>3, <2>5, <2>6, <3>3, FieldsByPlace
      <4> QED
        BY <2>7, <3>1, <4>1
    <3> QED
      BY <3>2, <3>3
  <2> QED
    BY <2>9, <2>10
<1>4. ASSUME NEW r \in runs, CallRejected(r)
      PROVE  NewestArrives'
  <2>1. runs' = runs \ {r} /\ quotes' = quotes /\ newest' = newest /\ slips \subseteq slips'
    BY <1>4 DEF CallRejected
  <2>2. CASE r.run = newest
    BY <1>4, <2>2 DEF CallRejected, NewestArrives
  <2>3. CASE r.run # newest
    BY <2>1, <2>3 DEF NewestArrives, Awaits
  <2> QED
    BY <2>2, <2>3
<1>5. ASSUME NEW p \in Prices, ReceivePrice(p), ~(p # ethPrice /\ Complete)
      PROVE  NewestArrives'
  BY <1>1, <1>5 DEF ReceivePrice, StartRun, KeepQuotes, runVars
<1>6. ASSUME NEW dai, NEW eth, Edit(dai, eth)
      PROVE  NewestArrives'
  BY <1>1, <1>6 DEF Edit, runVars
<1>7. CASE MarketMoves \/ ProxyStep \/ UNCHANGED vars
  BY <1>1, <1>7 DEF MarketMoves, ProxyStep, ProxySends, ProxyKeepsSilent, vars, runVars
<1> QED
  BY <1>2, <1>3, <1>4, <1>5, <1>6, <1>7 DEF Next, PageReceives, WalletStep

(* The newest run stays the one of what is shown: an edit that leaves both *)
(* inputs set asks again, and an answer either starts a run or confirms    *)
(* the price of the last one.                                              *)
LEMMA NewestIsCurrentKept ==
  ASSUME PanelInv, NewestIsCurrent, [Next]_vars
  PROVE  NewestIsCurrent'
<1>1. ASSUME NEW dai, NEW eth, Edit(dai, eth)
      PROVE  NewestIsCurrent'
  <2>1. asked \in Nat
    BY BoundIsNatural DEF PanelInv, TypeOK
  <2>2. Complete' => asked' # 0
    BY <1>1, <2>1 DEF Edit, Complete
  <2> QED
    BY <2>2 DEF NewestIsCurrent
<1>2. CASE ProxySends
  BY <1>2, AnswerSent DEF ProxySends, NewestIsCurrent
<1>3. CASE ProxyKeepsSilent
  BY <1>3 DEF ProxyKeepsSilent, NewestIsCurrent
<1>4. ASSUME NEW p \in Prices, ReceivePrice(p)
      PROVE  NewestIsCurrent'
  <2>1. ethPrice' = p /\ daiInput' = daiInput /\ ethInput' = ethInput /\ (Complete' <=> Complete)
    BY <1>4 DEF ReceivePrice, inputVars, Complete
  <2>2. CASE p # ethPrice /\ Complete
    <3>1. newest' = RunAt(newest.no + 1, p)
      BY <1>4, <2>2 DEF ReceivePrice, StartRun
    <3> QED
      BY <2>1, <3>1 DEF NewestIsCurrent, RunAt
  <2>3. CASE ~Complete
    BY <2>1, <2>3 DEF NewestIsCurrent
  <2>4. CASE p = ethPrice /\ Complete
    <3>1. newest' = newest /\ (newest # RunAt(newest.no, ethPrice) => "unchanged" \in slips')
      BY <1>4, <2>4 DEF ReceivePrice, KeepQuotes, runVars
    <3>2. RunAt(newest.no, ethPrice)' = RunAt(newest.no, ethPrice)
      BY <2>1, <2>4, <3>1 DEF RunAt
    <3> QED
      BY <3>1, <3>2 DEF NewestIsCurrent
  <2> QED
    BY <2>2, <2>3, <2>4
<1>5. CASE \/ MarketMoves \/ UNCHANGED vars
           \/ \E r \in runs : CallReturns(r) \/ CallRejected(r)
  <2>1. /\ UNCHANGED <<daiInput, ethInput, ethPrice, asked, answers, newest>>
        /\ slips \subseteq slips'
    BY <1>5 DEF MarketMoves, CallReturns, CallRejected, vars, inputVars, runVars
  <2> QED
    BY <2>1 DEF NewestIsCurrent, Complete, RunAt
<1> QED
  BY <1>1, <1>2, <1>3, <1>4, <1>5 DEF Next, ProxyStep, PageReceives, WalletStep

-----------------------------------------------------------------------------
(* The theorems                                                            *)

(* The invariant holds initially: nothing is shown, asked or under way.    *)
LEMMA RestInvInit == Init => RestInv
<1> SUFFICES ASSUME Init PROVE RestInv
  OBVIOUS
<1>1. PanelInv
  BY BoundIsNatural DEF Init, PanelInv, TypeOK, EmptyBag, SetToBag, BagToSet
<1>2. NewestArrives
  BY FieldsByPlace DEF Init, NewestArrives
<1>3. NewestIsCurrent
  BY DEF Init, NewestIsCurrent, Complete
<1> QED
  BY <1>1, <1>2, <1>3 DEF RestInv

(* The invariant holds throughout, for any prices and inputs and any       *)
(* number of edits (RightBox's effects, the proxy and the wallet).         *)
THEOREM RestInvariant == Spec => []RestInv
<1>1. RestInv /\ [Next]_vars => RestInv'
  BY PanelInvKept, NewestArrivesKept, NewestIsCurrentKept DEF RestInv
<1> QED
  BY RestInvInit, <1>1, PTL DEF Spec

(* Inputs, price, quotes, runs, requests and answers keep their types.     *)
THEOREM QuoteTypeCorrect == Spec => []TypeOK
<1>1. RestInv => TypeOK
  BY DEF RestInv, PanelInv
<1> QED
  BY RestInvariant, <1>1, PTL

(* A panel at rest shows three quotes of the price and the inputs it shows *)
(* unless one of the four slips happened since its newest run started.     *)
THEOREM QuotesRestCurrent == Spec => []RestIsCurrent
<1>1. RestInv => RestIsCurrent
  <2> SUFFICES ASSUME RestInv, Settled, Complete, slips = {}
               PROVE  Current
    BY DEF RestIsCurrent
  <2>1. newest = RunAt(newest.no, ethPrice)
    BY DEF RestInv, NewestIsCurrent, Settled
  <2>2. \A i \in DOMAIN Fields : quotes[Fields[i]] = newest
    BY DEF RestInv, NewestArrives, Settled, Awaits
  <2>3. \A f \in Range(Fields) : quotes[f] = newest
    BY <2>2 DEF Range
  <2> QED
    BY <2>1, <2>3 DEF Current
<1> QED
  BY RestInvariant, <1>1, PTL
=============================================================================
