-------------------------------- MODULE SwapPage --------------------------------
(***************************************************************************)
(* The page that swaps one asset for another: a form whose quote is        *)
(* fetched when its inputs have rested, a confirmation, and a submission   *)
(* for which the worker looks the path up again.                           *)
(***************************************************************************)
EXTENDS Naturals

CONSTANTS
    Trades,         \* pair of assets and amount
    NativeFrom,     \* each trade, from XLM instead
    NoTrade,        \* a form without an amount or a second asset
    Slippages,      \* the settings, as the part of the price in quarters that may be lost
    Prices,         \* what the best path yields
    NoQuote,
    MaxQuotes,      \* bound: quotes fetched
    MaxSwaps,       \* bound: swaps submitted
    MaxMoves        \* bound: changes of the price

(* Swap.tsx accepts a slippage of at most half the price, two quarters:    *)
(* the proofs need no more than the whole. Prices are in least units.      *)
ASSUME SwapAssumption ==
    /\ Slippages \subseteq 0..4 /\ Prices \subseteq Nat
    /\ NoTrade \notin Trades
    /\ NativeFrom \in [Trades -> Trades] /\ \A t \in Trades : NativeFrom[NativeFrom[t]] = NativeFrom[t]

VARIABLES
    sheet,          \* the page's state, see NewSheet
    price,
    asked,          \* quotes asked for and not answered
    submit,         \* the swap submitted and not answered
    quotes, swaps, moves,
    swapped         \* history: swaps that took place

swapVars == <<sheet, price, asked, submit, quotes, swaps, moves, swapped>>

NoSubmit == [answer |-> "idle"]
NewSheet ==
    [at |-> "form", trade |-> NoTrade, slip |-> 1, quote |-> NoQuote,
     quoteLoading |-> FALSE, submitLoading |-> FALSE,
     timer |-> FALSE,      \* the effect's timeout of 600 ms is running
     arrived |-> FALSE,    \* the fee statistics have arrived
     raced |-> FALSE,      \* history: an input changed while a quote was out
     fellBack |-> FALSE]   \* history: the first asset became XLM, whatever was quoted or submitted
SwapInit ==
    /\ sheet = NewSheet /\ price \in Prices /\ asked = {} /\ submit = NoSubmit
    /\ quotes = 0 /\ swaps = 0 /\ moves = 0 /\ swapped = {}

\* destMin
Least(p, slip) == p * (4 - slip)

OnSheet == UNCHANGED <<price, asked, submit, quotes, swaps, moves, swapped>>

\* mutant of Cleared: the quote stays when an input changes
ClearedNot(s) == [s EXCEPT !.raced = asked # {}, !.fellBack = FALSE]
\* setQuote(null), where an input is set
Cleared(s) == [s EXCEPT !.quote = NoQuote, !.raced = asked # {}, !.fellBack = FALSE]

\* The effect starts its timer for a whole form, unless the amount is more than the account holds.
Restarted(t) == IF t = NoTrade THEN {FALSE} ELSE BOOLEAN

\* One trade, or its first asset has become XLM on the way.
SameTrade(s, t) == s = t \/ (sheet.fellBack /\ s \in Trades /\ t = NativeFrom[s])

\* The amount, Max, either picker, or handleSwapAssets; the effect restarts its timer.
ChooseTrade(t) ==
    /\ sheet.at = "form" /\ t # sheet.trade
    /\ \E timer \in Restarted(t) : sheet' = [Cleared(sheet) EXCEPT !.trade = t, !.timer = timer]
    /\ OnSheet
\* Saved settings clear the quote; the timer restarts when they differ.
SaveSettings(slip) ==
    /\ sheet.at = "form"
    /\ \E timer \in IF slip = sheet.slip THEN {sheet.timer} ELSE Restarted(sheet.trade) :
          sheet' = [Cleared(sheet) EXCEPT !.slip = slip, !.timer = timer]
    /\ OnSheet
\* fetchFeeStats: another fee makes another fetchQuote, and the timer restarts, on any screen.
FeesArrive ==
    /\ ~sheet.arrived
    /\ \E timer \in Restarted(sheet.trade) : sheet' = [sheet EXCEPT !.arrived = TRUE, !.timer = timer]
    /\ OnSheet
\* The balances change with the account, or by themselves, on any screen: an asset that is not among them
\* gives way to XLM with the quote left as it is, or the amount error comes or goes.
BalancesChange ==
    /\ sheet.trade # NoTrade
    /\ \E timer \in Restarted(sheet.trade), t \in {sheet.trade, NativeFrom[sheet.trade]} :
          sheet' = [sheet EXCEPT !.trade = t, !.timer = timer,
                                 !.raced = @ \/ (t # sheet.trade /\ asked # {}),
                                 !.fellBack = @ \/ t # sheet.trade]
    /\ OnSheet

fetchQuote(s) ==
    /\ quotes < MaxQuotes /\ quotes' = quotes + 1
    /\ sheet' = [s EXCEPT !.quoteLoading = TRUE, !.quote = NoQuote]
    /\ asked' = asked \cup {[trade |-> s.trade, slip |-> s.slip]}
    /\ UNCHANGED <<price, submit, swaps, moves, swapped>>

TimerFires == sheet.timer /\ fetchQuote([sheet EXCEPT !.timer = FALSE])

handleReview ==
    /\ sheet.at = "form" /\ sheet.trade # NoTrade /\ ~sheet.quoteLoading
    /\ IF sheet.quote = NoQuote THEN fetchQuote(sheet)
       ELSE sheet' = [sheet EXCEPT !.at = "confirm"] /\ OnSheet

\* GET_SWAP_QUOTE answers; the page does not ask which request it was.
QuoteArrives(r) ==
    /\ asked' = asked \ {r}
    /\ sheet' \in {[sheet EXCEPT !.quoteLoading = FALSE],
                   [sheet EXCEPT !.quoteLoading = FALSE, !.quote = [trade |-> r.trade, slip |-> r.slip, price |-> price]]}
    /\ UNCHANGED <<price, submit, quotes, swaps, moves, swapped>>

CancelSwap ==
    /\ sheet.at = "confirm" /\ ~sheet.submitLoading
    /\ sheet' = [sheet EXCEPT !.at = "form"]
    /\ OnSheet

QuotedAsIs == sheet.quote # NoQuote /\ sheet.quote.trade = sheet.trade

\* handleConfirm: the quote is not part of what is sent.
confirmSwap ==
    /\ sheet.at = "confirm" /\ ~sheet.submitLoading /\ swaps < MaxSwaps
    /\ sheet' = [sheet EXCEPT !.submitLoading = TRUE] /\ swaps' = swaps + 1
    /\ submit' = [trade |-> sheet.trade, slip |-> sheet.slip, answer |-> "none",
                  seen |-> IF sheet.raced \/ ~QuotedAsIs THEN NoQuote ELSE sheet.quote]
    /\ UNCHANGED <<price, asked, quotes, moves, swapped>>

\* mutant of Floor: the submission accepts any price
FloorNone(s) == 0
Floor(s) == Least(price, s.slip)

\* SIGN_AND_SUBMIT_SWAP: the path is looked up, then the ledger takes the swap, at the floor or better.
SubmitSwap ==
    /\ submit # NoSubmit /\ submit.answer = "none"
    /\ \/ submit' = [submit EXCEPT !.answer = "failed"] /\ UNCHANGED swapped
       \/ \E answer \in {"done", "failed"}, got \in {Floor(submit), 4 * price} :
             /\ submit' = [submit EXCEPT !.answer = answer]
             /\ swapped' = swapped \cup {[trade |-> submit.trade, slip |-> submit.slip, got |-> got,
                                          seen |-> submit.seen, price |-> price]}
    /\ UNCHANGED <<sheet, price, asked, quotes, swaps, moves>>

\* mutant of Completes: any answer ends in the success sheet
CompletesAlways(answer) == TRUE
Completes(answer) == answer = "done"
SubmitAnswered ==
    /\ submit # NoSubmit /\ submit.answer # "none"
    /\ submit' = NoSubmit
    /\ sheet' = [sheet EXCEPT !.submitLoading = FALSE, !.at = IF Completes(submit.answer) THEN "success" ELSE @]
    /\ UNCHANGED <<price, asked, quotes, swaps, moves, swapped>>

LeaveSwap == sheet.at = "success" /\ sheet' = NewSheet /\ asked' = {}
             /\ UNCHANGED <<price, submit, quotes, swaps, moves, swapped>>

PriceMoves ==
    /\ moves < MaxMoves /\ moves' = moves + 1
    /\ price' \in Prices \ {price}
    /\ UNCHANGED <<sheet, asked, submit, quotes, swaps, swapped>>

SwapNext ==
    \/ \E t \in Trades \cup {NoTrade} : ChooseTrade(t)
    \/ \E slip \in Slippages : SaveSettings(slip)
    \/ FeesArrive \/ BalancesChange \/ TimerFires \/ handleReview \/ (\E r \in asked : QuoteArrives(r))
    \/ CancelSwap \/ confirmSwap \/ SubmitSwap \/ SubmitAnswered \/ LeaveSwap \/ PriceMoves

SwapSpec == SwapInit /\ [][SwapNext]_swapVars

----------------------------------------------------------------------------
\* The quote on the screen is for the trade and the slippage on the screen,
\* unless one of them changed while a quote was out; only the first asset may
\* have become XLM, when the balances changed.
QuoteIsForForm ==
    sheet.quote # NoQuote /\ ~sheet.raced =>
        SameTrade(sheet.quote.trade, sheet.trade) /\ sheet.quote.slip = sheet.slip

\* A swap yields at least the "Min received" of the sheet it was confirmed on,
\* unless the sheet had no quote for it or the price has fallen since.
MinIsKept ==
    \A s \in swapped :
        s.seen # NoQuote /\ s.price >= s.seen.price => s.got >= Least(s.seen.price, s.seen.slip)

\* The success sheet names a swap that took place, and while a swap is out the
\* sheet shows it, up to the first asset when the balances changed.
SwapIsShown ==
    /\ submit # NoSubmit => /\ sheet.at = "confirm" /\ sheet.submitLoading
                            /\ SameTrade(submit.trade, sheet.trade) /\ submit.slip = sheet.slip
    /\ sheet.at = "success" => \E s \in swapped : SameTrade(s.trade, sheet.trade) /\ s.slip = sheet.slip

\* What is shown, quoted and swapped is one trade.
SwapInv == QuoteIsForForm /\ MinIsKept /\ SwapIsShown
==============================================================================
