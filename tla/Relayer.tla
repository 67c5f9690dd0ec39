------------------------------- MODULE Relayer -------------------------------
(***************************************************************************)
(* The relayer (offchain-go/internal/relayer and soroban): concurrent      *)
(* /submit handlers share one observed cost, kept under a mutex, and one   *)
(* account, whose sequence number each of them loads for itself.           *)
(*                                                                         *)
(* A client spends one note.  Costs are XLM stroops, fees are in the asset *)
(* of the pool.                                                            *)
(***************************************************************************)
EXTENDS Integers

CONSTANTS
    Submitters,         \* the requests
    Notes,           \* the notes they spend
    Costs,           \* the simulated costs of a spend
    Bids,            \* fees a client may offer without asking for a quote
    NetCost,         \* Config.NetCost, and so on
    MarginBps,
    MinMarginBps,
    QuoteBufferBps,
    RatePPM,
    MaxRestarts      \* bound: restarts of the relayer

ASSUME RelayerAssumptions ==
    /\ Costs \subseteq Nat /\ Bids \subseteq Nat
    /\ {NetCost, MarginBps, MinMarginBps, QuoteBufferBps, RatePPM, MaxRestarts} \subseteq Nat
    /\ MinMarginBps <= MarginBps
    /\ Notes # {}

VARIABLES
    observed,  \* observedCost
    seq,       \* the sequence number of the relayer's account
    spent,     \* the notes spent in the vault
    reqs,      \* the requests, see Request
    restarts

relayerVars == <<observed, seq, spent, reqs, restarts>>

Greater(a, b) == IF a < b THEN b ELSE a

-----------------------------------------------------------------------------
(* Fees *)

ToAsset(xlm) == (xlm * RatePPM) \div 1000000

Bps(x, bps) == (x * bps) \div 10000

\* quote: basis
QuoteBasis(cost) == ToAsset(cost + Bps(cost, QuoteBufferBps))

\* mutant of QuoteFee: the basis without the margin
QuoteFeeBare(cost) == QuoteBasis(cost)

\* quote: fee
QuoteFee(cost) == QuoteBasis(cost) + Bps(QuoteBasis(cost), MarginBps)

\* submit: required
Required(cost) == ToAsset(cost) + Bps(ToAsset(cost), MinMarginBps)

LearnedAtOnce(cost) == cost    \* mutant of Learned

\* mutant of Learned: the difference is taken from the wrong end
LearnedTooLow(cost) ==
    IF cost > observed THEN cost ELSE cost - (observed - cost) \div 8

\* learnCost: up at once, down by an eighth of the difference
Learned(cost) ==
    IF cost > observed THEN cost ELSE observed - (observed - cost) \div 8

-----------------------------------------------------------------------------
(* A client and its handler; peak is the highest cost that the relayer met *)
(* since the client's quote, and quoted the observed cost the quote is for. *)

Idle == [pc |-> "new", note |-> CHOOSE k \in Notes : TRUE, quoted |-> -1, peak |-> 0,
         fee |-> 0, ours |-> TRUE, seq |-> 0, cost |-> 0]

At(c, pc) == reqs[c].pc = pc

Goto(c, pc) == reqs' = [reqs EXCEPT ![c].pc = pc]

(* GET /quote, and a proof that binds its fee.                             *)
GetQuote(c, note) ==
    /\ At(c, "new")
    /\ reqs' = [reqs EXCEPT ![c] = [@ EXCEPT !.pc = "asked", !.note = note,
                   !.fee = QuoteFee(observed), !.quoted = observed, !.peak = observed]]
    /\ UNCHANGED <<observed, seq, spent, restarts>>

(* A fee of the client's own choice; not ours is a deposit, or an          *)
(* ext.relayer that is not this relayer.                                   *)
Bid(c, note, fee, ours) ==
    /\ At(c, "new")
    /\ reqs' = [reqs EXCEPT ![c] = [@ EXCEPT !.pc = "asked", !.note = note,
                   !.fee = fee, !.ours = ours]]
    /\ UNCHANGED <<observed, seq, spent, restarts>>

(* submit, up to the cheap check against the observed cost.                *)
Precheck(c) ==
    /\ At(c, "asked")
    /\ Goto(c, CASE ~reqs[c].ours -> "refused"
                 [] reqs[c].ours /\ reqs[c].fee < ToAsset(observed) -> "low"
                 [] OTHER -> "prepare")
    /\ UNCHANGED <<observed, seq, spent, restarts>>

\* mutant of Load: the loaded sequence number is not incremented
LoadUsed(c) ==
    /\ At(c, "prepare")
    /\ reqs' = [reqs EXCEPT ![c] = [@ EXCEPT !.pc = "simulate", !.seq = seq]]
    /\ UNCHANGED <<observed, seq, spent, restarts>>

(* Prepare: load the account.                                              *)
Load(c) ==
    /\ At(c, "prepare")
    /\ reqs' = [reqs EXCEPT ![c] = [@ EXCEPT !.pc = "simulate", !.seq = seq + 1]]
    /\ UNCHANGED <<observed, seq, spent, restarts>>

(* Prepare: simulate; a note that is spent fails.                          *)
Simulate(c) ==
    /\ At(c, "simulate")
    /\ reqs[c].note \notin spent
    /\ \E cost \in Costs :
          reqs' = [reqs EXCEPT ![c] = [@ EXCEPT !.pc = "learn", !.cost = cost]]
    /\ UNCHANGED <<observed, seq, spent, restarts>>

(* An RPC call fails, or the simulation does.                              *)
PrepareFails(c) ==
    /\ At(c, "prepare") \/ At(c, "simulate")
    /\ Goto(c, "refused")
    /\ UNCHANGED <<observed, seq, spent, restarts>>

Peak(r, cost) == [r EXCEPT !.peak = Greater(@, cost)]

\* learnCost, under the mutex, before the fee is checked
Learn(c) ==
    /\ At(c, "learn")
    /\ LET cost == reqs[c].cost IN
       /\ observed' = Learned(cost)
       /\ reqs' = [d \in Submitters |-> Peak([reqs[d] EXCEPT !.pc = IF d = c THEN "decide" ELSE @],
                                          cost)]
    /\ UNCHANGED <<seq, spent, restarts>>

\* mutant of Enough: what was observed instead of what was simulated
EnoughObserved(c) == reqs[c].fee >= Required(observed)

Enough(c) == reqs[c].fee >= Required(reqs[c].cost)

(* submit: the fee must clear the floor over the simulated cost.           *)
Decide(c) ==
    /\ At(c, "decide")
    /\ Goto(c, IF Enough(c) THEN "send" ELSE "low")
    /\ UNCHANGED <<observed, seq, spent, restarts>>

(* Send: an answer that is not ERROR, or that is lost, leaves the          *)
(* transaction with the network.                                           *)
Send(c) ==
    /\ At(c, "send")
    /\ Goto(c, "sent")
    /\ UNCHANGED <<observed, seq, spent, restarts>>

(* The sequence number was used, or the network refuses or drops it.       *)
Dropped(c) ==
    /\ At(c, "send") \/ At(c, "sent")
    /\ Goto(c, "refused")
    /\ UNCHANGED <<observed, seq, spent, restarts>>

(* The network applies it (external): the vault rejects a spent note, and  *)
(* the relayer has paid for the attempt.                                   *)
Apply(c) ==
    /\ At(c, "sent")
    /\ reqs[c].seq = seq + 1
    /\ seq' = seq + 1
    /\ Goto(c, IF reqs[c].note \in spent THEN "reverted" ELSE "landed")
    /\ spent' = spent \cup {reqs[c].note}
    /\ UNCHANGED <<observed, restarts>>

(* The owner spends the note through someone else (external).              *)
SpendElsewhere(note) ==
    /\ note \notin spent
    /\ spent' = spent \cup {note}
    /\ UNCHANGED <<observed, seq, reqs, restarts>>

(* New: a restarted relayer has forgotten what it observed, and every      *)
(* request it was handling.                                                *)
Restart ==
    /\ restarts < MaxRestarts /\ restarts' = restarts + 1
    /\ observed' = NetCost
    /\ reqs' = [c \in Submitters |->
                   Peak([reqs[c] EXCEPT
                            !.pc = IF @ \in {"prepare", "simulate", "learn", "decide", "send"}
                                   THEN "refused" ELSE @],
                        NetCost)]
    /\ UNCHANGED <<seq, spent>>

-----------------------------------------------------------------------------
RelayerInit ==
    /\ observed = NetCost
    /\ seq = 0 /\ spent = {} /\ restarts = 0
    /\ reqs = [c \in Submitters |-> Idle]

Handle(c) ==
    \/ Precheck(c) \/ Load(c) \/ Simulate(c) \/ PrepareFails(c) \/ Learn(c) \/ Decide(c)
    \/ Send(c) \/ Dropped(c) \/ Apply(c)

RelayerNext ==
    \/ \E c \in Submitters, note \in Notes :
          \/ GetQuote(c, note)
          \/ \E fee \in Bids, ours \in BOOLEAN : Bid(c, note, fee, ours)
    \/ \E c \in Submitters : Handle(c)
    \/ \E note \in Notes : SpendElsewhere(note)
    \/ Restart

RelayerSpec == RelayerInit /\ [][RelayerNext]_relayerVars

-----------------------------------------------------------------------------
Request ==
    [pc : {"new", "asked", "prepare", "simulate", "learn", "decide", "send", "sent",
           "landed", "reverted", "low", "refused"},
     note : Notes, quoted : Nat \cup {-1}, peak : Nat, fee : Nat, ours : BOOLEAN,
     seq : Nat, cost : Nat]

RelayerTypeOK ==
    /\ observed \in Nat
    /\ seq \in Nat /\ restarts \in Nat
    /\ spent \subseteq Notes
    /\ reqs \in [Submitters -> Request]
    /\ \A c \in Submitters :
          /\ reqs[c].pc \in {"simulate", "learn", "decide", "send"} => reqs[c].seq \in 1..(seq + 1)
          /\ reqs[c].pc \in {"learn", "decide", "send"} => reqs[c].cost \in Costs

(* "a self-calibrating fee floor keeps a relayed spend from ever costing   *)
(* the relayer money" (relayer.go:2): every spend that landed pays this    *)
(* relayer its simulated cost and the floor's margin, whatever the other   *)
(* handlers did to the observed cost in between.                           *)
LandedPays ==
    \A c \in Submitters :
        At(c, "landed") => reqs[c].ours /\ reqs[c].fee >= Required(reqs[c].cost)

(* The observed cost never leaves the range of the costs there are.        *)
Known == Costs \cup {NetCost}

ObservedInRange ==
    \A bound \in Known :
        /\ (\A cost \in Known : bound <= cost) => bound <= observed
        /\ (\A cost \in Known : cost <= bound) => observed <= bound

(* "headroom for gas drift between quote and submit" (relayer.go:33): a    *)
(* request with a quoted fee is too low only if the relayer met a cost     *)
(* beyond the quote's headroom since.                                      *)
Beyond(cost, quoted) == cost > quoted + Bps(quoted, QuoteBufferBps)

QuoteHonoured ==
    \A c \in Submitters :
        At(c, "low") /\ reqs[c].quoted >= 0 => Beyond(reqs[c].peak, reqs[c].quoted)

(* "a cheap outlier cannot drop the quote below real gas" (relayer.go:63): *)
(* the quote after one spend still clears the floor over what was observed *)
(* before it.                                                              *)
OutlierSafe ==
    [][restarts' = restarts => QuoteFee(observed') >= Required(observed)]_relayerVars

(* Whatever the handlers interleave, what lands pays, and the shared cost  *)
(* stays among those met.                                                  *)
RelayerSafe == RelayerTypeOK /\ LandedPays /\ ObservedInRange
=============================================================================
