------------------------------ MODULE MCIndexer ------------------------------
(***************************************************************************)
(* The services beside the vault, which meet only in the chain and in the  *)
(* database, one at a time: the indexer's loop; the same loop behind nodes *)
(* that lag, forget and answer in small pages; the loop in TypeScript      *)
(* behind nodes that lag within and beyond the confirmations; its          *)
(* wake-ups; the rent of the vault's entries (one unit is 20 000 ledgers:  *)
(* THRESHOLD 200 000, EXTEND_TO 500 000 and the keeper's seven days of     *)
(* 120 960 ledgers); and two owners racing rotations of their keys.        *)
(***************************************************************************)
EXTENDS Indexer, NoteStream, VaultTtl, Registry

\* Nodes within the least confirmations, over an entry that stays or is rewritten; and nodes beyond them
MCProviders == {[lag |-> 1, rewrites |-> FALSE], [lag |-> 1, rewrites |-> TRUE], [lag |-> 2, rewrites |-> TRUE]}

Lag == INSTANCE Indexer WITH
    MaxLedger <- 6, MaxTxs <- 4, MaxFaults <- 1, Confirmed <- 1,
    ScanWindow <- 3, PageLimit <- 3, Retention <- 4, WalkBackSpan <- 3,
    MaxRescan <- 1, SyncLagLimit <- 3

Ts == INSTANCE IndexerTs WITH
    MaxLedger <- 5, MaxTxs <- 3, MaxFaults <- 1, Confirmed <- 1,
    ScanWindow <- 3, PageLimit <- 2, Retention <- 4, WalkBackSpan <- 3,
    MaxRescan <- 1, SyncLagLimit <- 3

VARIABLE focus
others == <<streamVars, rentVars, registryVars>>
all == <<focus, vars, others>>

ServicesInit ==
    /\ focus \in {"loop", "lagging", "typescript", "stream", "rent", "keys"}
    /\ Init /\ StreamInit /\ RentInit /\ RegistryInit
    /\ focus = "loop" => provider = [lag |-> 1, rewrites |-> FALSE]
    /\ focus = "lagging" => provider = [lag |-> 2, rewrites |-> TRUE]
    /\ focus \notin {"loop", "lagging", "typescript"} => provider.lag = 2
    /\ focus # "rent" => nextCall = 0
ServicesNext ==
    \/ focus = "loop" /\ Next /\ UNCHANGED others
    \/ focus = "lagging" /\ Lag!Next /\ UNCHANGED others
    \/ focus = "typescript" /\ Ts!TsNext /\ UNCHANGED others
    \/ focus = "stream" /\ StreamNext /\ UNCHANGED <<vars, rentVars, registryVars>>
    \/ focus = "rent" /\ RentNext /\ UNCHANGED <<vars, streamVars, registryVars>>
    \/ focus = "keys" /\ RegistryNext /\ UNCHANGED <<vars, streamVars, rentVars>>
Step(part, A) == focus = part /\ A /\ UNCHANGED focus

ServicesSpec ==
    /\ ServicesInit /\ [][ServicesNext /\ UNCHANGED focus]_all
    /\ WF_all(Step("loop", Tick /\ UNCHANGED others))
    /\ WF_all(Step("loop", /\ \E k \in 0..2, rewritten \in BOOLEAN : CloseLedger(k, rewritten)
                           /\ UNCHANGED others))
    /\ WF_all(Step("stream", Listen /\ UNCHANGED <<vars, rentVars, registryVars>>))
    /\ WF_all(Step("stream", broadcast /\ UNCHANGED <<vars, rentVars, registryVars>>))
    /\ \A c \in Clients : WF_all(Step("stream", Serve(c) /\ UNCHANGED <<vars, rentVars, registryVars>>))

\* Every leaf of a ledger old enough for every node to confirm is stored eventually.
StoredInTheEnd == <>[](focus = "loop" => FinalStored)
\* The TypeScript loop answers as truthfully over an entry that is rewritten, but not after leaf 0.
TsReady == [](focus = "typescript" /\ provider.lag = 1 => Ts!ReadyIsComplete)

\* Every final leaf is stored in the end, a client that stays subscribed sees every batch stored, and
\* the loop in TypeScript is ready only with them.
ServicesProgress == StoredInTheEnd /\ CatchesUp /\ TsReady
==============================================================================
