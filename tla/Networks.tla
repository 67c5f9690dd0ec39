------------------------------- MODULE Networks -------------------------------
(***************************************************************************)
(* The list of networks and the active one: two storage entries that the   *)
(* settings windows read and write whole, in separate awaits.              *)
(***************************************************************************)
EXTENDS Naturals, FiniteSets

CONSTANTS
    Edits,         \* requests of the settings windows; each arrives once
    Defaults,      \* ids of DEFAULT_NETWORKS, the first network among them
    Customs,       \* ids of the user's networks
    FirstNetwork, NoNetwork

NetworkIds == Defaults \cup Customs

ASSUME NetworksAssumption == FirstNetwork \in Defaults /\ \A ids \in SUBSET NetworkIds : ids # NoNetwork

VARIABLES
    networks,      \* NETWORK_STORAGE_KEY: the ids listed, absent before the first read
    activeId,      \* ACTIVE_NETWORK_KEY
    edit,          \* each request: op, id, at, and the list it read
    \* History
    outdated,      \* a list was written from a copy that had changed
    chosen         \* the networks some window activated

networkVars == <<networks, activeId, edit, outdated, chosen>>

NetworksInit ==
    /\ networks = NoNetwork /\ activeId = FirstNetwork
    /\ edit = [e \in Edits |-> [op |-> NoNetwork, id |-> NoNetwork, at |-> "new", list |-> {}]]
    /\ outdated = FALSE /\ chosen = {FirstNetwork}

AskNetworks(e) ==
    /\ edit[e].at = "new"
    /\ \E op \in {"add", "edit", "remove", "activate"}, i \in NetworkIds :
          edit' = [edit EXCEPT ![e] = [op |-> op, id |-> i, at |-> "reads", list |-> {}]]
    /\ UNCHANGED <<networks, activeId, outdated, chosen>>

\* What addNetwork, editNetwork, removeNetwork and setActiveNetwork refuse.
\* mutant of Accepts: default networks can be removed
AcceptsAny(op, i, list) == IF op = "add" THEN i \notin list ELSE i \in list
Accepts(op, i, list) ==
    CASE op = "add" -> i \notin list
      [] op = "remove" -> i \in list /\ i \notin Defaults
      [] OTHER -> i \in list

\* getNetworks fills an absent list with the defaults; what the request refuses is checked in the copy.
getNetworks(e) ==
    LET list == IF networks = NoNetwork THEN Defaults ELSE networks IN
    /\ edit[e].at = "reads"
    /\ networks' = list
    /\ edit' = [edit EXCEPT ![e].list = list,
                            ![e].at = IF Accepts(edit[e].op, edit[e].id, list) THEN "writes" ELSE "done"]
    /\ UNCHANGED <<activeId, outdated, chosen>>

\* mutant of Edited: an edit keeps only the networks it does not touch
EditedDropping(op, i, list) == IF op = "add" THEN list \cup {i} ELSE list \ {i}
Edited(op, i, list) ==
    CASE op = "add" -> list \cup {i} [] op = "remove" -> list \ {i} [] OTHER -> list

saveNetworks(e) ==
    /\ edit[e].at = "writes" /\ edit[e].op # "activate"
    /\ networks' = Edited(edit[e].op, edit[e].id, edit[e].list)
    /\ outdated' = (outdated \/ edit[e].list # networks)
    /\ edit' = [edit EXCEPT ![e].at = "done"]
    /\ UNCHANGED <<activeId, chosen>>

setActiveNetwork(e) ==
    /\ edit[e].at = "writes" /\ edit[e].op = "activate"
    /\ activeId' = edit[e].id /\ chosen' = chosen \cup {edit[e].id}
    /\ edit' = [edit EXCEPT ![e].at = "done"]
    /\ UNCHANGED <<networks, outdated>>

NetworksNext == \E e \in Edits : AskNetworks(e) \/ getNetworks(e) \/ saveNetworks(e) \/ setActiveNetwork(e)
NetworksSpec == NetworksInit /\ [][NetworksNext]_networkVars

\* mutant of getActiveNetwork: no fallback
getActiveNetworkStored(list) == activeId
getActiveNetwork(list) == IF activeId \in list THEN activeId ELSE FirstNetwork

----------------------------------------------------------------------------
Listed == IF networks = NoNetwork THEN Defaults ELSE networks

\* The default networks, and with them the addresses the shipped configuration fixes, stay listed under
\* every interleaving of the windows' edits, the outdated lists they may write included.
DefaultsStay == Defaults \subseteq Listed

\* The wallet is always on a listed network, one some window chose or the first: also after the active
\* one was removed by another window, and after its id was stored behind the removal.
ActiveIsListed == getActiveNetwork(Listed) \in Listed \cap chosen

\* The list keeps what ships with it, and the wallet is on a listed network.
NetworksInv == DefaultsStay /\ ActiveIsListed

\* A network leaves the list only by its own removal, unless an outdated list was written.
OnlyRemovalsRemove ==
    [][\A i \in Listed \ Listed' :
          outdated' \/ \E e \in Edits : edit[e].op = "remove" /\ edit[e].id = i /\ edit[e].at = "writes"]_networkVars
=============================================================================
