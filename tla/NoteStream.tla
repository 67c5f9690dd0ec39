------------------------------ MODULE NoteStream ------------------------------
(***************************************************************************)
(* The indexer's wake-ups: a commit of leaves notifies one listening       *)
(* connection, the hub passes the notification to every subscriber's       *)
(* buffered channel, and a client that gets one scans the notes again.     *)
(***************************************************************************)
EXTENDS Naturals

CONSTANTS
    Clients,
    Buffer,       \* make(chan string, 8)
    MaxStored,    \* bound: batches stored
    MaxBreaks     \* bound: connections lost, the listener's and the clients'

ASSUME StreamAssumption == Buffer \in Nat \ {0}

VARIABLES
    stored,       \* batches committed
    listening,    \* Listen holds a connection on LISTEN new_commitment
    backlog,      \* notifications on that connection, not yet read
    client,       \* "off", "open": the headers are sent, "subscribed": in hub.subs
    channel,      \* how many notifications its channel holds
    scans,        \* the client is about to scan
    seen,         \* the batches of its last scan
    breaks,
    missed        \* history: a notification was lost to it since its last scan

streamVars == <<stored, listening, backlog, client, channel, scans, seen, breaks, missed>>

StreamInit ==
    /\ stored = 0 /\ listening = FALSE /\ backlog = 0 /\ breaks = 0
    /\ client = [c \in Clients |-> "off"] /\ channel = [c \in Clients |-> 0]
    /\ scans = [c \in Clients |-> FALSE] /\ seen = [c \in Clients |-> 0]
    /\ missed = [c \in Clients |-> FALSE]

\* NOTIFY fires on the commit: a connection that does not listen at that moment never gets it.
Store ==
    /\ stored < MaxStored
    /\ stored' = stored + 1
    /\ IF listening THEN backlog' = backlog + 1 /\ UNCHANGED missed
       ELSE missed' = [c \in Clients |-> TRUE] /\ UNCHANGED backlog
    /\ UNCHANGED <<listening, client, channel, scans, seen, breaks>>

\* Acquire and LISTEN; tried again every second
Listen ==
    /\ ~listening /\ listening' = TRUE
    /\ UNCHANGED <<stored, backlog, client, channel, scans, seen, breaks, missed>>

\* WaitForNotification fails: what the connection held is lost with it.
ListenerBreaks ==
    /\ listening /\ breaks < MaxBreaks
    /\ listening' = FALSE /\ backlog' = 0 /\ breaks' = breaks + 1
    /\ missed' = [c \in Clients |-> missed[c] \/ backlog > 0]
    /\ UNCHANGED <<stored, client, channel, scans, seen>>

\* mutant of Pushed: a channel without a buffer takes nothing while its reader writes
PushedUnbuffered(n) == 0
\* A full channel drops the notification.
Pushed(n) == IF n < Buffer THEN n + 1 ELSE n

broadcast ==
    /\ listening /\ backlog > 0 /\ backlog' = backlog - 1
    /\ channel' = [c \in Clients |-> IF client[c] = "subscribed" THEN Pushed(channel[c]) ELSE 0]
    /\ missed' = [c \in Clients |-> missed[c] \/ client[c] = "open"]
    /\ UNCHANGED <<stored, listening, client, scans, seen, breaks>>

\* The answer's headers go out before hub.sub: a client may scan before it is subscribed.
Open(c) ==
    /\ client[c] = "off"
    /\ client' = [client EXCEPT ![c] = "open"] /\ scans' = [scans EXCEPT ![c] = TRUE]
    /\ UNCHANGED <<stored, listening, backlog, channel, seen, breaks, missed>>

sub(c) ==
    /\ client[c] = "open"
    /\ client' = [client EXCEPT ![c] = "subscribed"]
    /\ UNCHANGED <<stored, listening, backlog, channel, scans, seen, breaks, missed>>

\* mutant of Deliver: the event is written and not flushed
DeliverUnflushed(c) ==
    /\ client[c] = "subscribed" /\ channel[c] > 0
    /\ channel' = [channel EXCEPT ![c] = @ - 1]
    /\ UNCHANGED <<stored, listening, backlog, client, scans, seen, breaks, missed>>
Deliver(c) ==
    /\ client[c] = "subscribed" /\ channel[c] > 0
    /\ channel' = [channel EXCEPT ![c] = @ - 1] /\ scans' = [scans EXCEPT ![c] = TRUE]
    /\ UNCHANGED <<stored, listening, backlog, client, seen, breaks, missed>>

\* "clients re-scan /notes locally"
Rescan(c) ==
    /\ scans[c] /\ scans' = [scans EXCEPT ![c] = FALSE]
    /\ seen' = [seen EXCEPT ![c] = stored] /\ missed' = [missed EXCEPT ![c] = FALSE]
    /\ UNCHANGED <<stored, listening, backlog, client, channel, breaks>>

\* The request's context ends, or a write to it fails: hub.unsub.  An EventSource opens again.
unsub(c) ==
    /\ client[c] # "off" /\ breaks < MaxBreaks /\ breaks' = breaks + 1
    /\ client' = [client EXCEPT ![c] = "off"] /\ channel' = [channel EXCEPT ![c] = 0]
    /\ UNCHANGED <<stored, listening, backlog, scans, seen, missed>>

Serve(c) == sub(c) \/ Deliver(c) \/ Rescan(c)
StreamNext ==
    \/ Store \/ Listen \/ ListenerBreaks \/ broadcast
    \/ \E c \in Clients : Open(c) \/ Serve(c) \/ unsub(c)
StreamSpec == StreamInit /\ [][StreamNext]_streamVars

----------------------------------------------------------------------------
\* "drop if a slow client is full; it re-scans anyway" (api.go:44): a connected client that has not
\* seen every batch is woken by something still under way, however many notifications its full
\* channel dropped; only one that was sent while nothing listened for it can leave it behind.
WakePending ==
    \A c \in Clients : client[c] # "off" /\ seen[c] < stored =>
        scans[c] \/ channel[c] > 0 \/ backlog > 0 \/ missed[c]

\* A client that stays subscribed sees every batch in the end, unless a notification was lost to it.
CatchesUp == \A c \in Clients : []<>(seen[c] = stored \/ client[c] = "off" \/ missed[c])
=============================================================================
