-------------------------------- MODULE Lockout --------------------------------
(***************************************************************************)
(* Failed attempts and the lockout.  Several windows try passwords; the    *)
(* counter and the end of the lockout are storage entries, read and        *)
(* written in separate awaits.                                             *)
(***************************************************************************)
EXTENDS Naturals, Sequences, FiniteSets

CONSTANTS
    Windows,
    MAX_ATTEMPTS,
    LOCKOUT,      \* LOCKOUT_MINUTES, in units of the clock
    MaxTries,     \* bound: passwords tried
    MaxTime,      \* bound: the clock
    MaxDeaths     \* bound: stops of the worker

ASSUME LockoutAssumption == IsFiniteSet(Windows) /\ MAX_ATTEMPTS \in Nat \ {0} /\ LOCKOUT \in Nat \ {0}

VARIABLES
    attempts,     \* FAILED_ATTEMPTS_KEY
    lockedUntil,  \* LOCKED_UNTIL_KEY; 0 when absent
    now,
    window,       \* each window's handler: at, read
    tries, deaths,
    \* History
    wrong,        \* wrong passwords since the counter was last removed
    overlapped    \* an entry changed between a handler's read of it and its write, or a write was lost

lockoutVars == <<attempts, lockedUntil, now, window, tries, deaths, wrong, overlapped>>

Resting == [at |-> "rest", read |-> 0]
LockoutInit ==
    /\ attempts = 0 /\ lockedUntil = 0 /\ now = 1
    /\ window = [w \in Windows |-> Resting] /\ tries = 0 /\ deaths = 0
    /\ wrong = 0 /\ overlapped = FALSE

Goes(w, at, read) == window' = [window EXCEPT ![w] = [at |-> at, read |-> read]]

\* mutant of Expired: any lockout is over
ExpiredAlways(until) == TRUE
Expired(until) == now >= until

\* UNLOCK_WALLET: checkLockout reads the end of the lockout.
checkLockout(w) ==
    /\ window[w].at = "rest" /\ tries < MaxTries
    /\ tries' = tries + 1
    /\ IF lockedUntil = 0 THEN Goes(w, "decrypts", 0)
       ELSE IF ~Expired(lockedUntil) THEN UNCHANGED window
       ELSE Goes(w, "expires", lockedUntil)
    /\ UNCHANGED <<attempts, lockedUntil, now, deaths, wrong, overlapped>>

\* resetFailedAttempts: after an expired lockout, and after the right password
LockoutEnds(w) ==
    /\ window[w].at = "expires"
    /\ attempts' = 0 /\ lockedUntil' = 0 /\ wrong' = 0
    /\ overlapped' = (overlapped \/ lockedUntil # window[w].read \/ \E v \in Windows : window[v].at = "counts")
    /\ Goes(w, "decrypts", 0)
    /\ UNCHANGED <<now, tries, deaths>>

RightPassword(w) ==
    /\ window[w].at = "decrypts"
    /\ Goes(w, "opened", 0)
    /\ UNCHANGED <<attempts, lockedUntil, now, tries, deaths, wrong, overlapped>>
resetFailedAttempts(w) ==
    /\ window[w].at = "opened"
    /\ attempts' = 0 /\ lockedUntil' = 0 /\ wrong' = 0
    /\ overlapped' = (overlapped \/ \E v \in Windows : window[v].at \in {"counts", "locks"})
    /\ window' = [window EXCEPT ![w] = Resting]
    /\ UNCHANGED <<now, tries, deaths>>

\* incrementFailedAttempts: the counter is read, written, and the lockout written after it.
WrongPassword(w) ==
    /\ window[w].at = "decrypts"
    /\ Goes(w, "counts", attempts) /\ wrong' = wrong + 1
    /\ UNCHANGED <<attempts, lockedUntil, now, tries, deaths, overlapped>>

\* mutant of Locks: one wrong password too many
LocksLate(n) == n > MAX_ATTEMPTS
Locks(n) == n >= MAX_ATTEMPTS

Count(w) ==
    LET n == window[w].read + 1 IN
    /\ window[w].at = "counts"
    /\ attempts' = n
    /\ overlapped' = (overlapped \/ attempts # window[w].read)
    /\ IF Locks(n) THEN Goes(w, "locks", 0) ELSE window' = [window EXCEPT ![w] = Resting]
    /\ UNCHANGED <<lockedUntil, now, tries, deaths, wrong>>
LockOut(w) ==
    /\ window[w].at = "locks"
    /\ lockedUntil' = now + LOCKOUT
    /\ window' = [window EXCEPT ![w] = Resting]
    /\ UNCHANGED <<attempts, now, tries, deaths, wrong, overlapped>>

Minute == now < MaxTime /\ now' = now + 1
          /\ UNCHANGED <<attempts, lockedUntil, window, tries, deaths, wrong, overlapped>>

\* The worker stops between two writes.
WorkerDies ==
    /\ deaths < MaxDeaths /\ deaths' = deaths + 1
    /\ overlapped' = (overlapped \/ \E w \in Windows : window[w].at \in {"counts", "locks"})
    /\ window' = [w \in Windows |-> Resting]
    /\ UNCHANGED <<attempts, lockedUntil, now, tries, wrong>>

LockoutNext ==
    \/ Minute \/ WorkerDies
    \/ \E w \in Windows : \/ checkLockout(w) \/ LockoutEnds(w) \/ RightPassword(w) \/ resetFailedAttempts(w)
                          \/ WrongPassword(w) \/ Count(w) \/ LockOut(w)
LockoutSpec == LockoutInit /\ [][LockoutNext]_lockoutVars

----------------------------------------------------------------------------
Trying == {w \in Windows : window[w].at \in {"counts", "locks"}}

\* Five wrong passwords lock the wallet (PASSWORD_RULES): once no handler is between a read and its
\* write and none overlapped before, the counter counts every wrong password and a full one is locked.
EveryGuessCounts ==
    Trying = {} /\ ~overlapped =>
        attempts = wrong /\ (attempts >= MAX_ATTEMPTS => lockedUntil > 0)

\* A lockout that runs is lifted only by the right password of a window that got past its check.
LockoutStands ==
    [][lockedUntil > now /\ lockedUntil' = 0 =>
         overlapped' \/ \E w \in Windows : window[w].at = "opened"]_lockoutVars
=============================================================================
