----------------------------- MODULE PopupProofs -----------------------------
(***************************************************************************)
(* The popup's state: late answers paint nothing over another account, for *)
(* any accounts and any number of commands, polls, fetches and scans under *)
(* way at once; the shielded sheet says done when what it was asked for    *)
(* was paid, but for a split whose fee rose or whose notes went elsewhere; *)
(* an approval does what its page showed when the approval was the first   *)
(* button pressed; and the dialog that adds an account adds the one it     *)
(* shows, once.                                                            *)
(***************************************************************************)
EXTENDS Popup, ShieldedSheet, AccountSheet, ApprovalPage, SequenceTheorems, Sums, TLAPS

Somebody == Users \cup {Unknown}
Asked == [kind : {"command", "status", "accounts", "fetch", "scan"}, who : Somebody,
          at : {"asked", "answered"}]

Typed ==
    /\ popup \in [shown : Somebody, listed : Somebody, balances : Somebody,
                  byPool : Somebody, funding : Somebody]
    /\ calls \subseteq Asked
    /\ session \in Somebody /\ active \in Somebody
    /\ strayed \in BOOLEAN /\ crossed \in BOOLEAN

(* A fetch that is still followed is for the account shown: the run ids of *)
(* those before a switch have moved on.                                    *)
FetchesOwn(p, asked) ==
    /\ p.balances \in {Unknown, p.shown}
    /\ \A c \in asked : c.kind = "fetch" => c.who = p.shown

(* A scan that was answered is of the account listed.                      *)
ScansOwn(p, asked) ==
    /\ p.byPool \in {Unknown, p.listed}
    /\ \A c \in asked : c.kind = "scan" /\ c.at = "answered" => c.who \in {Unknown, p.listed}

Followed ==
    /\ ~strayed => FetchesOwn(popup, calls)
    /\ ~crossed => ScansOwn(popup, calls)

-----------------------------------------------------------------------------
LEMMA QuestionFields ==
    ASSUME NEW k \in {"command", "status", "accounts", "fetch", "scan"}, NEW w \in Somebody
    PROVE  /\ Question(k, w) \in Asked
           /\ Question(k, w).kind = k /\ Question(k, w).who = w /\ Question(k, w).at = "asked"
  BY DEF Question, Asked

(* Showing another account drops the fetches, listing another the scans.   *)
LEMMA ViewKeeps ==
    ASSUME Typed, NEW shown \in Somebody, NEW listed \in Somebody, NEW asked \in SUBSET Asked,
           View(shown, listed, asked),
           \A c \in asked \ calls : c.kind = "accounts"
    PROVE  /\ popup' \in [shown : Somebody, listed : Somebody, balances : Somebody,
                          byPool : Somebody, funding : Somebody]
           /\ calls' \subseteq Asked
           /\ FetchesOwn(popup, calls) => FetchesOwn(popup', calls')
           /\ ScansOwn(popup, calls) => ScansOwn(popup', calls')
<1> DEFINE other == shown # popup.shown
           rescope == listed # popup.listed \/ (shown = Unknown) # (popup.shown = Unknown)
           stale == IF other THEN Current("fetch", asked) ELSE asked
           staler == IF rescope THEN Current("scan", stale) ELSE stale
<1>1. popup' = [shown |-> shown, listed |-> listed,
                balances |-> IF other THEN Unknown ELSE popup.balances,
                byPool |-> IF rescope THEN Unknown ELSE popup.byPool,
                funding |-> IF shown = Unknown THEN Unknown ELSE popup.funding]
  BY DEF View
<1>2. calls' = staler \cup (IF other /\ shown # Unknown THEN {Question("fetch", shown)} ELSE {})
                      \cup (IF rescope /\ shown # Unknown THEN {Question("scan", Unknown)} ELSE {})
  BY DEF View
<1>3. /\ popup.shown \in Somebody /\ popup.listed \in Somebody /\ popup.balances \in Somebody
      /\ popup.byPool \in Somebody /\ popup.funding \in Somebody
  BY DEF Typed
<1>4. /\ popup'.shown = shown /\ popup'.listed = listed
      /\ popup'.balances = (IF other THEN Unknown ELSE popup.balances)
      /\ popup'.byPool = (IF rescope THEN Unknown ELSE popup.byPool)
  BY <1>1
<1>5. /\ staler \subseteq asked
      /\ other => \A c \in staler : c.kind # "fetch"
      /\ rescope => \A c \in staler : c.kind # "scan"
  BY DEF Current
<1>6. Unknown \in Somebody
  BY DEF Somebody
<1>7. ASSUME NEW c \in calls'
      PROVE  \/ c \in staler
             \/ c = Question("fetch", shown) /\ other
             \/ c = Question("scan", Unknown) /\ rescope
  BY <1>2
<1>8. popup' \in [shown : Somebody, listed : Somebody, balances : Somebody,
                  byPool : Somebody, funding : Somebody]
  BY <1>1, <1>3, <1>6
<1>9. calls' \subseteq Asked
  BY <1>5, <1>6, <1>7, QuestionFields
<1> HIDE DEF other, rescope, staler
<1>10. ASSUME FetchesOwn(popup, calls) PROVE FetchesOwn(popup', calls')
  <2>1. popup'.balances \in {Unknown, popup'.shown}
    BY <1>4, <1>10 DEF FetchesOwn, other
  <2>2. ASSUME NEW c \in calls', c.kind = "fetch" PROVE c.who = popup'.shown
    <3>1. CASE c \in staler
      <4>1. ~other
        BY <1>5, <2>2, <3>1
      <4>2. c \in calls
        BY <1>5, <2>2, <3>1
      <4> QED
        BY <1>4, <1>10, <2>2, <4>1, <4>2 DEF FetchesOwn, other
    <3>2. CASE c = Question("fetch", shown)
      BY <1>4, <3>2, QuestionFields
    <3>3. CASE c = Question("scan", Unknown)
      BY <1>6, <2>2, <3>3, QuestionFields
    <3> QED
      BY <1>7, <3>1, <3>2, <3>3
  <2> QED
    BY <2>1, <2>2 DEF FetchesOwn
<1>11. ASSUME ScansOwn(popup, calls) PROVE ScansOwn(popup', calls')
  <2>1. popup'.byPool \in {Unknown, popup'.listed}
    BY <1>4, <1>11 DEF ScansOwn, rescope
  <2>2. ASSUME NEW c \in calls', c.kind = "scan", c.at = "answered"
        PROVE  c.who \in {Unknown, popup'.listed}
    <3>1. CASE c \in staler
      <4>1. ~rescope
        BY <1>5, <2>2, <3>1
      <4>2. c \in calls
        BY <1>5, <2>2, <3>1
      <4> QED
        BY <1>4, <1>11, <2>2, <4>1, <4>2 DEF ScansOwn, rescope
    <3>2. CASE c = Question("fetch", shown) \/ c = Question("scan", Unknown)
      BY <1>6, <2>2, <3>2, QuestionFields
    <3> QED
      BY <1>7, <3>1, <3>2
  <2> QED
    BY <2>1, <2>2 DEF ScansOwn
<1> QED
  BY <1>8, <1>9, <1>10, <1>11

-----------------------------------------------------------------------------
(* What the answers that go through View do: the status, the list and the  *)
(* answer to a command.                                                    *)
LEMMA ViewStep ==
    ASSUME Typed, Followed, NEW c \in calls,
           StatusArrives(c) \/ refreshAccounts(c) \/ CommandAnswered(c)
    PROVE  Typed' /\ Followed'
<1> DEFINE following == IF c.who = Unknown THEN {} ELSE {Question("accounts", Unknown)}
<1>0. /\ UNCHANGED <<session, active, strayed, crossed>>
      /\ c.who \in Somebody /\ Unknown \in Somebody
      /\ popup.shown \in Somebody /\ popup.listed \in Somebody
  BY DEF StatusArrives, refreshAccounts, CommandAnswered, Typed, Asked, Somebody
<1>1. ASSUME NEW shown \in Somebody, NEW listed \in Somebody, NEW asked \in SUBSET Asked,
             View(shown, listed, asked), \A d \in asked \ calls : d.kind = "accounts"
      PROVE  Typed' /\ Followed'
  BY <1>0, <1>1, ViewKeeps DEF Typed, Followed
<1>2. /\ (calls \ {c}) \cup following \in SUBSET Asked
      /\ \A d \in ((calls \ {c}) \cup following) \ calls : d.kind = "accounts"
      /\ calls \ {c} \in SUBSET Asked
  BY <1>0, QuestionFields DEF Typed
<1>3. CASE StatusArrives(c) \/ CommandAnswered(c)
  <2>1. View(c.who, IF c.who = Unknown THEN Unknown ELSE popup.listed, (calls \ {c}) \cup following)
    BY <1>3 DEF StatusArrives, CommandAnswered
  <2> HIDE DEF following
  <2> QED
    BY <1>0, <1>1, <1>2, <2>1
<1>4. CASE refreshAccounts(c)
  <2>1. View(popup.shown, c.who, calls \ {c})
    BY <1>4 DEF refreshAccounts
  <2> QED
    BY <1>0, <1>1, <1>2, <2>1
<1> QED
  BY <1>3, <1>4

(* The steps that leave the popup's state alone and ask something that is  *)
(* not painted, or asks again for the account shown.                       *)
LEMMA AskStep ==
    ASSUME Typed, Followed, UNCHANGED <<popup, crossed>>, strayed' \in BOOLEAN,
           session' \in Somebody, active' \in Somebody,
           calls' \subseteq Asked, ~strayed' => ~strayed,
           \A c \in calls' \ calls :
              \/ c.kind \in {"command", "status", "accounts"}
              \/ c.kind = "fetch" /\ (strayed' \/ c.who = popup.shown)
              \/ c.kind = "scan" /\ c.at = "asked"
    PROVE  Typed' /\ Followed'
<1>1. Typed'
  BY DEF Typed
<1>2. ~strayed' => FetchesOwn(popup', calls')
  BY DEF Followed, FetchesOwn
<1>3. ~crossed' => ScansOwn(popup', calls')
  BY DEF Followed, ScansOwn
<1> QED
  BY <1>1, <1>2, <1>3 DEF Followed

LEMMA ServeStep ==
    ASSUME Typed, Followed, NEW c \in calls, Serve(c)
    PROVE  Typed' /\ Followed'
<1>0. c \in Asked /\ Unknown \in Somebody
  BY DEF Typed, Somebody
<1>1. PICK w \in Somebody : calls' = (calls \ {c}) \cup {[c EXCEPT !.at = "answered", !.who = w]}
  <2>1. CASE c.kind = "command" /\ Replace(c, {[c EXCEPT !.at = "answered"]})
    <3>1. [c EXCEPT !.at = "answered", !.who = c.who] = [c EXCEPT !.at = "answered"]
      BY <1>0 DEF Asked
    <3> QED
      BY <1>0, <2>1, <3>1 DEF Replace, Asked
  <2> QED
    BY <1>0, <2>1 DEF Serve, Replace, Typed
<1> DEFINE d == [c EXCEPT !.at = "answered", !.who = w]
<1>2. d \in Asked /\ d.kind = c.kind /\ d.who = w /\ d.at = "answered"
  BY <1>0 DEF Asked
<1>3. c.kind \in {"command", "status", "accounts", "scan"}
  BY DEF Serve
<1>4. CASE c.kind # "scan"
  <2>1. UNCHANGED <<popup, strayed, crossed>> /\ session' \in Somebody /\ active' \in Somebody
    BY <1>0, <1>4 DEF Serve, Obey, Typed, Asked
  <2> HIDE DEF d
  <2>2. calls' \subseteq Asked /\ \A e \in calls' \ calls : e = d
    BY <1>1, <1>2 DEF Typed, d
  <2> QED
    BY <1>2, <1>3, <1>4, <2>1, <2>2, AskStep DEF Typed
<1>5. CASE c.kind = "scan"
  <2>1. /\ UNCHANGED <<popup, strayed, session, active>>
        /\ crossed' = (crossed \/ (session # Unknown /\ active # popup.listed))
    BY <1>5 DEF Serve
  <2> DEFINE of == IF session = Unknown THEN Unknown ELSE active
             e == [c EXCEPT !.at = "answered", !.who = of]
  <2>2. calls' = (calls \ {c}) \cup {e}
    BY <1>5 DEF Serve, Replace
  <2>3. e \in Asked /\ e.kind = "scan" /\ e.who = of /\ e.at = "answered"
    BY <1>0, <1>5 DEF Asked, Typed
  <2>4. of = Unknown \/ of = popup.listed \/ crossed'
    BY <2>1
  <2> HIDE DEF e, of
  <2>5. Typed'
    BY <2>1, <2>2, <2>3 DEF Typed
  <2>6. ~strayed' => FetchesOwn(popup', calls')
    BY <2>1, <2>2, <2>3 DEF Followed, FetchesOwn
  <2>7. ~crossed' => ScansOwn(popup', calls')
    BY <2>1, <2>2, <2>3, <2>4 DEF Followed, ScansOwn, Typed
  <2> QED
    BY <2>5, <2>6, <2>7 DEF Followed
<1> QED
  BY <1>4, <1>5

(* What is painted: the balances of a fetch, the notes of a scan.          *)
LEMMA PaintStep ==
    ASSUME Typed, Followed, NEW c \in calls,
           BalancesArrive(c) \/ BalancesFail(c) \/ ShieldedArrive(c)
    PROVE  Typed' /\ Followed'
<1>0. /\ UNCHANGED <<session, active, strayed, crossed>> /\ calls' \subseteq calls
      /\ c.who \in Somebody /\ Unknown \in Somebody
  BY DEF BalancesArrive, BalancesFail, ShieldedArrive, Replace, Typed, Asked, Somebody
<1>1. popup' = popup \/ (\E w \in {Unknown, c.who} : popup' = [popup EXCEPT !.balances = w])
      \/ popup' = [popup EXCEPT !.byPool = c.who]
  BY DEF BalancesArrive, BalancesFail, ShieldedArrive
<1>2. Typed'
  BY <1>0, <1>1 DEF Typed
<1>3. popup'.shown = popup.shown /\ popup'.listed = popup.listed
  BY <1>1 DEF Typed
<1>4. popup'.balances \in {popup.balances, Unknown} \/ (c.kind = "fetch" /\ popup'.balances = c.who)
  BY DEF BalancesArrive, BalancesFail, ShieldedArrive, Typed
<1>5. \/ popup'.byPool = popup.byPool
      \/ c.kind = "scan" /\ c.at = "answered" /\ popup'.byPool = c.who
  BY DEF BalancesArrive, BalancesFail, ShieldedArrive, Typed
<1>6. ~strayed' => FetchesOwn(popup', calls')
  BY <1>0, <1>3, <1>4 DEF Followed, FetchesOwn
<1>7. ~crossed' => ScansOwn(popup', calls')
  BY <1>0, <1>3, <1>5 DEF Followed, ScansOwn
<1> QED
  BY <1>2, <1>6, <1>7 DEF Followed

(* The friendbot's funding, which keeps the refresh of its account.        *)
LEMMA FundStep ==
    ASSUME Typed, Followed, handleFundWithFriendbot \/ Funded
    PROVE  Typed' /\ Followed'
<1>0. UNCHANGED <<session, active, crossed>> /\ Unknown \in Somebody /\ popup.funding \in Somebody
  BY DEF handleFundWithFriendbot, Funded, Typed, Somebody
<1>1. \E w \in {Unknown, popup.shown} : popup' = [popup EXCEPT !.funding = w]
  BY DEF handleFundWithFriendbot, Funded
<1>2. \/ UNCHANGED <<calls, strayed>>
      \/ /\ calls' = calls \cup {Question("fetch", popup.funding)}
         /\ strayed' = (strayed \/ (popup.funding # popup.shown))
  BY DEF handleFundWithFriendbot, Funded
<1>3. /\ popup'.shown = popup.shown /\ popup'.listed = popup.listed
      /\ popup'.balances = popup.balances /\ popup'.byPool = popup.byPool
  BY <1>1 DEF Typed
<1>4. popup' \in [shown : Somebody, listed : Somebody, balances : Somebody,
                  byPool : Somebody, funding : Somebody]
  BY <1>0, <1>1 DEF Typed
<1>5. calls' \subseteq Asked /\ strayed' \in BOOLEAN
  <2>1. Question("fetch", popup.funding) \in Asked
    BY <1>0, QuestionFields
  <2>2. strayed \in BOOLEAN /\ calls \subseteq Asked
    BY DEF Typed
  <2> QED
    BY <1>2, <2>1, <2>2
<1>6. Typed'
  BY <1>0, <1>4, <1>5 DEF Typed
<1>7. ~strayed' => FetchesOwn(popup', calls')
  <2>1. Question("fetch", popup.funding).who = popup.funding
    BY <1>0, QuestionFields
  <2>2. CASE UNCHANGED <<calls, strayed>>
    BY <1>3, <2>2 DEF Followed, FetchesOwn
  <2>3. CASE /\ calls' = calls \cup {Question("fetch", popup.funding)}
             /\ strayed' = (strayed \/ (popup.funding # popup.shown))
    <3> SUFFICES ASSUME ~strayed' PROVE FetchesOwn(popup', calls')
      OBVIOUS
    <3>1. ~strayed /\ popup.funding = popup.shown
      BY <2>3
    <3> QED
      BY <1>3, <2>1, <2>3, <3>1 DEF Followed, FetchesOwn
  <2> QED
    BY <1>2, <2>2, <2>3
<1>8. ~crossed' => ScansOwn(popup', calls')
  BY <1>0, <1>2, <1>3, QuestionFields DEF Followed, ScansOwn
<1> QED
  BY <1>6, <1>7, <1>8 DEF Followed

LEMMA FollowedStep ==
    ASSUME Typed, Followed, [PopupNext]_popupVars
    PROVE  Typed' /\ Followed'
<1>0. Unknown \in Somebody /\ popup.shown \in Somebody
  BY DEF Typed, Somebody
<1>1. ASSUME NEW who \in Somebody, Command(who) PROVE Typed' /\ Followed'
  BY <1>1, AskStep, QuestionFields DEF Command, Typed
<1>2. ASSUME NEW who \in Somebody, Elsewhere(who) PROVE Typed' /\ Followed'
  BY <1>2, AskStep DEF Elsewhere, Obey, Typed
<1>3. CASE checkStatus
  BY <1>0, <1>3, AskStep, QuestionFields DEF checkStatus, Typed
<1>4. CASE fetchBalances
  BY <1>0, <1>4, AskStep, QuestionFields DEF fetchBalances, Typed
<1>5. CASE refreshShielded
  BY <1>0, <1>5, AskStep, QuestionFields DEF refreshShielded, Typed
<1>6. CASE handleFundWithFriendbot \/ Funded
  BY <1>6, FundStep
<1>7. ASSUME NEW c \in calls, Handles(c) PROVE Typed' /\ Followed'
  BY <1>7, ServeStep, ViewStep, PaintStep DEF Handles
<1>8. CASE UNCHANGED popupVars
  BY <1>8, AskStep DEF popupVars, Typed
<1> QED
  BY <1>1, <1>2, <1>3, <1>4, <1>5, <1>6, <1>7, <1>8 DEF PopupNext, Somebody

(* The balances on the screen are those of the account on it, unless a     *)
(* kept closure fetched others, and the private ones of the account listed *)
(* unless the worker scanned for one the popup had not heard of.           *)
THEOREM NothingPaintedOver == PopupSpec => []PopupInv
<1>1. PopupInit => Typed /\ Followed
  <2> SUFFICES ASSUME PopupInit PROVE Typed /\ Followed
    OBVIOUS
  <2>1. /\ popup = NewPopup /\ calls = {} /\ strayed = FALSE /\ crossed = FALSE
        /\ session \in Somebody /\ active \in Somebody /\ Unknown \in Somebody
    BY DEF PopupInit, Somebody
  <2>2. popup \in [shown : Somebody, listed : Somebody, balances : Somebody,
                   byPool : Somebody, funding : Somebody]
    BY <2>1 DEF NewPopup
  <2>3. popup.balances = Unknown /\ popup.byPool = Unknown
    BY <2>1 DEF NewPopup
  <2> QED
    BY <2>1, <2>2, <2>3 DEF Typed, Followed, FetchesOwn, ScansOwn
<1>2. Typed /\ Followed /\ [PopupNext]_popupVars => Typed' /\ Followed'
  BY FollowedStep
<1>3. Followed => PopupInv
  BY DEF Followed, FetchesOwn, ScansOwn, PopupInv, BalancesAreOwn, BalancesAreForShown, ShieldedIsForListed
<1> QED
  BY <1>1, <1>2, <1>3, PTL DEF PopupSpec

-----------------------------------------------------------------------------
SheetForms == [action : SheetActions \cup {NoAction}, submitting : BOOLEAN, error : BOOLEAN, done : BOOLEAN,
               progress : Nat, trustline : BOOLEAN]
Submissions == [at : {"asked", "answered", "failed", "ended"}, opening : Nat, by : Holders, action : SheetActions,
                total : Nat \ {0}, left : Nat, delivered : Nat, strayed : BOOLEAN, cut : BOOLEAN]
SheetTyped ==
    /\ form \in SheetForms /\ opening \in Nat /\ loopCount \in Nat
    /\ loops \in [1..MaxLoops -> Submissions \cup {NoLoop}]
    /\ \A n \in 1..MaxLoops : n > loopCount => loops[n] = NoLoop
    /\ holder \in Holders /\ worth \in 0..MaxAmount /\ trusted \in BOOLEAN
    /\ outlived \in BOOLEAN /\ handovers \in Nat

(* A submission that runs has something left to ask for.                   *)
Asking ==
    \A n \in 1..MaxLoops : Running(n) =>
        /\ loops[n] \in Submissions /\ loops[n].left <= loops[n].total
        /\ loops[n].at = "asked" => loops[n].left > 0

(* With nothing outlived, what runs is of this opening, and the button     *)
(* waits for it also while the sheet is closed.                            *)
BusyAlone ==
    ~outlived => /\ \A m, n \in 1..MaxLoops : Running(m) /\ Running(n) => m = n
                 /\ \A n \in 1..MaxLoops : Running(n) => loops[n].opening = opening
                 /\ form.submitting <=> SomeRunning

(* With one account, the rest of what is left was delivered, and what is   *)
(* left of a split is covered by the notes, unless the split is cut.       *)
Cut(l) == Split(l) /\ l.cut
Delivers(l) ==
    /\ l.by = holder /\ ~l.strayed
    /\ Cut(l) \/ (l.left + l.delivered = l.total /\ (Split(l) => l.left <= worth))
Delivering ==
    ~outlived /\ handovers = 0 => \A n \in 1..MaxLoops : Running(n) /\ loops[n].at # "failed" => Delivers(loops[n])
DoneDelivered ==
    ~outlived /\ handovers = 0 /\ form.done =>
        \E n \in 1..MaxLoops :
            /\ loops[n].at = "ended" /\ loops[n].opening = opening /\ ~loops[n].strayed
            /\ loops[n].delivered = loops[n].total \/ Cut(loops[n])
SheetKept == SheetTyped /\ Asking /\ BusyAlone /\ Delivering /\ DoneDelivered

(* What opens and closes leaves the submissions alone.                     *)
LEMMA SheetTurns ==
    ASSUME SheetKept, form' \in SheetForms, UNCHANGED <<loops, loopCount, holder, worth>>,
           trusted' \in BOOLEAN, outlived' \in BOOLEAN, opening' \in Nat, handovers' = handovers,
           outlived => outlived',
           \/ /\ opening' = opening /\ outlived' = outlived
              /\ form'.submitting = form.submitting /\ form'.done = form.done
           \/ /\ ~form'.submitting /\ ~form'.done /\ (SomeRunning => outlived')
    PROVE  SheetKept'
<1> USE DEF SheetKept
<1>1. SheetTyped'
  BY DEF SheetTyped
<1>2. \A n \in 1..MaxLoops : Running(n)' = Running(n)
  BY DEF Running
<1>3. SomeRunning' = SomeRunning
  BY DEF SomeRunning, Running
<1>4. Asking'
  BY <1>2 DEF Asking
<1>5. BusyAlone'
  <2>1. CASE opening' = opening /\ outlived' = outlived /\ form'.submitting = form.submitting
    BY <2>1, <1>2, <1>3 DEF BusyAlone
  <2>2. CASE ~form'.submitting /\ (SomeRunning => outlived')
    <3> SUFFICES ASSUME ~outlived' PROVE BusyAlone'
      BY DEF BusyAlone
    <3>1. ~SomeRunning
      BY <2>2
    <3> QED
      BY <1>2, <1>3, <2>2, <3>1 DEF BusyAlone, SomeRunning
  <2> QED
    BY <2>1, <2>2
<1>6. Delivering'
  <2>1. \A n \in 1..MaxLoops : Delivers(loops[n])' = Delivers(loops[n])
    BY DEF Delivers, Cut, Split
  <2> QED
    BY <1>2, <2>1 DEF Delivering
<1>7. DoneDelivered'
  BY DEF DoneDelivered
<1> QED
  BY <1>1, <1>4, <1>5, <1>6, <1>7

(* Opening the sheet starts a form of its own, whatever still runs.        *)
LEMMA OpenKeeps ==
    ASSUME SheetKept, NEW action \in SheetActions, OpenSheet(action)
    PROVE  SheetKept'
<1>1. /\ form' = NewOpening(action) /\ opening' = opening + 1 /\ outlived' = (outlived \/ SomeRunning)
      /\ UNCHANGED <<loops, loopCount, holder, worth, trusted, handovers>>
  BY DEF OpenSheet
<1>2. form' \in SheetForms /\ ~form'.submitting /\ ~form'.done
  <2>1. 0 \in Nat
    OBVIOUS
  <2> QED
    BY <1>1, <2>1, Zenon DEF NewOpening, SheetForms
<1>3. opening' \in Nat /\ trusted \in BOOLEAN
  BY <1>1 DEF SheetKept, SheetTyped
<1>4. outlived' \in BOOLEAN
  BY <1>1, Zenon
<1> QED
  BY <1>1, <1>2, <1>3, <1>4, SheetTurns

LEMMA TurnKeeps ==
    ASSUME SheetKept, CloseSheet \/ OpenTrustline \/ confirmTrustline \/ ScopeGuard PROVE SheetKept'
<1>1. /\ form' \in SheetForms /\ form'.submitting = form.submitting /\ form'.done = form.done
      /\ UNCHANGED <<opening, loops, loopCount, holder, worth, outlived, handovers>>
  BY DEF CloseSheet, OpenTrustline, confirmTrustline, ScopeGuard, SheetKept,
     SheetTyped, SheetForms
<1>2. trusted' \in BOOLEAN
  BY DEF CloseSheet, OpenTrustline, confirmTrustline, ScopeGuard, SheetKept,
     SheetTyped
<1> QED
  BY <1>1, <1>2, SheetTurns DEF SheetKept, SheetTyped

LEMMA HandoverKeeps == ASSUME SheetKept, Handover PROVE SheetKept'
<1>1. /\ handovers' = handovers + 1 /\ holder' \in Holders
      /\ worth' \in 0..MaxAmount /\ UNCHANGED <<form, opening, loops, loopCount, trusted, outlived>>
  BY DEF Handover
<1>2. handovers' # 0 /\ handovers' \in Nat
  BY <1>1 DEF SheetKept, SheetTyped
<1> QED
  BY <1>1, <1>2 DEF SheetKept, SheetTyped, Asking, BusyAlone, Delivering,
     DoneDelivered, Running, SomeRunning

LEMMA SubmitKeeps == ASSUME SheetKept, submit PROVE SheetKept'
<1> USE DEF SheetKept
<1>1. /\ form.action \in SheetActions /\ ~form.done /\ ~form.submitting /\ loopCount < MaxLoops /\ loopCount' = loopCount + 1
      /\ form' = [form EXCEPT !.submitting = TRUE, !.error = FALSE, !.progress = 0]
      /\ UNCHANGED <<opening, holder, guarded, worth, trusted, outlived, handovers>>
  BY DEF submit, canSubmit, SheetTyped, SheetForms
<1>2. PICK amount \in (IF form.action = "shield" THEN {1} ELSE 1..MaxAmount) :
          loops' = [loops EXCEPT ![loopCount'] =
                       [at |-> "asked", opening |-> opening, by |-> holder, action |-> form.action,
                        total |-> amount, left |-> amount, delivered |-> 0, strayed |-> FALSE,
                        cut |-> amount > 1 /\ amount > worth]]
  BY DEF submit
<1> DEFINE l == [at |-> "asked", opening |-> opening, by |-> holder, action |-> form.action,
                 total |-> amount, left |-> amount, delivered |-> 0, strayed |-> FALSE,
                 cut |-> amount > 1 /\ amount > worth]
<1>3. amount \in Nat \ {0} /\ worth \in Nat
  BY <1>2, SheetAssumption DEF SheetTyped
<1>4. /\ l \in Submissions /\ l.at = "asked" /\ l.opening = opening /\ l.by = holder /\ l.action = form.action
      /\ l.total = amount /\ l.left = amount /\ l.delivered = 0
  <2>1. l.at = "asked" /\ l.opening = opening /\ l.by = holder /\ l.action = form.action /\ l.total = amount /\ l.left = amount
        /\ l.delivered = 0
     OBVIOUS
  <2>2. 0 \in Nat /\ opening \in Nat /\ holder \in Holders
    BY DEF SheetTyped
  <2>4. (amount > 1 /\ amount > worth) \in BOOLEAN
    OBVIOUS
  <2>3. l \in Submissions
    BY <1>1, <1>3, <2>2, <2>4, Zenon DEF Submissions
  <2> QED
    BY <2>1, <2>3
<1>5. ~l.strayed /\ (l.cut <=> amount > 1 /\ amount > worth)
  BY Zenon
<1>6. PICK k \in 1..MaxLoops : k = loopCount'
  <2>1. loopCount' \in 1..MaxLoops
    BY <1>1, SheetAssumption DEF SheetTyped
  <2> QED
    BY <2>1
<1>7. k \in Nat /\ k > loopCount /\ loops' = [loops EXCEPT ![k] = l]
  BY <1>1, <1>2, <1>6 DEF SheetTyped
<1> HIDE DEF l
<1>8. /\ loops' \in [1..MaxLoops -> Submissions \cup {NoLoop}] /\ loops'[k] = l /\ \A n \in (1..MaxLoops) \ {k} : loops'[n] = loops[n]
  BY <1>4, <1>6, <1>7 DEF SheetTyped
<1>9. form' \in SheetForms /\ form'.submitting /\ form'.done = form.done
  BY <1>1 DEF SheetTyped, SheetForms
<1>10. /\ \A n \in (1..MaxLoops) \ {k} : Running(n)' <=> Running(n)
       /\ Running(k)' /\ ~Running(k)
  <2>1. \A n \in (1..MaxLoops) \ {k} : Running(n)' <=> Running(n)
    BY <1>8 DEF Running
  <2>2. Running(k)'
    BY <1>4, <1>8 DEF Running
  <2>3. loops[k] = NoLoop
    BY <1>7 DEF SheetTyped
  <2>4. ~Running(k)
    BY <2>3 DEF Running, NoLoop
  <2> QED
    BY <2>1, <2>2, <2>4
<1>11. SheetTyped'
  <2>1. \A n \in 1..MaxLoops : n > loopCount' => loops'[n] = NoLoop
    BY <1>1, <1>6, <1>7, <1>8 DEF SheetTyped
  <2>2. loopCount' \in Nat
    BY <1>1 DEF SheetTyped
  <2> QED
    BY <1>1, <1>8, <1>9, <2>1, <2>2 DEF SheetTyped
<1>12. Asking'
  BY <1>3, <1>4, <1>8, <1>10 DEF Asking
<1>13. BusyAlone'
  <2> SUFFICES ASSUME ~outlived PROVE BusyAlone'
    BY <1>1 DEF BusyAlone
  <2>1. \A n \in 1..MaxLoops : ~Running(n)
    BY <1>1 DEF BusyAlone, SomeRunning
  <2> QED
    <3>1. \A n \in 1..MaxLoops : Running(n)' <=> n = k
      BY <1>7, <1>10, <2>1
    <3>2. loops'[k].opening = opening'
      BY <1>1, <1>4, <1>8
    <3>3. SomeRunning'
      BY <1>7, <3>1 DEF SomeRunning
    <3> QED
      BY <1>9, <3>1, <3>2, <3>3 DEF BusyAlone
<1>14. Delivering'
  <2>1. Delivers(loops[k])'
    <3>1. loops'[k] = l /\ holder' = holder /\ worth' = worth
      BY <1>1, <1>8
    <3>2. Cut(l) \/ (l.left + l.delivered = l.total /\ (Split(l) => l.left <= worth))
      BY <1>3, <1>4, <1>5 DEF Cut, Split
    <3> QED
      BY <1>4, <1>5, <3>1, <3>2 DEF Delivers, Cut, Split
  <2>2. \A n \in (1..MaxLoops) \ {k} : Delivers(loops[n]) => Delivers(loops[n])'
    BY <1>1, <1>8 DEF Delivers, Cut, Split
  <2>3. \A n \in (1..MaxLoops) \ {k} : loops'[n].at # "failed" => loops[n].at # "failed"
    BY <1>8
  <2> QED
    BY <1>1, <1>10, <2>1, <2>2, <2>3 DEF Delivering
<1>15. DoneDelivered'
  BY <1>1, <1>9 DEF DoneDelivered
<1> QED
  BY <1>11, <1>12, <1>13, <1>14, <1>15

(* A submission that goes on, and stays the only one.                      *)
LEMMA GoesOn ==
    ASSUME SheetKept, NEW n \in 1..MaxLoops, Running(n), NEW r \in Submissions, loops' = [loops EXCEPT ![n] = r],
           r.at # "ended", r.opening = loops[n].opening, r.left <= r.total, r.at = "asked" => r.left > 0,
           form' \in SheetForms, form'.submitting = form.submitting, form'.done = form.done,
           UNCHANGED <<opening, loopCount, holder, trusted, outlived, handovers>>, worth' \in 0..MaxAmount,
           ~outlived /\ handovers = 0 /\ r.at # "failed" => Delivers(loops[n])'
    PROVE  SheetKept'
<1> USE DEF SheetKept
<1>1. /\ loops' \in [1..MaxLoops -> Submissions \cup {NoLoop}] /\ loops'[n] = r
      /\ \A m \in (1..MaxLoops) \ {n} : loops'[m] = loops[m]
  BY DEF SheetTyped
<1>2. \A m \in 1..MaxLoops : Running(m)' <=> Running(m)
  <2>1. r.at \in {"asked", "answered", "failed"}
    BY DEF Submissions
  <2> QED
    BY <1>1, <2>1 DEF Running
<1>3. SomeRunning' <=> SomeRunning
  BY <1>2 DEF SomeRunning
<1>4. SheetTyped'
  <2>1. loops[n] # NoLoop
    BY DEF Running, NoLoop
  <2> QED
    BY <1>1, <2>1 DEF SheetTyped
<1>5. Asking'
  BY <1>1, <1>2 DEF Asking
<1>6. BusyAlone'
  <2>1. \A m \in 1..MaxLoops : loops'[m].opening = loops[m].opening
    BY <1>1
  <2> QED
    BY <1>2, <1>3, <2>1 DEF BusyAlone
<1>7. Delivering'
  <2> SUFFICES ASSUME ~outlived, handovers = 0, NEW m \in 1..MaxLoops, Running(m)', loops'[m].at # "failed" PROVE Delivers(loops[m])'
    BY DEF Delivering
  <2>1. m = n
    BY <1>2 DEF BusyAlone
  <2> QED
    BY <1>1, <2>1
<1>8. DoneDelivered'
  <2>1. \A m \in 1..MaxLoops : loops[m].at = "ended" => loops'[m] = loops[m]
    BY <1>1 DEF Running
  <2> QED
    BY <2>1 DEF DoneDelivered
<1> QED
  BY <1>4, <1>5, <1>6, <1>7, <1>8

(* What a paid part leaves of a submission.                                *)
LEMMA PaidTyped ==
    ASSUME NEW l \in Submissions, NEW amount \in 1..l.left, NEW dearer \in BOOLEAN
    PROVE  LET r == Paid(l, amount, dearer) IN
           /\ r \in Submissions /\ r.at = "answered" /\ r.opening = l.opening /\ r.by = l.by /\ r.total = l.total
           /\ r.left = l.left - amount /\ r.delivered = l.delivered + amount
           /\ r.strayed <=> l.strayed \/ holder # l.by
           /\ r.cut <=> l.cut \/ dearer
<1> DEFINE strays == l.strayed \/ holder # l.by
           cuts == l.cut \/ dearer
           r == [l EXCEPT !.at = "answered", !.left = l.left - amount, !.delivered = l.delivered + amount,
                          !.strayed = strays, !.cut = cuts]
<1>1. Paid(l, amount, dearer) = r
  BY DEF Paid, Submissions
<1>2. strays \in BOOLEAN /\ cuts \in BOOLEAN /\ (strays <=> l.strayed \/ holder # l.by) /\ (cuts <=> l.cut \/ dearer)
  BY DEF Submissions
<1>3. l.left - amount \in Nat /\ l.delivered + amount \in Nat
  BY DEF Submissions
<1> HIDE DEF strays, cuts
<1>4. r \in Submissions
  BY <1>2, <1>3 DEF Submissions
<1>5. /\ r.at = "answered" /\ r.opening = l.opening /\ r.by = l.by /\ r.total = l.total
      /\ r.left = l.left - amount /\ r.delivered = l.delivered + amount /\ r.strayed = strays /\ r.cut = cuts
  BY DEF Submissions
<1> QED
  BY <1>1, <1>2, <1>4, <1>5

LEMMA SpendsKeeps ==
    ASSUME SheetKept, NEW n \in 1..MaxLoops, Spends(n)
    PROVE  SheetKept'
<1> USE DEF SheetKept
<1> DEFINE l == loops[n]
<1>1. /\ l.at = "asked" /\ Running(n) /\ l \in Submissions /\ l.left > 0 /\ l.left <= l.total /\ worth \in Nat
      /\ UNCHANGED <<form, opening, loopCount, holder, guarded, trusted, outlived, handovers>>
  BY SheetAssumption DEF Spends, Running, Asking, SheetTyped
<1>0. form' \in SheetForms /\ form'.submitting = form.submitting /\ form'.done = form.done
  BY <1>1 DEF SheetTyped
<1>2. ~outlived /\ handovers = 0 => Delivers(l)
  BY <1>1 DEF Delivering
<1>3. CASE loops' = [loops EXCEPT ![n].at = "failed"] /\ UNCHANGED worth
  <2> DEFINE r == [l EXCEPT !.at = "failed"]
  <2>1. r \in Submissions /\ r.at = "failed" /\ r.opening = l.opening /\ r.left = l.left /\ r.total = l.total
    BY <1>1 DEF Submissions
  <2>2. loops' = [loops EXCEPT ![n] = r]
    BY <1>3
  <2> HIDE DEF r
  <2> QED
    BY <1>0, <1>1, <1>3, <2>1, <2>2, GoesOn DEF SheetTyped
<1>4. CASE \E amount \in 1..l.left, dearer \in BOOLEAN, rest \in 0..MaxAmount :
             /\ ~Split(l) => amount = l.left /\ ~dearer
             /\ amount < l.left /\ ~dearer => amount + rest >= worth
             /\ loops' = [loops EXCEPT ![n] = Paid(l, amount, dearer)]
             /\ worth' = rest
  <2>1. PICK amount \in 1..l.left, dearer \in BOOLEAN, rest \in 0..MaxAmount :
             /\ ~Split(l) => amount = l.left /\ ~dearer
             /\ amount < l.left /\ ~dearer => amount + rest >= worth
             /\ loops' = [loops EXCEPT ![n] = Paid(l, amount, dearer)]
             /\ worth' = rest
    BY <1>4
  <2> DEFINE r == Paid(l, amount, dearer)
  <2>2. amount \in Nat /\ rest \in Nat /\ l.left \in Nat /\ l.delivered \in Nat /\ l.total \in Nat
    BY <1>1, SheetAssumption DEF Submissions
  <2>3. /\ r \in Submissions /\ r.at = "answered" /\ r.opening = l.opening /\ r.by = l.by /\ r.total = l.total
        /\ r.left = l.left - amount /\ r.delivered = l.delivered + amount
        /\ r.strayed <=> l.strayed \/ holder # l.by
        /\ r.cut <=> l.cut \/ dearer
    BY <1>1, <2>1, <2>2, PaidTyped
  <2> HIDE DEF r
  <2>4. r.left <= r.total
    BY <1>1, <2>2, <2>3
  <2>5. loops'[n] = r /\ loops' = [loops EXCEPT ![n] = r]
    BY <2>1 DEF SheetTyped, r
  <2>6. ASSUME ~outlived, handovers = 0 PROVE Delivers(loops[n])'
    <3>1. Delivers(l)
      BY <1>2, <2>6
    <3>2. r.by = holder' /\ ~r.strayed
      BY <1>1, <2>3, <3>1 DEF Delivers
    <3>3. Split(r) <=> Split(l)
      BY <2>3 DEF Split
    <3>4. CASE Cut(r)
      BY <2>5, <3>2, <3>4 DEF Delivers, Cut, Split
    <3>5. CASE ~Cut(r)
      <4>1. ~Cut(l) /\ (Split(l) => ~dearer)
        BY <2>3, <3>3, <3>5 DEF Cut
      <4>2. l.left + l.delivered = l.total /\ (Split(l) => l.left <= worth)
        BY <3>1, <4>1 DEF Delivers
      <4>3. r.left + r.delivered = r.total
        BY <2>2, <2>3, <4>2
      <4>4. Split(r) => r.left <= worth'
        <5>1. CASE amount < l.left
          BY <1>1, <2>1, <2>2, <2>3, <3>3, <4>1, <4>2, <5>1
        <5>2. CASE amount = l.left
          BY <2>1, <2>2, <2>3, <5>2
        <5> QED
          BY <2>1, <2>2, <5>1, <5>2
      <4> QED
        BY <2>5, <3>2, <4>3, <4>4 DEF Delivers, Cut, Split
    <3> QED
      BY <3>4, <3>5
  <2> HIDE DEF l
  <2> QED
    BY <1>0, <1>1, <2>1, <2>3, <2>4, <2>5, <2>6, GoesOn DEF l
<1>5. CASE /\ Split(l) /\ worth = 0
           /\ loops' = [loops EXCEPT ![n].at = "answered", ![n].left = 0] /\ UNCHANGED worth
  <2> DEFINE r == [l EXCEPT !.at = "answered", !.left = 0]
  <2>1. /\ r \in Submissions /\ r.at = "answered" /\ r.opening = l.opening /\ r.left = 0 /\ r.total = l.total
        /\ r.by = l.by /\ r.strayed = l.strayed /\ r.cut = l.cut
    BY <1>1 DEF Submissions
  <2>2. loops' = [loops EXCEPT ![n] = r]
    BY <1>5 DEF SheetTyped
  <2>3. loops'[n] = r
    BY <2>2 DEF SheetTyped
  <2>4. 0 <= l.total
    BY <1>1 DEF Submissions
  <2> HIDE DEF r
  <2>5. ASSUME ~outlived, handovers = 0 PROVE Delivers(loops[n])'
    <3>1. Delivers(l)
      BY <1>2, <2>5
    <3>2. Cut(l)
      BY <1>1, <1>5, <3>1 DEF Delivers, Submissions
    <3> QED
      BY <1>1, <2>1, <2>3, <3>1, <3>2 DEF Delivers, Cut, Split
  <2> HIDE DEF l
  <2> QED
    BY <1>0, <1>1, <1>5, <2>1, <2>2, <2>4, <2>5, GoesOn DEF SheetTyped, l
<1> QED
  BY <1>3, <1>4, <1>5 DEF Spends

(* Notes that go elsewhere cut the split that counted on them.             *)
LEMMA NotesMoveKeeps == ASSUME SheetKept, NotesMove PROVE SheetKept'
<1> USE DEF SheetKept
<1>1. /\ worth' \in 0..MaxAmount
      /\ UNCHANGED <<form, opening, loopCount, holder, guarded, trusted, outlived, handovers>>
  BY DEF NotesMove
<1>2. worth \in Nat /\ worth' \in Nat
  BY <1>1, SheetAssumption DEF SheetTyped
<1> DEFINE hit(n) == Running(n) /\ Split(loops[n]) /\ worth' < worth
<1>3. /\ DOMAIN loops' = 1..MaxLoops
      /\ loops' = [n \in 1..MaxLoops |-> IF hit(n) THEN [loops[n] EXCEPT !.cut = TRUE] ELSE loops[n]]
      /\ \A n \in 1..MaxLoops : loops'[n] = IF hit(n) THEN [loops[n] EXCEPT !.cut = TRUE] ELSE loops[n]
  BY DEF NotesMove
<1>4. \A n \in 1..MaxLoops : hit(n) =>
         /\ loops[n] \in Submissions /\ loops'[n] \in Submissions /\ loops'[n].cut
         /\ loops'[n].at = loops[n].at /\ loops'[n].opening = loops[n].opening /\ loops'[n].by = loops[n].by
         /\ loops'[n].total = loops[n].total /\ loops'[n].left = loops[n].left
         /\ loops'[n].delivered = loops[n].delivered /\ loops'[n].strayed = loops[n].strayed
  <2> SUFFICES ASSUME NEW n \in 1..MaxLoops, hit(n)
               PROVE  /\ loops[n] \in Submissions /\ loops'[n] \in Submissions /\ loops'[n].cut
                      /\ loops'[n].at = loops[n].at /\ loops'[n].opening = loops[n].opening /\ loops'[n].by = loops[n].by
                      /\ loops'[n].total = loops[n].total /\ loops'[n].left = loops[n].left
                      /\ loops'[n].delivered = loops[n].delivered /\ loops'[n].strayed = loops[n].strayed
    OBVIOUS
  <2>1. loops[n] \in Submissions
    BY DEF Asking
  <2>2. loops'[n] = [loops[n] EXCEPT !.cut = TRUE]
    BY <1>3
  <2> QED
    BY <2>1, <2>2 DEF Submissions
<1>5. \A n \in 1..MaxLoops : ~hit(n) => loops'[n] = loops[n]
  BY <1>3
<1> HIDE DEF hit
<1>6. \A n \in 1..MaxLoops : Running(n)' <=> Running(n)
  BY <1>4, <1>5 DEF Running
<1>7. SheetTyped'
  <2>1. \A n \in 1..MaxLoops : loops'[n] \in Submissions \cup {NoLoop}
    BY <1>4, <1>5 DEF SheetTyped
  <2>2. loops' \in [1..MaxLoops -> Submissions \cup {NoLoop}]
    BY <1>3, <2>1
  <2>3. \A n \in 1..MaxLoops : n > loopCount => loops'[n] = NoLoop
    <3> SUFFICES ASSUME NEW n \in 1..MaxLoops, n > loopCount PROVE loops'[n] = NoLoop
      OBVIOUS
    <3>1. loops[n] = NoLoop
      BY DEF SheetTyped
    <3>2. ~hit(n)
      BY <3>1 DEF hit, Running, NoLoop
    <3> QED
      BY <1>5, <3>1, <3>2
  <2> QED
    BY <1>1, <2>2, <2>3 DEF SheetTyped
<1>8. Asking'
  BY <1>4, <1>5, <1>6 DEF Asking
<1>9. BusyAlone'
  <2>1. \A n \in 1..MaxLoops : Running(n) => loops'[n].opening = loops[n].opening
    BY <1>4, <1>5
  <2> QED
    BY <1>1, <1>6, <2>1 DEF BusyAlone, SomeRunning
<1>10. Delivering'
  <2> SUFFICES ASSUME ~outlived, handovers = 0, NEW n \in 1..MaxLoops, Running(n), loops'[n].at # "failed"
               PROVE Delivers(loops[n])'
    BY <1>1, <1>6 DEF Delivering
  <2>1. loops[n].at # "failed"
    BY <1>4, <1>5
  <2>2. Delivers(loops[n]) /\ loops[n] \in Submissions
    BY <2>1 DEF Delivering, Asking
  <2>3. CASE hit(n)
    BY <1>1, <1>4, <2>2, <2>3 DEF Delivers, Cut, Split, hit
  <2>4. CASE ~hit(n)
    <3>1. ~Split(loops[n]) \/ worth <= worth'
      BY <1>2, <2>4 DEF hit
    <3> QED
      BY <1>1, <1>2, <1>5, <2>2, <2>4, <3>1 DEF Delivers, Cut, Split, Submissions
  <2> QED
    BY <2>3, <2>4
<1>11. DoneDelivered'
  <2>1. \A m \in 1..MaxLoops : loops[m].at = "ended" => loops'[m] = loops[m]
    BY <1>5 DEF hit, Running
  <2> QED
    BY <1>1, <2>1 DEF DoneDelivered, Cut, Split
<1> QED
  BY <1>7, <1>8, <1>9, <1>10, <1>11

LEMMA SpendAnswered ==
    ASSUME SheetKept, NEW n \in 1..MaxLoops, Answer(n)
    PROVE  SheetKept'
<1> USE DEF SheetKept
<1> DEFINE l == loops[n]
<1>1. /\ l.at \in {"answered", "failed"} /\ Running(n) /\ l \in Submissions /\ l.left <= l.total
      /\ UNCHANGED <<opening, loopCount, holder, guarded, worth, trusted, outlived, handovers>>
  BY DEF Answer, Running, Asking
<1>2. CASE /\ l.at = "answered" /\ l.left > 0
           /\ form' = [form EXCEPT !.progress = l.total - l.left]
           /\ loops' = [loops EXCEPT ![n].at = "asked"]
  <2> DEFINE r == [l EXCEPT !.at = "asked"]
  <2>1. /\ r \in Submissions /\ r.at = "asked" /\ r.opening = l.opening /\ r.left = l.left /\ r.total = l.total
        /\ r.by = l.by /\ r.action = l.action /\ r.delivered = l.delivered /\ r.cut = l.cut
    BY <1>1 DEF Submissions
  <2>0. ~l.strayed => ~r.strayed
    BY <1>1 DEF Submissions
  <2>2. loops' = [loops EXCEPT ![n] = r]
    BY <1>2
  <2>3. loops'[n] = r
    BY <2>2 DEF SheetTyped
  <2>4. l.total - l.left \in Nat
    BY <1>1 DEF Submissions
  <2>5. form' \in SheetForms /\ form'.submitting = form.submitting /\ form'.done = form.done
    BY <1>2, <2>4 DEF SheetTyped, SheetForms
  <2> HIDE DEF r
  <2>6. ~outlived /\ handovers = 0 => Delivers(loops[n])'
    <3>1. ~outlived /\ handovers = 0 => Delivers(l)
      BY <1>1, <1>2 DEF Delivering
    <3> QED
      BY <1>1, <2>0, <2>1, <2>3, <3>1 DEF Delivers, Cut, Split
  <2> QED
    BY <1>1, <1>2, <2>1, <2>2, <2>5, <2>6, GoesOn DEF SheetTyped
<1>3. CASE \/ l.at = "failed" /\ form' = ChunkFails(form) /\ loops' = [loops EXCEPT ![n].at = "ended"]
           \/ /\ l.at = "answered" /\ l.left = 0
              /\ form' = [form EXCEPT !.submitting = FALSE, !.progress = 0, !.done = TRUE]
              /\ loops' = [loops EXCEPT ![n].at = "ended"]
  <2> DEFINE r == [l EXCEPT !.at = "ended"]
  <2>1. /\ r \in Submissions /\ r.at = "ended" /\ r.opening = l.opening /\ r.left = l.left /\ r.total = l.total
        /\ r.by = l.by /\ r.action = l.action /\ r.delivered = l.delivered /\ r.cut = l.cut
    BY <1>1 DEF Submissions
  <2>0. ~l.strayed => ~r.strayed
    BY <1>1 DEF Submissions
  <2>2. loops' = [loops EXCEPT ![n] = r]
    BY <1>3
  <2>3. /\ loops' \in [1..MaxLoops -> Submissions \cup {NoLoop}] /\ loops'[n] = r
        /\ \A m \in (1..MaxLoops) \ {n} : loops'[m] = loops[m]
    BY <2>1, <2>2 DEF SheetTyped
  <2>4. form' \in SheetForms /\ ~form'.submitting
    <3>1. CASE form' = ChunkFails(form)
      BY <3>1 DEF ChunkFails, SheetTyped, SheetForms
    <3>2. CASE form' = [form EXCEPT !.submitting = FALSE, !.progress = 0, !.done = TRUE]
      BY <3>2 DEF SheetTyped, SheetForms
    <3> QED
      BY <1>3, <3>1, <3>2
  <2>5. form'.done => form.done \/ (l.at = "answered" /\ l.left = 0)
    BY <1>3 DEF ChunkFails, SheetTyped, SheetForms
  <2> HIDE DEF r
  <2>6. \A m \in 1..MaxLoops : Running(m)' <=> Running(m) /\ m # n
    BY <2>1, <2>3 DEF Running
  <2>7. SheetTyped'
    <3>1. loops[n] # NoLoop
      BY <1>1 DEF Running, NoLoop
    <3> QED
      BY <1>1, <2>3, <2>4, <3>1 DEF SheetTyped
  <2>8. Asking'
    BY <2>3, <2>6 DEF Asking
  <2>9. BusyAlone'
    <3> SUFFICES ASSUME ~outlived PROVE BusyAlone'
      BY <1>1 DEF BusyAlone
    <3>1. \A m \in 1..MaxLoops : ~Running(m)'
      BY <1>1, <2>6 DEF BusyAlone
    <3> QED
      BY <2>4, <3>1 DEF BusyAlone, SomeRunning
  <2>10. Delivering'
    <3>1. \A m \in (1..MaxLoops) \ {n} : Delivers(loops[m]) => Delivers(loops[m])'
      BY <1>1, <2>3 DEF Delivers, Cut, Split
    <3> QED
      BY <1>1, <2>3, <2>6, <3>1 DEF Delivering
  <2>11. DoneDelivered'
    <3> SUFFICES ASSUME ~outlived, handovers = 0, form'.done
                 PROVE \E m \in 1..MaxLoops :
                          /\ loops'[m].at = "ended" /\ loops'[m].opening = opening /\ ~loops'[m].strayed
                          /\ loops'[m].delivered = loops'[m].total \/ Cut(loops'[m])
      BY <1>1 DEF DoneDelivered, Cut, Split
    <3>1. CASE form.done
      <4>1. PICK m \in 1..MaxLoops :
            /\ loops[m].at = "ended" /\ loops[m].opening = opening /\ ~loops[m].strayed
            /\ loops[m].delivered = loops[m].total \/ Cut(loops[m])
        BY <3>1 DEF DoneDelivered
      <4>2. m # n
        BY <1>1, <4>1
      <4> QED
        BY <2>3, <4>1, <4>2
    <3>2. CASE l.at = "answered" /\ l.left = 0
      <4>1. Delivers(l) /\ l.opening = opening
        BY <1>1, <3>2 DEF Delivering, BusyAlone
      <4>2. l.delivered = l.total \/ Cut(l)
        BY <1>1, <3>2, <4>1 DEF Delivers, Submissions
      <4> QED
        BY <2>0, <2>1, <2>3, <4>1, <4>2 DEF Delivers, Cut, Split
    <3> QED
      BY <2>5, <3>1, <3>2
  <2> QED
    BY <2>7, <2>8, <2>9, <2>10, <2>11
<1> QED
  BY <1>2, <1>3 DEF Answer

(* ShieldedSend.tsx and its siblings: for any number of submissions,       *)
(* openings and accounts and any amounts, the button stays closed as long  *)
(* as a submission of this opening runs, and `done` is shown only when its *)
(* whole amount was paid, or it is a split whose fee rose or whose notes   *)
(* something else spent; unless the sheet was opened again over a running  *)
(* loop or the account was switched elsewhere.                             *)
THEOREM SheetHolds == SheetSpec => []SheetInv
<1>1. SheetInit => SheetKept
  <2> SUFFICES ASSUME SheetInit PROVE SheetKept
    OBVIOUS
  <2>1. form \in SheetForms /\ ~form.submitting /\ ~form.done
    <3>1. 0 \in Nat
      OBVIOUS
    <3> QED
      BY <3>1, Zenon DEF SheetInit, NewOpening, SheetForms
  <2>2. outlived \in BOOLEAN
    BY Zenon DEF SheetInit
  <2>3. \A n \in 1..MaxLoops : loops[n] = NoLoop /\ ~Running(n)
    BY DEF SheetInit, NoLoop, Running
  <2>4. SheetTyped
    BY <2>1, <2>2, <2>3, SheetAssumption DEF SheetInit, SheetTyped
  <2> QED
    BY <2>1, <2>3, <2>4 DEF SheetKept, Asking, BusyAlone, Delivering,
       DoneDelivered, SomeRunning
<1>2. SheetKept /\ [SheetNext]_sheetVars => SheetKept'
  <2> SUFFICES ASSUME SheetKept, [SheetNext]_sheetVars PROVE SheetKept'
    OBVIOUS
  <2>1. CASE UNCHANGED sheetVars
    BY <2>1 DEF sheetVars, SheetKept, SheetTyped, Asking, BusyAlone, Delivering,
       DoneDelivered, Delivers, Cut, Split, Running, SomeRunning
  <2> QED
    BY <2>1, OpenKeeps, TurnKeeps, HandoverKeeps, SubmitKeeps, SpendsKeeps,
       NotesMoveKeeps, SpendAnswered DEF SheetNext, Progresses
<1>3. SheetKept => SheetInv
  BY DEF SheetKept, SheetInv, BusyAlone, BusyWhileRunning, DoneDelivered,
     DoneIsDelivered, Cut, SomeRunning
<1> QED
  BY <1>1, <1>2, <1>3, PTL DEF SheetSpec

-----------------------------------------------------------------------------
(* The approval's page.  Before it opens nothing of it is set; while its   *)
(* request is pending no answer was received, so the first on the wire is  *)
(* the first pressed; and account and network are still those the request  *)
(* began with, unless they were switched.                                  *)
NotOpened(r) == request[r].st = "new" =>
    page[r] = NewPage /\ wire[r] = <<>> /\ saw[r] = NotSeen /\ request[r].used = Nothing

FirstHeard(r) ==
    /\ Pending(r) => 
          \/ saw[r].pressed = "nothing" /\ wire[r] = <<>>
          \/ /\ saw[r].pressed \in {"yes", "no"} /\ wire[r] # <<>>
             /\ Head(wire[r]) = (saw[r].pressed = "yes")
    /\ request[r].st = "yes" => saw[r].pressed = "yes"
    /\ request[r].used # Nothing => request[r].st = "over" /\ saw[r].pressed = "yes"

SignerKnown(r) ==
    request[r].st \in {"pending", "yes"} /\ ~moved[r].signer =>
        /\ signer = request[r].signer
        /\ page[r].status \in {Nothing, request[r].signer}
        /\ saw[r].pressed = "yes" => saw[r].status = request[r].signer

ChainKnown(r) ==
    request[r].st \in {"pending", "yes"} =>
        /\ Told(r) =>
              /\ request[r].kind.chain = "before" /\ request[r].chain = request[r].named
              /\ saw[r].pressed # "nothing" => saw[r].chain = request[r].named
        /\ request[r].named = Nothing /\ ~moved[r].chain =>
              /\ request[r].chain = chain
              /\ page[r].loaded => page[r].network = chain
              /\ saw[r].pressed # "nothing" /\ saw[r].loaded => saw[r].chain = chain

UsedAsShown(r) == request[r].used # Nothing =>
        /\ ~moved[r].signer => saw[r].status = request[r].used.signer
        /\ /\ request[r].kind.chain # "none" /\ saw[r].loaded /\ ~moved[r].chain
           /\ request[r].named = Nothing \/ Told(r)
           => saw[r].chain = request[r].used.chain

PayloadShown(r) == Pending(r) =>
    /\ request[r].kind.stored => r \in payloads
    /\ page[r].read => page[r].content = r

PageKept(r) == NotOpened(r) /\ FirstHeard(r) /\ SignerKnown(r) /\ ChainKnown(r) /\ UsedAsShown(r) /\ PayloadShown(r)

Using == [signer : Signers \cup {Nothing}, chain : Chains \cup {Nothing}]
RequestType ==
    [st : {"new", "pending", "yes", "no", "over"}, kind : ApprovalApp, signer : Signers \cup {Nothing},
     chain : Chains \cup {Nothing}, named : Chains \cup {Nothing}, used : Using \cup {Nothing}]
PageType ==
    [st : {"none", "open", "closed"}, status : Signers \cup {Nothing}, network : Chains,
     loaded : BOOLEAN, read : BOOLEAN, content : Requests \cup {Nothing}, loading : BOOLEAN, presses : Nat]
SawType == [pressed : {"nothing", "yes", "no"}, status : Signers \cup {Nothing},
            chain : Chains \cup {Nothing}, loaded : BOOLEAN]
PageTyped ==
    /\ signer \in Signers \cup {Nothing} /\ chain \in Chains
    /\ request \in [Requests -> RequestType] /\ page \in [Requests -> PageType]
    /\ wire \in [Requests -> Seq(BOOLEAN)] /\ saw \in [Requests -> SawType]
    /\ moved \in [Requests -> [signer : BOOLEAN, chain : BOOLEAN]]

PagesKept == PageTyped /\ \A r \in Requests : PageKept(r)


LEMMA PageStart == PageInit => PagesKept
<1> SUFFICES ASSUME PageInit PROVE PagesKept
  OBVIOUS
<1> USE ApprovalPageAssumption DEF PageInit
<1>1. NewRequest \in RequestType
  BY DEF NewRequest, RequestType, ApprovalApp, GrantAccess, SignTransaction, SignMessage,
         SignAuthEntry, AddToken, AddAsset, RemoveAsset
<1>2. NewPage \in PageType
  BY DEF NewPage, PageType
<1>3. NotSeen \in SawType
  BY DEF NotSeen, SawType
<1>4. PageTyped
  BY <1>1, <1>2, <1>3 DEF PageTyped
<1>5. \A r \in Requests : PageKept(r)
  <2> SUFFICES ASSUME NEW r \in Requests PROVE PageKept(r)
    OBVIOUS
  <2>1. request[r] = NewRequest /\ page[r] = NewPage /\ saw[r] = NotSeen /\ wire[r] = <<>>
    OBVIOUS
  <2>2. request[r].st = "new" /\ request[r].used = Nothing
    BY <2>1 DEF NewRequest
  <2> QED
    BY <2>1, <2>2 DEF PageKept, NotOpened, FirstHeard, SignerKnown, ChainKnown, UsedAsShown, PayloadShown, Pending, Told
<1> QED
  BY <1>4, <1>5 DEF PagesKept

(* A request about which nothing changed.                                  *)
LEMMA Untouched ==
    ASSUME NEW q \in Requests, PageKept(q),
           request'[q] = request[q], page'[q] = page[q], wire'[q] = wire[q], saw'[q] = saw[q],
           moved'[q] = moved[q], signer' = signer, chain' = chain,
           q \in payloads => q \in payloads'
    PROVE  PageKept(q)'
BY DEF PageKept, NotOpened, FirstHeard, SignerKnown, ChainKnown, UsedAsShown, PayloadShown, Pending, Told

LEMMA AskKeeps ==
    ASSUME PagesKept, NEW r \in Requests, NEW kind \in ApprovalApp, NEW named \in Chains \cup {Nothing},
           Ask(r, kind, named)
    PROVE  PagesKept'
<1> USE ApprovalPageAssumption DEF PagesKept
<1> DEFINE new == [request[r] EXCEPT !.st = "pending", !.kind = kind, !.signer = signer,
                      !.chain = IF named = Nothing THEN chain ELSE named, !.named = named]
<1>1. /\ request[r].st = "new" /\ signer # Nothing
      /\ request' = [request EXCEPT ![r] = new]
      /\ payloads' = IF kind.stored THEN payloads \cup {r} ELSE payloads
      /\ page' = [page EXCEPT ![r].st = "open"]
      /\ UNCHANGED <<signer, chain, wire, moves, saw, moved>>
  BY DEF Ask
<1>2. request[r] \in RequestType /\ page[r] \in PageType /\ signer \in Signers \cup {Nothing} /\ chain \in Chains
  BY DEF PageTyped
<1>3. new \in RequestType
  BY <1>2 DEF RequestType
<1>4. /\ new.st = "pending" /\ new.kind = kind /\ new.signer = signer /\ new.named = named
      /\ new.chain = (IF named = Nothing THEN chain ELSE named) /\ new.used = request[r].used
  BY <1>2 DEF RequestType
<1> HIDE DEF new
<1>5. request' \in [Requests -> RequestType]
  BY <1>1, <1>3 DEF PageTyped
<1>6. page' \in [Requests -> PageType]
  BY <1>1, <1>2 DEF PageTyped, PageType
<1>7. PageTyped'
  BY <1>1, <1>5, <1>6 DEF PageTyped
<1>8. PageKept(r)'
  <2>1. page[r] = NewPage /\ wire[r] = <<>> /\ saw[r] = NotSeen /\ request[r].used = Nothing
    BY <1>1 DEF PageKept, NotOpened
  <2>2. /\ page'[r].status = Nothing /\ ~page'[r].loaded /\ ~page'[r].read
    BY <1>1, <2>1 DEF PageTyped, NewPage
  <2>3. request'[r] = new /\ wire'[r] = <<>> /\ saw'[r] = NotSeen /\ new.used = Nothing
    BY <1>1, <1>4, <2>1 DEF PageTyped
  <2>4. NotSeen.pressed = "nothing"
    BY DEF NotSeen
  <2>5. kind = GrantAccess => kind.chain = "before"
    BY DEF GrantAccess, Page
  <2> QED
    BY <1>1, <1>2, <1>4, <2>2, <2>3, <2>4, <2>5
       DEF PageKept, NotOpened, FirstHeard, SignerKnown, ChainKnown, UsedAsShown, PayloadShown, Pending, Told
<1>9. ASSUME NEW q \in Requests, q # r PROVE PageKept(q)'
  <2>1. request'[q] = request[q] /\ page'[q] = page[q]
    BY <1>1, <1>9 DEF PageTyped
  <2>2. q \in payloads => q \in payloads'
    BY <1>1
  <2> QED
    BY <1>1, <2>1, <2>2, Untouched
<1> QED
  BY <1>7, <1>8, <1>9

LEMMA HeadAndTail ==
    ASSUME NEW s \in Seq(BOOLEAN), s # <<>>
    PROVE  Head(s) \in BOOLEAN /\ Tail(s) \in Seq(BOOLEAN)
BY HeadTailProperties

LEMMA ReceivedKeeps ==
    ASSUME PagesKept, NEW r \in Requests, Received(r) PROVE PagesKept'
<1> USE DEF PagesKept
<1> DEFINE new == Decided(r, Head(wire[r]))
<1>1. /\ wire[r] # <<>> /\ request' = [request EXCEPT ![r] = new]
      /\ wire' = [wire EXCEPT ![r] = Tail(wire[r])]
      /\ UNCHANGED <<signer, chain, payloads, page, moves, saw, moved>>
  BY DEF Received
<1>2. request[r] \in RequestType /\ wire[r] \in Seq(BOOLEAN)
  BY DEF PageTyped
<1>3. Head(wire[r]) \in BOOLEAN /\ Tail(wire[r]) \in Seq(BOOLEAN)
  BY <1>1, <1>2, HeadAndTail
<1>4. /\ new \in RequestType
      /\ new.st = (IF Pending(r) THEN (IF Head(wire[r]) THEN "yes" ELSE "no") ELSE request[r].st)
      /\ new.kind = request[r].kind /\ new.signer = request[r].signer /\ new.chain = request[r].chain
      /\ new.named = request[r].named /\ new.used = request[r].used
  <2> DEFINE st == IF request[r].st = "pending" THEN (IF Head(wire[r]) THEN "yes" ELSE "no") ELSE request[r].st
  <2>1. st \in {"new", "pending", "yes", "no", "over"}
    BY <1>2 DEF RequestType
  <2>2. new = [request[r] EXCEPT !.st = st]
    BY DEF Decided
  <2>3. st = (IF Pending(r) THEN (IF Head(wire[r]) THEN "yes" ELSE "no") ELSE request[r].st)
    BY DEF Pending
  <2> HIDE DEF st, new
  <2> QED
    BY <1>2, <2>1, <2>2, <2>3 DEF RequestType
<1> HIDE DEF new
<1>5. PageTyped'
  <2>1. request' \in [Requests -> RequestType] /\ wire' \in [Requests -> Seq(BOOLEAN)]
    BY <1>1, <1>3, <1>4 DEF PageTyped
  <2> QED
    BY <1>1, <2>1 DEF PageTyped
<1>6. PageKept(r)'
  <2>1. request'[r] = new /\ page'[r] = page[r] /\ saw'[r] = saw[r] /\ moved'[r] = moved[r]
    BY <1>1 DEF PageTyped
  <2>2. CASE Pending(r)
    <3>1. new.st \in {"yes", "no"} /\ (new.st = "yes" => saw[r].pressed = "yes") /\ request[r].used = Nothing
      BY <1>1, <1>4, <2>2 DEF PageKept, FirstHeard, Pending
    <3>2. NotOpened(r)' /\ FirstHeard(r)'
      BY <1>1, <1>4, <2>1, <2>2, <3>1 DEF PageKept, NotOpened, FirstHeard, Pending
    <3>3. SignerKnown(r)'
      BY <1>1, <1>4, <2>1, <2>2, <3>1 DEF PageKept, SignerKnown, Pending
    <3>4. ChainKnown(r)'
      <4>1. request[r].st \in {"pending", "yes"} /\ ChainKnown(r) /\ chain' = chain
        BY <1>1, <2>2 DEF PageKept, Pending
      <4> QED
        BY <1>4, <2>1, <4>1 DEF ChainKnown, Told
    <3>5. UsedAsShown(r)'
      BY <1>4, <2>1, <2>2, <3>1 DEF PageKept, UsedAsShown, Told
    <3>6. PayloadShown(r)'
      BY <1>1, <1>4, <2>1, <2>2, <3>1 DEF PageKept, PayloadShown, Pending
    <3> QED
      BY <3>2, <3>3, <3>4, <3>5, <3>6 DEF PageKept
  <2>3. CASE ~Pending(r)
    <3>1. new.st = request[r].st /\ request[r].st # "new"
      BY <1>1, <1>4, <2>3 DEF PageKept, NotOpened
    <3>2. NotOpened(r)' /\ FirstHeard(r)'
      BY <1>1, <1>4, <2>1, <2>3, <3>1 DEF PageKept, NotOpened, FirstHeard, Pending
    <3>3. SignerKnown(r)'
      BY <1>1, <1>4, <2>1, <2>3, <3>1 DEF PageKept, SignerKnown, Pending
    <3>4. ChainKnown(r)'
      <4>1. ChainKnown(r) /\ chain' = chain
        BY <1>1 DEF PageKept
      <4> QED
        BY <1>4, <2>1, <3>1, <4>1 DEF ChainKnown, Told
    <3>5. UsedAsShown(r)'
      BY <1>4, <2>1, <2>3, <3>1 DEF PageKept, UsedAsShown, Told
    <3>6. PayloadShown(r)'
      BY <1>1, <1>4, <2>1, <2>3, <3>1 DEF PageKept, PayloadShown, Pending
    <3> QED
      BY <3>2, <3>3, <3>4, <3>5, <3>6 DEF PageKept
  <2> QED
    BY <2>2, <2>3
<1>7. ASSUME NEW q \in Requests, q # r PROVE PageKept(q)'
  <2>1. request'[q] = request[q] /\ wire'[q] = wire[q]
    BY <1>1, <1>7 DEF PageTyped
  <2> QED
    BY <1>1, <2>1, Untouched
<1> QED
  BY <1>5, <1>6, <1>7

LEMMA GivenUpKeeps ==
    ASSUME PagesKept, NEW r \in Requests, GivenUp(r) PROVE PagesKept'
<1> USE DEF PagesKept
<1> DEFINE new == Decided(r, FALSE)
<1>1. /\ Pending(r) /\ request' = [request EXCEPT ![r] = new]
      /\ UNCHANGED <<signer, chain, payloads, page, wire, moves, saw, moved>>
  BY DEF GivenUp
<1>2. request[r] \in RequestType
  BY DEF PageTyped
<1>3. /\ new \in RequestType /\ new.st = "no" /\ new.used = request[r].used /\ new.kind = request[r].kind
  BY <1>1, <1>2 DEF RequestType, Decided, Pending
<1> HIDE DEF new
<1>4. PageTyped'
  BY <1>1, <1>3 DEF PageTyped
<1>5. PageKept(r)'
  <2>1. request'[r] = new
    BY <1>1 DEF PageTyped
  <2> QED
    BY <1>1, <1>3, <2>1
       DEF PageKept, NotOpened, FirstHeard, SignerKnown, ChainKnown, UsedAsShown, PayloadShown, Pending, Told
<1>6. ASSUME NEW q \in Requests, q # r PROVE PageKept(q)'
  <2>1. request'[q] = request[q]
    BY <1>1, <1>6 DEF PageTyped
  <2> QED
    BY <1>1, <2>1, Untouched
<1> QED
  BY <1>4, <1>5, <1>6

(* A request whose window is open when account or network are switched: it *)
(* is marked.                                                              *)
LEMMA SwitchedKeeps ==
    ASSUME PageTyped, PageTyped', NEW q \in Requests, PageKept(q),
           request'[q] = request[q], page'[q] = page[q], wire'[q] = wire[q], saw'[q] = saw[q],
           q \in payloads => q \in payloads',
           request[q].st \notin {"pending", "yes"} => moved'[q] = moved[q],
           moved[q].signer \/ signer' # signer => moved'[q].signer \/ request[q].st \notin {"pending", "yes"},
           moved[q].chain \/ chain' # chain => moved'[q].chain \/ request[q].st \notin {"pending", "yes"}
    PROVE  PageKept(q)'
<1>1. NotOpened(q)' /\ FirstHeard(q)' /\ PayloadShown(q)'
  BY DEF PageKept, NotOpened, FirstHeard, PayloadShown, Pending
<1>2. SignerKnown(q)'
  BY DEF PageKept, SignerKnown
<1>3. ChainKnown(q)'
  BY DEF PageKept, ChainKnown, Told
<1>4. UsedAsShown(q)'
  BY DEF PageKept, UsedAsShown, FirstHeard, Told
<1> QED
  BY <1>1, <1>2, <1>3, <1>4 DEF PageKept

LEMMA NotedMarks ==
    ASSUME PageTyped, NEW what \in {"signer", "chain"}, NEW q \in Requests
    PROVE  /\ Noted(what) \in [Requests -> [signer : BOOLEAN, chain : BOOLEAN]]
           /\ request[q].st \notin {"pending", "yes"} => Noted(what)[q] = moved[q]
           /\ request[q].st \in {"pending", "yes"} => Noted(what)[q][what]
           /\ moved[q].signer => Noted(what)[q].signer
           /\ moved[q].chain => Noted(what)[q].chain
<1>1. \A x \in Requests : moved[x] \in [signer : BOOLEAN, chain : BOOLEAN]
  BY DEF PageTyped
<1>2. \A x \in Requests : [moved[x] EXCEPT ![what] = TRUE] \in [signer : BOOLEAN, chain : BOOLEAN]
  BY <1>1
<1>3. Noted(what) \in [Requests -> [signer : BOOLEAN, chain : BOOLEAN]]
  BY <1>1, <1>2 DEF Noted
<1>4. request[q].st \notin {"pending", "yes"} => Noted(what)[q] = moved[q]
  BY DEF Noted
<1>5. request[q].st \in {"pending", "yes"} => Noted(what)[q] = [moved[q] EXCEPT ![what] = TRUE]
  BY DEF Noted
<1>6. [moved[q] EXCEPT ![what] = TRUE][what]
  BY <1>1
<1>7. /\ moved[q].signer => [moved[q] EXCEPT ![what] = TRUE].signer
      /\ moved[q].chain => [moved[q] EXCEPT ![what] = TRUE].chain
  BY <1>1
<1> QED
  BY <1>3, <1>4, <1>5, <1>6, <1>7

LEMMA SwitchKeeps == ASSUME PagesKept, Switch PROVE PagesKept'
<1> USE DEF PagesKept
<1>1. UNCHANGED <<payloads, request, page, wire, saw>>
  BY DEF Switch
<1>2. PICK what \in {"signer", "chain"} :
         /\ moved' = Noted(what)
         /\ what = "signer" => signer' \in Signers \cup {Nothing} /\ chain' = chain
         /\ what = "chain" => chain' \in Chains /\ signer' = signer
  <2>1. CASE signer' \in (Signers \cup {Nothing}) \ {signer} /\ moved' = Noted("signer") /\ UNCHANGED chain
    BY <2>1
  <2>2. CASE chain' \in Chains \ {chain} /\ moved' = Noted("chain") /\ UNCHANGED signer
    BY <2>2
  <2> QED
    BY <2>1, <2>2 DEF Switch
<1>3. PageTyped'
  <2>1. signer' \in Signers \cup {Nothing} /\ chain' \in Chains
    BY <1>2 DEF PageTyped
  <2>2. CASE Requests = {}
    BY <1>1, <1>2, <2>1, <2>2 DEF PageTyped, Noted
  <2>3. CASE Requests # {}
    BY <1>1, <1>2, <2>1, <2>3, NotedMarks DEF PageTyped
  <2> QED
    BY <2>2, <2>3
<1>4. ASSUME NEW q \in Requests PROVE PageKept(q)'
  BY <1>1, <1>2, <1>3, NotedMarks, SwitchedKeeps
<1> QED
  BY <1>3, <1>4

LEMMA StopKeeps == ASSUME PagesKept, Stop PROVE PagesKept'
<1> USE DEF PagesKept
<1>1. /\ request' = [r \in Requests |-> IF request[r].st \in {"pending", "yes", "no"}
                                        THEN [request[r] EXCEPT !.st = "over"] ELSE request[r]]
      /\ UNCHANGED <<signer, chain, payloads, page, wire, saw, moved>>
  BY DEF Stop
<1>2. ASSUME NEW q \in Requests
      PROVE  [request[q] EXCEPT !.st = "over"] \in RequestType
             /\ [request[q] EXCEPT !.st = "over"].st = "over"
             /\ [request[q] EXCEPT !.st = "over"].used = request[q].used
             /\ [request[q] EXCEPT !.st = "over"].kind = request[q].kind
  <2>1. request[q] \in RequestType
    BY DEF PageTyped
  <2> QED
    BY <2>1 DEF RequestType
<1>3. PageTyped'
  <2>1. \A q \in Requests : request[q] \in RequestType
    BY DEF PageTyped
  <2>2. request' \in [Requests -> RequestType]
    BY <1>1, <1>2, <2>1, Zenon
  <2> QED
    BY <1>1, <2>2 DEF PageTyped
<1>4. ASSUME NEW q \in Requests PROVE PageKept(q)'
  <2>1. CASE request[q].st \in {"pending", "yes", "no"}
    <3>1. request'[q] = [request[q] EXCEPT !.st = "over"]
      BY <1>1, <2>1
    <3>2. request'[q].st = "over" /\ request'[q].used = request[q].used /\ request[q].used = Nothing
      BY <1>2, <2>1, <3>1 DEF PageKept, FirstHeard
    <3> QED
      BY <3>2 DEF PageKept, NotOpened, FirstHeard, SignerKnown, ChainKnown, UsedAsShown, PayloadShown, Pending, Told
  <2>2. CASE request[q].st \notin {"pending", "yes", "no"}
    <3>1. request'[q] = request[q]
      BY <1>1, <2>2
    <3> QED
      BY <1>1, <3>1, Untouched
  <2> QED
    BY <2>1, <2>2
<1> QED
  BY <1>3, <1>4

LEMMA ProceedKeeps ==
    ASSUME PagesKept, NEW r \in Requests, Proceed(r) PROVE PagesKept'
<1> USE DEF PagesKept
<1>1. payloads' = payloads \ {r} /\ UNCHANGED <<signer, page, wire, moves, saw>>
      /\ request[r].st \in {"yes", "no"}
  BY DEF Proceed
<1>2. request[r] \in RequestType /\ chain \in Chains /\ moved \in [Requests -> [signer : BOOLEAN, chain : BOOLEAN]]
  BY DEF PageTyped
<1>3. CASE request[r].st = "no"
  <2> DEFINE new == [request[r] EXCEPT !.st = "over"]
  <2>1. request' = [request EXCEPT ![r] = new] /\ chain' = chain /\ moved' = moved
    BY <1>3 DEF Proceed
  <2>2. new \in RequestType /\ new.st = "over" /\ new.used = request[r].used
    BY <1>2 DEF RequestType
  <2> HIDE DEF new
  <2>3. PageTyped'
    BY <1>1, <2>1, <2>2 DEF PageTyped
  <2>4. PageKept(r)'
    <3>1. request'[r] = new /\ request[r].used = Nothing
      BY <1>3, <2>1 DEF PageTyped, PageKept, FirstHeard
    <3> QED
      BY <2>2, <3>1 DEF PageKept, NotOpened, FirstHeard, SignerKnown, ChainKnown, UsedAsShown, PayloadShown, Pending, Told
  <2>5. ASSUME NEW q \in Requests, q # r PROVE PageKept(q)'
    <3>1. request'[q] = request[q] /\ (q \in payloads => q \in payloads')
      BY <1>1, <2>1, <2>5 DEF PageTyped
    <3> QED
      BY <1>1, <2>1, <3>1, Untouched
  <2> QED
    BY <2>3, <2>4, <2>5
<1>4. CASE request[r].st = "yes"
  <2> DEFINE used == [signer |-> request[r].signer,
                      chain |-> IF request[r].kind.chain = "after" THEN chain ELSE request[r].chain]
             new == [request[r] EXCEPT !.st = "over", !.used = used]
  <2>1. /\ request' = [request EXCEPT ![r] = new]
        /\ chain' = IF Told(r) THEN request[r].named ELSE chain
        /\ moved' = IF chain' = chain THEN moved ELSE [Noted("chain") EXCEPT ![r] = moved[r]]
    BY <1>4 DEF Proceed
  <2>2. used \in Using /\ used.signer = request[r].signer
        /\ used.chain = (IF request[r].kind.chain = "after" THEN chain ELSE request[r].chain)
    BY <1>2 DEF RequestType, Using
  <2> HIDE DEF used
  <2>3. new \in RequestType /\ new.st = "over" /\ new.used = used /\ new.kind = request[r].kind
        /\ new.named = request[r].named
    BY <1>2, <2>2 DEF RequestType
  <2> HIDE DEF new
  <2>4. chain' \in Chains
    BY <1>2, <2>1 DEF RequestType, Told
  <2>5. \A q \in Requests :
           /\ q = r => moved'[q] = moved[q]
           /\ request[q].st \notin {"pending", "yes"} => moved'[q] = moved[q]
           /\ q # r /\ chain' # chain /\ request[q].st \in {"pending", "yes"} => moved'[q].chain
           /\ moved[q].signer => moved'[q].signer
           /\ moved[q].chain => moved'[q].chain
    <3> SUFFICES ASSUME NEW q \in Requests
                 PROVE  /\ q = r => moved'[q] = moved[q]
                        /\ request[q].st \notin {"pending", "yes"} => moved'[q] = moved[q]
                        /\ q # r /\ chain' # chain /\ request[q].st \in {"pending", "yes"} => moved'[q].chain
                        /\ moved[q].signer => moved'[q].signer
                        /\ moved[q].chain => moved'[q].chain
      OBVIOUS
    <3>1. CASE chain' = chain
      BY <2>1, <3>1
    <3>2. CASE chain' # chain
      <4>1. moved' = [Noted("chain") EXCEPT ![r] = moved[r]]
        BY <2>1, <3>2
      <4>2. q # r => moved'[q] = Noted("chain")[q]
        BY <4>1, NotedMarks
      <4>3. q = r => moved'[q] = moved[q]
        BY <4>1, NotedMarks
      <4> QED
        BY <4>2, <4>3, NotedMarks
    <3> QED
      BY <3>1, <3>2
  <2>6. moved' \in [Requests -> [signer : BOOLEAN, chain : BOOLEAN]]
    BY <1>2, <2>1, NotedMarks
  <2>7. PageTyped'
    BY <1>1, <2>1, <2>3, <2>4, <2>6 DEF PageTyped
  <2>8. PageKept(r)'
    <3>1. /\ request'[r] = new /\ moved'[r] = moved[r] /\ saw'[r] = saw[r]
          /\ saw[r].pressed = "yes"
      BY <1>1, <1>4, <2>1, <2>5 DEF PageTyped, PageKept, FirstHeard
    <3>2. ~moved[r].signer => saw[r].status = used.signer
      BY <1>4, <2>2, <3>1 DEF PageKept, SignerKnown
    <3>3. /\ request[r].kind.chain # "none" /\ saw[r].loaded /\ ~moved[r].chain
          /\ request[r].named = Nothing \/ Told(r)
          => saw[r].chain = used.chain
      BY <1>4, <2>2, <3>1 DEF PageKept, ChainKnown, Told
    <3> QED
      BY <2>3, <3>1, <3>2, <3>3
         DEF PageKept, NotOpened, FirstHeard, SignerKnown, ChainKnown, UsedAsShown, PayloadShown, Pending, Told
  <2>9. ASSUME NEW q \in Requests, q # r PROVE PageKept(q)'
    <3>1. request'[q] = request[q] /\ (q \in payloads => q \in payloads')
      BY <1>1, <2>1, <2>9 DEF PageTyped
    <3> QED
      BY <1>1, <2>5, <2>7, <2>9, <3>1, SwitchedKeeps
  <2> QED
    BY <2>7, <2>8, <2>9
<1> QED
  BY <1>1, <1>3, <1>4

(* A page learns something, or closes.                                     *)
LEMMA ScreenKeeps ==
    ASSUME PagesKept, NEW r \in Requests, NEW new \in PageType,
           page' = [page EXCEPT ![r] = new],
           request[r].st # "new",
           new.status \in {page[r].status, signer},
           \/ new.loaded = page[r].loaded /\ new.network = page[r].network
           \/ new.loaded /\ new.network = chain,
           \/ new.read = page[r].read /\ new.content = page[r].content
           \/ request[r].kind.stored /\ new.content = IF r \in payloads THEN r ELSE Nothing,
           UNCHANGED <<worker, wire, saw, moved>>
    PROVE  PagesKept'
<1> USE DEF PagesKept, worker
<1>1. PageTyped'
  BY DEF PageTyped
<1>2. PageKept(r)'
  <2>1. page'[r] = new
    BY DEF PageTyped
  <2>2. NotOpened(r)' /\ FirstHeard(r)' /\ UsedAsShown(r)'
    BY DEF PageKept, NotOpened, FirstHeard, UsedAsShown, Pending, Told
  <2>3. SignerKnown(r)'
    BY <2>1 DEF PageKept, SignerKnown
  <2>4. ChainKnown(r)'
    BY <2>1 DEF PageKept, ChainKnown, Told
  <2>5. PayloadShown(r)'
    BY <2>1 DEF PageKept, PayloadShown, Pending
  <2> QED
    BY <2>2, <2>3, <2>4, <2>5 DEF PageKept
<1>3. ASSUME NEW q \in Requests, q # r PROVE PageKept(q)'
  <2>1. page'[q] = page[q]
    BY <1>3 DEF PageTyped
  <2> QED
    BY <2>1, Untouched
<1> QED
  BY <1>1, <1>2, <1>3

(* An open page has a request.                                             *)
LEMMA OpenIsAsked ==
    ASSUME PagesKept, NEW r \in Requests, page[r].st = "open" PROVE request[r].st # "new"
BY DEF PagesKept, PageKept, NotOpened, NewPage

LEMMA FillsKeeps ==
    ASSUME PagesKept, NEW r \in Requests, Fills(r) PROVE PagesKept'
<1>1. page[r].st = "open" /\ UNCHANGED <<worker, wire, saw, moved>>
  BY DEF Fills
<1>2. request[r].st # "new"
  BY <1>1, OpenIsAsked
<1>3. page[r] \in PageType /\ page \in [Requests -> PageType]
      /\ signer \in Signers \cup {Nothing} /\ chain \in Chains
  BY DEF PagesKept, PageTyped
<1>4. CASE StatusLearned(r)
  <2> DEFINE new == [page[r] EXCEPT !.status = signer]
  <2>1. page' = [page EXCEPT ![r] = new]
    BY <1>3, <1>4 DEF StatusLearned
  <2>2. /\ new \in PageType /\ new.status = signer /\ new.loaded = page[r].loaded
        /\ new.network = page[r].network /\ new.read = page[r].read /\ new.content = page[r].content
    BY <1>3 DEF PageType
  <2> HIDE DEF new
  <2> QED
    BY <1>1, <1>2, <2>1, <2>2, ScreenKeeps
<1>5. CASE NetworkLearned(r)
  <2> DEFINE new == [page[r] EXCEPT !.network = chain, !.loaded = TRUE]
  <2>1. page' = [page EXCEPT ![r] = new]
    BY <1>5 DEF NetworkLearned
  <2>2. /\ new \in PageType /\ new.status = page[r].status /\ new.loaded
        /\ new.network = chain /\ new.read = page[r].read /\ new.content = page[r].content
    BY <1>3 DEF PageType
  <2> HIDE DEF new
  <2> QED
    BY <1>1, <1>2, <2>1, <2>2, ScreenKeeps
<1>6. CASE PayloadRead(r)
  <2> DEFINE shown == IF r \in payloads THEN r ELSE Nothing
             new == [page[r] EXCEPT !.read = TRUE, !.content = shown]
  <2>1. page' = [page EXCEPT ![r] = new] /\ request[r].kind.stored
    BY <1>6 DEF PayloadRead
  <2>2. shown \in Requests \cup {Nothing}
    OBVIOUS
  <2>3. shown = IF r \in payloads THEN r ELSE Nothing
    OBVIOUS
  <2> HIDE DEF shown
  <2>4. /\ new \in PageType /\ new.status = page[r].status /\ new.loaded = page[r].loaded
        /\ new.network = page[r].network /\ new.content = shown
    BY <1>3, <2>2 DEF PageType
  <2> HIDE DEF new
  <2> QED
    BY <1>1, <1>2, <2>1, <2>3, <2>4, ScreenKeeps
<1> QED
  BY <1>4, <1>5, <1>6 DEF Fills

LEMMA ClosedKeeps ==
    ASSUME PagesKept, NEW r \in Requests, Closed(r) PROVE PagesKept'
<1> DEFINE new == [page[r] EXCEPT !.st = "closed"]
<1>1. page[r].st = "open" /\ page' = [page EXCEPT ![r] = new] /\ UNCHANGED <<worker, wire, saw, moved>>
  BY DEF Closed
<1>2. request[r].st # "new"
  BY <1>1, OpenIsAsked
<1>3. page[r] \in PageType
  BY DEF PagesKept, PageTyped
<1>4. /\ new \in PageType /\ new.status = page[r].status /\ new.loaded = page[r].loaded
      /\ new.network = page[r].network /\ new.read = page[r].read /\ new.content = page[r].content
  BY <1>3 DEF PageType
<1> HIDE DEF new
<1> QED
  BY <1>1, <1>2, <1>4, ScreenKeeps

LEMMA RespondKeeps ==
    ASSUME PagesKept, NEW r \in Requests, NEW approved \in BOOLEAN, respond(r, approved)
    PROVE  PagesKept'
<1> USE DEF PagesKept, worker
<1> DEFINE new == [page[r] EXCEPT !.presses = page[r].presses + 1, !.loading = Loading(r, approved)]
           first == [pressed |-> IF approved THEN "yes" ELSE "no",
                     status |-> page[r].status, chain |-> ShownChain(r),
                     loaded |-> page[r].loaded \/ Told(r)]
<1>1. /\ page[r].st = "open" /\ ApprovalShell(r, approved)
      /\ page' = [page EXCEPT ![r] = new]
      /\ wire' = [wire EXCEPT ![r] = Append(wire[r], approved)]
      /\ saw' = IF saw[r].pressed # "nothing" THEN saw ELSE [saw EXCEPT ![r] = first]
      /\ UNCHANGED <<worker, moved>>
  <2>1. page' = [page EXCEPT ![r] = new]
    BY SMT DEF respond
  <2>2. saw' = IF saw[r].pressed # "nothing" THEN saw ELSE [saw EXCEPT ![r] = first]
    BY Zenon DEF respond
  <2> HIDE DEF new, first
  <2> QED
    BY <2>1, <2>2 DEF respond
<1>2. request[r].st # "new"
  BY <1>1, OpenIsAsked
<1>3. /\ page[r] \in PageType /\ request[r] \in RequestType /\ saw[r] \in SawType
      /\ wire[r] \in Seq(BOOLEAN)
  BY DEF PageTyped
<1>4. Loading(r, approved) \in BOOLEAN
  BY Zenon DEF Loading
<1>5. /\ new \in PageType /\ new.status = page[r].status /\ new.loaded = page[r].loaded
      /\ new.network = page[r].network /\ new.read = page[r].read /\ new.content = page[r].content
  <2> DEFINE n == page[r].presses + 1
  <2>1. n \in Nat
    BY <1>3 DEF PageType
  <2> HIDE DEF n
  <2>2. new \in PageType
    BY <1>3, <1>4, <2>1, Zenon DEF PageType, n
  <2>3. page[r] \in [st : {"none", "open", "closed"}, status : Signers \cup {Nothing}, network : Chains,
                      loaded : BOOLEAN, read : BOOLEAN, content : Requests \cup {Nothing},
                      loading : BOOLEAN, presses : Nat]
    BY <1>3 DEF PageType
  <2> QED
    BY <2>2, <2>3
<1>6. ShownChain(r) \in Chains \cup {Nothing}
      /\ ShownChain(r) = IF Told(r) THEN request[r].named ELSE page[r].network
  BY <1>3 DEF ShownChain, PageType, RequestType, Told
<1>7. (page[r].loaded \/ Told(r)) \in BOOLEAN
  BY Zenon
<1>8. /\ first \in SawType /\ first.pressed = (IF approved THEN "yes" ELSE "no")
      /\ first.status = page[r].status /\ first.chain = ShownChain(r)
      /\ first.loaded = (page[r].loaded \/ Told(r))
  <2>1. page[r].status \in Signers \cup {Nothing}
    BY <1>3 DEF PageType
  <2> HIDE DEF first
  <2>2. first = [pressed |-> IF approved THEN "yes" ELSE "no",
                 status |-> page[r].status, chain |-> ShownChain(r),
                 loaded |-> page[r].loaded \/ Told(r)]
    BY DEF first
  <2>3. first \in SawType
    <3>1. (IF approved THEN "yes" ELSE "no") \in {"nothing", "yes", "no"}
      OBVIOUS
    <3> QED
      BY <1>6, <1>7, <2>1, <2>2, <3>1, Zenon DEF SawType
  <2> QED
    BY <2>2, <2>3
<1>9. Append(wire[r], approved) \in Seq(BOOLEAN)
  BY <1>3
<1> HIDE DEF new, first
<1>10. PageTyped'
  <2>1. page' \in [Requests -> PageType] /\ wire' \in [Requests -> Seq(BOOLEAN)]
    BY <1>1, <1>5, <1>9 DEF PageTyped
  <2>2. saw' \in [Requests -> SawType]
    BY <1>1, <1>8 DEF PageTyped
  <2> QED
    BY <1>1, <2>1, <2>2 DEF PageTyped
<1>11. PageKept(r)'
  <2>1. page'[r] = new /\ wire'[r] = Append(wire[r], approved)
    BY <1>1 DEF PageTyped
  <2>2. NotOpened(r)' /\ PayloadShown(r)'
    BY <1>1, <1>2, <1>5, <2>1 DEF PageKept, NotOpened, PayloadShown, Pending
  <2>3. CASE saw[r].pressed # "nothing"
    <3>1. saw' = saw
      BY <1>1, <2>3
    <3>2. wire[r] # <<>> => Append(wire[r], approved) # <<>> /\ Head(Append(wire[r], approved)) = Head(wire[r])
      BY <1>3
    <3>3. FirstHeard(r)'
      BY <1>1, <2>1, <2>3, <3>1, <3>2 DEF PageKept, FirstHeard, Pending
    <3>4. SignerKnown(r)'
      BY <1>1, <1>5, <2>1, <3>1 DEF PageKept, SignerKnown
    <3>5. ChainKnown(r)'
      BY <1>1, <1>5, <2>1, <3>1 DEF PageKept, ChainKnown, Told
    <3>6. UsedAsShown(r)'
      BY <1>1, <3>1 DEF PageKept, UsedAsShown, Told
    <3> QED
      BY <2>2, <3>3, <3>4, <3>5, <3>6 DEF PageKept
  <2>4. CASE saw[r].pressed = "nothing"
    <3>1. saw'[r] = first
      BY <1>1, <2>4 DEF PageTyped
    <3>2. wire[r] = <<>> => Append(wire[r], approved) # <<>> /\ Head(Append(wire[r], approved)) = approved
      BY <1>3
    <3>3. /\ request[r].used = Nothing /\ request[r].st # "yes"
          /\ Pending(r) => wire[r] = <<>>
      BY <2>4 DEF PageKept, FirstHeard, Pending
    <3>4. FirstHeard(r)'
      BY <1>1, <1>8, <2>1, <3>1, <3>2, <3>3 DEF FirstHeard, Pending
    <3>5. SignerKnown(r)'
      <4>1. first.pressed = "yes" => page[r].status # Nothing
        BY <1>1, <1>8 DEF ApprovalShell
      <4> QED
        BY <1>1, <1>5, <1>8, <2>1, <3>1, <4>1 DEF PageKept, SignerKnown
    <3>6. ChainKnown(r)'
      BY <1>1, <1>5, <1>6, <1>8, <2>1, <3>1 DEF PageKept, ChainKnown, Told
    <3>7. UsedAsShown(r)'
      BY <1>1, <3>3 DEF UsedAsShown, Told
    <3> QED
      BY <2>2, <3>4, <3>5, <3>6, <3>7 DEF PageKept
  <2> QED
    BY <2>3, <2>4
<1>12. ASSUME NEW q \in Requests, q # r PROVE PageKept(q)'
  <2>1. page'[q] = page[q] /\ wire'[q] = wire[q] /\ saw'[q] = saw[q]
    BY <1>1, <1>12 DEF PageTyped
  <2> QED
    BY <1>1, <2>1, Untouched
<1> QED
  BY <1>10, <1>11, <1>12

(* Whatever is pressed, closed, timed out, switched or stopped, and for any *)
(* number of requests: the worker goes ahead only after an approval that    *)
(* was the first button pressed, and with what the page showed.             *)
THEOREM ApprovalHolds == PageSpec => []ApprovalInv
<1>1. PagesKept /\ [PageNext]_pageVars => PagesKept'
  <2> SUFFICES ASSUME PagesKept, [PageNext]_pageVars PROVE PagesKept'
    OBVIOUS
  <2>1. ASSUME NEW r \in Requests, NEW kind \in ApprovalApp, NEW named \in Chains \cup {Nothing}, Ask(r, kind, named)
        PROVE PagesKept'
    BY <2>1, AskKeeps
  <2>2. ASSUME NEW r \in Requests, Received(r) PROVE PagesKept'
    BY <2>2, ReceivedKeeps
  <2>3. ASSUME NEW r \in Requests, GivenUp(r) PROVE PagesKept'
    BY <2>3, GivenUpKeeps
  <2>4. ASSUME NEW r \in Requests, Proceed(r) PROVE PagesKept'
    BY <2>4, ProceedKeeps
  <2>5. ASSUME NEW r \in Requests, Fills(r) PROVE PagesKept'
    BY <2>5, FillsKeeps
  <2>6. ASSUME NEW r \in Requests, NEW approved \in BOOLEAN, respond(r, approved) PROVE PagesKept'
    BY <2>6, RespondKeeps
  <2>7. ASSUME NEW r \in Requests, Closed(r) PROVE PagesKept'
    BY <2>7, ClosedKeeps
  <2>8. CASE Switch
    BY <2>8, SwitchKeeps
  <2>9. CASE Stop
    BY <2>9, StopKeeps
  <2>10. CASE UNCHANGED pageVars
    <3>1. PageTyped' /\ \A q \in Requests : PageKept(q)'
      BY <2>10, Untouched DEF pageVars, PagesKept, PageTyped
    <3> QED
      BY <3>1 DEF PagesKept
  <2> QED
    BY <2>1, <2>2, <2>3, <2>4, <2>5, <2>6, <2>7, <2>8, <2>9, <2>10 DEF PageNext
<1>2. PagesKept => ApprovalInv
  BY DEF PagesKept, PageKept, FirstHeard, UsedAsShown, PayloadShown, ApprovalInv, FirstPressRules, ShownIsUsed, PendingIsShown, Told
<1> QED
  BY <1>1, <1>2, PageStart, PTL DEF PageSpec
-----------------------------------------------------------------------------
(* Lists of accounts.                                                      *)
FilterOf(F, list, keep) ==
    F = [i \in 0..Len(list) |->
            IF i = 0 THEN <<>> ELSE IF list[i] \in keep THEN Append(F[i - 1], list[i]) ELSE F[i - 1]]

LEMMA FilterExists ==
    ASSUME NEW S, NEW list \in Seq(S), NEW keep
    PROVE  \E F : FilterOf(F, list, keep)
<1> DEFINE H(g, n) == g = [i \in 0..n |->
                 IF i = 0 THEN <<>> ELSE IF list[i] \in keep THEN Append(g[i - 1], list[i]) ELSE g[i - 1]]
           G == {n \in Nat : \E g : H(g, n)}
<1>1. 0 \in G
  <2>1. H([i \in 0..0 |-> <<>>], 0)
    OBVIOUS
  <2> QED
    BY <2>1
<1>2. ASSUME NEW n \in Nat, n \in G PROVE n + 1 \in G
  <2>1. PICK g : H(g, n)
    BY <1>2
  <2> DEFINE h == [i \in 0..(n + 1) |->
                 IF i = 0 THEN <<>> ELSE IF list[i] \in keep THEN Append(g[i - 1], list[i]) ELSE g[i - 1]]
  <2>2. \A i \in 0..n : g[i] = IF i = 0 THEN <<>> ELSE IF list[i] \in keep THEN Append(g[i - 1], list[i]) ELSE g[i - 1]
    BY <2>1
  <2>3. \A i \in 0..n : h[i] = g[i]
    BY <2>2
  <2>4. \A i \in 0..(n + 1) : i # 0 => i - 1 \in 0..n
    OBVIOUS
  <2>5. h = [i \in 0..(n + 1) |->
                 IF i = 0 THEN <<>> ELSE IF list[i] \in keep THEN Append(h[i - 1], list[i]) ELSE h[i - 1]]
    <3>1. \A i \in 0..(n + 1) :
             (IF i = 0 THEN <<>> ELSE IF list[i] \in keep THEN Append(g[i - 1], list[i]) ELSE g[i - 1])
             = (IF i = 0 THEN <<>> ELSE IF list[i] \in keep THEN Append(h[i - 1], list[i]) ELSE h[i - 1])
      <4> HIDE DEF h
      <4> QED
        BY <2>3, <2>4
    <3> QED
      BY <3>1
  <2> HIDE DEF h
  <2>6. H(h, n + 1)
    BY <2>5, Zenon
  <2> HIDE DEF H
  <2> QED
    BY <2>6
<1> HIDE DEF G
<1>3. \A n \in Nat : n \in G
  BY <1>1, <1>2, SetInduction
<1>4. Len(list) \in G
  BY <1>3, LenProperties
<1> QED
  BY <1>4 DEF G, FilterOf

LEMMA FilterIs ==
    ASSUME NEW S, NEW list \in Seq(S), NEW keep, NEW F, FilterOf(F, list, keep)
    PROVE  /\ F[Len(list)] \in Seq(S)
           /\ \A j \in 1..Len(list) : list[j] \in keep => \E k \in 1..Len(F[Len(list)]) : F[Len(list)][k] = list[j]
<1> DEFINE Q(n) == F[n] \in Seq(S) /\ \A j \in 1..n : list[j] \in keep => \E k \in 1..Len(F[n]) : F[n][k] = list[j]
           G == {n \in Nat : n <= Len(list) => Q(n)}
<1>0. Len(list) \in Nat /\ \A i \in 1..Len(list) : list[i] \in S
  BY LenProperties, ElementOfSeq
<1>1. \A i \in 0..Len(list) :
         F[i] = IF i = 0 THEN <<>> ELSE IF list[i] \in keep THEN Append(F[i - 1], list[i]) ELSE F[i - 1]
  BY DEF FilterOf
<1>2. 0 \in G
  <2>1. F[0] = <<>>
    BY <1>0, <1>1
  <2>2. F[0] \in Seq(S)
    BY <2>1, EmptySeq
  <2>3. Q(0)
    BY <2>2
  <2> QED
    BY <2>3
<1>3. ASSUME NEW n \in Nat, n \in G PROVE n + 1 \in G
  <2> SUFFICES ASSUME n + 1 <= Len(list) PROVE Q(n + 1)
    <3> HIDE DEF Q
    <3> QED
      OBVIOUS
  <2>0. n + 1 \in 0..Len(list) /\ n + 1 \in 1..Len(list) /\ n + 1 # 0 /\ (n + 1) - 1 = n /\ n <= Len(list)
    BY <1>0
  <2>1. Q(n) /\ n + 1 \in 0..Len(list) /\ n + 1 # 0 /\ (n + 1) - 1 = n /\ list[n + 1] \in S
    <3>1. Q(n)
      <4> HIDE DEF Q
      <4> QED
        BY <1>3, <2>0
    <3>2. list[n + 1] \in S
      BY <1>0, <2>0
    <3> HIDE DEF Q
    <3> QED
      BY <2>0, <3>1, <3>2
  <2>2. F[n + 1] = IF list[n + 1] \in keep THEN Append(F[n], list[n + 1]) ELSE F[n]
    BY <1>1, <2>1
  <2>3. CASE list[n + 1] \in keep
    <3>1. F[n + 1] = Append(F[n], list[n + 1])
      BY <2>2, <2>3
    <3>2. /\ F[n + 1] \in Seq(S) /\ Len(F[n + 1]) = Len(F[n]) + 1 /\ Len(F[n]) \in Nat
          /\ F[n + 1][Len(F[n]) + 1] = list[n + 1]
          /\ \A k \in 1..Len(F[n]) : F[n + 1][k] = F[n][k]
      BY <2>1, <3>1, AppendProperties, LenProperties
    <3>3. ASSUME NEW j \in 1..(n + 1), list[j] \in keep
          PROVE  \E k \in 1..Len(F[n + 1]) : F[n + 1][k] = list[j]
      <4>1. CASE j = n + 1
        BY <3>2, <4>1
      <4>2. CASE j # n + 1
        <5>1. j \in 1..n
          BY <4>2
        <5>2. PICK k \in 1..Len(F[n]) : F[n][k] = list[j]
          BY <2>1, <3>3, <5>1
        <5>3. k \in 1..Len(F[n + 1]) /\ F[n + 1][k] = list[j]
          BY <3>2, <5>2
        <5> QED
          BY <5>3
      <4> QED
        BY <4>1, <4>2
    <3> QED
      BY <3>2, <3>3
  <2>4. CASE list[n + 1] \notin keep
    <3>1. F[n + 1] = F[n]
      BY <2>2, <2>4
    <3>2. ASSUME NEW j \in 1..(n + 1), list[j] \in keep
          PROVE  \E k \in 1..Len(F[n]) : F[n][k] = list[j]
      <4>1. j # n + 1
        BY <2>4, <3>2
      <4>2. j \in 1..n
        BY <4>1
      <4> QED
        BY <2>1, <3>2, <4>2
    <3> QED
      BY <2>1, <3>1, <3>2
  <2> QED
    BY <2>3, <2>4
<1> HIDE DEF G
<1>4. \A n \in Nat : n \in G
  BY <1>2, <1>3, SetInduction
<1>5. Len(list) \in G
  BY <1>0, <1>4
<1> QED
  BY <1>0, <1>5 DEF G

\* What is kept by a filter is in the list it makes.
LEMMA FilteredKeeps ==
    ASSUME NEW S, NEW list \in Seq(S), NEW keep
    PROVE  Filtered(list, keep) \in Seq(S) /\ ToSet(list) \cap keep \subseteq ToSet(Filtered(list, keep))
<1>1. PICK F : F = CHOOSE g : FilterOf(g, list, keep)
  OBVIOUS
<1>2. FilterOf(F, list, keep)
  BY <1>1, FilterExists
<1>3. Filtered(list, keep) = F[Len(list)]
  BY <1>1, Zenon DEF Filtered, FilterOf
<1>4. /\ F[Len(list)] \in Seq(S)
      /\ \A j \in 1..Len(list) : list[j] \in keep => \E k \in 1..Len(F[Len(list)]) : F[Len(list)][k] = list[j]
  BY <1>2, FilterIs
<1>5. DOMAIN list = 1..Len(list) /\ DOMAIN F[Len(list)] = 1..Len(F[Len(list)])
  BY <1>4, LenProperties
<1> QED
  BY <1>3, <1>4, <1>5 DEF ToSet

LEMMA WithoutKeeps ==
    ASSUME NEW S, NEW list \in Seq(S), NEW who
    PROVE  Without(list, who) \in Seq(S) /\ ToSet(list) \ {who} \subseteq ToSet(Without(list, who))
BY FilteredKeeps DEF Without

LEMMA JoinedHas ==
    ASSUME NEW S, NEW s \in Seq(S), NEW t \in Seq(S)
    PROVE  s \o t \in Seq(S) /\ ToSet(s) \cup ToSet(t) \subseteq ToSet(s \o t)
<1>1. /\ s \o t \in Seq(S) /\ Len(s \o t) = Len(s) + Len(t) /\ Len(s) \in Nat /\ Len(t) \in Nat
      /\ DOMAIN s = 1..Len(s) /\ DOMAIN t = 1..Len(t) /\ DOMAIN (s \o t) = 1..Len(s \o t)
      /\ \A i \in 1..Len(s) : (s \o t)[i] = s[i]
      /\ \A i \in 1..Len(t) : (s \o t)[Len(s) + i] = t[i]
  BY ConcatProperties, LenProperties
<1>2. ToSet(s) \subseteq ToSet(s \o t)
  BY <1>1 DEF ToSet
<1>3. ToSet(t) \subseteq ToSet(s \o t)
  <2> SUFFICES ASSUME NEW i \in 1..Len(t) PROVE \E k \in DOMAIN (s \o t) : (s \o t)[k] = t[i]
    BY <1>1 DEF ToSet
  <2>1. Len(s) + i \in DOMAIN (s \o t)
    BY <1>1
  <2> QED
    BY <1>1, <2>1
<1> QED
  BY <1>1, <1>2, <1>3

LEMMA ReorderedKeeps ==
    ASSUME NEW S, NEW list \in Seq(S), NEW order \in Seq(S)
    PROVE  Reordered(list, order) \in Seq(S) /\ ToSet(list) \subseteq ToSet(Reordered(list, order))
<1> DEFINE f == Filtered(order, ToSet(list))
           g == Filtered(list, ToSet(list) \ ToSet(order))
<1>1. f \in Seq(S) /\ ToSet(order) \cap ToSet(list) \subseteq ToSet(f)
  BY FilteredKeeps
<1>2. g \in Seq(S) /\ ToSet(list) \ ToSet(order) \subseteq ToSet(g)
  BY FilteredKeeps
<1>3. f \o g \in Seq(S) /\ ToSet(f) \cup ToSet(g) \subseteq ToSet(f \o g)
  BY <1>1, <1>2, JoinedHas
<1> QED
  BY <1>1, <1>2, <1>3 DEF Reordered

LEMMA AppendedHas ==
    ASSUME NEW S, NEW list \in Seq(S), NEW who \in S
    PROVE  Append(list, who) \in Seq(S) /\ ToSet(list) \cup {who} \subseteq ToSet(Append(list, who))
<1>1. /\ Append(list, who) \in Seq(S) /\ Len(Append(list, who)) = Len(list) + 1 /\ Len(list) \in Nat
      /\ Append(list, who)[Len(list) + 1] = who /\ \A i \in 1..Len(list) : Append(list, who)[i] = list[i]
      /\ DOMAIN list = 1..Len(list) /\ DOMAIN Append(list, who) = 1..Len(Append(list, who))
  BY AppendProperties, LenProperties
<1>2. ToSet(list) \subseteq ToSet(Append(list, who))
  BY <1>1 DEF ToSet
<1>3. who \in ToSet(Append(list, who))
  <2>1. Len(list) + 1 \in DOMAIN Append(list, who)
    BY <1>1
  <2> QED
    BY <1>1, <2>1 DEF ToSet
<1> QED
  BY <1>1, <1>2, <1>3

LEMMA MovedIs ==
    ASSUME NEW S, NEW list \in Seq(S), NEW i \in DOMAIN list, NEW j \in DOMAIN list
    PROVE  Moved(list, i, j) \in Seq(S)
<1>1. Len(list) \in Nat /\ DOMAIN list = 1..Len(list) /\ list[i] \in S
  BY LenProperties, ElementOfSeq
<1>2. SubSeq(list, 1, i - 1) \in Seq(S) /\ Len(SubSeq(list, 1, i - 1)) = i - 1
  BY <1>1, SubSeqProperties
<1>3. SubSeq(list, i + 1, Len(list)) \in Seq(S) /\ Len(SubSeq(list, i + 1, Len(list))) = Len(list) - i
  BY <1>1, SubSeqProperties
<1>4. PICK t : t = RemoveAt(list, i)
  OBVIOUS
<1>5. t \in Seq(S) /\ Len(t) = Len(list) - 1
  <2>1. t = SubSeq(list, 1, i - 1) \o SubSeq(list, i + 1, Len(list))
    BY <1>4 DEF RemoveAt
  <2>2. t \in Seq(S) /\ Len(t) = Len(SubSeq(list, 1, i - 1)) + Len(SubSeq(list, i + 1, Len(list)))
    BY <1>2, <1>3, <2>1, ConcatProperties
  <2> QED
    BY <1>1, <1>2, <1>3, <2>2
<1>6. SubSeq(t, 1, j - 1) \in Seq(S) /\ SubSeq(t, j, Len(t)) \in Seq(S)
  BY <1>1, <1>5, SubSeqProperties
<1>7. <<list[i]>> \in Seq(S)
  BY <1>1
<1>8. (SubSeq(t, 1, j - 1) \o <<list[i]>>) \o SubSeq(t, j, Len(t)) \in Seq(S)
  BY <1>6, <1>7, ConcatProperties
<1> QED
  BY <1>4, <1>8 DEF Moved, InsertAt

-----------------------------------------------------------------------------
(* The sheet of the accounts and its dialog: one call at a time is heard   *)
(* by the dialog, and it is of the type and the input that the dialog      *)
(* shows.                                                                  *)
People == ToSet(Derived) \cup {Phrase, Secret, Nobody}
AskKinds == Types \cup {"switch", "remove", "reorder", "poll"}
AskPlaces == {"asked", "answered", "listing", "listed"}
AskRecords == [kind : AskKinds, id : Nat, at : AskPlaces, ok : BOOLEAN, who : People, list : Seq(People),
               from : {"context", "sheet", "dialog"}, heard : BOOLEAN]
DialogRecords == [step : {"choose", "phrase", "key", "password", "success"}, type : Types \cup {"none"},
                  phrase : People, key : People, password : BOOLEAN, loading : BOOLEAN, open : BOOLEAN]
SheetRecords == [open : BOOLEAN, local : Seq(People), switching : People, removing : People]
KeptRecords == [list : Seq(People), active : People, open : BOOLEAN]
ContextRecords == [list : Seq(People), shown : People]
AccountSheetTyped ==
    /\ kept \in KeptRecords /\ context \in ContextRecords /\ sheet \in SheetRecords /\ dialog \in DialogRecords
    /\ asks \in SUBSET AskRecords /\ acts \in Nat /\ halted \in BOOLEAN

DialogRight(d) ==
    /\ ~d.open => d = Fresh
    /\ d.loading => d.open /\ d.step = "password"
    /\ d.step \in {"phrase", "key", "password"} => d.type \in Types
AskRight(c) ==
    /\ c.kind \in Types => c.from = "dialog"
    /\ c.from = "dialog" => c.kind \in Types \cup {"switch"}
    /\ c.ok \/ c.at = "answered"
AsksRight(cs) == \A c \in cs : AskRight(c)

\* The calls of this opening of the dialog, and those that have stored the account
HeardIn(cs) == {c \in cs : c.from = "dialog" /\ c.heard}
Past(c) == c.kind = "switch" \/ (c.at # "asked" /\ c.ok)
IsOf(type, who, d) == type = d.type /\ (type = "import-phrase" => who = d.phrase) /\ (type = "import-key" => who = d.key)
Waits(c, d) ==
    /\ d.loading
    /\ c.kind = "switch" => d.type = "add-account"
    /\ c.kind \in Types => IsOf(c.kind, c.who, d)
Single(add) == \A a, b \in add : a = b
\* What the dialog and its call say of what was added
Talk(hs, d, add, h) ==
    /\ \A c \in hs : Waits(c, d) /\ \A e \in hs : c = e
    /\ d.step = "success" \/ (\E c \in hs : Past(c)) => \E a \in add : IsOf(a.type, a.who, d)
    /\ ~h => Single(add) /\ (add = {} \/ d.step = "success" \/ \E c \in hs : Past(c))
Held(add, list, gone) == \A a \in add : a.who \in ToSet(list) \cup gone

AccountSheetKept ==
    /\ AccountSheetTyped /\ DialogRight(dialog) /\ AsksRight(asks)
    /\ Talk(HeardIn(asks), dialog, added, halted)
    /\ Held(added, kept.list, removed)

LEMMA TalkNeedsOne ==
    ASSUME NEW hs, NEW d, NEW add, NEW h, Talk(hs, d, add, h)
    PROVE  /\ ~d.loading => hs = {}
           /\ \A c \in hs : hs = {c}
BY DEF Talk, Waits

\* The call goes on, without storing anything.
LEMMA TalkGoesOn ==
    ASSUME NEW c, NEW e, NEW d, NEW add, NEW h, Talk({c}, d, add, h),
           e.kind = c.kind, e.who = c.who, Past(e) <=> Past(c)
    PROVE  Talk({e}, d, add, h)
<1>1. Waits(c, d)
  BY DEF Talk
<1>2. Waits(e, d)
  BY <1>1 DEF Waits
<1>3. (\E x \in {c} : Past(x)) <=> (\E x \in {e} : Past(x))
  OBVIOUS
<1> HIDE DEF Past, Waits
<1> QED
  BY <1>2, <1>3 DEF Talk

\* The call stores the account; h2 is TRUE when it fails after that.
LEMMA TalkAdds ==
    ASSUME NEW c, NEW e, NEW d, NEW add, NEW h, NEW h2, Talk({c}, d, add, h), DialogRight(d),
           c.kind \in Types, c.at = "asked", NEW who, c.kind # "add-account" => who = c.who,
           e.kind = c.kind, e.who = who \/ e.who = c.who, e.at = "answered",
           h2 \/ (h2 = h /\ e.ok)
    PROVE  Talk({e}, d, add \cup {[type |-> c.kind, who |-> who]}, h2)
<1> DEFINE a == [type |-> c.kind, who |-> who]
<1>1. Waits(c, d)
  BY DEF Talk
<1>2. Waits(e, d) /\ IsOf(a.type, a.who, d)
  BY <1>1 DEF Waits, IsOf, Types
<1>3. d.step # "success"
  BY <1>1 DEF Waits, DialogRight
<1>4. ~Past(c)
  BY DEF Past, Types
<1>5. ~h => add = {}
  BY <1>3, <1>4 DEF Talk
<1>6. ~h2 => Past(e) /\ ~h
  BY DEF Past
<1>7. ~h2 => Single(add \cup {a})
  <2> HIDE DEF a
  <2> QED
    BY <1>5, <1>6 DEF Single
<1>8. \E b \in add \cup {a} : IsOf(b.type, b.who, d)
  BY <1>2
<1> HIDE DEF a, Past, Waits, IsOf
<1>9. Talk({e}, d, add \cup {a}, h2)
  BY <1>2, <1>6, <1>7, <1>8 DEF Talk
<1> QED
  BY <1>9 DEF a

\* The call of the added account is followed by the call that switches to it.
LEMMA TalkSwitches ==
    ASSUME NEW c, NEW e, NEW d, NEW add, NEW h, Talk({c}, d, add, h),
           c.kind = "add-account", c.at # "asked", c.ok, e.kind = "switch"
    PROVE  Talk({e}, d, add, h)
<1>1. Waits(c, d) /\ Past(c) /\ Past(e)
  BY DEF Talk, Past
<1>2. Waits(e, d)
  BY <1>1 DEF Waits, Types, IsOf
<1> HIDE DEF Past, Waits
<1> QED
  BY <1>1, <1>2 DEF Talk

\* The dialog has heard the end of it.
LEMMA TalkEnds ==
    ASSUME NEW c, NEW d, NEW d2, NEW add, NEW h, Talk({c}, d, add, h), DialogRight(d),
           c.kind \in Types \cup {"switch"}, c.at # "asked",
           d2.type = d.type, d2.phrase = d.phrase, d2.key = d.key,
           d2.step = IF c.ok \/ c.kind = "switch" THEN "success" ELSE d.step
    PROVE  Talk({}, d2, add, h)
<1>1. Waits(c, d)
  BY DEF Talk
<1>2. d.step # "success"
  BY <1>1 DEF Waits, DialogRight
<1>3. \A a \in add : IsOf(a.type, a.who, d) => IsOf(a.type, a.who, d2)
  BY DEF IsOf
<1>4. d2.step = "success" <=> Past(c)
  BY <1>2 DEF Past, Types
<1> HIDE DEF Past, Waits, IsOf
<1>5. (d2.step = "success" => \E a \in add : IsOf(a.type, a.who, d2))
  BY <1>3, <1>4 DEF Talk
<1>6. ~h => Single(add) /\ (add = {} \/ d2.step = "success")
  BY <1>2, <1>4 DEF Talk
<1> QED
  BY <1>5, <1>6 DEF Talk

\* The dialog asks, or turns a page while nothing is asked.
LEMMA TalkStarts ==
    ASSUME NEW c, NEW d, NEW d2, NEW add, NEW h, Talk({}, d, add, h),
           d.step # "success", d2.step # "success", ~Past(c), Waits(c, d2)
    PROVE  Talk({c}, d2, add, h)
BY DEF Talk
LEMMA TalkTurns ==
    ASSUME NEW d, NEW d2, NEW add, NEW h, Talk({}, d, add, h), d.step # "success", d2.step # "success"
    PROVE  Talk({}, d2, add, h)
BY DEF Talk

LEMMA HeardMoves ==
    ASSUME NEW cs, NEW c \in cs, NEW e, e.from = c.from, e.heard = c.heard
    PROVE  /\ c.from = "dialog" /\ c.heard => HeardIn((cs \ {c}) \cup {e}) = (HeardIn(cs) \ {c}) \cup {e}
           /\ ~(c.from = "dialog" /\ c.heard) => HeardIn((cs \ {c}) \cup {e}) = HeardIn(cs)
BY DEF HeardIn
LEMMA HeardMovesAlone ==
    ASSUME NEW cs, NEW c \in cs, NEW e, NEW after, after = (cs \ {c}) \cup {e},
           e \in HeardIn({e}), c \in HeardIn(cs), HeardIn(cs) = {c}
    PROVE  HeardIn(after) = {e}
<1>1. \A x \in HeardIn(after) : x = e
  <2> SUFFICES ASSUME NEW x \in HeardIn(after), x # e PROVE FALSE
    OBVIOUS
  <2>1. x \in cs /\ x # c /\ x.from = "dialog" /\ x.heard
    BY DEF HeardIn
  <2>2. x \in HeardIn(cs)
    BY <2>1 DEF HeardIn
  <2> QED
    BY <2>1, <2>2
<1>2. e \in HeardIn(after)
  BY DEF HeardIn
<1> QED
  BY <1>1, <1>2
LEMMA HeardGoes ==
    ASSUME NEW cs, NEW c \in cs
    PROVE  /\ c.from = "dialog" /\ c.heard => HeardIn(cs \ {c}) = HeardIn(cs) \ {c}
           /\ ~(c.from = "dialog" /\ c.heard) => HeardIn(cs \ {c}) = HeardIn(cs)
BY DEF HeardIn
LEMMA HeardJoins ==
    ASSUME NEW cs, NEW e
    PROVE  /\ e.from = "dialog" /\ e.heard => HeardIn(cs \cup {e}) = HeardIn(cs) \cup {e}
           /\ e.from # "dialog" => HeardIn(cs \cup {e}) = HeardIn(cs)
BY DEF HeardIn

\* A call whose place changes leaves the dialog as right as it was.
LEMMA AskMoves ==
    ASSUME NEW cs, NEW c \in cs, NEW e, NEW d, NEW add, NEW h, Talk(HeardIn(cs), d, add, h),
           e.from = c.from, e.heard = c.heard, e.kind = c.kind, e.who = c.who,
           c.from = "dialog" => (Past(e) <=> Past(c))
    PROVE  Talk(HeardIn((cs \ {c}) \cup {e}), d, add, h)
<1>1. CASE c.from = "dialog" /\ c.heard
  <2>1. c \in HeardIn(cs)
    BY <1>1 DEF HeardIn
  <2>2. HeardIn(cs) = {c}
    BY <2>1, TalkNeedsOne
  <2>3. HeardIn((cs \ {c}) \cup {e}) = {e}
    <3>1. e \in HeardIn({e})
      BY <1>1 DEF HeardIn
    <3> QED
      BY <2>1, <2>2, <3>1, HeardMovesAlone
  <2>4. Talk({c}, d, add, h)
    BY <2>2
  <2>5. Talk({e}, d, add, h)
    BY <1>1, <2>4, TalkGoesOn
  <2> QED
    BY <2>3, <2>5
<1>2. CASE ~(c.from = "dialog" /\ c.heard)
  BY <1>2, HeardMoves
<1> QED
  BY <1>1, <1>2
LEMMA KeptParts ==
    ASSUME AccountSheetKept
    PROVE  /\ AccountSheetTyped /\ DialogRight(dialog) /\ AsksRight(asks)
           /\ Talk(HeardIn(asks), dialog, added, halted) /\ Held(added, kept.list, removed)
           /\ \A c \in asks : c \in AskRecords /\ AskRight(c)
BY DEF AccountSheetKept, AccountSheetTyped, AsksRight

\* A call that is replaced by a right one
LEMMA AsksMove ==
    ASSUME NEW cs, AsksRight(cs), cs \in SUBSET AskRecords, NEW c \in cs, NEW e, e \in AskRecords, AskRight(e)
    PROVE  AsksRight((cs \ {c}) \cup {e}) /\ (cs \ {c}) \cup {e} \in SUBSET AskRecords
BY DEF AsksRight

LEMMA HeldStays ==
    ASSUME NEW add, NEW list, NEW gone, NEW list2, NEW gone2, Held(add, list, gone),
           ToSet(list) \subseteq ToSet(list2) \cup gone2, gone \subseteq gone2
    PROVE  Held(add, list2, gone2)
BY DEF Held

\* Nothing changes but what the dialog does not speak of.
LEMMA DialogRests ==
    ASSUME AccountSheetKept, AccountSheetTyped', AsksRight(asks'),
           Talk(HeardIn(asks'), dialog, added, halted), Held(added, kept'.list, removed'),
           dialog' = dialog, added' = added, halted' = halted
    PROVE  AccountSheetKept'
<1>1. DialogRight(dialog)
  BY KeptParts
<1> QED
  BY <1>1 DEF AccountSheetKept

LEMMA NextDerivedIs ==
    NextDerived \subseteq People
BY DEF NextDerived, People, ToSet

LEMMA AddsKept ==
    ASSUME AccountSheetKept, NEW c \in asks, Adds(c)
    PROVE  AccountSheetKept'
<1>1. /\ AccountSheetTyped /\ DialogRight(dialog) /\ AsksRight(asks)
      /\ Talk(HeardIn(asks), dialog, added, halted) /\ Held(added, kept.list, removed)
      /\ c \in AskRecords /\ AskRight(c)
  BY KeptParts
<1>2. c.kind \in Types /\ c.at = "asked" /\ c.from = "dialog" /\ dialog' = dialog /\ removed' = removed
      /\ context' = context /\ sheet' = sheet /\ acts' = acts
  BY <1>1 DEF Adds, AskRight
<1>3. CASE /\ Becomes(c, [c EXCEPT !.at = "answered", !.ok = FALSE]) /\ UNCHANGED <<kept, added, halted>>
  <2>1. PICK e : e = [c EXCEPT !.at = "answered", !.ok = FALSE]
    OBVIOUS
  <2>2. /\ e \in AskRecords /\ e.from = c.from /\ e.heard = c.heard /\ e.kind = c.kind /\ e.who = c.who
        /\ e.at = "answered" /\ e.ok = FALSE
    BY <1>1, <2>1 DEF AskRecords, AskPlaces
  <2>3. AskRight(e)
    BY <1>1, <2>2 DEF AskRight
  <2>4. asks' = (asks \ {c}) \cup {e}
    BY <1>3, <2>1 DEF Becomes
  <2>5. asks \in SUBSET AskRecords
    BY <1>1 DEF AccountSheetTyped
  <2>6. AsksRight(asks') /\ asks' \in SUBSET AskRecords
    BY <1>1, <2>2, <2>3, <2>4, <2>5, AsksMove
  <2>7. Past(e) <=> Past(c)
    BY <1>2, <2>2 DEF Past, Types
  <2>8. Talk(HeardIn(asks'), dialog, added, halted)
    BY <1>1, <2>2, <2>4, <2>7, AskMoves
  <2>9. AccountSheetTyped'
    BY <1>1, <1>2, <1>3, <2>6 DEF AccountSheetTyped
  <2> QED
    BY <1>1, <1>2, <1>3, <2>6, <2>8, <2>9, DialogRests
<1>4. CASE /\ c.kind = "add-account" => kept.open
           /\ \E who \in IF c.kind = "add-account" THEN NextDerived ELSE {c.who} \ ToSet(kept.list) :
                /\ kept' = [kept EXCEPT !.list = Append(kept.list, who)]
                /\ added' = added \cup {a \in {[type |-> c.kind, who |-> who]} : c.heard}
                /\ \/ halted' = halted /\ Becomes(c, [c EXCEPT !.at = "answered", !.who = who])
                   \/ halted' = TRUE /\ Becomes(c, [c EXCEPT !.at = "answered", !.ok = FALSE])
  <2>1. PICK who \in (IF c.kind = "add-account" THEN NextDerived ELSE {c.who} \ ToSet(kept.list)) :
                /\ kept' = [kept EXCEPT !.list = Append(kept.list, who)]
                /\ added' = added \cup {a \in {[type |-> c.kind, who |-> who]} : c.heard}
                /\ \/ halted' = halted /\ Becomes(c, [c EXCEPT !.at = "answered", !.who = who])
                   \/ halted' = TRUE /\ Becomes(c, [c EXCEPT !.at = "answered", !.ok = FALSE])
    BY <1>4
  <2>2. who \in People /\ (c.kind # "add-account" => who = c.who)
    BY <1>1, <2>1, NextDerivedIs DEF AskRecords
  <2>3. PICK e : /\ e = [c EXCEPT !.at = "answered", !.who = who] \/ e = [c EXCEPT !.at = "answered", !.ok = FALSE]
                 /\ Becomes(c, e)
                 /\ \/ halted' = halted /\ e = [c EXCEPT !.at = "answered", !.who = who]
                    \/ halted' = TRUE /\ e = [c EXCEPT !.at = "answered", !.ok = FALSE]
    BY <2>1
  <2>4. /\ e \in AskRecords /\ e.from = c.from /\ e.heard = c.heard /\ e.kind = c.kind
        /\ e.at = "answered" /\ (e.who = who \/ e.who = c.who)
    BY <1>1, <2>2, <2>3 DEF AskRecords, AskPlaces
  <2>5. AskRight(e)
    BY <1>1, <2>4 DEF AskRight
  <2>6. asks' = (asks \ {c}) \cup {e} /\ asks \in SUBSET AskRecords
    BY <1>1, <2>3 DEF Becomes, AccountSheetTyped
  <2>7. AsksRight(asks') /\ asks' \in SUBSET AskRecords
    BY <1>1, <2>4, <2>5, <2>6, AsksMove
  <2>8. kept.list \in Seq(People) /\ kept \in KeptRecords /\ halted \in BOOLEAN
    BY <1>1 DEF AccountSheetTyped, KeptRecords
  <2>9. Append(kept.list, who) \in Seq(People) /\ ToSet(kept.list) \cup {who} \subseteq ToSet(Append(kept.list, who))
    BY <2>2, <2>8, AppendedHas
  <2>10. kept' \in KeptRecords /\ kept'.list = Append(kept.list, who)
    BY <2>1, <2>8, <2>9 DEF KeptRecords
  <2>11. halted' \in BOOLEAN
    BY <2>1, <2>8
  <2>12. AccountSheetTyped'
    BY <1>1, <1>2, <2>7, <2>10, <2>11 DEF AccountSheetTyped
  <2>13. Held(added', kept'.list, removed')
    BY <1>1, <1>2, <2>1, <2>9, <2>10 DEF Held
  <2>14. DialogRight(dialog') /\ AsksRight(asks)'
    BY <1>1, <1>2, <2>7
  <2>15. Talk(HeardIn(asks'), dialog, added', halted')
    <3>1. CASE ~c.heard
      <4>1. added' = added /\ HeardIn(asks') = HeardIn(asks)
        BY <2>1, <2>4, <2>6, <3>1, HeardMoves
      <4>2. halted' = halted \/ halted' = TRUE
        BY <2>1
      <4>3. halted => halted'
        BY <4>2
      <4>4. ~halted' => ~halted
        BY <4>3
      <4> QED
        BY <1>1, <4>1, <4>4 DEF Talk
    <3>2. CASE c.heard
      <4>1. c \in HeardIn(asks)
        BY <1>2, <3>2 DEF HeardIn
      <4>2. HeardIn(asks) = {c}
        BY <1>1, <4>1, TalkNeedsOne
      <4>3. HeardIn(asks') = {e}
        <5>1. e \in HeardIn({e})
          BY <1>2, <2>4, <3>2 DEF HeardIn
        <5> QED
          BY <2>6, <4>1, <4>2, <5>1, HeardMovesAlone
      <4>4. Talk({c}, dialog, added, halted)
        BY <1>1, <4>2
      <4>5. added' = added \cup {[type |-> c.kind, who |-> who]}
        BY <2>1, <3>2
      <4>6. halted' \/ (halted' = halted /\ e.ok)
        <5>1. CASE halted' = TRUE
          BY <5>1
        <5>2. CASE halted' = halted /\ e = [c EXCEPT !.at = "answered", !.who = who]
          <6>1. c.ok
            BY <1>1, <1>2 DEF AskRight
          <6> QED
            BY <1>1, <5>2, <6>1 DEF AskRecords
        <5> QED
          BY <2>3, <5>1, <5>2
      <4>7. Talk({e}, dialog, added \cup {[type |-> c.kind, who |-> who]}, halted')
        BY <1>1, <1>2, <2>2, <2>4, <4>4, <4>6, TalkAdds
      <4> QED
        BY <4>3, <4>5, <4>7
    <3> QED
      BY <3>1, <3>2
  <2> QED
    BY <1>2, <2>12, <2>13, <2>14, <2>15 DEF AccountSheetKept
<1> QED
  BY <1>3, <1>4 DEF Adds

\* A call that changes neither what is stored nor what the dialog shows
LEMMA AskOnly ==
    ASSUME AccountSheetKept, NEW c \in asks, NEW e \in AskRecords, AskRight(e),
           e.from = c.from, e.heard = c.heard, e.kind = c.kind, e.who = c.who, Past(e) <=> Past(c), Becomes(c, e)
    PROVE  AsksRight(asks') /\ asks' \in SUBSET AskRecords /\ Talk(HeardIn(asks'), dialog, added, halted)
<1>1. asks' = (asks \ {c}) \cup {e} /\ asks \in SUBSET AskRecords /\ AsksRight(asks)
  BY KeptParts DEF Becomes, AccountSheetTyped
<1>2. Talk(HeardIn(asks), dialog, added, halted)
  BY KeptParts
<1>3. AsksRight(asks') /\ asks' \in SUBSET AskRecords
  BY <1>1, AsksMove
<1>4. Talk(HeardIn((asks \ {c}) \cup {e}), dialog, added, halted)
  BY <1>2, AskMoves
<1> QED
  BY <1>1, <1>3, <1>4

LEMMA ObeysKept ==
    ASSUME AccountSheetKept, NEW c \in asks, Obeys(c)
    PROVE  AccountSheetKept'
<1>1. /\ AccountSheetTyped /\ DialogRight(dialog) /\ AsksRight(asks)
      /\ Talk(HeardIn(asks), dialog, added, halted) /\ Held(added, kept.list, removed)
      /\ c \in AskRecords /\ AskRight(c) /\ kept \in KeptRecords /\ kept.list \in Seq(People)
      /\ asks \in SUBSET AskRecords
  BY KeptParts DEF AccountSheetTyped, KeptRecords
<1>2. /\ c.kind \in {"switch", "remove", "reorder"} /\ c.at = "asked" /\ dialog' = dialog /\ context' = context
      /\ sheet' = sheet /\ acts' = acts /\ added' = added /\ halted' = halted
  BY DEF Obeys
<1>3. ASSUME NEW e, \/ e = [c EXCEPT !.at = "answered"] /\ c.kind # "reorder"
                    \/ e = [c EXCEPT !.at = "answered", !.ok = FALSE] /\ c.kind # "reorder",
             Becomes(c, e)
      PROVE  AsksRight(asks') /\ asks' \in SUBSET AskRecords /\ Talk(HeardIn(asks'), dialog, added, halted)
  <2>1. /\ e \in AskRecords /\ e.from = c.from /\ e.heard = c.heard /\ e.kind = c.kind /\ e.who = c.who
        /\ e.at = "answered"
    BY <1>1, <1>3 DEF AskRecords, AskPlaces
  <2>2. AskRight(e)
    BY <1>1, <2>1 DEF AskRight
  <2>3. c.from # "dialog" \/ c.kind = "switch"
    BY <1>1, <1>2 DEF AskRight, Types
  <2>4. c.from = "dialog" => (Past(e) <=> Past(c))
    BY <2>1, <2>3 DEF Past
  <2>5. asks' = (asks \ {c}) \cup {e}
    BY <1>3 DEF Becomes
  <2>6. AsksRight(asks') /\ asks' \in SUBSET AskRecords
    BY <1>1, <2>1, <2>2, <2>5, AsksMove
  <2>7. Talk(HeardIn((asks \ {c}) \cup {e}), dialog, added, halted)
    BY <1>1, <2>1, <2>4, AskMoves
  <2> QED
    BY <2>5, <2>6, <2>7
<1>4. CASE /\ c.kind = "switch" /\ kept.open /\ c.who \in ToSet(kept.list)
           /\ kept' = [kept EXCEPT !.active = c.who] /\ removed' = removed
           /\ Becomes(c, [c EXCEPT !.at = "answered"])
  <2>1. AsksRight(asks') /\ asks' \in SUBSET AskRecords /\ Talk(HeardIn(asks'), dialog, added, halted)
    BY <1>3, <1>4
  <2>2. kept' \in KeptRecords /\ kept'.list = kept.list
    BY <1>1, <1>4 DEF KeptRecords, AskRecords
  <2>3. AccountSheetTyped'
    BY <1>1, <1>2, <2>1, <2>2 DEF AccountSheetTyped
  <2>4. Held(added, kept'.list, removed')
    BY <1>1, <1>4, <2>2
  <2> QED
    BY <1>2, <2>1, <2>3, <2>4, DialogRests
<1>5. CASE /\ c.kind = "remove" /\ c.who \in Removable
           /\ kept' = [kept EXCEPT !.list = Without(kept.list, c.who)] /\ removed' = removed \cup {c.who}
           /\ Becomes(c, [c EXCEPT !.at = "answered"])
  <2>1. AsksRight(asks') /\ asks' \in SUBSET AskRecords /\ Talk(HeardIn(asks'), dialog, added, halted)
    BY <1>3, <1>5
  <2>2. /\ Without(kept.list, c.who) \in Seq(People)
        /\ ToSet(kept.list) \ {c.who} \subseteq ToSet(Without(kept.list, c.who))
    BY <1>1, WithoutKeeps
  <2>3. kept' \in KeptRecords /\ kept'.list = Without(kept.list, c.who)
    BY <1>1, <1>5, <2>2 DEF KeptRecords
  <2>4. AccountSheetTyped'
    BY <1>1, <1>2, <2>1, <2>3 DEF AccountSheetTyped
  <2>5. Held(added, kept'.list, removed')
    <3>1. removed \subseteq removed' /\ ToSet(kept.list) \subseteq ToSet(Without(kept.list, c.who)) \cup removed'
      BY <1>5, <2>2
    <3>2. Held(added, kept.list, removed)
      BY <1>1
    <3> QED
      BY <2>3, <3>1, <3>2, HeldStays
  <2> QED
    BY <1>2, <2>1, <2>4, <2>5, DialogRests
<1>6. CASE /\ c.kind = "reorder"
           /\ kept' = [kept EXCEPT !.list = Reordered(kept.list, c.list)] /\ asks' = asks \ {c} /\ removed' = removed
  <2>1. AsksRight(asks') /\ asks' \in SUBSET AskRecords
    BY <1>1, <1>6 DEF AsksRight
  <2>2. c.from # "dialog"
    BY <1>1, <1>6 DEF AskRight, Types
  <2>3. HeardIn(asks') = HeardIn(asks)
    BY <1>6, <2>2, HeardGoes
  <2>4. c.list \in Seq(People)
    BY <1>1 DEF AskRecords
  <2>5. /\ Reordered(kept.list, c.list) \in Seq(People)
        /\ ToSet(kept.list) \subseteq ToSet(Reordered(kept.list, c.list))
    BY <1>1, <2>4, ReorderedKeeps
  <2>6. kept' \in KeptRecords /\ kept'.list = Reordered(kept.list, c.list)
    BY <1>1, <1>6, <2>5 DEF KeptRecords
  <2>7. AccountSheetTyped'
    BY <1>1, <1>2, <2>1, <2>6 DEF AccountSheetTyped
  <2>8. Held(added, kept'.list, removed')
    BY <1>1, <1>6, <2>5, <2>6, HeldStays
  <2> QED
    BY <1>1, <1>2, <2>1, <2>3, <2>7, <2>8, DialogRests
<1>7. CASE /\ c.kind # "reorder"
           /\ Becomes(c, [c EXCEPT !.at = "answered", !.ok = FALSE]) /\ UNCHANGED <<kept, removed>>
  <2>1. AsksRight(asks') /\ asks' \in SUBSET AskRecords /\ Talk(HeardIn(asks'), dialog, added, halted)
    BY <1>3, <1>7
  <2>2. AccountSheetTyped'
    BY <1>1, <1>2, <1>7, <2>1 DEF AccountSheetTyped
  <2>3. Held(added, kept'.list, removed')
    BY <1>1, <1>7
  <2> QED
    BY <1>2, <2>1, <2>2, <2>3, DialogRests
<1> QED
  BY <1>4, <1>5, <1>6, <1>7 DEF Obeys

LEMMA TellsKept ==
    ASSUME AccountSheetKept, NEW c \in asks, Tells(c)
    PROVE  AccountSheetKept'
<1>1. /\ AccountSheetTyped /\ Held(added, kept.list, removed) /\ c \in AskRecords /\ AskRight(c) /\ kept.list \in Seq(People)
  BY KeptParts DEF AccountSheetTyped, KeptRecords
<1>2. /\ c.at = "listing" /\ UNCHANGED <<kept, context, sheet, dialog, acts, added, removed, halted>>
  BY DEF Tells, history
<1>3. PICK e : e = [c EXCEPT !.at = "listed", !.list = kept.list]
  OBVIOUS
<1>4. /\ e \in AskRecords /\ e.from = c.from /\ e.heard = c.heard /\ e.kind = c.kind /\ e.who = c.who
      /\ e.at = "listed" /\ e.ok = c.ok
  BY <1>1, <1>3 DEF AskRecords, AskPlaces
<1>5. c.ok
  BY <1>1, <1>2 DEF AskRight
<1>6. AskRight(e)
  BY <1>1, <1>4, <1>5 DEF AskRight
<1>7. Past(e) <=> Past(c)
  BY <1>2, <1>4 DEF Past
<1>8. Becomes(c, e)
  BY <1>3 DEF Tells
<1>9. AsksRight(asks') /\ asks' \in SUBSET AskRecords /\ Talk(HeardIn(asks'), dialog, added, halted)
  BY <1>4, <1>6, <1>7, <1>8, AskOnly
<1>10. AccountSheetTyped'
  BY <1>1, <1>2, <1>9 DEF AccountSheetTyped
<1> QED
  BY <1>1, <1>2, <1>9, <1>10, DialogRests

LEMMA FreshIs ==
    Fresh \in DialogRecords /\ DialogRight(Fresh) /\ \A h \in BOOLEAN : Talk({}, Fresh, {}, h)
BY DEF Fresh, DialogRecords, DialogRight, Types, Talk, Single, People

LEMMA NewSheetIs ==
    ASSUME NEW list \in Seq(People)
    PROVE  NewSheet(list) \in SheetRecords
BY DEF NewSheet, SheetRecords, People

LEMMA LocksKept ==
    ASSUME AccountSheetKept, NEW c \in asks, Locks(c)
    PROVE  AccountSheetKept'
<1>1. /\ AccountSheetTyped /\ AsksRight(asks) /\ Held(added, kept.list, removed) /\ asks \in SUBSET AskRecords
      /\ halted \in BOOLEAN
  BY KeptParts DEF AccountSheetTyped
<1>2. /\ dialog' = Fresh /\ sheet' = NewSheet(<<>>) /\ added' = {} /\ UNCHANGED <<kept, acts, removed, halted>>
      /\ context' = [list |-> <<>>, shown |-> Nobody]
      /\ asks' = {[d EXCEPT !.heard = FALSE] : d \in asks \ {c}}
  BY DEF Locks, Shown
<1>3. <<>> \in Seq(People)
  BY EmptySeq
<1>4. sheet' \in SheetRecords
  BY <1>2, <1>3, NewSheetIs
<1>5. context' \in ContextRecords
  BY <1>2, <1>3 DEF ContextRecords, People
<1>6. ASSUME NEW e \in asks' PROVE e \in AskRecords /\ AskRight(e) /\ ~e.heard
  <2>1. PICK d \in asks \ {c} : e = [d EXCEPT !.heard = FALSE]
    BY <1>2, <1>6
  <2>2. d \in AskRecords /\ AskRight(d)
    BY <1>1, <2>1 DEF AsksRight
  <2>3. e \in AskRecords /\ ~e.heard /\ e.kind = d.kind /\ e.from = d.from /\ e.at = d.at /\ e.ok = d.ok
    BY <2>1, <2>2 DEF AskRecords
  <2> QED
    BY <2>2, <2>3 DEF AskRight
<1>7. AsksRight(asks') /\ asks' \in SUBSET AskRecords /\ HeardIn(asks') = {}
  BY <1>6 DEF AsksRight, HeardIn
<1>8. AccountSheetTyped'
  BY <1>1, <1>2, <1>4, <1>5, <1>7, FreshIs DEF AccountSheetTyped
<1>9. Talk(HeardIn(asks'), dialog', added', halted')
  BY <1>1, <1>2, <1>7, FreshIs
<1>10. Held(added', kept'.list, removed')
  BY <1>2 DEF Held
<1> QED
  BY <1>2, <1>7, <1>8, <1>9, <1>10, FreshIs DEF AccountSheetKept

LEMMA LearnsKept ==
    ASSUME AccountSheetKept, NEW c \in asks, Learns(c)
    PROVE  AccountSheetKept'
<1>1. /\ AccountSheetTyped /\ Held(added, kept.list, removed) /\ c \in AskRecords /\ AskRight(c)
      /\ context \in ContextRecords /\ sheet \in SheetRecords /\ context.list \in Seq(People) /\ c.who \in People
  BY KeptParts DEF AccountSheetTyped, ContextRecords, AskRecords
<1>2. /\ c.at = "answered" /\ c.ok /\ UNCHANGED <<kept, dialog, acts, added, removed, halted>>
      /\ context' = [context EXCEPT !.shown = c.who] \/ context' = context
      /\ sheet' = NewSheet(context.list) \/ sheet' = sheet
  BY DEF Learns, history
<1>3. PICK e : e = [c EXCEPT !.at = "listing"]
  OBVIOUS
<1>4. /\ e \in AskRecords /\ e.from = c.from /\ e.heard = c.heard /\ e.kind = c.kind /\ e.who = c.who
      /\ e.at = "listing" /\ e.ok = c.ok
  BY <1>1, <1>3 DEF AskRecords, AskPlaces
<1>5. AskRight(e)
  BY <1>1, <1>2, <1>4 DEF AskRight
<1>6. Past(e) <=> Past(c)
  BY <1>2, <1>4 DEF Past
<1>7. Becomes(c, e)
  BY <1>3 DEF Learns
<1>8. AsksRight(asks') /\ asks' \in SUBSET AskRecords /\ Talk(HeardIn(asks'), dialog, added, halted)
  BY <1>4, <1>5, <1>6, <1>7, AskOnly
<1>9. context' \in ContextRecords
  BY <1>1, <1>2 DEF ContextRecords
<1>10. sheet' \in SheetRecords
  BY <1>1, <1>2, NewSheetIs
<1>11. AccountSheetTyped'
  BY <1>1, <1>2, <1>8, <1>9, <1>10 DEF AccountSheetTyped
<1> QED
  BY <1>1, <1>2, <1>8, <1>11, DialogRests

LEMMA FinishedIs ==
    ASSUME AccountSheetKept, NEW c \in AskRecords
    PROVE  /\ Finished(c) \in DialogRecords
           /\ Finished(c).type = dialog.type /\ Finished(c).phrase = dialog.phrase /\ Finished(c).key = dialog.key
           /\ Finished(c).open = dialog.open /\ Finished(c).loading = FALSE
           /\ Finished(c).step = IF c.ok \/ c.kind = "switch" THEN "success" ELSE dialog.step
<1>1. dialog \in DialogRecords
  BY KeptParts DEF AccountSheetTyped
<1> QED
  BY <1>1 DEF Finished, DialogRecords

LEMMA ResumesKept ==
    ASSUME AccountSheetKept, NEW c \in asks, NEW s \in SheetRecords, Resumes(c, s), c.at # "asked",
           context' \in ContextRecords, UNCHANGED <<kept, acts, added, removed, halted>>
    PROVE  AccountSheetKept'
<1>1. /\ AccountSheetTyped /\ DialogRight(dialog) /\ AsksRight(asks)
      /\ Talk(HeardIn(asks), dialog, added, halted) /\ Held(added, kept.list, removed)
      /\ c \in AskRecords /\ AskRight(c) /\ dialog \in DialogRecords /\ asks \in SUBSET AskRecords
  BY KeptParts DEF AccountSheetTyped
<1>2. Held(added', kept'.list, removed')
  BY <1>1
<1>3. CASE c.from = "dialog" /\ c.kind = "add-account" /\ c.ok
  <2>1. PICK e : e = [c EXCEPT !.kind = "switch", !.at = "asked"]
    OBVIOUS
  <2>2. Becomes(c, e) /\ sheet' = s /\ dialog' = dialog
    BY <1>3, <2>1 DEF Resumes, Shown
  <2>3. /\ e \in AskRecords /\ e.from = c.from /\ e.heard = c.heard /\ e.kind = "switch" /\ e.who = c.who
        /\ e.at = "asked" /\ e.ok = c.ok
    BY <1>1, <2>1 DEF AskRecords, AskKinds, AskPlaces
  <2>4. AskRight(e)
    BY <1>3, <2>3 DEF AskRight, Types
  <2>5. asks' = (asks \ {c}) \cup {e}
    BY <2>2 DEF Becomes
  <2>6. AsksRight(asks') /\ asks' \in SUBSET AskRecords
    BY <1>1, <2>3, <2>4, <2>5, AsksMove
  <2>7. Talk(HeardIn(asks'), dialog, added, halted)
    <3>1. CASE ~c.heard
      <4>1. HeardIn(asks') = HeardIn(asks)
        BY <2>3, <2>5, <3>1, HeardMoves
      <4> QED
        BY <1>1, <4>1
    <3>2. CASE c.heard
      <4>1. c \in HeardIn(asks)
        BY <1>3, <3>2 DEF HeardIn
      <4>2. HeardIn(asks) = {c}
        BY <1>1, <4>1, TalkNeedsOne
      <4>3. HeardIn(asks') = {e}
        <5>1. e \in HeardIn({e})
          BY <1>3, <2>3, <3>2 DEF HeardIn
        <5> QED
          BY <2>5, <4>1, <4>2, <5>1, HeardMovesAlone
      <4>4. Talk({c}, dialog, added, halted)
        BY <1>1, <4>2
      <4>5. Talk({e}, dialog, added, halted)
        BY <1>3, <2>3, <4>4, TalkSwitches
      <4> QED
        BY <4>3, <4>5
    <3> QED
      BY <3>1, <3>2
  <2>8. AccountSheetTyped'
    BY <1>1, <2>2, <2>6 DEF AccountSheetTyped
  <2> QED
    BY <1>2, <2>2, <2>6, <2>7, <2>8, DialogRests
<1>4. CASE ~(c.from = "dialog" /\ c.kind = "add-account" /\ c.ok)
  <2>1. /\ asks' = asks \ {c}
        /\ dialog' = IF c.from = "dialog" /\ c.heard THEN Finished(c) ELSE dialog
        /\ sheet' = IF c.from = "sheet" /\ c.kind = "switch" /\ c.heard THEN SwitchEnds(c, s) ELSE s
    BY <1>4, Zenon DEF Resumes
  <2>2. AsksRight(asks') /\ asks' \in SUBSET AskRecords
    BY <1>1, <2>1 DEF AsksRight
  <2>3. SwitchEnds(c, s) \in SheetRecords
    BY <1>1 DEF SwitchEnds, SheetRecords, People, AskRecords
  <2>4. sheet' \in SheetRecords
    BY <2>1, <2>3
  <2>5. CASE c.from = "dialog" /\ c.heard
    <3>1. dialog' = Finished(c)
      BY <2>1, <2>5
    <3>2. /\ dialog' \in DialogRecords
          /\ dialog'.type = dialog.type /\ dialog'.phrase = dialog.phrase /\ dialog'.key = dialog.key
          /\ dialog'.open = dialog.open /\ dialog'.loading = FALSE
          /\ dialog'.step = IF c.ok \/ c.kind = "switch" THEN "success" ELSE dialog.step
      BY <1>1, <3>1, FinishedIs
    <3>3. c \in HeardIn(asks)
      BY <2>5 DEF HeardIn
    <3>4. HeardIn(asks) = {c}
      BY <1>1, <3>3, TalkNeedsOne
    <3>5. HeardIn(asks') = {}
      BY <2>1, <2>5, <3>4, HeardGoes
    <3>6. Talk({c}, dialog, added, halted)
      BY <1>1, <3>4
    <3>7. c.kind \in Types \cup {"switch"}
      BY <1>1, <2>5 DEF AskRight
    <3>8. PICK d2 : d2 = dialog'
      OBVIOUS
    <3>9. Talk({}, d2, added, halted)
      BY <1>1, <3>2, <3>6, <3>7, <3>8, TalkEnds
    <3>10. dialog.loading
      BY <3>6 DEF Talk, Waits
    <3>11. DialogRight(d2)
      BY <1>1, <3>2, <3>8, <3>10 DEF DialogRight
    <3>12. AccountSheetTyped'
      BY <1>1, <2>2, <2>4, <3>2 DEF AccountSheetTyped
    <3>13. Talk(HeardIn(asks'), dialog', added', halted')
      BY <3>5, <3>8, <3>9
    <3> QED
      BY <1>2, <2>2, <3>8, <3>11, <3>12, <3>13 DEF AccountSheetKept
  <2>6. CASE ~(c.from = "dialog" /\ c.heard)
    <3>1. dialog' = dialog
      BY <2>1, <2>6
    <3>2. HeardIn(asks') = HeardIn(asks)
      BY <2>1, <2>6, HeardGoes
    <3>3. Talk(HeardIn(asks'), dialog, added, halted)
      BY <1>1, <3>2
    <3>4. AccountSheetTyped'
      BY <1>1, <2>2, <2>4, <3>1 DEF AccountSheetTyped
    <3> QED
      BY <1>2, <2>2, <3>1, <3>3, <3>4, DialogRests
  <2> QED
    BY <2>5, <2>6
<1> QED
  BY <1>3, <1>4

LEMMA ListArrivesKept ==
    ASSUME AccountSheetKept, NEW c \in asks, ListArrives(c)
    PROVE  AccountSheetKept'
<1>1. context \in ContextRecords /\ sheet \in SheetRecords /\ c \in AskRecords
  BY KeptParts DEF AccountSheetTyped
<1>2. /\ c.at = "listed" /\ context' = [context EXCEPT !.list = c.list]
      /\ UNCHANGED <<kept, acts, added, removed, halted>>
  BY DEF ListArrives, history
<1>3. PICK s : s = [sheet EXCEPT !.local = IF Mounted THEN c.list ELSE sheet.local]
  OBVIOUS
<1>4. Resumes(c, s)
  BY <1>3 DEF ListArrives
<1>5. s \in SheetRecords
  BY <1>1, <1>3 DEF SheetRecords, AskRecords
<1>6. context' \in ContextRecords
  BY <1>1, <1>2 DEF ContextRecords, AskRecords
<1> QED
  BY <1>2, <1>4, <1>5, <1>6, ResumesKept

LEMMA RefusedKept ==
    ASSUME AccountSheetKept, NEW c \in asks, Refused(c)
    PROVE  AccountSheetKept'
<1>1. context \in ContextRecords /\ sheet \in SheetRecords
  BY KeptParts DEF AccountSheetTyped
<1>2. /\ c.at = "answered" /\ Resumes(c, sheet) /\ context' = context
      /\ UNCHANGED <<kept, acts, added, removed, halted>>
  BY DEF Refused, history
<1> QED
  BY <1>1, <1>2, ResumesKept

LEMMA KeptCallGoes ==
    ASSUME AccountSheetKept, NEW c \in asks, Goes(c)
    PROVE  AccountSheetKept'
BY AddsKept, ObeysKept, TellsKept, LocksKept, LearnsKept, ListArrivesKept, RefusedKept DEF Goes

\* A call that the dialog does not make
LEMMA NewAskIs ==
    ASSUME AccountSheetTyped, NEW kind \in AskKinds, NEW who \in People
    PROVE  NewAsk(kind, who) \in AskRecords
<1>1. <<>> \in Seq(People)
  BY EmptySeq
<1> QED
  BY <1>1 DEF NewAsk, AskRecords, AskPlaces, AccountSheetTyped

LEMMA AsksJoin ==
    ASSUME AccountSheetKept, NEW e \in AskRecords, AskRight(e), e.from # "dialog", asks' = asks \cup {e}
    PROVE  AsksRight(asks') /\ asks' \in SUBSET AskRecords /\ Talk(HeardIn(asks'), dialog, added, halted)
<1>1. /\ AsksRight(asks) /\ asks \in SUBSET AskRecords /\ Talk(HeardIn(asks), dialog, added, halted)
  BY KeptParts DEF AccountSheetTyped
<1>2. HeardIn(asks') = HeardIn(asks)
  BY HeardJoins
<1> QED
  BY <1>1, <1>2 DEF AsksRight

LEMMA PollKept ==
    ASSUME AccountSheetKept, checkWallet
    PROVE  AccountSheetKept'
<1>1. AccountSheetTyped /\ kept \in KeptRecords /\ kept.active \in People /\ Held(added, kept.list, removed)
  BY KeptParts DEF AccountSheetTyped, KeptRecords
<1>2. asks' = asks \cup {Poll} /\ UNCHANGED <<kept, context, sheet, dialog, acts, added, removed, halted>>
  BY DEF checkWallet, history
<1>3. PICK who \in People : who = IF kept.open THEN kept.active ELSE Nobody
  BY <1>1 DEF People
<1>4. PICK n : n = NewAsk("poll", who)
  OBVIOUS
<1>5. n \in AskRecords /\ n.kind = "poll" /\ n.from = "context" /\ n.ok
  BY <1>1, <1>4, NewAskIs DEF NewAsk, AskKinds
<1>6. PICK e : e = [n EXCEPT !.id = 0, !.at = "answered"]
  OBVIOUS
<1>7. e = Poll
  BY <1>3, <1>4, <1>6 DEF Poll
<1>8. e \in AskRecords /\ e.kind = "poll" /\ e.from = "context" /\ e.ok
  BY <1>5, <1>6 DEF AskRecords, AskPlaces
<1>9. AskRight(e)
  BY <1>8 DEF AskRight, Types
<1>10. AsksRight(asks') /\ asks' \in SUBSET AskRecords /\ Talk(HeardIn(asks'), dialog, added, halted)
  BY <1>2, <1>7, <1>8, <1>9, AsksJoin
<1>11. AccountSheetTyped'
  BY <1>1, <1>2, <1>10 DEF AccountSheetTyped
<1> QED
  BY <1>1, <1>2, <1>10, <1>11, DialogRests

LEMMA OtherWindowKept ==
    ASSUME AccountSheetKept, OtherWindow
    PROVE  AccountSheetKept'
<1>1. /\ AccountSheetTyped /\ Held(added, kept.list, removed) /\ kept \in KeptRecords /\ kept.list \in Seq(People)
      /\ AsksRight(asks) /\ Talk(HeardIn(asks), dialog, added, halted) /\ acts \in Nat
  BY KeptParts DEF AccountSheetTyped, KeptRecords
<1>2. acts' = acts + 1 /\ UNCHANGED <<context, sheet, dialog, asks, added, halted>>
  BY DEF OtherWindow
<1>3. \A a \in ToSet(kept.list) : a \in People
  <2>1. \A i \in DOMAIN kept.list : kept.list[i] \in People
    BY <1>1, LenProperties, ElementOfSeq
  <2> QED
    BY <2>1 DEF ToSet
<1>4. kept' \in KeptRecords /\ ToSet(kept.list) \subseteq ToSet(kept'.list) \cup removed' /\ removed \subseteq removed'
  <2>1. CASE kept' = [kept EXCEPT !.open = ~kept.open] /\ removed' = removed
    BY <1>1, <2>1 DEF KeptRecords
  <2>2. ASSUME NEW a \in ToSet(kept.list), kept' = [kept EXCEPT !.active = a] /\ removed' = removed
        PROVE  kept' \in KeptRecords /\ ToSet(kept.list) \subseteq ToSet(kept'.list) \cup removed' /\ removed \subseteq removed'
    <3>1. a \in People
      BY <1>3
    <3>2. kept' \in KeptRecords /\ kept'.list = kept.list
      BY <1>1, <2>2, <3>1 DEF KeptRecords
    <3> QED
      BY <2>2, <3>2
  <2>3. ASSUME NEW a \in ToSet(kept.list),
               kept' = [kept EXCEPT !.list = Without(kept.list, a)] /\ removed' = removed \cup {a}
        PROVE  kept' \in KeptRecords /\ ToSet(kept.list) \subseteq ToSet(kept'.list) \cup removed' /\ removed \subseteq removed'
    <3>1. Without(kept.list, a) \in Seq(People) /\ ToSet(kept.list) \ {a} \subseteq ToSet(Without(kept.list, a))
      BY <1>1, WithoutKeeps
    <3>2. kept' \in KeptRecords /\ kept'.list = Without(kept.list, a)
      BY <1>1, <2>3, <3>1 DEF KeptRecords
    <3> QED
      BY <2>3, <3>1, <3>2
  <2> QED
    BY <2>1, <2>2, <2>3 DEF OtherWindow
<1>5. Held(added, kept'.list, removed')
  BY <1>1, <1>4, HeldStays
<1>6. AccountSheetTyped'
  BY <1>1, <1>2, <1>4 DEF AccountSheetTyped
<1> QED
  BY <1>1, <1>2, <1>5, <1>6, DialogRests

\* The sheet is opened, closed, and asks about a removal.
LEMMA SheetTurnsKept ==
    ASSUME AccountSheetKept, sheet' \in SheetRecords, UNCHANGED <<kept, context, dialog, asks, acts, added, removed, halted>>
    PROVE  AccountSheetKept'
<1>1. /\ AccountSheetTyped /\ Held(added, kept.list, removed) /\ AsksRight(asks)
      /\ Talk(HeardIn(asks), dialog, added, halted)
  BY KeptParts
<1>2. AccountSheetTyped'
  BY <1>1 DEF AccountSheetTyped
<1> QED
  BY <1>1, <1>2, DialogRests

\* The sheet makes a call.
LEMMA SheetAsksKept ==
    ASSUME AccountSheetKept, sheet' \in SheetRecords, NEW e \in AskRecords, Writes(e), e.from # "dialog", e.kind \notin Types, e.ok,
           UNCHANGED <<kept, context, dialog, added, removed, halted>>
    PROVE  AccountSheetKept'
<1>1. AccountSheetTyped /\ Held(added, kept.list, removed) /\ acts \in Nat
  BY KeptParts DEF AccountSheetTyped
<1>2. AskRight(e)
  BY DEF AskRight
<1>3. asks' = asks \cup {e} /\ acts' = acts + 1
  BY DEF Writes
<1>4. AsksRight(asks') /\ asks' \in SUBSET AskRecords /\ Talk(HeardIn(asks'), dialog, added, halted)
  BY <1>2, <1>3, AsksJoin
<1>5. AccountSheetTyped'
  BY <1>1, <1>3, <1>4 DEF AccountSheetTyped
<1> QED
  BY <1>1, <1>4, <1>5, DialogRests

LEMMA SheetButtonsKept ==
    ASSUME AccountSheetKept, OpenSwitcher \/ CloseSwitcher \/ CancelRemoval \/ handleRemove
    PROVE  AccountSheetKept'
<1>1. sheet \in SheetRecords /\ AccountSheetTyped /\ sheet.removing \in People
  BY KeptParts DEF AccountSheetTyped, SheetRecords
<1>2. CASE OpenSwitcher
  <2>1. sheet' \in SheetRecords
    BY <1>1, <1>2 DEF OpenSwitcher, Shown, SheetRecords
  <2> QED
    BY <1>2, <2>1, SheetTurnsKept DEF OpenSwitcher, Shown, history
<1>3. CASE CloseSwitcher
  <2>1. sheet' \in SheetRecords
    BY <1>1, <1>3 DEF CloseSwitcher, Shown, SheetRecords
  <2> QED
    BY <1>3, <2>1, SheetTurnsKept DEF CloseSwitcher, Shown, history
<1>4. sheet' = [sheet EXCEPT !.removing = Nobody] => sheet' \in SheetRecords
  BY <1>1 DEF SheetRecords, People
<1>5. CASE CancelRemoval
  <2>1. sheet' \in SheetRecords
    BY <1>4, <1>5 DEF CancelRemoval, Shown
  <2> QED
    BY <1>5, <2>1, SheetTurnsKept DEF CancelRemoval, Shown, history
<1>6. CASE handleRemove
  <2>1. sheet' \in SheetRecords
    BY <1>4, <1>6 DEF handleRemove, Shown
  <2>2. PICK n : n = NewAsk("remove", sheet.removing)
    OBVIOUS
  <2>3. n \in AskRecords /\ n.kind = "remove" /\ n.ok
    BY <1>1, <2>2, NewAskIs DEF NewAsk, AskKinds
  <2>4. PICK e : e = [n EXCEPT !.from = "sheet"]
    OBVIOUS
  <2>5. e \in AskRecords /\ e.kind \notin Types /\ e.ok /\ e.from # "dialog"
    BY <2>3, <2>4 DEF AskRecords, Types
  <2>6. Writes(e)
    BY <1>6, <2>2, <2>4 DEF handleRemove
  <2> QED
    BY <1>6, <2>1, <2>5, <2>6, SheetAsksKept DEF handleRemove, Shown, history
<1> QED
  BY <1>2, <1>3, <1>5, <1>6

LEMMA ListedKept ==
    ASSUME AccountSheetKept, NEW who \in ToSet(sheet.local), handleSwitch(who) \/ AskRemoval(who)
    PROVE  AccountSheetKept'
<1>1. sheet \in SheetRecords /\ AccountSheetTyped /\ sheet.local \in Seq(People)
  BY KeptParts DEF AccountSheetTyped, SheetRecords
<1>2. who \in People
  <2>1. \A i \in DOMAIN sheet.local : sheet.local[i] \in People
    BY <1>1, LenProperties, ElementOfSeq
  <2> QED
    BY <2>1 DEF ToSet
<1>3. CASE handleSwitch(who)
  <2>1. sheet' \in SheetRecords
    BY <1>1, <1>2, <1>3 DEF handleSwitch, Shown, SheetRecords
  <2>2. PICK n : n = NewAsk("switch", who)
    OBVIOUS
  <2>3. n \in AskRecords /\ n.kind = "switch" /\ n.ok
    BY <1>1, <1>2, <2>2, NewAskIs DEF NewAsk, AskKinds
  <2>4. PICK e : e = [n EXCEPT !.from = "sheet"]
    OBVIOUS
  <2>5. e \in AskRecords /\ e.kind \notin Types /\ e.ok /\ e.from # "dialog"
    BY <2>3, <2>4 DEF AskRecords, Types
  <2>6. Writes(e)
    BY <1>3, <2>2, <2>4 DEF handleSwitch
  <2> QED
    BY <1>3, <2>1, <2>5, <2>6, SheetAsksKept DEF handleSwitch, Shown, history
<1>4. CASE AskRemoval(who)
  <2>1. sheet' \in SheetRecords
    BY <1>1, <1>2, <1>4 DEF AskRemoval, Shown, SheetRecords
  <2> QED
    BY <1>4, <2>1, SheetTurnsKept DEF AskRemoval, Shown, history
<1> QED
  BY <1>3, <1>4

LEMMA DropKept ==
    ASSUME AccountSheetKept, NEW i \in DOMAIN sheet.local, NEW j \in DOMAIN sheet.local, onDrop(i, j)
    PROVE  AccountSheetKept'
<1>1. sheet \in SheetRecords /\ AccountSheetTyped /\ sheet.local \in Seq(People)
  BY KeptParts DEF AccountSheetTyped, SheetRecords
<1>2. Moved(sheet.local, i, j) \in Seq(People)
  BY <1>1, MovedIs
<1>3. sheet' = [sheet EXCEPT !.local = Moved(sheet.local, i, j)]
  BY DEF onDrop, Shown
<1>4. sheet' \in SheetRecords
  BY <1>1, <1>2, <1>3 DEF SheetRecords
<1>5. PICK n : n = NewAsk("reorder", Nobody)
  OBVIOUS
<1>6. n \in AskRecords /\ n.kind = "reorder" /\ n.ok /\ n.from = "context"
  BY <1>1, <1>5, NewAskIs DEF NewAsk, AskKinds, People
<1>7. PICK e : e = [n EXCEPT !.list = Moved(sheet.local, i, j)]
  OBVIOUS
<1>8. e \in AskRecords /\ e.kind \notin Types /\ e.ok /\ e.from # "dialog"
  BY <1>2, <1>6, <1>7 DEF AskRecords, Types
<1>9. Writes(e)
  BY <1>5, <1>7 DEF onDrop
<1> QED
  BY <1>4, <1>8, <1>9, SheetAsksKept DEF onDrop, Shown, history

\* A page of the dialog is turned while it awaits nothing.
LEMMA DialogTurnsKept ==
    ASSUME AccountSheetKept, ~dialog.loading, dialog.step # "success", NEW d \in DialogRecords, Turn(d),
           d.step # "success", ~d.loading, DialogRight(d)
    PROVE  AccountSheetKept'
<1>1. /\ AccountSheetTyped /\ Held(added, kept.list, removed) /\ AsksRight(asks)
      /\ Talk(HeardIn(asks), dialog, added, halted)
  BY KeptParts
<1>2. dialog' = d /\ UNCHANGED <<kept, context, sheet, asks, acts, added, removed, halted>>
  BY DEF Turn, Shown, history
<1>3. HeardIn(asks) = {}
  BY <1>1, TalkNeedsOne
<1>4. Talk({}, dialog, added, halted)
  BY <1>1, <1>3
<1>5. Talk({}, d, added, halted)
  BY <1>4, TalkTurns
<1>6. AccountSheetTyped'
  BY <1>1, <1>2 DEF AccountSheetTyped
<1>7. Talk(HeardIn(asks'), dialog', added', halted')
  BY <1>2, <1>3, <1>5
<1> QED
  BY <1>1, <1>2, <1>6, <1>7 DEF AccountSheetKept

LEMMA TurnsKept ==
    ASSUME AccountSheetKept,
           OpenDialog \/ handlePhraseContinue \/ handleKeyContinue \/ handleBack \/ \E type \in Types : selectType(type)
    PROVE  AccountSheetKept'
<1>1. dialog \in DialogRecords /\ DialogRight(dialog)
  BY KeptParts DEF AccountSheetTyped
<1>2. CASE OpenDialog
  <2>1. PICK d : d = [dialog EXCEPT !.open = TRUE]
    OBVIOUS
  <2>2. Turn(d) /\ ~dialog.open
    BY <1>2, <2>1 DEF OpenDialog, OnList
  <2>3. dialog = Fresh
    BY <1>1, <2>2 DEF DialogRight
  <2>4. dialog.step = "choose" /\ ~dialog.loading
    BY <2>3 DEF Fresh
  <2>5. d \in DialogRecords /\ d.step = "choose" /\ ~d.loading /\ d.open
    BY <1>1, <2>1, <2>4 DEF DialogRecords
  <2>6. DialogRight(d)
    BY <2>5 DEF DialogRight
  <2> QED
    BY <2>2, <2>4, <2>5, <2>6, DialogTurnsKept
<1>3. CASE handlePhraseContinue
  <2>1. PICK d : d = [dialog EXCEPT !.phrase = Phrase, !.step = "password"]
    OBVIOUS
  <2>2. Turn(d) /\ dialog.open /\ dialog.step = "phrase"
    BY <1>3, <2>1 DEF handlePhraseContinue, At
  <2>3. ~dialog.loading /\ dialog.type \in Types
    BY <1>1, <2>2 DEF DialogRight
  <2>4. d \in DialogRecords /\ d.step = "password" /\ ~d.loading /\ d.open /\ d.type \in Types
    BY <1>1, <2>1, <2>2, <2>3 DEF DialogRecords, People
  <2>5. DialogRight(d)
    BY <2>4 DEF DialogRight
  <2> QED
    BY <2>2, <2>3, <2>4, <2>5, DialogTurnsKept
<1>4. CASE handleKeyContinue
  <2>1. PICK d : d = [dialog EXCEPT !.key = Secret, !.step = "password"]
    OBVIOUS
  <2>2. Turn(d) /\ dialog.open /\ dialog.step = "key"
    BY <1>4, <2>1 DEF handleKeyContinue, At
  <2>3. ~dialog.loading /\ dialog.type \in Types
    BY <1>1, <2>2 DEF DialogRight
  <2>4. d \in DialogRecords /\ d.step = "password" /\ ~d.loading /\ d.open /\ d.type \in Types
    BY <1>1, <2>1, <2>2, <2>3 DEF DialogRecords, People
  <2>5. DialogRight(d)
    BY <2>4 DEF DialogRight
  <2> QED
    BY <2>2, <2>3, <2>4, <2>5, DialogTurnsKept
<1>5. CASE handleBack
  <2>1. ~dialog.loading /\ dialog.open
    BY <1>5 DEF handleBack, Idle, At
  <2>2. PICK step \in {"choose", "phrase", "key"} :
           /\ Turn([dialog EXCEPT !.step = step]) /\ dialog.step # "success"
           /\ step = "choose" \/ dialog.type \in Types
    <3>1. CASE (At("phrase") \/ At("key")) /\ Turn([dialog EXCEPT !.step = "choose"])
      BY <3>1 DEF At
    <3>2. CASE At("password") /\ Turn([dialog EXCEPT !.step = InputOf(dialog.type)])
      <4>1. InputOf(dialog.type) \in {"choose", "phrase", "key"}
        BY DEF InputOf
      <4>2. dialog.type \in Types
        BY <1>1, <3>2 DEF At, DialogRight
      <4> QED
        BY <3>2, <4>1, <4>2 DEF At
    <3> QED
      BY <1>5, <3>1, <3>2 DEF handleBack
  <2>3. PICK d : d = [dialog EXCEPT !.step = step]
    OBVIOUS
  <2>4. d \in DialogRecords /\ d.step = step /\ ~d.loading /\ d.open /\ d.type = dialog.type
    BY <1>1, <2>1, <2>3 DEF DialogRecords
  <2>5. DialogRight(d) /\ d.step # "success"
    BY <2>2, <2>4 DEF DialogRight
  <2>6. Turn(d)
    BY <2>2, <2>3
  <2> QED
    BY <2>1, <2>2, <2>4, <2>5, <2>6, DialogTurnsKept
<1>6. ASSUME NEW type \in Types, selectType(type) PROVE AccountSheetKept'
  <2>1. PICK step \in {"phrase", "key", "password"} : step = IF type = "add-account" THEN "password" ELSE InputOf(type)
    BY DEF InputOf, Types
  <2>2. PICK d : d = [dialog EXCEPT !.type = type, !.step = step]
    OBVIOUS
  <2>3. Turn(d) /\ dialog.open /\ dialog.step = "choose"
    BY <1>6, <2>1, <2>2 DEF selectType, At
  <2>4. ~dialog.loading
    BY <1>1, <2>3 DEF DialogRight
  <2>5. d \in DialogRecords /\ d.step = step /\ ~d.loading /\ d.open /\ d.type = type
    BY <1>1, <2>2, <2>3, <2>4 DEF DialogRecords
  <2>6. DialogRight(d) /\ d.step # "success"
    BY <2>5 DEF DialogRight
  <2> QED
    BY <2>3, <2>4, <2>5, <2>6, DialogTurnsKept
<1> QED
  BY <1>2, <1>3, <1>4, <1>5, <1>6

LEMMA CloseKept ==
    ASSUME AccountSheetKept, handleClose
    PROVE  AccountSheetKept'
<1>1. /\ AccountSheetTyped /\ AsksRight(asks) /\ Talk(HeardIn(asks), dialog, added, halted) /\ halted \in BOOLEAN
  BY KeptParts DEF AccountSheetTyped
<1>2. /\ ~dialog.loading /\ dialog' = Fresh /\ added' = {}
      /\ UNCHANGED <<kept, context, sheet, asks, acts, removed, halted>>
  BY DEF handleClose, Idle, Shown
<1>3. HeardIn(asks) = {}
  BY <1>1, <1>2, TalkNeedsOne
<1>4. AccountSheetTyped'
  BY <1>1, <1>2, FreshIs DEF AccountSheetTyped
<1>5. Talk(HeardIn(asks'), dialog', added', halted')
  BY <1>1, <1>2, <1>3, FreshIs
<1>6. Held(added', kept'.list, removed')
  BY <1>2 DEF Held
<1> QED
  BY <1>1, <1>2, <1>4, <1>5, <1>6, FreshIs DEF AccountSheetKept

LEMMA SubmitKept ==
    ASSUME AccountSheetKept, handlePasswordSubmit
    PROVE  AccountSheetKept'
<1>1. /\ AccountSheetTyped /\ AsksRight(asks) /\ Talk(HeardIn(asks), dialog, added, halted) /\ Held(added, kept.list, removed)
      /\ dialog \in DialogRecords /\ DialogRight(dialog) /\ asks \in SUBSET AskRecords /\ acts \in Nat
  BY KeptParts DEF AccountSheetTyped
<1>2. /\ dialog.open /\ dialog.step = "password" /\ ~dialog.loading
      /\ sheet' = sheet /\ dialog' = [dialog EXCEPT !.loading = TRUE, !.password = TRUE]
      /\ UNCHANGED <<kept, context, added, removed, halted>>
  BY DEF handlePasswordSubmit, At, Idle, Shown, history
<1>3. dialog.type \in Types
  BY <1>1, <1>2 DEF DialogRight
<1>4. PICK who \in People : who = IF dialog.type = "import-phrase" THEN dialog.phrase ELSE dialog.key
  BY <1>1 DEF DialogRecords
<1>5. PICK n : n = NewAsk(dialog.type, who)
  OBVIOUS
<1>6. n \in AskRecords /\ n.kind = dialog.type /\ n.who = who /\ n.at = "asked" /\ n.ok /\ n.heard
  BY <1>1, <1>3, <1>5, NewAskIs DEF NewAsk, AskKinds
<1>7. PICK e : e = [n EXCEPT !.from = "dialog"]
  OBVIOUS
<1>8. /\ e \in AskRecords /\ e.kind = dialog.type /\ e.who = who /\ e.at = "asked" /\ e.ok /\ e.heard /\ e.from = "dialog"
  BY <1>6, <1>7 DEF AskRecords
<1>9. asks' = asks \cup {e} /\ acts' = acts + 1
  BY <1>4, <1>5, <1>7 DEF handlePasswordSubmit, Writes
<1>10. PICK d : d = [dialog EXCEPT !.loading = TRUE, !.password = TRUE]
  OBVIOUS
<1>11. /\ d \in DialogRecords /\ d.loading /\ d.open /\ d.step = "password" /\ d.type = dialog.type
       /\ d.phrase = dialog.phrase /\ d.key = dialog.key
  BY <1>1, <1>2, <1>10 DEF DialogRecords
<1>12. AskRight(e)
  BY <1>3, <1>8 DEF AskRight
<1>13. AsksRight(asks') /\ asks' \in SUBSET AskRecords
  BY <1>1, <1>8, <1>9, <1>12 DEF AsksRight
<1>14. DialogRight(d)
  BY <1>3, <1>11 DEF DialogRight
<1>15. HeardIn(asks) = {}
  BY <1>1, <1>2, TalkNeedsOne
<1>16. HeardIn(asks') = {e}
  BY <1>8, <1>9, <1>15, HeardJoins
<1>17. IsOf(e.kind, e.who, d)
  BY <1>4, <1>8, <1>11 DEF IsOf
<1>18. e.kind # "switch"
  BY <1>3, <1>8 DEF Types
<1>19. Waits(e, d)
  BY <1>11, <1>17, <1>18 DEF Waits
<1>20. ~Past(e)
  BY <1>8, <1>18 DEF Past
<1>21. Talk({}, dialog, added, halted)
  BY <1>1, <1>15
<1>22. Talk({e}, d, added, halted)
  BY <1>2, <1>11, <1>19, <1>20, <1>21, TalkStarts
<1>23. dialog' = d
  BY <1>2, <1>10
<1>24. Talk(HeardIn(asks'), dialog', added', halted')
  BY <1>2, <1>16, <1>22, <1>23
<1>25. AccountSheetTyped'
  BY <1>1, <1>2, <1>9, <1>11, <1>13, <1>23 DEF AccountSheetTyped
<1> QED
  BY <1>1, <1>2, <1>13, <1>14, <1>23, <1>24, <1>25 DEF AccountSheetKept

LEMMA AccountSheetStarts ==
    AccountSheetInit => AccountSheetKept
<1> SUFFICES ASSUME AccountSheetInit PROVE AccountSheetKept
  OBVIOUS
<1>1. PICK n \in 1..Len(Derived) : kept = [list |-> SubSeq(Derived, 1, n), active |-> Derived[1], open |-> TRUE]
  BY DEF AccountSheetInit
<1>2. Len(Derived) \in Nat /\ DOMAIN Derived = 1..Len(Derived) /\ \A i \in 1..Len(Derived) : Derived[i] \in People
  BY AccountSheetAssumption, LenProperties, ElementOfSeq DEF People
<1>3. SubSeq(Derived, 1, n) \in Seq(People)
  BY <1>2, SubSeqProperties
<1>4. kept \in KeptRecords /\ kept.list \in Seq(People) /\ kept.active \in People
  BY <1>1, <1>2, <1>3 DEF KeptRecords
<1>5. context \in ContextRecords
  BY <1>4 DEF AccountSheetInit, ContextRecords
<1>6. sheet \in SheetRecords
  BY <1>4, NewSheetIs DEF AccountSheetInit
<1>7. dialog = Fresh /\ asks = {} /\ acts = 0 /\ added = {} /\ removed = {} /\ halted = FALSE
  BY DEF AccountSheetInit
<1>8. AccountSheetTyped
  BY <1>4, <1>5, <1>6, <1>7, FreshIs DEF AccountSheetTyped
<1>9. AsksRight(asks) /\ HeardIn(asks) = {}
  BY <1>7 DEF AsksRight, HeardIn
<1>10. Talk(HeardIn(asks), dialog, added, halted)
  BY <1>7, <1>9, FreshIs
<1> QED
  BY <1>7, <1>8, <1>9, <1>10, FreshIs DEF AccountSheetKept, Held

LEMMA AccountSheetStep ==
    AccountSheetKept /\ [AccountSheetNext]_accountSheetVars => AccountSheetKept'
<1> SUFFICES ASSUME AccountSheetKept, [AccountSheetNext]_accountSheetVars PROVE AccountSheetKept'
  OBVIOUS
<1>1. CASE UNCHANGED accountSheetVars
  <2>1. AccountSheetTyped
    BY KeptParts
  <2>2. sheet' \in SheetRecords /\ UNCHANGED <<kept, context, dialog, asks, acts, added, removed, halted>>
    BY <1>1, <2>1 DEF accountSheetVars, AccountSheetTyped
  <2> QED
    BY <2>2, SheetTurnsKept
<1>2. ASSUME NEW c \in asks, Goes(c) PROVE AccountSheetKept'
  BY <1>2, KeptCallGoes
<1>3. ASSUME NEW who \in ToSet(sheet.local), handleSwitch(who) \/ AskRemoval(who) PROVE AccountSheetKept'
  BY <1>3, ListedKept
<1>4. ASSUME NEW i \in DOMAIN sheet.local, NEW j \in DOMAIN sheet.local, onDrop(i, j) PROVE AccountSheetKept'
  BY <1>4, DropKept
<1>5. CASE OpenSwitcher \/ CloseSwitcher \/ CancelRemoval \/ handleRemove
  BY <1>5, SheetButtonsKept
<1>6. CASE OpenDialog \/ handlePhraseContinue \/ handleKeyContinue \/ handleBack \/ \E type \in Types : selectType(type)
  BY <1>6, TurnsKept
<1> QED
  BY <1>1, <1>2, <1>3, <1>4, <1>5, <1>6, PollKept, OtherWindowKept, CloseKept, SubmitKept DEF AccountSheetNext

LEMMA KeptIsRight ==
    AccountSheetKept => AccountSheetInv
<1> SUFFICES ASSUME AccountSheetKept PROVE AccountSheetInv
  OBVIOUS
<1>1. /\ DialogRight(dialog) /\ Talk(HeardIn(asks), dialog, added, halted) /\ Held(added, kept.list, removed)
  BY KeptParts
<1>2. ClosedIsFresh
  BY <1>1 DEF ClosedIsFresh, DialogRight
<1>3. AddedOnce
  BY <1>1 DEF AddedOnce, Talk, Single
<1>4. SuccessIsHeld
  <2> SUFFICES ASSUME dialog.step = "success"
               PROVE  \E a \in added : /\ a.type = dialog.type /\ a.who \in ToSet(kept.list) \cup removed
                                       /\ a.type = "import-phrase" => a.who = dialog.phrase
                                       /\ a.type = "import-key" => a.who = dialog.key
    BY DEF SuccessIsHeld
  <2>1. PICK a \in added : IsOf(a.type, a.who, dialog)
    BY <1>1 DEF Talk
  <2>2. a.who \in ToSet(kept.list) \cup removed
    BY <1>1 DEF Held
  <2> QED
    BY <2>1, <2>2 DEF IsOf
<1> QED
  BY <1>2, <1>3, <1>4 DEF AccountSheetInv

\* The dialog that adds an account (AddWalletModal.tsx), over the list that is switched, removed and dragged
\* (AccountSwitcher.tsx): however the answers of its calls, the polls and another window fall between its
\* pages, one confirmation adds one account unless a call failed after it had stored, the page of success
\* stands over an account of the type and the input shown, and a closed dialog keeps nothing.
THEOREM AccountSheetHolds ==
    AccountSheetInit /\ [][AccountSheetNext]_accountSheetVars => []AccountSheetInv
BY AccountSheetStarts, AccountSheetStep, KeptIsRight, PTL
==============================================================================
