--------------------------- MODULE AccountsProofs ---------------------------
(***************************************************************************)
(* The accounts, their keys and the session, for any accounts, imported    *)
(* keys, passwords and requests. A handler is a program of awaited steps,  *)
(* and others run between them: what is known of one is the order of the   *)
(* steps still ahead of it, and what it has read of the lists. From that   *)
(* follow, step by step, the order in which it writes the list, the keys   *)
(* and the session, and what another handler may find between two of its   *)
(* writes.                                                                 *)
(***************************************************************************)
EXTENDS Accounts, Sums, SequenceTheorems, TLAPS

Imports == {"importHd", "importSk"}
Removes == {"remove", "removeHd"}
StepNames ==
    {"putAccount", "putSecret", "putSeed", "dropAccount", "dropSecret", "dropSeed", "dropHd", "dropSk",
     "putMain", "saveStore", "decrypt", "getStore", "fill", "getHd", "extraHd", "getSk", "extraSk", "choose",
     "verify", "mnemonic", "saveHd", "saveSk", "getExtraHd", "getExtraSk", "putExtraHd", "putExtraSk",
     "clearWallet", "throws", "rewrite", "reveal"}
HdEntries == [id : HDs, under : Passwords]
SkEntries == [id : SKs, under : Passwords]
Stores == [accounts : SUBSET AllAccounts, active : AllAccounts \cup {Nil}]
Sessions ==
    [pk : AllAccounts \cup {Nil}, secret : AllAccounts \cup {Nil}, seed : BOOLEAN, hd : SUBSET HDs,
     sk : SUBSET SKs]
Handlers ==
    [op : Requests \cup {Nil}, todo : Seq(StepNames), st : {"new", "open", "done", "refused", "lost"},
     pw : Passwords \cup {Nil}, next : Passwords \cup {Nil}, target : AllAccounts \cup {Nil},
     accounts : SUBSET AllAccounts, active : AllAccounts \cup {Nil}, hd : SUBSET HdEntries,
     sk : SUBSET SkEntries, extra : SUBSET Wallets, chosen : AllAccounts \cup {Nil}]

Ahead(x) == ToSet(x.todo)

\* Every s of a program comes before a t.
Follows(todo, s, t) ==
    \A i \in DOMAIN todo : todo[i] = s => \E j \in DOMAIN todo : i < j /\ todo[j] = t
Once(todo) == \A i, j \in DOMAIN todo : todo[i] = todo[j] => i = j

\* Which handlers have a step in their program.
Has(op, steps, s, ops) == s \in steps => op \in ops
Allowed(op, steps) ==
    /\ Has(op, steps, "putMain", {"create"})
    /\ Has(op, steps, "putAccount", {"create", "unlock", "switch"})
    /\ Has(op, steps, "putSecret", {"create", "unlock", "switch"})
    /\ Has(op, steps, "putSeed", {"create", "unlock"})
    /\ Has(op, steps, "fill", {"unlock"})
    /\ Has(op, steps, "extraHd", {"unlock"})
    /\ Has(op, steps, "extraSk", {"unlock"})
    /\ Has(op, steps, "choose", {"unlock"})
    /\ Has(op, steps, "dropAccount", {"lock", "reset"})
    /\ Has(op, steps, "dropSecret", {"lock", "reset"})
    /\ Has(op, steps, "dropSeed", {"lock", "reset"})
    /\ Has(op, steps, "dropHd", {"lock", "reset"})
    /\ Has(op, steps, "dropSk", {"lock", "reset"})
    /\ Has(op, steps, "clearWallet", {"reset"})
    /\ Has(op, steps, "saveHd", {"createHd", "importHd", "removeHd"})
    /\ Has(op, steps, "saveSk", {"rename", "remove", "importSk", "removeHd"})
    /\ Has(op, steps, "saveStore",
           {"create", "add", "switch", "rename", "reorder"} \cup Imports \cup Removes)
    /\ Has(op, steps, "getExtraHd", {"importHd", "removeHd"})
    /\ Has(op, steps, "putExtraHd", {"importHd", "removeHd"})
    /\ Has(op, steps, "getExtraSk", {"importSk"} \cup Removes)
    /\ Has(op, steps, "putExtraSk", {"importSk"} \cup Removes)
    /\ Has(op, steps, "rewrite", {"password"})
    /\ Has(op, steps, "mnemonic", {"add", "switch"})
    /\ Has(op, steps, "verify",
           {"reset", "add", "remove", "createHd", "importHd", "importSk", "password", "phrase", "secret"})
    /\ Has(op, steps, "decrypt", {"unlock", "password", "phrase", "secret"})
    /\ Has(op, steps, "reveal", {"secret"})
    /\ Has(op, steps, "getStore",
           {"unlock", "add", "switch", "rename", "reorder", "secret"} \cup Imports \cup Removes)
    /\ op = "removeHd" =>
          \/ "saveHd" \notin steps /\ "getExtraHd" \notin steps /\ "putExtraHd" \notin steps
          \/ "saveSk" \notin steps /\ "getExtraSk" \notin steps /\ "putExtraSk" \notin steps


\* The order of the steps of a program, as far as it matters.
Order(op, w, todo) ==
    /\ op = "reset" =>
        /\ Follows(todo, "verify", "dropAccount") /\ Follows(todo, "verify", "dropSecret")
        /\ Follows(todo, "verify", "dropSeed") /\ Follows(todo, "verify", "dropHd")
        /\ Follows(todo, "verify", "dropSk") /\ Follows(todo, "verify", "clearWallet")
    /\ op = "unlock" =>
        /\ Follows(todo, "decrypt", "getStore") /\ Follows(todo, "decrypt", "fill")
        /\ Follows(todo, "decrypt", "extraHd") /\ Follows(todo, "decrypt", "extraSk")
        /\ Follows(todo, "decrypt", "choose") /\ Follows(todo, "decrypt", "putAccount")
        /\ Follows(todo, "decrypt", "putSecret") /\ Follows(todo, "decrypt", "putSeed")
        /\ Follows(todo, "getStore", "fill") /\ Follows(todo, "getStore", "choose")
        /\ Follows(todo, "fill", "choose") /\ Follows(todo, "choose", "putAccount")
        /\ Follows(todo, "choose", "putSecret")
    /\ op = "switch" =>
        /\ Follows(todo, "getStore", "mnemonic") /\ Follows(todo, "getStore", "saveStore")
        /\ Follows(todo, "mnemonic", "saveStore") /\ Follows(todo, "mnemonic", "putAccount")
        /\ Follows(todo, "mnemonic", "putSecret")
    /\ op = "add" => Follows(todo, "mnemonic", "saveStore")
    /\ op \in Removes =>
        /\ Follows(todo, "verify", "saveStore") /\ Follows(todo, "getStore", "saveStore")
        /\ Imported(w) => Follows(todo, "saveStore", "saveSk")
    /\ op = "importSk" =>
        /\ Follows(todo, "verify", "saveSk") /\ Follows(todo, "getStore", "saveSk")
        /\ Follows(todo, "saveSk", "saveStore")

\* What is in the program of a request that has just arrived.
Begins(op, steps) ==
    /\ op \in {"lock", "reset"} =>
          {"dropAccount", "dropSecret", "dropSeed", "dropHd", "dropSk"} \subseteq steps
    /\ op = "reset" => "verify" \in steps
    /\ op = "create" => {"saveStore", "putAccount", "putSecret", "putSeed"} \subseteq steps
    /\ op = "unlock" =>
          {"decrypt", "getStore", "fill", "choose", "putAccount", "putSecret", "putSeed"} \subseteq steps
    /\ op = "switch" => {"getStore", "mnemonic", "saveStore", "putAccount", "putSecret"} \subseteq steps
    /\ op = "add" => "mnemonic" \in steps
    /\ op \in Removes => "getStore" \in steps
    /\ op \notin Imports \cup Removes => "putExtraHd" \notin steps /\ "putExtraSk" \notin steps

Program(op, w, todo) == Once(todo) /\ Allowed(op, ToSet(todo)) /\ Order(op, w, todo)

\* What a handler was asked, and what it has read.
Asked(x) ==
    /\ x.op \in Requests /\ x.target \in AllAccounts
    /\ x.op \in {"create", "createHd", "importHd", "importSk"} => x.pw # Nil
    /\ x.op = "password" => x.next # Nil
    /\ x.op \in {"createHd", "importHd"} => x.target.wallet \in HDs
    /\ x.op = "importSk" => x.target.wallet \in SKs
    /\ x.op \in {"create", "unlock"} => x.target = First
    /\ x.op = "removeHd" => x.target.wallet # Primary
Read(x) ==
    /\ x.op = "create" => x.accounts = {}
    /\ x.op = "unlock" /\ "fill" \notin Ahead(x) => x.accounts # {}
    /\ x.op = "add" /\ "mnemonic" \notin Ahead(x) => x.target.wallet \notin SKs
    /\ x.op = "switch" /\ "getStore" \notin Ahead(x) => x.target \in x.accounts
    /\ x.op = "remove" /\ "getStore" \notin Ahead(x) => x.target # First /\ x.target # x.active
    /\ x.op = "removeHd" /\ "getStore" \notin Ahead(x) =>
          \A a \in x.accounts : a = x.active => a.wallet # x.target.wallet
    /\ "putExtraHd" \in Ahead(x) => x.extra \subseteq HDs
    /\ "putExtraSk" \in Ahead(x) => x.extra \subseteq SKs

Sane(x) ==
    /\ x \in Handlers
    /\ x.st = "open" <=> x.todo # <<>>
    /\ x.st = "open" => Program(x.op, x.target.wallet, x.todo) /\ Asked(x) /\ Read(x)

AccountsTyped ==
    /\ AccountsTypeOK
    /\ store \in Stores /\ open \in Sessions
    /\ stale \in BOOLEAN /\ rekeyed \in BOOLEAN /\ cut \in BOOLEAN /\ crossed \in BOOLEAN
    /\ DOMAIN call = Calls /\ \A c \in Calls : Sane(call[c])

PrimaryListed(st) == st.accounts # {} => st.active \in st.accounts /\ First \in st.accounts

\* An import that has saved its key and not yet its account; a removal that
\* has dropped its account and not yet its key.
Adding(x, w) ==
    /\ x.st = "open" /\ x.op = "importSk" /\ x.target.wallet = w
    /\ "saveStore" \in Ahead(x) /\ "saveSk" \notin Ahead(x)
Removing(x, w) ==
    /\ x.st = "open" /\ x.op \in Removes /\ x.target.wallet = w
    /\ "saveSk" \in Ahead(x) /\ "saveStore" \notin Ahead(x)
Owner(w, st) == \E a \in st.accounts : a.wallet = w
OwnedKeys ==
    ~cut /\ ~stale => \A e \in skList : \/ Owner(e.id, store)
                                        \/ \E c \in Calls : Adding(call[c], e.id) \/ Removing(call[c], e.id)

\* A handler that opens or closes the session runs beside no other writer of it.
Alone ==
    ~crossed => \A c, d \in Calls :
        c # d /\ call[c].st = "open" /\ call[d].st = "open" /\ call[c].op \in Opens => call[d].op \notin OpenWriters

\* At rest the session is closed, or holds the active account with its secret.
Agrees(o, st) == o.pk = st.active /\ o.secret = st.active /\ o.seed
Resting(o, st, old) == (o.pk = Nil => o = Closed) /\ (o.pk # Nil /\ ~old => Agrees(o, st))

Dropped(steps, o) ==
    /\ "dropAccount" \in steps \/ o.pk = Nil
    /\ "dropSecret" \in steps \/ o.secret = Nil
    /\ "dropSeed" \in steps \/ ~o.seed
    /\ "dropHd" \in steps \/ o.hd = {}
    /\ "dropSk" \in steps \/ o.sk = {}
Placed(steps, o, a) ==
    /\ "putAccount" \in steps \/ o.pk = a
    /\ "putSecret" \in steps \/ o.secret = a
\* A handler that writes the session, with these steps still to do.
Opening(x, steps, o, st, old) ==
    /\ x.op \in {"lock", "reset"} => Dropped(steps, o)
    /\ x.op = "reset" /\ "verify" \in steps => Resting(o, st, old)
    /\ x.op = "create" =>
        /\ Placed(steps, o, First) /\ ("putSeed" \in steps \/ o.seed)
        /\ "saveStore" \notin steps /\ ~old => st.active = First
    /\ x.op = "unlock" =>
        /\ "decrypt" \in steps => Resting(o, st, old)
        /\ Placed(steps, o, x.chosen) /\ ("putSeed" \in steps \/ o.seed)
        /\ "choose" \notin steps => x.chosen # Nil
        /\ ~old /\ "getStore" \notin steps /\ "choose" \in steps =>
              x.active = st.active /\ (x.accounts # {} => x.active \in x.accounts)
        /\ ~old /\ "choose" \notin steps => st.active = x.chosen
    /\ x.op = "switch" =>
        /\ "mnemonic" \in steps => Resting(o, st, old)
        /\ "mnemonic" \notin steps => o.pk # Nil /\ (~old => o.seed)
        /\ Placed(steps, o, x.target)
        /\ "saveStore" \notin steps /\ ~old => st.active = x.target
\* An import runs in an open wallet; a removal adds nothing to a closed one.
Beside(x, o) ==
    /\ x.op \in Imports => o.pk # Nil
    /\ x.op \in Removes /\ o.pk = Nil => x.extra = {}
SessionKept ==
    ~crossed /\ ~cut =>
        /\ (\A c \in Calls : call[c].st = "open" => call[c].op \notin Opens) => Resting(open, store, stale)
        /\ \A c \in Calls : call[c].st = "open" /\ call[c].op \in Opens =>
              Opening(call[c], Ahead(call[c]), open, store, stale)
        /\ \A c \in Calls : call[c].st = "open" => Beside(call[c], open)

ActiveKept == ~stale => PrimaryListed(store)
AccountsIInv == AccountsTyped /\ ActiveKept /\ NoneBricked /\ OwnedKeys /\ Alone /\ SessionKept

LEMMA TailOf ==
    ASSUME NEW q \in Seq(StepNames), q # <<>>
    PROVE  /\ Len(q) \in Nat \ {0} /\ DOMAIN q = 1..Len(q) /\ Head(q) = q[1] /\ Tail(q) \in Seq(StepNames)
           /\ Len(Tail(q)) = Len(q) - 1 /\ DOMAIN Tail(q) = 1..(Len(q) - 1)
           /\ \A i \in 1..(Len(q) - 1) : Tail(q)[i] = q[i + 1]
  OBVIOUS

LEMMA TailFollows ==
    ASSUME NEW q \in Seq(StepNames), q # <<>>, NEW s, NEW t, Follows(q, s, t)
    PROVE  Follows(Tail(q), s, t)
<1> SUFFICES ASSUME NEW i \in DOMAIN Tail(q), Tail(q)[i] = s
             PROVE  \E j \in DOMAIN Tail(q) : i < j /\ Tail(q)[j] = t
  BY DEF Follows
<1>1. i \in 1..(Len(q) - 1) /\ q[i + 1] = s /\ i + 1 \in DOMAIN q
  BY TailOf
<1>2. PICK j \in DOMAIN q : i + 1 < j /\ q[j] = t
  BY <1>1 DEF Follows
<1>3. j - 1 \in DOMAIN Tail(q) /\ i < j - 1
  BY <1>1, <1>2, TailOf
<1>4. Tail(q)[j - 1] = t
  BY <1>1, <1>2, <1>3, TailOf
<1> QED
  BY <1>3, <1>4

LEMMA HeadFollows ==
    ASSUME NEW q \in Seq(StepNames), q # <<>>, Once(q), NEW s, Follows(q, s, Head(q))
    PROVE  s \notin ToSet(q)
<1> SUFFICES ASSUME NEW i \in DOMAIN q, q[i] = s PROVE FALSE
  BY DEF ToSet
<1>1. PICK j \in DOMAIN q : i < j /\ q[j] = Head(q)
  BY DEF Follows
<1>2. j # 1 /\ q[1] = Head(q) /\ 1 \in DOMAIN q
  BY <1>1, TailOf
<1> QED
  BY <1>1, <1>2 DEF Once

LEMMA FollowsAhead ==
    ASSUME NEW q, NEW s, NEW t, Follows(q, s, t), s \in ToSet(q)
    PROVE  t \in ToSet(q)
  BY DEF Follows, ToSet

LEMMA TailAhead ==
    ASSUME NEW q \in Seq(StepNames), q # <<>>, Once(q)
    PROVE  /\ Once(Tail(q)) /\ ToSet(Tail(q)) = ToSet(q) \ {Head(q)} /\ Head(q) \in ToSet(q)
           /\ Len(q) = 1 <=> Tail(q) = <<>>
           /\ Len(q) = 1 => ToSet(q) = {Head(q)}
<1>1. Once(Tail(q))
  BY TailOf DEF Once
<1>2. Head(q) \in ToSet(q) /\ (Len(q) = 1 => ToSet(q) = {Head(q)})
  BY TailOf DEF ToSet
<1>3. Len(q) = 1 <=> Tail(q) = <<>>
  <2>1. Len(Tail(q)) = Len(q) - 1 /\ Len(q) \in Nat /\ Tail(q) \in Seq(StepNames)
    BY TailOf
  <2>2. Tail(q) = <<>> <=> Len(Tail(q)) = 0
    BY <2>1
  <2> QED
    BY <2>1, <2>2
<1>4. ASSUME NEW s \in ToSet(Tail(q)) PROVE s \in ToSet(q) \ {Head(q)}
  <2>1. PICK i \in 1..(Len(q) - 1) : q[i + 1] = s
    BY <1>4, TailOf DEF ToSet
  <2>2. i + 1 \in DOMAIN q /\ i + 1 # 1 /\ 1 \in DOMAIN q /\ q[1] = Head(q)
    BY TailOf
  <2> QED
    BY <2>1, <2>2 DEF Once, ToSet
<1>5. ASSUME NEW s \in ToSet(q), s # Head(q) PROVE s \in ToSet(Tail(q))
  <2>1. PICK i \in DOMAIN q : q[i] = s
    BY DEF ToSet
  <2>2. i \in 1..Len(q) /\ i # 1
    BY <1>5, <2>1, TailOf
  <2>3. i - 1 \in DOMAIN Tail(q) /\ Tail(q)[i - 1] = s
    BY <2>1, <2>2, TailOf
  <2> QED
    BY <2>3 DEF ToSet
<1> QED
  BY <1>1, <1>2, <1>3, <1>4, <1>5

LEMMA Concat ==
    ASSUME NEW s \in Seq(StepNames), NEW t \in Seq(StepNames), NEW q, q = s \o t
    PROVE  /\ q \in Seq(StepNames) /\ Len(q) = Len(s) + Len(t)
           /\ \A i \in 1..Len(s) : q[i] = s[i]
           /\ \A i \in 1..Len(t) : q[Len(s) + i] = t[i]
  OBVIOUS

LEMMA SomeSteps ==
    ASSUME NEW q \in Seq(StepNames), 1 \in DOMAIN q PROVE q # <<>>
  OBVIOUS

LEMMA CreateProgram ==
    ASSUME NEW w, NEW s, NEW t,
           s = <<"putMain", "saveStore">>,
           t = <<"putAccount", "putSecret", "putSeed">>,
           NEW q, q = s \o t
    PROVE  q \in Seq(StepNames) /\ q # <<>> /\ Program("create", w, q) /\ Begins("create", ToSet(q))
<1>a. s \in Seq(StepNames) /\ Len(s) = 2 /\ t \in Seq(StepNames) /\ Len(t) = 3
  BY DEF StepNames
<1>b. /\ s[1] = "putMain" /\ s[2] = "saveStore"
      /\ t[1] = "putAccount" /\ t[2] = "putSecret" /\ t[3] = "putSeed"
  OBVIOUS
<1>c. /\ q \in Seq(StepNames) /\ Len(q) = Len(s) + Len(t)
      /\ \A i \in 1..Len(s) : q[i] = s[i]
      /\ \A i \in 1..Len(t) : q[Len(s) + i] = t[i]
  BY <1>a, Concat
<1>1. q \in Seq(StepNames) /\ Len(q) = 5
  BY <1>a, <1>c
<1>2. /\ DOMAIN q = {1, 2, 3, 4, 5}
      /\ q[1] = "putMain" /\ q[2] = "saveStore" /\ q[3] = "putAccount" /\ q[4] = "putSecret"
         /\ q[5] = "putSeed"
  <2>1. DOMAIN q = {1, 2, 3, 4, 5}
    BY <1>1
  <2>2. /\ q[1] = s[1] /\ q[2] = s[2]
    BY <1>a, <1>c
  <2>3. /\ q[3] = t[1] /\ q[4] = t[2] /\ q[5] = t[3]
    BY <1>a, <1>c
  <2> QED
    BY <1>b, <2>1, <2>2, <2>3
<1>3. ToSet(q) = {"putMain", "saveStore", "putAccount", "putSecret", "putSeed"}
  BY <1>2 DEF ToSet
<1>4. Once(q)
  BY <1>2 DEF Once
<1>5. Allowed("create", ToSet(q))
  BY <1>3 DEF Allowed, Has, Imports, Removes, Requests
<1>6. Order("create", w, q)
  BY <1>2 DEF Order, Follows, Imports, Removes
<1>7. q # <<>>
  BY <1>1, <1>2, SomeSteps, Zenon
<1>8. Begins("create", ToSet(q))
  BY <1>3 DEF Begins, Imports, Removes
<1> QED
  BY <1>1, <1>4, <1>5, <1>6, <1>7, <1>8 DEF Program

LEMMA UnlockProgram ==
    ASSUME NEW w, NEW s, NEW t,
           s = <<"decrypt", "getStore", "fill", "getHd", "extraHd", "getSk", "extraSk", "choose">>,
           t = <<"putAccount", "putSecret", "putSeed">>,
           NEW q, q = s \o t
    PROVE  q \in Seq(StepNames) /\ q # <<>> /\ Program("unlock", w, q) /\ Begins("unlock", ToSet(q))
<1>a. s \in Seq(StepNames) /\ Len(s) = 8 /\ t \in Seq(StepNames) /\ Len(t) = 3
  BY DEF StepNames
<1>b. /\ s[1] = "decrypt" /\ s[2] = "getStore" /\ s[3] = "fill" /\ s[4] = "getHd"
         /\ s[5] = "extraHd" /\ s[6] = "getSk" /\ s[7] = "extraSk" /\ s[8] = "choose"
      /\ t[1] = "putAccount" /\ t[2] = "putSecret" /\ t[3] = "putSeed"
  OBVIOUS
<1>c. /\ q \in Seq(StepNames) /\ Len(q) = Len(s) + Len(t)
      /\ \A i \in 1..Len(s) : q[i] = s[i]
      /\ \A i \in 1..Len(t) : q[Len(s) + i] = t[i]
  BY <1>a, Concat
<1>1. q \in Seq(StepNames) /\ Len(q) = 11
  BY <1>a, <1>c
<1>2. /\ DOMAIN q = {1, 2, 3, 4, 5, 6, 7, 8, 9, 10, 11}
      /\ q[1] = "decrypt" /\ q[2] = "getStore" /\ q[3] = "fill" /\ q[4] = "getHd"
         /\ q[5] = "extraHd" /\ q[6] = "getSk" /\ q[7] = "extraSk" /\ q[8] = "choose"
         /\ q[9] = "putAccount" /\ q[10] = "putSecret" /\ q[11] = "putSeed"
  <2>1. DOMAIN q = {1, 2, 3, 4, 5, 6, 7, 8, 9, 10, 11}
    BY <1>1
  <2>2. /\ q[1] = s[1] /\ q[2] = s[2] /\ q[3] = s[3] /\ q[4] = s[4] /\ q[5] = s[5] /\ q[6] = s[6]
           /\ q[7] = s[7] /\ q[8] = s[8]
    BY <1>a, <1>c
  <2>3. /\ q[9] = t[1] /\ q[10] = t[2] /\ q[11] = t[3]
    BY <1>a, <1>c
  <2> QED
    BY <1>b, <2>1, <2>2, <2>3
<1>3. ToSet(q) = {"decrypt", "getStore", "fill", "getHd", "extraHd", "getSk", "extraSk", "choose",
        "putAccount", "putSecret", "putSeed"}
  BY <1>2 DEF ToSet
<1>4. Once(q)
  BY <1>2 DEF Once
<1>5. Allowed("unlock", ToSet(q))
  BY <1>3 DEF Allowed, Has, Imports, Removes, Requests
<1>6. Order("unlock", w, q)
  BY <1>2 DEF Order, Follows, Imports, Removes
<1>7. q # <<>>
  BY <1>1, <1>2, SomeSteps, Zenon
<1>8. Begins("unlock", ToSet(q))
  BY <1>3 DEF Begins, Imports, Removes
<1> QED
  BY <1>1, <1>4, <1>5, <1>6, <1>7, <1>8 DEF Program

LEMMA LockProgram ==
    ASSUME NEW w, NEW q, q = LOCK
    PROVE  q \in Seq(StepNames) /\ q # <<>> /\ Program("lock", w, q) /\ Begins("lock", ToSet(q))
<1>0. q = <<"dropAccount", "dropSecret", "dropSeed", "dropHd", "dropSk">>
  BY DEF LOCK, CloseSession
<1>1. q \in Seq(StepNames) /\ Len(q) = 5
  BY <1>0 DEF StepNames
<1>2. /\ DOMAIN q = {1, 2, 3, 4, 5}
      /\ q[1] = "dropAccount" /\ q[2] = "dropSecret" /\ q[3] = "dropSeed" /\ q[4] = "dropHd"
         /\ q[5] = "dropSk"
  <2>1. DOMAIN q = {1, 2, 3, 4, 5}
    BY <1>1
  <2> QED
    BY <1>0, <2>1
<1>3. ToSet(q) = {"dropAccount", "dropSecret", "dropSeed", "dropHd", "dropSk"}
  BY <1>2 DEF ToSet
<1>4. Once(q)
  BY <1>2 DEF Once
<1>5. Allowed("lock", ToSet(q))
  BY <1>3 DEF Allowed, Has, Imports, Removes, Requests
<1>6. Order("lock", w, q)
  BY <1>2 DEF Order, Follows, Imports, Removes
<1>7. q # <<>>
  BY <1>1, <1>2, SomeSteps, Zenon
<1>8. Begins("lock", ToSet(q))
  BY <1>3 DEF Begins, Imports, Removes
<1> QED
  BY <1>1, <1>4, <1>5, <1>6, <1>7, <1>8 DEF Program

LEMMA ResetProgram ==
    ASSUME NEW w, NEW s, NEW t, NEW u,
           s = <<"verify">>,
           t = <<"dropAccount", "dropSecret", "dropSeed", "dropHd", "dropSk">>,
           u = <<"clearWallet">>,
           NEW q, q = s \o t \o u
    PROVE  q \in Seq(StepNames) /\ q # <<>> /\ Program("reset", w, q) /\ Begins("reset", ToSet(q))
<1>a. s \in Seq(StepNames) /\ Len(s) = 1 /\ t \in Seq(StepNames) /\ Len(t) = 5 /\ u \in Seq(StepNames) /\ Len(u) = 1
  BY DEF StepNames
<1>b. /\ s[1] = "verify"
      /\ t[1] = "dropAccount" /\ t[2] = "dropSecret" /\ t[3] = "dropSeed" /\ t[4] = "dropHd"
         /\ t[5] = "dropSk"
      /\ u[1] = "clearWallet"
  OBVIOUS
<1>c. PICK r : r = s \o t /\ q = r \o u
  OBVIOUS
<1>d. /\ r \in Seq(StepNames) /\ Len(r) = Len(s) + Len(t)
      /\ \A i \in 1..Len(s) : r[i] = s[i]
      /\ \A i \in 1..Len(t) : r[Len(s) + i] = t[i]
  BY <1>a, <1>c, Concat
<1>e. /\ q \in Seq(StepNames) /\ Len(q) = Len(r) + Len(u)
      /\ \A i \in 1..Len(r) : q[i] = r[i]
      /\ \A i \in 1..Len(u) : q[Len(r) + i] = u[i]
  BY <1>a, <1>c, <1>d, Concat
<1>1. q \in Seq(StepNames) /\ Len(q) = 7
  BY <1>a, <1>d, <1>e
<1>2. /\ DOMAIN q = {1, 2, 3, 4, 5, 6, 7}
      /\ q[1] = "verify" /\ q[2] = "dropAccount" /\ q[3] = "dropSecret" /\ q[4] = "dropSeed"
         /\ q[5] = "dropHd" /\ q[6] = "dropSk" /\ q[7] = "clearWallet"
  <2>1. DOMAIN q = {1, 2, 3, 4, 5, 6, 7}
    BY <1>1
  <2>2. /\ q[1] = s[1]
    BY <1>a, <1>d, <1>e
  <2>3. /\ q[2] = t[1] /\ q[3] = t[2] /\ q[4] = t[3] /\ q[5] = t[4] /\ q[6] = t[5]
    BY <1>a, <1>d, <1>e
  <2>4. /\ q[7] = u[1]
    BY <1>a, <1>d, <1>e
  <2> QED
    BY <1>b, <2>1, <2>2, <2>3, <2>4
<1>3. ToSet(q) = {"verify", "dropAccount", "dropSecret", "dropSeed", "dropHd", "dropSk",
        "clearWallet"}
  BY <1>2 DEF ToSet
<1>4. Once(q)
  BY <1>2 DEF Once
<1>5. Allowed("reset", ToSet(q))
  BY <1>3 DEF Allowed, Has, Imports, Removes, Requests
<1>6. Order("reset", w, q)
  <2>1. Follows(q, "verify", "dropAccount")
    BY <1>2 DEF Follows
  <2>2. Follows(q, "verify", "dropSecret")
    BY <1>2 DEF Follows
  <2>3. Follows(q, "verify", "dropSeed")
    BY <1>2 DEF Follows
  <2>4. Follows(q, "verify", "dropHd")
    BY <1>2 DEF Follows
  <2>5. Follows(q, "verify", "dropSk")
    BY <1>2 DEF Follows
  <2>6. Follows(q, "verify", "clearWallet")
    BY <1>2 DEF Follows
  <2> QED
    BY <2>1, <2>2, <2>3, <2>4, <2>5, <2>6 DEF Order, Imports, Removes
<1>7. q # <<>>
  BY <1>1, <1>2, SomeSteps, Zenon
<1>8. Begins("reset", ToSet(q))
  BY <1>3 DEF Begins, Imports, Removes
<1> QED
  BY <1>1, <1>4, <1>5, <1>6, <1>7, <1>8 DEF Program

LEMMA AddProgram ==
    ASSUME NEW w, NEW q, q = ADD_ACCOUNT
    PROVE  q \in Seq(StepNames) /\ q # <<>> /\ Program("add", w, q) /\ Begins("add", ToSet(q))
<1>0. q = <<"verify", "mnemonic", "getStore", "saveStore">>
  BY DEF ADD_ACCOUNT
<1>1. q \in Seq(StepNames) /\ Len(q) = 4
  BY <1>0 DEF StepNames
<1>2. /\ DOMAIN q = {1, 2, 3, 4}
      /\ q[1] = "verify" /\ q[2] = "mnemonic" /\ q[3] = "getStore" /\ q[4] = "saveStore"
  <2>1. DOMAIN q = {1, 2, 3, 4}
    BY <1>1
  <2> QED
    BY <1>0, <2>1
<1>3. ToSet(q) = {"verify", "mnemonic", "getStore", "saveStore"}
  BY <1>2 DEF ToSet
<1>4. Once(q)
  BY <1>2 DEF Once
<1>5. Allowed("add", ToSet(q))
  BY <1>3 DEF Allowed, Has, Imports, Removes, Requests
<1>6. Order("add", w, q)
  BY <1>2 DEF Order, Follows, Imports, Removes
<1>7. q # <<>>
  BY <1>1, <1>2, SomeSteps, Zenon
<1>8. Begins("add", ToSet(q))
  BY <1>3 DEF Begins, Imports, Removes
<1> QED
  BY <1>1, <1>4, <1>5, <1>6, <1>7, <1>8 DEF Program

LEMMA SwitchProgram ==
    ASSUME NEW w, NEW q, q = SWITCH
    PROVE  q \in Seq(StepNames) /\ q # <<>> /\ Program("switch", w, q) /\ Begins("switch", ToSet(q))
<1>0. q = <<"getStore", "mnemonic", "saveStore", "putAccount", "putSecret">>
  BY DEF SWITCH
<1>1. q \in Seq(StepNames) /\ Len(q) = 5
  BY <1>0 DEF StepNames
<1>2. /\ DOMAIN q = {1, 2, 3, 4, 5}
      /\ q[1] = "getStore" /\ q[2] = "mnemonic" /\ q[3] = "saveStore" /\ q[4] = "putAccount"
         /\ q[5] = "putSecret"
  <2>1. DOMAIN q = {1, 2, 3, 4, 5}
    BY <1>1
  <2> QED
    BY <1>0, <2>1
<1>3. ToSet(q) = {"getStore", "mnemonic", "saveStore", "putAccount", "putSecret"}
  BY <1>2 DEF ToSet
<1>4. Once(q)
  BY <1>2 DEF Once
<1>5. Allowed("switch", ToSet(q))
  BY <1>3 DEF Allowed, Has, Imports, Removes, Requests
<1>6. Order("switch", w, q)
  BY <1>2 DEF Order, Follows, Imports, Removes
<1>7. q # <<>>
  BY <1>1, <1>2, SomeSteps, Zenon
<1>8. Begins("switch", ToSet(q))
  BY <1>3 DEF Begins, Imports, Removes
<1> QED
  BY <1>1, <1>4, <1>5, <1>6, <1>7, <1>8 DEF Program

LEMMA RenameKeyProgram ==
    ASSUME NEW w, Imported(w), NEW q, q = RENAME_ACCOUNT(w)
    PROVE  q \in Seq(StepNames) /\ q # <<>> /\ Program("rename", w, q) /\ Begins("rename", ToSet(q))
<1>0. q = <<"getStore", "getSk", "saveSk", "saveStore">>
  BY DEF RENAME_ACCOUNT
<1>1. q \in Seq(StepNames) /\ Len(q) = 4
  BY <1>0 DEF StepNames
<1>2. /\ DOMAIN q = {1, 2, 3, 4}
      /\ q[1] = "getStore" /\ q[2] = "getSk" /\ q[3] = "saveSk" /\ q[4] = "saveStore"
  <2>1. DOMAIN q = {1, 2, 3, 4}
    BY <1>1
  <2> QED
    BY <1>0, <2>1
<1>3. ToSet(q) = {"getStore", "getSk", "saveSk", "saveStore"}
  BY <1>2 DEF ToSet
<1>4. Once(q)
  BY <1>2 DEF Once
<1>5. Allowed("rename", ToSet(q))
  BY <1>3 DEF Allowed, Has, Imports, Removes, Requests
<1>6. Order("rename", w, q)
  BY <1>2 DEF Order, Follows, Imports, Removes
<1>7. q # <<>>
  BY <1>1, <1>2, SomeSteps, Zenon
<1>8. Begins("rename", ToSet(q))
  BY <1>3 DEF Begins, Imports, Removes
<1> QED
  BY <1>1, <1>4, <1>5, <1>6, <1>7, <1>8 DEF Program

LEMMA RenameProgram ==
    ASSUME NEW w, ~Imported(w), NEW q, q = RENAME_ACCOUNT(w)
    PROVE  q \in Seq(StepNames) /\ q # <<>> /\ Program("rename", w, q) /\ Begins("rename", ToSet(q))
<1>0. q = <<"getStore", "saveStore">>
  BY DEF RENAME_ACCOUNT
<1>1. q \in Seq(StepNames) /\ Len(q) = 2
  BY <1>0 DEF StepNames
<1>2. /\ DOMAIN q = {1, 2}
      /\ q[1] = "getStore" /\ q[2] = "saveStore"
  <2>1. DOMAIN q = {1, 2}
    BY <1>1
  <2> QED
    BY <1>0, <2>1
<1>3. ToSet(q) = {"getStore", "saveStore"}
  BY <1>2 DEF ToSet
<1>4. Once(q)
  BY <1>2 DEF Once
<1>5. Allowed("rename", ToSet(q))
  BY <1>3 DEF Allowed, Has, Imports, Removes, Requests
<1>6. Order("rename", w, q)
  BY <1>2 DEF Order, Follows, Imports, Removes
<1>7. q # <<>>
  BY <1>1, <1>2, SomeSteps, Zenon
<1>8. Begins("rename", ToSet(q))
  BY <1>3 DEF Begins, Imports, Removes
<1> QED
  BY <1>1, <1>4, <1>5, <1>6, <1>7, <1>8 DEF Program

LEMMA RemoveKeyProgram ==
    ASSUME NEW w, Imported(w), NEW s, NEW t,
           s = <<"verify", "getStore", "saveStore">>,
           t = <<"getSk", "saveSk", "getExtraSk", "putExtraSk">>,
           NEW q, q = s \o t
    PROVE  q \in Seq(StepNames) /\ q # <<>> /\ Program("remove", w, q) /\ Begins("remove", ToSet(q))
<1>a. s \in Seq(StepNames) /\ Len(s) = 3 /\ t \in Seq(StepNames) /\ Len(t) = 4
  BY DEF StepNames
<1>b. /\ s[1] = "verify" /\ s[2] = "getStore" /\ s[3] = "saveStore"
      /\ t[1] = "getSk" /\ t[2] = "saveSk" /\ t[3] = "getExtraSk" /\ t[4] = "putExtraSk"
  OBVIOUS
<1>c. /\ q \in Seq(StepNames) /\ Len(q) = Len(s) + Len(t)
      /\ \A i \in 1..Len(s) : q[i] = s[i]
      /\ \A i \in 1..Len(t) : q[Len(s) + i] = t[i]
  BY <1>a, Concat
<1>1. q \in Seq(StepNames) /\ Len(q) = 7
  BY <1>a, <1>c
<1>2. /\ DOMAIN q = {1, 2, 3, 4, 5, 6, 7}
      /\ q[1] = "verify" /\ q[2] = "getStore" /\ q[3] = "saveStore" /\ q[4] = "getSk"
         /\ q[5] = "saveSk" /\ q[6] = "getExtraSk" /\ q[7] = "putExtraSk"
  <2>1. DOMAIN q = {1, 2, 3, 4, 5, 6, 7}
    BY <1>1
  <2>2. /\ q[1] = s[1] /\ q[2] = s[2] /\ q[3] = s[3]
    BY <1>a, <1>c
  <2>3. /\ q[4] = t[1] /\ q[5] = t[2] /\ q[6] = t[3] /\ q[7] = t[4]
    BY <1>a, <1>c
  <2> QED
    BY <1>b, <2>1, <2>2, <2>3
<1>3. ToSet(q) = {"verify", "getStore", "saveStore", "getSk", "saveSk", "getExtraSk", "putExtraSk"}
  BY <1>2 DEF ToSet
<1>4. Once(q)
  BY <1>2 DEF Once
<1>5. Allowed("remove", ToSet(q))
  BY <1>3 DEF Allowed, Has, Imports, Removes, Requests
<1>6. Order("remove", w, q)
  BY <1>2 DEF Order, Follows, Imports, Removes
<1>7. q # <<>>
  BY <1>1, <1>2, SomeSteps, Zenon
<1>8. Begins("remove", ToSet(q))
  BY <1>3 DEF Begins, Imports, Removes
<1> QED
  BY <1>1, <1>4, <1>5, <1>6, <1>7, <1>8 DEF Program

LEMMA RemoveProgram ==
    ASSUME NEW w, ~Imported(w), NEW q, q = REMOVE_ACCOUNT(w)
    PROVE  q \in Seq(StepNames) /\ q # <<>> /\ Program("remove", w, q) /\ Begins("remove", ToSet(q))
<1>0. q = <<"verify", "getStore", "saveStore">>
  BY DEF REMOVE_ACCOUNT
<1>1. q \in Seq(StepNames) /\ Len(q) = 3
  BY <1>0 DEF StepNames
<1>2. /\ DOMAIN q = {1, 2, 3}
      /\ q[1] = "verify" /\ q[2] = "getStore" /\ q[3] = "saveStore"
  <2>1. DOMAIN q = {1, 2, 3}
    BY <1>1
  <2> QED
    BY <1>0, <2>1
<1>3. ToSet(q) = {"verify", "getStore", "saveStore"}
  BY <1>2 DEF ToSet
<1>4. Once(q)
  BY <1>2 DEF Once
<1>5. Allowed("remove", ToSet(q))
  BY <1>3 DEF Allowed, Has, Imports, Removes, Requests
<1>6. Order("remove", w, q)
  BY <1>2 DEF Order, Follows, Imports, Removes
<1>7. q # <<>>
  BY <1>1, <1>2, SomeSteps, Zenon
<1>8. Begins("remove", ToSet(q))
  BY <1>3 DEF Begins, Imports, Removes
<1> QED
  BY <1>1, <1>4, <1>5, <1>6, <1>7, <1>8 DEF Program

LEMMA CreateHdProgram ==
    ASSUME NEW w, NEW q, q = CREATE_HD_WALLET
    PROVE  q \in Seq(StepNames) /\ q # <<>> /\ Program("createHd", w, q) /\ Begins("createHd", ToSet(q))
<1>0. q = <<"verify", "getHd", "saveHd", "throws">>
  BY DEF CREATE_HD_WALLET
<1>1. q \in Seq(StepNames) /\ Len(q) = 4
  BY <1>0 DEF StepNames
<1>2. /\ DOMAIN q = {1, 2, 3, 4}
      /\ q[1] = "verify" /\ q[2] = "getHd" /\ q[3] = "saveHd" /\ q[4] = "throws"
  <2>1. DOMAIN q = {1, 2, 3, 4}
    BY <1>1
  <2> QED
    BY <1>0, <2>1
<1>3. ToSet(q) = {"verify", "getHd", "saveHd", "throws"}
  BY <1>2 DEF ToSet
<1>4. Once(q)
  BY <1>2 DEF Once
<1>5. Allowed("createHd", ToSet(q))
  BY <1>3 DEF Allowed, Has, Imports, Removes, Requests
<1>6. Order("createHd", w, q)
  BY <1>2 DEF Order, Follows, Imports, Removes
<1>7. q # <<>>
  BY <1>1, <1>2, SomeSteps, Zenon
<1>8. Begins("createHd", ToSet(q))
  BY <1>3 DEF Begins, Imports, Removes
<1> QED
  BY <1>1, <1>4, <1>5, <1>6, <1>7, <1>8 DEF Program

LEMMA ImportHdProgram ==
    ASSUME NEW w, NEW q, q = IMPORT_HD_WALLET
    PROVE  q \in Seq(StepNames) /\ q # <<>> /\ Program("importHd", w, q) /\ Begins("importHd", ToSet(q))
<1>0. q = <<"verify", "getStore", "getHd", "saveHd", "saveStore", "getExtraHd", "putExtraHd">>
  BY DEF IMPORT_HD_WALLET
<1>1. q \in Seq(StepNames) /\ Len(q) = 7
  BY <1>0 DEF StepNames
<1>2. /\ DOMAIN q = {1, 2, 3, 4, 5, 6, 7}
      /\ q[1] = "verify" /\ q[2] = "getStore" /\ q[3] = "getHd" /\ q[4] = "saveHd"
         /\ q[5] = "saveStore" /\ q[6] = "getExtraHd" /\ q[7] = "putExtraHd"
  <2>1. DOMAIN q = {1, 2, 3, 4, 5, 6, 7}
    BY <1>1
  <2> QED
    BY <1>0, <2>1
<1>3. ToSet(q) = {"verify", "getStore", "getHd", "saveHd", "saveStore", "getExtraHd", "putExtraHd"}
  BY <1>2 DEF ToSet
<1>4. Once(q)
  BY <1>2 DEF Once
<1>5. Allowed("importHd", ToSet(q))
  BY <1>3 DEF Allowed, Has, Imports, Removes, Requests
<1>6. Order("importHd", w, q)
  BY <1>2 DEF Order, Follows, Imports, Removes
<1>7. q # <<>>
  BY <1>1, <1>2, SomeSteps, Zenon
<1>8. Begins("importHd", ToSet(q))
  BY <1>3 DEF Begins, Imports, Removes
<1> QED
  BY <1>1, <1>4, <1>5, <1>6, <1>7, <1>8 DEF Program

LEMMA ImportProgram ==
    ASSUME NEW w, NEW q, q = IMPORT_SECRET_KEY
    PROVE  q \in Seq(StepNames) /\ q # <<>> /\ Program("importSk", w, q) /\ Begins("importSk", ToSet(q))
<1>0. q = <<"verify", "getStore", "getSk", "saveSk", "saveStore", "getExtraSk", "putExtraSk">>
  BY DEF IMPORT_SECRET_KEY
<1>1. q \in Seq(StepNames) /\ Len(q) = 7
  BY <1>0 DEF StepNames
<1>2. /\ DOMAIN q = {1, 2, 3, 4, 5, 6, 7}
      /\ q[1] = "verify" /\ q[2] = "getStore" /\ q[3] = "getSk" /\ q[4] = "saveSk"
         /\ q[5] = "saveStore" /\ q[6] = "getExtraSk" /\ q[7] = "putExtraSk"
  <2>1. DOMAIN q = {1, 2, 3, 4, 5, 6, 7}
    BY <1>1
  <2> QED
    BY <1>0, <2>1
<1>3. ToSet(q) = {"verify", "getStore", "getSk", "saveSk", "saveStore", "getExtraSk", "putExtraSk"}
  BY <1>2 DEF ToSet
<1>4. Once(q)
  BY <1>2 DEF Once
<1>5. Allowed("importSk", ToSet(q))
  BY <1>3 DEF Allowed, Has, Imports, Removes, Requests
<1>6. Order("importSk", w, q)
  BY <1>2 DEF Order, Follows, Imports, Removes
<1>7. q # <<>>
  BY <1>1, <1>2, SomeSteps, Zenon
<1>8. Begins("importSk", ToSet(q))
  BY <1>3 DEF Begins, Imports, Removes
<1> QED
  BY <1>1, <1>4, <1>5, <1>6, <1>7, <1>8 DEF Program

LEMMA ReorderProgram ==
    ASSUME NEW w, NEW q, q = REORDER_ACCOUNTS
    PROVE  q \in Seq(StepNames) /\ q # <<>> /\ Program("reorder", w, q) /\ Begins("reorder", ToSet(q))
<1>0. q = <<"getStore", "saveStore">>
  BY DEF REORDER_ACCOUNTS
<1>1. q \in Seq(StepNames) /\ Len(q) = 2
  BY <1>0 DEF StepNames
<1>2. /\ DOMAIN q = {1, 2}
      /\ q[1] = "getStore" /\ q[2] = "saveStore"
  <2>1. DOMAIN q = {1, 2}
    BY <1>1
  <2> QED
    BY <1>0, <2>1
<1>3. ToSet(q) = {"getStore", "saveStore"}
  BY <1>2 DEF ToSet
<1>4. Once(q)
  BY <1>2 DEF Once
<1>5. Allowed("reorder", ToSet(q))
  BY <1>3 DEF Allowed, Has, Imports, Removes, Requests
<1>6. Order("reorder", w, q)
  BY <1>2 DEF Order, Follows, Imports, Removes
<1>7. q # <<>>
  BY <1>1, <1>2, SomeSteps, Zenon
<1>8. Begins("reorder", ToSet(q))
  BY <1>3 DEF Begins, Imports, Removes
<1> QED
  BY <1>1, <1>4, <1>5, <1>6, <1>7, <1>8 DEF Program

LEMMA RemoveHdKeyProgram ==
    ASSUME NEW w, Imported(w), NEW s, NEW t,
           s = <<"getStore", "saveStore">>,
           t = <<"getSk", "saveSk", "getExtraSk", "putExtraSk">>,
           NEW q, q = s \o t
    PROVE  q \in Seq(StepNames) /\ q # <<>> /\ Program("removeHd", w, q) /\ Begins("removeHd", ToSet(q))
<1>a. s \in Seq(StepNames) /\ Len(s) = 2 /\ t \in Seq(StepNames) /\ Len(t) = 4
  BY DEF StepNames
<1>b. /\ s[1] = "getStore" /\ s[2] = "saveStore"
      /\ t[1] = "getSk" /\ t[2] = "saveSk" /\ t[3] = "getExtraSk" /\ t[4] = "putExtraSk"
  OBVIOUS
<1>c. /\ q \in Seq(StepNames) /\ Len(q) = Len(s) + Len(t)
      /\ \A i \in 1..Len(s) : q[i] = s[i]
      /\ \A i \in 1..Len(t) : q[Len(s) + i] = t[i]
  BY <1>a, Concat
<1>1. q \in Seq(StepNames) /\ Len(q) = 6
  BY <1>a, <1>c
<1>2. /\ DOMAIN q = {1, 2, 3, 4, 5, 6}
      /\ q[1] = "getStore" /\ q[2] = "saveStore" /\ q[3] = "getSk" /\ q[4] = "saveSk"
         /\ q[5] = "getExtraSk" /\ q[6] = "putExtraSk"
  <2>1. DOMAIN q = {1, 2, 3, 4, 5, 6}
    BY <1>1
  <2>2. /\ q[1] = s[1] /\ q[2] = s[2]
    BY <1>a, <1>c
  <2>3. /\ q[3] = t[1] /\ q[4] = t[2] /\ q[5] = t[3] /\ q[6] = t[4]
    BY <1>a, <1>c
  <2> QED
    BY <1>b, <2>1, <2>2, <2>3
<1>3. ToSet(q) = {"getStore", "saveStore", "getSk", "saveSk", "getExtraSk", "putExtraSk"}
  BY <1>2 DEF ToSet
<1>4. Once(q)
  BY <1>2 DEF Once
<1>5. Allowed("removeHd", ToSet(q))
  BY <1>3 DEF Allowed, Has, Imports, Removes
<1>6. Order("removeHd", w, q)
  BY <1>2 DEF Order, Follows, Imports, Removes
<1>7. q # <<>>
  BY <1>1, <1>2, SomeSteps, Zenon
<1>8. Begins("removeHd", ToSet(q))
  BY <1>3 DEF Begins, Imports, Removes
<1> QED
  BY <1>1, <1>4, <1>5, <1>6, <1>7, <1>8 DEF Program

LEMMA RemoveHdProgram ==
    ASSUME NEW w, ~Imported(w), NEW s, NEW t,
           s = <<"getStore", "saveStore">>,
           t = <<"getHd", "saveHd", "getExtraHd", "putExtraHd">>,
           NEW q, q = s \o t
    PROVE  q \in Seq(StepNames) /\ q # <<>> /\ Program("removeHd", w, q) /\ Begins("removeHd", ToSet(q))
<1>a. s \in Seq(StepNames) /\ Len(s) = 2 /\ t \in Seq(StepNames) /\ Len(t) = 4
  BY DEF StepNames
<1>b. /\ s[1] = "getStore" /\ s[2] = "saveStore"
      /\ t[1] = "getHd" /\ t[2] = "saveHd" /\ t[3] = "getExtraHd" /\ t[4] = "putExtraHd"
  OBVIOUS
<1>c. /\ q \in Seq(StepNames) /\ Len(q) = Len(s) + Len(t)
      /\ \A i \in 1..Len(s) : q[i] = s[i]
      /\ \A i \in 1..Len(t) : q[Len(s) + i] = t[i]
  BY <1>a, Concat
<1>1. q \in Seq(StepNames) /\ Len(q) = 6
  BY <1>a, <1>c
<1>2. /\ DOMAIN q = {1, 2, 3, 4, 5, 6}
      /\ q[1] = "getStore" /\ q[2] = "saveStore" /\ q[3] = "getHd" /\ q[4] = "saveHd"
         /\ q[5] = "getExtraHd" /\ q[6] = "putExtraHd"
  <2>1. DOMAIN q = {1, 2, 3, 4, 5, 6}
    BY <1>1
  <2>2. /\ q[1] = s[1] /\ q[2] = s[2]
    BY <1>a, <1>c
  <2>3. /\ q[3] = t[1] /\ q[4] = t[2] /\ q[5] = t[3] /\ q[6] = t[4]
    BY <1>a, <1>c
  <2> QED
    BY <1>b, <2>1, <2>2, <2>3
<1>3. ToSet(q) = {"getStore", "saveStore", "getHd", "saveHd", "getExtraHd", "putExtraHd"}
  BY <1>2 DEF ToSet
<1>4. Once(q)
  BY <1>2 DEF Once
<1>5. Allowed("removeHd", ToSet(q))
  BY <1>3 DEF Allowed, Has, Imports, Removes, Requests
<1>6. Order("removeHd", w, q)
  BY <1>2 DEF Order, Follows, Imports, Removes
<1>7. q # <<>>
  BY <1>1, <1>2, SomeSteps, Zenon
<1>8. Begins("removeHd", ToSet(q))
  BY <1>3 DEF Begins, Imports, Removes
<1> QED
  BY <1>1, <1>4, <1>5, <1>6, <1>7, <1>8 DEF Program

LEMMA PasswordProgram ==
    ASSUME NEW w, NEW q, q = CHANGE_PASSWORD
    PROVE  q \in Seq(StepNames) /\ q # <<>> /\ Program("password", w, q) /\ Begins("password", ToSet(q))
<1>0. q = <<"verify", "decrypt", "getHd", "getSk", "rewrite">>
  BY DEF CHANGE_PASSWORD
<1>1. q \in Seq(StepNames) /\ Len(q) = 5
  BY <1>0 DEF StepNames
<1>2. /\ DOMAIN q = {1, 2, 3, 4, 5}
      /\ q[1] = "verify" /\ q[2] = "decrypt" /\ q[3] = "getHd" /\ q[4] = "getSk" /\ q[5] = "rewrite"
  <2>1. DOMAIN q = {1, 2, 3, 4, 5}
    BY <1>1
  <2> QED
    BY <1>0, <2>1
<1>3. ToSet(q) = {"verify", "decrypt", "getHd", "getSk", "rewrite"}
  BY <1>2 DEF ToSet
<1>4. Once(q)
  BY <1>2 DEF Once
<1>5. Allowed("password", ToSet(q))
  BY <1>3 DEF Allowed, Has, Imports, Removes, Requests
<1>6. Order("password", w, q)
  BY <1>2 DEF Order, Follows, Imports, Removes
<1>7. q # <<>>
  BY <1>1, <1>2, SomeSteps, Zenon
<1>8. Begins("password", ToSet(q))
  BY <1>3 DEF Begins, Imports, Removes
<1> QED
  BY <1>1, <1>4, <1>5, <1>6, <1>7, <1>8 DEF Program

LEMMA PhraseProgram ==
    ASSUME NEW w, NEW q, q = GET_RECOVERY_PHRASE
    PROVE  q \in Seq(StepNames) /\ q # <<>> /\ Program("phrase", w, q) /\ Begins("phrase", ToSet(q))
<1>0. q = <<"verify", "decrypt">>
  BY DEF GET_RECOVERY_PHRASE
<1>1. q \in Seq(StepNames) /\ Len(q) = 2
  BY <1>0 DEF StepNames
<1>2. /\ DOMAIN q = {1, 2}
      /\ q[1] = "verify" /\ q[2] = "decrypt"
  <2>1. DOMAIN q = {1, 2}
    BY <1>1
  <2> QED
    BY <1>0, <2>1
<1>3. ToSet(q) = {"verify", "decrypt"}
  BY <1>2 DEF ToSet
<1>4. Once(q)
  BY <1>2 DEF Once
<1>5. Allowed("phrase", ToSet(q))
  BY <1>3 DEF Allowed, Has, Imports, Removes, Requests
<1>6. Order("phrase", w, q)
  BY <1>2 DEF Order, Follows, Imports, Removes
<1>7. q # <<>>
  BY <1>1, <1>2, SomeSteps, Zenon
<1>8. Begins("phrase", ToSet(q))
  BY <1>3 DEF Begins, Imports, Removes
<1> QED
  BY <1>1, <1>4, <1>5, <1>6, <1>7, <1>8 DEF Program

LEMMA SecretProgram ==
    ASSUME NEW w, w = Primary, NEW s, NEW t,
           s = <<"verify", "getStore">>,
           t = <<"decrypt">>,
           NEW q, q = s \o t
    PROVE  q \in Seq(StepNames) /\ q # <<>> /\ Program("secret", w, q) /\ Begins("secret", ToSet(q))
<1>a. s \in Seq(StepNames) /\ Len(s) = 2 /\ t \in Seq(StepNames) /\ Len(t) = 1
  BY DEF StepNames
<1>b. /\ s[1] = "verify" /\ s[2] = "getStore"
      /\ t[1] = "decrypt"
  OBVIOUS
<1>c. /\ q \in Seq(StepNames) /\ Len(q) = Len(s) + Len(t)
      /\ \A i \in 1..Len(s) : q[i] = s[i]
      /\ \A i \in 1..Len(t) : q[Len(s) + i] = t[i]
  BY <1>a, Concat
<1>1. q \in Seq(StepNames) /\ Len(q) = 3
  BY <1>a, <1>c
<1>2. /\ DOMAIN q = {1, 2, 3}
      /\ q[1] = "verify" /\ q[2] = "getStore" /\ q[3] = "decrypt"
  <2>1. DOMAIN q = {1, 2, 3}
    BY <1>1
  <2>2. /\ q[1] = s[1] /\ q[2] = s[2]
    BY <1>a, <1>c
  <2>3. /\ q[3] = t[1]
    BY <1>a, <1>c
  <2> QED
    BY <1>b, <2>1, <2>2, <2>3
<1>3. ToSet(q) = {"verify", "getStore", "decrypt"}
  BY <1>2 DEF ToSet
<1>4. Once(q)
  BY <1>2 DEF Once
<1>5. Allowed("secret", ToSet(q))
  BY <1>3 DEF Allowed, Has, Imports, Removes, Requests
<1>6. Order("secret", w, q)
  BY <1>2 DEF Order, Follows, Imports, Removes
<1>7. q # <<>>
  BY <1>1, <1>2, SomeSteps, Zenon
<1>8. Begins("secret", ToSet(q))
  BY <1>3 DEF Begins, Imports, Removes
<1> QED
  BY <1>1, <1>4, <1>5, <1>6, <1>7, <1>8 DEF Program

LEMMA SecretKeyProgram ==
    ASSUME NEW w, w # Primary, Imported(w), NEW s, NEW t,
           s = <<"verify", "getStore">>,
           t = <<"getSk", "reveal">>,
           NEW q, q = s \o t
    PROVE  q \in Seq(StepNames) /\ q # <<>> /\ Program("secret", w, q) /\ Begins("secret", ToSet(q))
<1>a. s \in Seq(StepNames) /\ Len(s) = 2 /\ t \in Seq(StepNames) /\ Len(t) = 2
  BY DEF StepNames
<1>b. /\ s[1] = "verify" /\ s[2] = "getStore"
      /\ t[1] = "getSk" /\ t[2] = "reveal"
  OBVIOUS
<1>c. /\ q \in Seq(StepNames) /\ Len(q) = Len(s) + Len(t)
      /\ \A i \in 1..Len(s) : q[i] = s[i]
      /\ \A i \in 1..Len(t) : q[Len(s) + i] = t[i]
  BY <1>a, Concat
<1>1. q \in Seq(StepNames) /\ Len(q) = 4
  BY <1>a, <1>c
<1>2. /\ DOMAIN q = {1, 2, 3, 4}
      /\ q[1] = "verify" /\ q[2] = "getStore" /\ q[3] = "getSk" /\ q[4] = "reveal"
  <2>1. DOMAIN q = {1, 2, 3, 4}
    BY <1>1
  <2>2. /\ q[1] = s[1] /\ q[2] = s[2]
    BY <1>a, <1>c
  <2>3. /\ q[3] = t[1] /\ q[4] = t[2]
    BY <1>a, <1>c
  <2> QED
    BY <1>b, <2>1, <2>2, <2>3
<1>3. ToSet(q) = {"verify", "getStore", "getSk", "reveal"}
  BY <1>2 DEF ToSet
<1>4. Once(q)
  BY <1>2 DEF Once
<1>5. Allowed("secret", ToSet(q))
  BY <1>3 DEF Allowed, Has, Imports, Removes, Requests
<1>6. Order("secret", w, q)
  BY <1>2 DEF Order, Follows, Imports, Removes
<1>7. q # <<>>
  BY <1>1, <1>2, SomeSteps, Zenon
<1>8. Begins("secret", ToSet(q))
  BY <1>3 DEF Begins, Imports, Removes
<1> QED
  BY <1>1, <1>4, <1>5, <1>6, <1>7, <1>8 DEF Program

LEMMA SecretHdProgram ==
    ASSUME NEW w, w # Primary, ~Imported(w), NEW s, NEW t,
           s = <<"verify", "getStore">>,
           t = <<"getHd", "reveal">>,
           NEW q, q = s \o t
    PROVE  q \in Seq(StepNames) /\ q # <<>> /\ Program("secret", w, q) /\ Begins("secret", ToSet(q))
<1>a. s \in Seq(StepNames) /\ Len(s) = 2 /\ t \in Seq(StepNames) /\ Len(t) = 2
  BY DEF StepNames
<1>b. /\ s[1] = "verify" /\ s[2] = "getStore"
      /\ t[1] = "getHd" /\ t[2] = "reveal"
  OBVIOUS
<1>c. /\ q \in Seq(StepNames) /\ Len(q) = Len(s) + Len(t)
      /\ \A i \in 1..Len(s) : q[i] = s[i]
      /\ \A i \in 1..Len(t) : q[Len(s) + i] = t[i]
  BY <1>a, Concat
<1>1. q \in Seq(StepNames) /\ Len(q) = 4
  BY <1>a, <1>c
<1>2. /\ DOMAIN q = {1, 2, 3, 4}
      /\ q[1] = "verify" /\ q[2] = "getStore" /\ q[3] = "getHd" /\ q[4] = "reveal"
  <2>1. DOMAIN q = {1, 2, 3, 4}
    BY <1>1
  <2>2. /\ q[1] = s[1] /\ q[2] = s[2]
    BY <1>a, <1>c
  <2>3. /\ q[3] = t[1] /\ q[4] = t[2]
    BY <1>a, <1>c
  <2> QED
    BY <1>b, <2>1, <2>2, <2>3
<1>3. ToSet(q) = {"verify", "getStore", "getHd", "reveal"}
  BY <1>2 DEF ToSet
<1>4. Once(q)
  BY <1>2 DEF Once
<1>5. Allowed("secret", ToSet(q))
  BY <1>3 DEF Allowed, Has, Imports, Removes, Requests
<1>6. Order("secret", w, q)
  BY <1>2 DEF Order, Follows, Imports, Removes
<1>7. q # <<>>
  BY <1>1, <1>2, SomeSteps, Zenon
<1>8. Begins("secret", ToSet(q))
  BY <1>3 DEF Begins, Imports, Removes
<1> QED
  BY <1>1, <1>4, <1>5, <1>6, <1>7, <1>8 DEF Program

LEMMA ProgramStarts ==
    ASSUME NEW op \in Requests, NEW w \in Wallets, NEW q, q = ProgramOf(op, w)
    PROVE  q \in Seq(StepNames) /\ q # <<>> /\ Program(op, w, q) /\ Begins(op, ToSet(q))
<1>1. CASE op = "create"
  <2>1. q = CREATE_WALLET
    BY <1>1 DEF ProgramOf
  <2> QED
    BY <1>1, <2>1, CreateProgram DEF CREATE_WALLET, OpenSession
<1>2. CASE op = "unlock"
  <2>1. q = UNLOCK
    BY <1>2 DEF ProgramOf
  <2> QED
    BY <1>2, <2>1, UnlockProgram DEF UNLOCK, OpenSession
<1>3. CASE op = "lock"
  <2>1. q = LOCK
    BY <1>3 DEF ProgramOf
  <2> QED
    BY <1>3, <2>1, LockProgram
<1>4. CASE op = "reset"
  <2>1. q = RESET_WALLET
    BY <1>4 DEF ProgramOf
  <2> QED
    BY <1>4, <2>1, ResetProgram DEF RESET_WALLET, CloseSession
<1>5. CASE op = "add"
  <2>1. q = ADD_ACCOUNT
    BY <1>5 DEF ProgramOf
  <2> QED
    BY <1>5, <2>1, AddProgram
<1>6. CASE op = "switch"
  <2>1. q = SWITCH
    BY <1>6 DEF ProgramOf
  <2> QED
    BY <1>6, <2>1, SwitchProgram
<1>7. CASE op = "rename"
  <2>1. q = RENAME_ACCOUNT(w)
    BY <1>7 DEF ProgramOf
  <2> QED
    BY <1>7, <2>1, RenameKeyProgram, RenameProgram
<1>8. CASE op = "remove"
  <2>1. q = REMOVE_ACCOUNT(w)
    BY <1>8 DEF ProgramOf
  <2> QED
    BY <1>8, <2>1, RemoveKeyProgram, RemoveProgram DEF REMOVE_ACCOUNT, RemoveKey
<1>9. CASE op = "createHd"
  <2>1. q = CREATE_HD_WALLET
    BY <1>9 DEF ProgramOf
  <2> QED
    BY <1>9, <2>1, CreateHdProgram
<1>10. CASE op = "importHd"
  <2>1. q = IMPORT_HD_WALLET
    BY <1>10 DEF ProgramOf
  <2> QED
    BY <1>10, <2>1, ImportHdProgram
<1>11. CASE op = "importSk"
  <2>1. q = IMPORT_SECRET_KEY
    BY <1>11 DEF ProgramOf
  <2> QED
    BY <1>11, <2>1, ImportProgram
<1>12. CASE op = "reorder"
  <2>1. q = REORDER_ACCOUNTS
    BY <1>12 DEF ProgramOf
  <2> QED
    BY <1>12, <2>1, ReorderProgram
<1>13. CASE op = "removeHd"
  <2>1. q = REMOVE_HD_WALLET(w)
    BY <1>13 DEF ProgramOf
  <2> QED
    BY <1>13, <2>1, RemoveHdKeyProgram, RemoveHdProgram DEF REMOVE_HD_WALLET, RemoveKey
<1>14. CASE op = "password"
  <2>1. q = CHANGE_PASSWORD
    BY <1>14 DEF ProgramOf
  <2> QED
    BY <1>14, <2>1, PasswordProgram
<1>15. CASE op = "phrase"
  <2>1. q = GET_RECOVERY_PHRASE
    BY <1>15 DEF ProgramOf
  <2> QED
    BY <1>15, <2>1, PhraseProgram
<1>16. CASE op = "secret"
  <2>1. q = GET_SECRET_KEY(w)
    BY <1>16 DEF ProgramOf
  <2> QED
    BY <1>16, <2>1, SecretProgram, SecretKeyProgram, SecretHdProgram DEF GET_SECRET_KEY
<1> QED
  BY <1>1, <1>2, <1>3, <1>4, <1>5, <1>6, <1>7, <1>8, <1>9, <1>10, <1>11, <1>12, <1>13, <1>14, <1>15, <1>16 DEF Requests

LEMMA ProgramTail ==
    ASSUME NEW op, NEW w, NEW q \in Seq(StepNames), q # <<>>, Program(op, w, q)
    PROVE  Program(op, w, Tail(q)) /\ ToSet(Tail(q)) = ToSet(q) \ {Head(q)}
<1>1. Once(q) /\ Allowed(op, ToSet(q)) /\ Order(op, w, q)
  BY DEF Program
<1>2. Once(Tail(q)) /\ ToSet(Tail(q)) = ToSet(q) \ {Head(q)}
  BY <1>1, TailAhead
<1>3. Allowed(op, ToSet(Tail(q)))
  <2>1. PICK steps, rest : steps = ToSet(q) /\ rest = ToSet(Tail(q)) /\ rest \subseteq steps
    BY <1>2
  <2>2. Allowed(op, rest)
    BY <1>1, <2>1 DEF Allowed, Has
  <2> QED
    BY <2>1, <2>2
<1>4. \A s, t : Follows(q, s, t) => Follows(Tail(q), s, t)
  BY TailFollows
<1>5. Order(op, w, Tail(q))
  BY <1>1, <1>4 DEF Order
<1> QED
  BY <1>2, <1>3, <1>5 DEF Program

LEMMA IdleHandler == Idle \in Handlers
<1>1. <<>> \in Seq(StepNames)
  OBVIOUS
<1> QED
  BY <1>1 DEF Idle, Handlers

LEMMA Ended ==
    ASSUME NEW x \in Handlers, NEW st \in {"done", "refused", "lost"}, NEW y, y = Over(x, st)
    PROVE  y \in Handlers /\ y.op = x.op /\ y.target = x.target /\ y.st = st /\ y.todo = <<>>
<1>1. Idle \in Handlers /\ Idle.todo = <<>>
  BY IdleHandler DEF Idle
<1>2. y = [Idle EXCEPT !.op = x.op, !.target = x.target, !.st = st]
  BY DEF Over
<1> HIDE DEF Idle
<1> QED
  BY <1>1, <1>2, ZenonT(40) DEF Handlers

\* The handler after a step, but for what it has read.
Same(x, z) == z.op = x.op /\ z.todo = x.todo /\ z.st = x.st /\ z.pw = x.pw /\ z.next = x.next /\ z.target = x.target
Reading(x, z) ==
    /\ z.accounts = x.accounts /\ z.active = x.active /\ z.hd = x.hd /\ z.sk = x.sk /\ z.extra = x.extra
    /\ z.chosen = x.chosen
Goes(z, y) ==
    /\ y \in Handlers /\ y.op = z.op /\ y.target = z.target
    /\ \/ /\ y.st = "open" /\ y.todo # <<>> /\ Program(y.op, y.target.wallet, y.todo)
          /\ Ahead(y) = Ahead(z) \ {Head(z.todo)}
          /\ y.pw = z.pw /\ y.next = z.next /\ Reading(z, y)
       \/ y.st = "done" /\ y.todo = <<>> /\ Ahead(z) = {Head(z.todo)}

LEMMA Forwarded ==
    ASSUME NEW z \in Handlers, z.st = "open", z.todo # <<>>, Program(z.op, z.target.wallet, z.todo),
           NEW y, y = Forward(z)
    PROVE  Goes(z, y)
<1>1. z.todo \in Seq(StepNames)
  BY DEF Handlers
<1>2. CASE Len(z.todo) = 1
  <2>1. y = Over(z, "done")
    BY <1>2 DEF Forward
  <2>2. ToSet(z.todo) = {Head(z.todo)}
    BY <1>1, <1>2, TailAhead DEF Program
  <2> QED
    BY <2>1, <2>2, Ended DEF Goes, Ahead
<1>3. CASE Len(z.todo) # 1
  <2>1. y = [z EXCEPT !.todo = Tail(z.todo)]
    BY <1>3 DEF Forward
  <2>2. Tail(z.todo) \in Seq(StepNames) /\ Tail(z.todo) # <<>>
    BY <1>1, <1>3, TailOf, TailAhead DEF Program
  <2>3. PICK q \in Seq(StepNames) : q = Tail(z.todo)
    BY <2>2
  <2>4. /\ y \in Handlers /\ y.todo = q /\ y.op = z.op /\ y.target = z.target /\ y.st = z.st
        /\ y.pw = z.pw /\ y.next = z.next /\ y.accounts = z.accounts /\ y.active = z.active
        /\ y.hd = z.hd /\ y.sk = z.sk /\ y.extra = z.extra /\ y.chosen = z.chosen
    BY <2>1, <2>3 DEF Handlers
  <2>5. Program(z.op, z.target.wallet, q) /\ ToSet(q) = ToSet(z.todo) \ {Head(z.todo)}
    BY <1>1, <2>3, ProgramTail
  <2> QED
    BY <2>2, <2>3, <2>4, <2>5 DEF Goes, Ahead, Reading
<1> QED
  BY <1>2, <1>3

LEMMA SaneGoes ==
    ASSUME NEW x, Sane(x), x.st = "open", NEW z, Same(x, z), NEW y, Goes(z, y), y.st = "open" => Read(y)
    PROVE  Sane(y)
<1>1. Asked(x) /\ z.op = x.op /\ z.target = x.target /\ z.pw = x.pw /\ z.next = x.next
  BY DEF Sane, Same
<1>2. /\ y \in Handlers /\ y.op = z.op /\ y.target = z.target
      /\ \/ /\ y.st = "open" /\ y.todo # <<>> /\ Program(y.op, y.target.wallet, y.todo)
            /\ y.pw = z.pw /\ y.next = z.next
         \/ y.st = "done" /\ y.todo = <<>>
  BY DEF Goes
<1>3. y.st = "open" => Asked(y)
  BY <1>1, <1>2 DEF Asked
<1> QED
  BY <1>2, <1>3 DEF Sane

LEMMA SaneOver ==
    ASSUME NEW x, Sane(x), NEW st \in {"refused", "lost"}, NEW y, y = Over(x, st)
    PROVE  Sane(y) /\ y.op = x.op /\ y.st = st
<1>1. x \in Handlers
  BY DEF Sane
<1> QED
  BY <1>1, Ended DEF Sane

LEMMA ReadGoes ==
    ASSUME NEW x, Sane(x), x.st = "open", NEW z, Same(x, z), NEW y, Goes(z, y), y.st = "open",
           z.accounts = x.accounts, z.active = x.active, z.extra = x.extra,
           Head(x.todo) \notin {"mnemonic", "getStore", "fill"}
    PROVE  Read(y)
<1>1. /\ Read(x) /\ Ahead(z) = Ahead(x) /\ z.op = x.op /\ z.target = x.target /\ Head(z.todo) = Head(x.todo)
  BY DEF Sane, Same, Ahead
<1>2. /\ y.op = x.op /\ y.target = x.target /\ Ahead(y) = Ahead(x) \ {Head(x.todo)}
      /\ y.accounts = x.accounts /\ y.active = x.active /\ y.extra = x.extra
  BY <1>1 DEF Goes, Reading
<1>3. PICK steps, rest, s : steps = Ahead(x) /\ rest = Ahead(y) /\ s = Head(x.todo) /\ rest = steps \ {s}
  BY <1>2
<1> QED
  BY <1>1, <1>2, <1>3 DEF Read

LEMMA Moves ==
    ASSUME AccountsTyped, NEW c \in Calls, NEW s, Doing(c, s), NEW z \in Handlers, Same(call[c], z),
           NEW y, y = Forward(z)
    PROVE  /\ Goes(z, y) /\ Sane(call[c]) /\ call[c].st = "open" /\ Head(call[c].todo) = s
           /\ s \in Ahead(call[c]) /\ Ahead(z) = Ahead(call[c]) /\ Head(z.todo) = s /\ z.op = call[c].op
<1>1. Sane(call[c]) /\ call[c].st = "open" /\ call[c].todo # <<>> /\ Head(call[c].todo) = s
  BY DEF AccountsTyped, Doing
<1>2. Program(call[c].op, call[c].target.wallet, call[c].todo) /\ call[c].todo \in Seq(StepNames)
  BY <1>1 DEF Sane, Handlers
<1>3. /\ z.st = "open" /\ z.todo = call[c].todo /\ Program(z.op, z.target.wallet, z.todo)
  BY <1>1, <1>2 DEF Same
<1>4. Goes(z, y)
  BY <1>1, <1>3, Forwarded
<1>5. s \in ToSet(call[c].todo)
  BY <1>1, <1>2, TailAhead DEF Program
<1> QED
  BY <1>1, <1>3, <1>4, <1>5 DEF Ahead, Same

LEMMA TypedStep ==
    ASSUME AccountsTyped, NEW c \in Calls, NEW y, Sane(y), call' = [call EXCEPT ![c] = y],
           main' \in Passwords \cup {Nil}, hdList' \subseteq HdEntries, skList' \subseteq SkEntries,
           store' \in Stores, open' \in Sessions,
           stale' \in BOOLEAN, rekeyed' \in BOOLEAN, cut' \in BOOLEAN, crossed' \in BOOLEAN,
           UNCHANGED <<plan, stops>>
    PROVE  AccountsTyped'
<1>1. DOMAIN call' = Calls /\ \A d \in Calls : Sane(call'[d])
  BY DEF AccountsTyped
<1>2. \A d \in Calls : call'[d].st = "open" <=> call'[d].todo # <<>>
  BY <1>1 DEF Sane
<1>3. plan' \in Plans /\ stops' \in 0..plan'.stops
  BY DEF AccountsTyped, AccountsTypeOK
<1>4. /\ store'.accounts \subseteq AllAccounts /\ store'.active \in AllAccounts \cup {Nil}
      /\ open'.pk \in AllAccounts \cup {Nil} /\ open'.secret \in AllAccounts \cup {Nil}
      /\ open'.hd \subseteq HDs /\ open'.sk \subseteq SKs
  BY DEF Stores, Sessions
<1>5. AccountsTypeOK'
  BY <1>2, <1>3, <1>4 DEF AccountsTypeOK, HdEntries, SkEntries
<1> QED
  BY <1>1, <1>5 DEF AccountsTyped

LEMMA AloneStep ==
    ASSUME AccountsTyped, Alone, NEW c \in Calls, NEW y, call' = [call EXCEPT ![c] = y], crossed' = crossed,
           call[c].st = "open", y.op = call[c].op
    PROVE  Alone'
<1>1. \A d \in Calls : call'[d].op = call[d].op /\ (call'[d].st = "open" => call[d].st = "open")
  BY DEF AccountsTyped
<1> QED
  BY <1>1 DEF Alone

LEMMA OwnedStep ==
    ASSUME AccountsTyped, OwnedKeys, NEW c \in Calls, NEW y, call' = [call EXCEPT ![c] = y],
           skList' = skList, store'.accounts = store.accounts, cut' = cut, stale => stale',
           \A w : (Adding(call[c], w) => Adding(y, w)) /\ (Removing(call[c], w) => Removing(y, w))
    PROVE  OwnedKeys'
<1> SUFFICES ASSUME ~cut', ~stale', NEW e \in skList'
             PROVE  \/ Owner(e.id, store')
                    \/ \E d \in Calls : Adding(call'[d], e.id) \/ Removing(call'[d], e.id)
  BY DEF OwnedKeys
<1>1. CASE Owner(e.id, store)
  BY <1>1 DEF Owner
<1>2. CASE \E d \in Calls : Adding(call[d], e.id) \/ Removing(call[d], e.id)
  <2>1. PICK d \in Calls : Adding(call[d], e.id) \/ Removing(call[d], e.id)
    BY <1>2
  <2>2. call'[c] = y /\ \A f \in Calls \ {c} : call'[f] = call[f]
    BY DEF AccountsTyped
  <2>3. Adding(call'[d], e.id) \/ Removing(call'[d], e.id)
    BY <2>1, <2>2
  <2> QED
    BY <2>3
<1> QED
  BY <1>1, <1>2 DEF OwnedKeys

\* Advancing past any other step leaves what a handler still owes.
LEMMA OwesGoes ==
    ASSUME NEW x, Sane(x), x.st = "open", NEW z, Same(x, z), NEW y, Goes(z, y),
           Head(x.todo) \notin {"saveStore", "saveSk"}
    PROVE  \A w : (Adding(x, w) => Adding(y, w)) /\ (Removing(x, w) => Removing(y, w))
<1>1. PICK steps, rest, s : steps = Ahead(x) /\ rest = Ahead(y) /\ s = Head(x.todo) /\ s \notin {"saveStore", "saveSk"}
  OBVIOUS
<1>2. /\ y.op = x.op /\ y.target = x.target
      /\ (y.st = "open" /\ rest = steps \ {s}) \/ steps = {s}
  BY <1>1 DEF Goes, Same, Ahead
<1> QED
  BY <1>1, <1>2 DEF Adding, Removing

\* A handler that can still be refused owes nothing.
LEMMA OwesNothing ==
    ASSUME NEW x, Sane(x), x.st = "open",
           Head(x.todo) \in {"verify", "getStore", "decrypt", "mnemonic", "reveal"} \/ x.op = "password"
    PROVE  \A w : ~Adding(x, w) /\ ~Removing(x, w)
<1>1. /\ x.todo \in Seq(StepNames) /\ x.todo # <<>> /\ Once(x.todo) /\ Allowed(x.op, Ahead(x))
      /\ Order(x.op, x.target.wallet, x.todo)
  BY DEF Sane, Handlers, Program, Ahead
<1>2. Head(x.todo) \in Ahead(x)
  BY <1>1, TailAhead DEF Ahead
<1>3. CASE x.op = "importSk"
  <2>1. Follows(x.todo, "verify", "saveSk") /\ Follows(x.todo, "getStore", "saveSk")
    BY <1>1, <1>3 DEF Order
  <2>2. "verify" \in Ahead(x) \/ "getStore" \in Ahead(x) => "saveSk" \in Ahead(x)
    BY <2>1, FollowsAhead DEF Ahead
  <2>3. Head(x.todo) \in {"verify", "getStore"}
    BY <1>1, <1>2, <1>3 DEF Allowed, Has
  <2> QED
    BY <1>2, <1>3, <2>2, <2>3 DEF Adding, Removing, Removes
<1>4. CASE x.op \in Removes
  <2>1. Follows(x.todo, "verify", "saveStore") /\ Follows(x.todo, "getStore", "saveStore")
    BY <1>1, <1>4 DEF Order
  <2>2. "verify" \in Ahead(x) \/ "getStore" \in Ahead(x) => "saveStore" \in Ahead(x)
    BY <2>1, FollowsAhead DEF Ahead
  <2>3. Head(x.todo) \in {"verify", "getStore"}
    BY <1>1, <1>2, <1>4 DEF Allowed, Has, Removes
  <2> QED
    BY <1>2, <1>4, <2>2, <2>3 DEF Adding, Removing, Removes
<1> QED
  BY <1>3, <1>4 DEF Adding, Removing

LEMMA OpeningActive ==
    ASSUME NEW x, NEW steps, NEW o, NEW st, NEW old \in BOOLEAN, NEW st2, NEW old2 \in BOOLEAN,
           Opening(x, steps, o, st, old), old2 \/ (~old /\ st2.active = st.active)
    PROVE  Opening(x, steps, o, st2, old2)
<1>1. Resting(o, st, old) => Resting(o, st2, old2)
  BY DEF Resting, Agrees
<1> QED
  BY <1>1 DEF Opening

LEMMA SessionOpens ==
    ASSUME AccountsTyped, SessionKept, Alone, NEW c \in Calls, NEW y, call' = [call EXCEPT ![c] = y],
           call[c].st = "open", call[c].op \in Opens, y.op = call[c].op, crossed' = crossed, cut' = cut,
           ~crossed /\ ~cut /\ y.st = "open" => Opening(y, Ahead(y), open', store', stale'),
           ~crossed /\ ~cut /\ y.st # "open" => Resting(open', store', stale')
    PROVE  SessionKept'
<1> SUFFICES ASSUME ~crossed, ~cut
             PROVE  /\ (\A d \in Calls : call'[d].st = "open" => call'[d].op \notin Opens) => Resting(open', store', stale')
                    /\ \A d \in Calls : call'[d].st = "open" /\ call'[d].op \in Opens =>
                          Opening(call'[d], Ahead(call'[d]), open', store', stale')
                    /\ \A d \in Calls : call'[d].st = "open" => Beside(call'[d], open')
  BY DEF SessionKept, Ahead
<1>1. call'[c] = y /\ \A d \in Calls \ {c} : call'[d] = call[d]
  BY DEF AccountsTyped
<1>2. \A d \in Calls \ {c} : call[d].st = "open" => call[d].op \notin OpenWriters
  BY DEF Alone
<1>3. \A d \in Calls \ {c} : call[d].st = "open" => call[d].op \notin Opens /\ Beside(call[d], open')
  BY <1>2 DEF OpenWriters, Beside, Imports, Removes
<1>4. Beside(y, open')
  BY DEF Beside, Imports, Removes, Opens
<1> QED
  BY <1>1, <1>3, <1>4

LEMMA SessionBeside ==
    ASSUME AccountsTyped, SessionKept, NEW c \in Calls, NEW y, call' = [call EXCEPT ![c] = y],
           call[c].st = "open", call[c].op \notin Opens, y.op = call[c].op, crossed' = crossed, cut' = cut,
           open' = open, stale' \in BOOLEAN, stale' \/ (~stale /\ store'.active = store.active),
           ~crossed /\ ~cut /\ y.st = "open" => Beside(y, open)
    PROVE  SessionKept'
<1> SUFFICES ASSUME ~crossed, ~cut
             PROVE  /\ (\A d \in Calls : call'[d].st = "open" => call'[d].op \notin Opens) => Resting(open', store', stale')
                    /\ \A d \in Calls : call'[d].st = "open" /\ call'[d].op \in Opens =>
                          Opening(call'[d], Ahead(call'[d]), open', store', stale')
                    /\ \A d \in Calls : call'[d].st = "open" => Beside(call'[d], open')
  BY DEF SessionKept, Ahead
<1>1. call'[c] = y /\ \A d \in Calls \ {c} : call'[d] = call[d]
  BY DEF AccountsTyped
<1>2. ASSUME \A d \in Calls : call'[d].st = "open" => call'[d].op \notin Opens
      PROVE  Resting(open', store', stale')
  <2>1. \A d \in Calls : call[d].st = "open" => call[d].op \notin Opens
    BY <1>1, <1>2
  <2>2. Resting(open, store, stale)
    BY <2>1 DEF SessionKept
  <2> QED
    BY <2>2 DEF Resting, Agrees
<1>3. ASSUME NEW d \in Calls, call'[d].st = "open", call'[d].op \in Opens
      PROVE  Opening(call'[d], Ahead(call'[d]), open', store', stale')
  <2>1. call'[d] = call[d]
    BY <1>1, <1>3
  <2>2. Opening(call[d], Ahead(call[d]), open, store, stale)
    BY <1>3, <2>1 DEF SessionKept
  <2>3. stale \in BOOLEAN
    BY DEF AccountsTyped
  <2> QED
    BY <2>1, <2>2, <2>3, OpeningActive
<1>4. \A d \in Calls : call'[d].st = "open" => Beside(call'[d], open')
  BY <1>1 DEF SessionKept
<1> QED
  BY <1>2, <1>3, <1>4

LEMMA OpeningEnds ==
    ASSUME NEW x, x.op \in Opens, NEW o, NEW st, NEW old \in BOOLEAN, o.seed \in BOOLEAN,
           o = [pk |-> o.pk, secret |-> o.secret, seed |-> o.seed, hd |-> o.hd, sk |-> o.sk],
           Opening(x, {}, o, st, old), x.target # Nil, First # Nil
    PROVE  Resting(o, st, old)
<1>1. CASE x.op \in {"lock", "reset"}
  <2>1. o.pk = Nil /\ o.secret = Nil /\ ~o.seed /\ o.hd = {} /\ o.sk = {}
    BY <1>1 DEF Opening, Dropped
  <2>2. o.seed = FALSE
    BY <2>1
  <2> QED
    BY <2>1, <2>2 DEF Resting, Closed
<1>2. CASE x.op = "create"
  <2>1. /\ Placed({}, o, First) /\ ("putSeed" \in {} \/ o.seed)
        /\ "saveStore" \notin {} /\ ~old => st.active = First
    BY <1>2 DEF Opening
  <2>2. o.pk = First /\ o.secret = First /\ o.seed /\ (~old => st.active = First)
    BY <2>1 DEF Placed
  <2> QED
    BY <2>2 DEF Resting, Agrees
<1>3. CASE x.op = "unlock"
  BY <1>3 DEF Opening, Placed, Resting, Agrees
<1>4. CASE x.op = "switch"
  BY <1>4 DEF Opening, Placed, Resting, Agrees
<1> QED
  BY <1>1, <1>2, <1>3, <1>4 DEF Opens

LEMMA OpeningGoes ==
    ASSUME NEW x, Sane(x), x.st = "open", x.op \in Opens,
           NEW z, Same(x, z), NEW y, Goes(z, y), NEW o \in Sessions, NEW st, NEW old \in BOOLEAN,
           Opening(z, Ahead(x) \ {Head(x.todo)}, o, st, old)
    PROVE  /\ y.st = "open" => Opening(y, Ahead(y), o, st, old)
           /\ y.st # "open" => Resting(o, st, old)
<1>1. z.op = x.op /\ z.target = x.target /\ Ahead(z) = Ahead(x) /\ Head(z.todo) = Head(x.todo)
  BY DEF Same, Ahead
<1>2. CASE y.st = "open"
  <2>1. /\ y.op = z.op /\ y.target = z.target /\ y.accounts = z.accounts /\ y.active = z.active
        /\ y.chosen = z.chosen /\ Ahead(y) = Ahead(x) \ {Head(x.todo)}
    BY <1>1, <1>2 DEF Goes, Reading
  <2>2. PICK steps : steps = Ahead(x) \ {Head(x.todo)}
    OBVIOUS
  <2>3. Opening(z, steps, o, st, old) /\ Ahead(y) = steps
    BY <2>1, <2>2
  <2>4. Opening(y, steps, o, st, old)
    BY <2>1, <2>3 DEF Opening
  <2> QED
    BY <1>2, <2>3, <2>4
<1>3. CASE y.st # "open"
  <2>1. Ahead(x) = {Head(x.todo)}
    BY <1>1, <1>3 DEF Goes
  <2>2. Opening(z, {}, o, st, old)
    <3>1. Ahead(x) \ {Head(x.todo)} = {}
      BY <2>1
    <3> QED
      BY <3>1
  <2>3. x.target # Nil /\ First # Nil
    <3>1. x.target \in AllAccounts
      BY DEF Sane, Asked
    <3>2. First \in AllAccounts
      <4>1. Primary \in Wallets \ SKs /\ 0 \in 0..MaxIndex
        BY AccountsAssumptions DEF Wallets
      <4>2. Account(Primary, 0) \in {Account(w, i) : w \in Wallets \ SKs, i \in 0..MaxIndex}
        BY <4>1
      <4> QED
        BY <4>2 DEF First, AllAccounts
    <3> QED
      BY <3>1, <3>2, AccountsAssumptions
  <2>5. /\ o.seed \in BOOLEAN
        /\ o = [pk |-> o.pk, secret |-> o.secret, seed |-> o.seed, hd |-> o.hd, sk |-> o.sk]
    BY DEF Sessions
  <2>6. Resting(o, st, old)
    <3>1. z.op \in Opens /\ z.target # Nil
      BY <1>1, <2>3
    <3> QED
      BY <2>2, <2>3, <2>5, <3>1, OpeningEnds
  <2> QED
    BY <1>3, <2>6
<1> QED
  BY <1>2, <1>3

\* A step that writes nothing leaves what a handler has done of opening the session.
LEMMA OpeningPass ==
    ASSUME NEW x, NEW steps, NEW o, NEW st, NEW old, Opening(x, steps, o, st, old),
           NEW s \in {"verify", "decrypt", "getHd", "getSk", "putMain", "clearWallet", "extraHd", "extraSk",
                  "reveal"}
    PROVE  Opening(x, steps \ {s}, o, st, old)
  BY DEF Opening, Dropped, Placed

LEMMA DeniedRests ==
    ASSUME NEW x, Sane(x), x.st = "open", x.op \in Opens, NEW o, NEW st, NEW old,
           Opening(x, Ahead(x), o, st, old),
           Head(x.todo) \in {"verify", "decrypt", "mnemonic"} \/ (x.op = "switch" /\ Head(x.todo) = "getStore")
    PROVE  Resting(o, st, old)
<1>1. /\ x.todo \in Seq(StepNames) /\ x.todo # <<>> /\ Once(x.todo) /\ Allowed(x.op, Ahead(x))
      /\ Order(x.op, x.target.wallet, x.todo)
  BY DEF Sane, Handlers, Program, Ahead
<1>2. PICK steps, s : steps = Ahead(x) /\ s = Head(x.todo) /\ s \in steps
  BY <1>1, TailAhead DEF Ahead
<1>3. CASE x.op = "switch"
  <2>1. Follows(x.todo, "getStore", "mnemonic")
    BY <1>1, <1>3 DEF Order
  <2>2. "getStore" \in Ahead(x) => "mnemonic" \in Ahead(x)
    BY <2>1, FollowsAhead DEF Ahead
  <2>3. s \in {"mnemonic", "getStore"}
    BY <1>1, <1>2, <1>3 DEF Allowed, Has
  <2> QED
    BY <1>2, <1>3, <2>2, <2>3 DEF Opening
<1>4. CASE x.op # "switch"
  <2>1. (s = "verify" /\ x.op = "reset") \/ (s = "decrypt" /\ x.op = "unlock")
    <3>1. Has(x.op, steps, "verify", {"reset", "add", "remove", "createHd", "importHd", "importSk", "password", "phrase", "secret"})
      BY <1>1, <1>2 DEF Allowed
    <3>2. /\ Has(x.op, steps, "decrypt", {"unlock", "password", "phrase", "secret"})
          /\ Has(x.op, steps, "mnemonic", {"add", "switch"})
      BY <1>1, <1>2 DEF Allowed
    <3>3. s \in {"verify", "decrypt", "mnemonic"}
      BY <1>2, <1>4
    <3>4. s # "mnemonic"
      BY <1>2, <1>4, <3>2 DEF Has, Opens
    <3>5. s = "verify" => x.op = "reset"
      BY <1>2, <3>1 DEF Has, Opens
    <3>6. s = "decrypt" => x.op = "unlock"
      BY <1>2, <3>2 DEF Has, Opens
    <3> QED
      BY <3>3, <3>4, <3>5, <3>6
  <2> QED
    BY <1>2, <2>1 DEF Opening
<1> QED
  BY <1>3, <1>4

\* A step that changes only what its handler holds.
LEMMA CallKeeps ==
    ASSUME AccountsIInv, NEW c \in Calls, NEW y, call' = [call EXCEPT ![c] = y], UNCHANGED Kept,
           Sane(y), y.op = call[c].op, call[c].st = "open",
           \A w : (Adding(call[c], w) => Adding(y, w)) /\ (Removing(call[c], w) => Removing(y, w)),
           SessionKept'
    PROVE  AccountsIInv'
<1> USE DEF AccountsIInv
<1>1. AccountsTyped'
  <2>1. /\ main' \in Passwords \cup {Nil} /\ hdList' \subseteq HdEntries /\ skList' \subseteq SkEntries
        /\ store' \in Stores /\ open' \in Sessions
        /\ stale' \in BOOLEAN /\ rekeyed' \in BOOLEAN /\ cut' \in BOOLEAN /\ crossed' \in BOOLEAN
    BY DEF AccountsTyped, AccountsTypeOK, Kept, HdEntries, SkEntries
  <2>2. UNCHANGED <<plan, stops>>
    BY DEF Kept
  <2> QED
    BY <2>1, <2>2, TypedStep
<1>2. ActiveKept' /\ NoneBricked'
  BY DEF Kept, ActiveKept, NoneBricked
<1>3. OwnedKeys'
  <2>1. skList' = skList /\ store'.accounts = store.accounts /\ cut' = cut /\ (stale => stale')
    BY DEF Kept
  <2> QED
    BY <2>1, OwnedStep
<1>4. Alone'
  BY AloneStep DEF Kept
<1> QED
  BY <1>1, <1>2, <1>3, <1>4

LEMMA DenyKeeps ==
    ASSUME AccountsIInv, NEW c \in Calls, NEW s, Doing(c, s), UNCHANGED Kept,
           call' = [call EXCEPT ![c] = Denied(call[c])],
           s \in {"verify", "decrypt", "mnemonic", "reveal"} \/ call[c].op = "password"
              \/ (s = "getStore" /\ (call[c].op \notin Opens \/ call[c].op = "switch"))
    PROVE  AccountsIInv'
<1> DEFINE x == call[c]
<1>1. Sane(x) /\ x.st = "open" /\ Head(x.todo) = s
  BY DEF AccountsIInv, AccountsTyped, Doing
<1>2. PICK y : y = Denied(x)
  OBVIOUS
<1>3. Sane(y) /\ y.op = x.op /\ y.st = "refused"
  BY <1>1, <1>2, SaneOver DEF Denied
<1>4. \A w : ~Adding(x, w) /\ ~Removing(x, w)
  BY <1>1, OwesNothing
<1>5. SessionKept'
  <2>1. CASE x.op \in Opens
    <3>1. ASSUME ~crossed, ~cut PROVE Resting(open, store, stale)
      <4>1. Opening(x, Ahead(x), open, store, stale)
        BY <1>1, <2>1, <3>1 DEF AccountsIInv, SessionKept
      <4>2. s \in {"verify", "decrypt", "mnemonic"} \/ (x.op = "switch" /\ s = "getStore")
        <5>1. s # "reveal"
          <6>1. x.todo \in Seq(StepNames) /\ x.todo # <<>> /\ Program(x.op, x.target.wallet, x.todo)
            BY <1>1 DEF Sane, Handlers
          <6>2. s \in ToSet(x.todo)
            BY <1>1, <6>1, TailAhead DEF Program
          <6> QED
            BY <2>1, <6>1, <6>2 DEF Program, Allowed, Has, Opens
        <5> QED
          BY <2>1, <5>1 DEF Opens
      <4> QED
        BY <1>1, <2>1, <4>1, <4>2, DeniedRests
    <3>2. open' = open /\ store' = store /\ stale' = stale /\ crossed' = crossed /\ cut' = cut
      BY DEF Kept
    <3> QED
      BY <1>1, <1>2, <1>3, <2>1, <3>1, <3>2, SessionOpens DEF AccountsIInv
  <2>2. CASE x.op \notin Opens
    <3>1. /\ open' = open /\ store' = store /\ stale' = stale /\ crossed' = crossed /\ cut' = cut
          /\ stale \in BOOLEAN
      BY DEF Kept, AccountsIInv, AccountsTyped
    <3> QED
      BY <1>1, <1>2, <1>3, <2>2, <3>1, SessionBeside DEF AccountsIInv
  <2> QED
    BY <2>1, <2>2
<1> QED
  BY <1>1, <1>2, <1>3, <1>4, <1>5, CallKeeps

\* A handler goes on, the storage and the session as they were.
LEMMA GoesKeeps ==
    ASSUME AccountsIInv, NEW c \in Calls, NEW s, Doing(c, s), s \notin {"saveStore", "saveSk"}, UNCHANGED Kept,
           NEW z \in Handlers, Same(call[c], z), call' = [call EXCEPT ![c] = Forward(z)],
           \A y : Goes(z, y) /\ y.st = "open" => Read(y),
           ~crossed /\ ~cut /\ call[c].op \in Opens =>
               Opening(z, Ahead(call[c]) \ {s}, open, store, stale),
           ~crossed /\ ~cut /\ call[c].op \notin Opens => Beside(z, open)
    PROVE  AccountsIInv'
<1> DEFINE x == call[c]
<1>0. PICK y : y = Forward(z)
  OBVIOUS
<1>1. /\ Goes(z, y) /\ Sane(x) /\ x.st = "open" /\ Head(x.todo) = s /\ Ahead(z) = Ahead(x) /\ z.op = x.op
  BY <1>0, Moves DEF AccountsIInv
<1>2. Sane(y)
  BY <1>1, SaneGoes
<1>3. y.op = x.op
  BY <1>1 DEF Goes
<1>4. \A w : (Adding(x, w) => Adding(y, w)) /\ (Removing(x, w) => Removing(y, w))
  BY <1>1, OwesGoes
<1>5. /\ open' = open /\ store' = store /\ stale' = stale /\ crossed' = crossed /\ cut' = cut
      /\ stale \in BOOLEAN /\ open \in Sessions
  BY DEF Kept, AccountsIInv, AccountsTyped
<1>6. SessionKept'
  <2>1. CASE x.op \in Opens
    <3>1. ~crossed /\ ~cut => Opening(z, Ahead(x) \ {Head(x.todo)}, open, store, stale)
      BY <1>1, <2>1
    <3>2. ~crossed /\ ~cut => /\ y.st = "open" => Opening(y, Ahead(y), open, store, stale)
                              /\ y.st # "open" => Resting(open, store, stale)
      BY <1>1, <1>5, <2>1, <3>1, OpeningGoes, SMTT(40)
    <3> QED
      BY <1>0, <1>1, <1>3, <1>5, <2>1, <3>2, SessionOpens DEF AccountsIInv
  <2>2. CASE x.op \notin Opens
    <3>1. ~crossed /\ ~cut /\ y.st = "open" => Beside(y, open)
      BY <1>1, <1>3, <2>2 DEF Goes, Reading, Beside
    <3> QED
      BY <1>0, <1>1, <1>3, <1>5, <2>2, <3>1, SessionBeside DEF AccountsIInv
  <2> QED
    BY <2>1, <2>2
<1> QED
  BY <1>0, <1>1, <1>2, <1>3, <1>4, <1>6, CallKeeps

\* What an open handler has by the invariant.
LEMMA HandlerHas ==
    ASSUME AccountsIInv, NEW c \in Calls, NEW s, Doing(c, s)
    PROVE  /\ Sane(call[c]) /\ call[c] \in Handlers /\ call[c].st = "open" /\ Head(call[c].todo) = s
           /\ s \in Ahead(call[c]) /\ Allowed(call[c].op, Ahead(call[c])) /\ Asked(call[c]) /\ Read(call[c])
           /\ ~crossed /\ ~cut /\ call[c].op \in Opens => Opening(call[c], Ahead(call[c]), open, store, stale)
           /\ ~crossed /\ ~cut => Beside(call[c], open)
<1>1. Sane(call[c]) /\ call[c].st = "open" /\ Head(call[c].todo) = s /\ call[c].todo # <<>>
  BY DEF AccountsIInv, AccountsTyped, Doing
<1>2. /\ Program(call[c].op, call[c].target.wallet, call[c].todo) /\ call[c].todo \in Seq(StepNames)
      /\ call[c] \in Handlers /\ Asked(call[c]) /\ Read(call[c])
  BY <1>1 DEF Sane, Handlers
<1>3. s \in Ahead(call[c])
  BY <1>1, <1>2, TailAhead DEF Program, Ahead
<1>4. Allowed(call[c].op, Ahead(call[c]))
  BY <1>2 DEF Program, Ahead
<1>5. /\ ~crossed /\ ~cut /\ call[c].op \in Opens => Opening(call[c], Ahead(call[c]), open, store, stale)
      /\ ~crossed /\ ~cut => Beside(call[c], open)
  BY <1>1 DEF AccountsIInv, SessionKept
<1> QED
  BY <1>1, <1>2, <1>3, <1>4, <1>5

\* A step that reads nothing the handler keeps.
LEMMA PassKeeps ==
    ASSUME AccountsIInv, NEW c \in Calls, NEW s \in {"verify", "decrypt", "reveal", "getHd", "getSk"}, Doing(c, s),
           NEW z \in Handlers, Same(call[c], z), z.accounts = call[c].accounts, z.active = call[c].active,
           z.extra = call[c].extra, z.chosen = call[c].chosen,
           call' = [call EXCEPT ![c] = Forward(z)], UNCHANGED Kept
    PROVE  AccountsIInv'
<1> DEFINE x == call[c]
<1>1. /\ Sane(x) /\ x.st = "open" /\ Head(x.todo) = s
      /\ ~crossed /\ ~cut /\ x.op \in Opens => Opening(x, Ahead(x), open, store, stale)
      /\ ~crossed /\ ~cut => Beside(x, open)
  BY HandlerHas
<1>2. \A y : Goes(z, y) /\ y.st = "open" => Read(y)
  BY <1>1, ReadGoes
<1>3. z.op = x.op /\ z.target = x.target
  BY DEF Same
<1>4. ASSUME ~crossed, ~cut, x.op \in Opens PROVE Opening(z, Ahead(x) \ {s}, open, store, stale)
  <2>1. PICK steps : steps = Ahead(x)
    OBVIOUS
  <2>2. Opening(z, steps, open, store, stale)
    BY <1>1, <1>3, <1>4, <2>1 DEF Opening
  <2>3. s \in {"verify", "decrypt", "getHd", "getSk", "putMain", "clearWallet", "extraHd", "extraSk", "reveal"}
    OBVIOUS
  <2> QED
    BY <2>1, <2>2, <2>3, OpeningPass
<1>5. ~crossed /\ ~cut => Beside(z, open)
  BY <1>1, <1>3 DEF Beside
<1> QED
  BY <1>2, <1>4, <1>5, GoesKeeps

LEMMA VerifyKeeps ==
    ASSUME AccountsIInv, NEW c \in Calls, Verify(c) PROVE AccountsIInv'
<1>1. PICK s \in {"verify", "decrypt"} : Doing(c, s)
  BY DEF Verify
<1>2. UNCHANGED Kept
  BY DEF Verify
<1>3. \/ call' = [call EXCEPT ![c] = Forward(call[c])]
      \/ call' = [call EXCEPT ![c] = Denied(call[c])]
  BY DEF Verify, Proceeds, Ends
<1>4. call[c] \in Handlers /\ Same(call[c], call[c])
  BY <1>1, HandlerHas DEF Same
<1>5. CASE call' = [call EXCEPT ![c] = Forward(call[c])]
  BY <1>1, <1>2, <1>4, <1>5, PassKeeps
<1>6. CASE call' = [call EXCEPT ![c] = Denied(call[c])]
  BY <1>1, <1>2, <1>6, DenyKeeps
<1> QED
  BY <1>3, <1>5, <1>6

LEMMA RevealKeeps ==
    ASSUME AccountsIInv, NEW c \in Calls, RevealKey(c) PROVE AccountsIInv'
<1>1. Doing(c, "reveal") /\ UNCHANGED Kept
  BY DEF RevealKey
<1>3. \/ call' = [call EXCEPT ![c] = Forward(call[c])]
      \/ call' = [call EXCEPT ![c] = Denied(call[c])]
  BY DEF RevealKey, Proceeds, Ends
<1>4. call[c] \in Handlers /\ Same(call[c], call[c])
  BY <1>1, HandlerHas DEF Same
<1>5. CASE call' = [call EXCEPT ![c] = Forward(call[c])]
  BY <1>1, <1>4, <1>5, PassKeeps
<1>6. CASE call' = [call EXCEPT ![c] = Denied(call[c])]
  BY <1>1, <1>6, DenyKeeps
<1> QED
  BY <1>3, <1>5, <1>6

LEMMA GetHdKeeps ==
    ASSUME AccountsIInv, NEW c \in Calls, GetHd(c) PROVE AccountsIInv'
<1>1. Doing(c, "getHd") /\ UNCHANGED Kept
  BY DEF GetHd
<1>2. PICK z : z = [call[c] EXCEPT !.hd = hdList]
  OBVIOUS
<1>3. call[c] \in Handlers /\ hdList \subseteq HdEntries
  BY <1>1, HandlerHas DEF AccountsIInv, AccountsTyped, AccountsTypeOK, HdEntries
<1>4. /\ z \in Handlers /\ Same(call[c], z) /\ z.accounts = call[c].accounts /\ z.active = call[c].active
      /\ z.extra = call[c].extra /\ z.chosen = call[c].chosen
  BY <1>2, <1>3 DEF Handlers, Same
<1>5. \/ call' = [call EXCEPT ![c] = Forward(z)]
      \/ call[c].op = "password" /\ call' = [call EXCEPT ![c] = Denied(call[c])]
  BY <1>2 DEF GetHd, Ends
<1>6. CASE call' = [call EXCEPT ![c] = Forward(z)]
  BY <1>1, <1>4, <1>6, PassKeeps
<1>7. CASE call[c].op = "password" /\ call' = [call EXCEPT ![c] = Denied(call[c])]
  BY <1>1, <1>7, DenyKeeps
<1> QED
  BY <1>5, <1>6, <1>7

LEMMA GetSkKeeps ==
    ASSUME AccountsIInv, NEW c \in Calls, GetSk(c) PROVE AccountsIInv'
<1>1. Doing(c, "getSk") /\ UNCHANGED Kept
  BY DEF GetSk
<1>2. PICK z : z = [call[c] EXCEPT !.sk = skList]
  OBVIOUS
<1>3. call[c] \in Handlers /\ skList \subseteq SkEntries
  BY <1>1, HandlerHas DEF AccountsIInv, AccountsTyped, AccountsTypeOK, SkEntries
<1>4. /\ z \in Handlers /\ Same(call[c], z) /\ z.accounts = call[c].accounts /\ z.active = call[c].active
      /\ z.extra = call[c].extra /\ z.chosen = call[c].chosen
  BY <1>2, <1>3 DEF Handlers, Same
<1>5. \/ call' = [call EXCEPT ![c] = Forward(z)]
      \/ call[c].op = "password" /\ call' = [call EXCEPT ![c] = Denied(call[c])]
  BY <1>2 DEF GetSk, Ends
<1>6. CASE call' = [call EXCEPT ![c] = Forward(z)]
  BY <1>1, <1>4, <1>6, PassKeeps
<1>7. CASE call[c].op = "password" /\ call' = [call EXCEPT ![c] = Denied(call[c])]
  BY <1>1, <1>7, DenyKeeps
<1> QED
  BY <1>5, <1>6, <1>7

LEMMA MnemonicKeeps ==
    ASSUME AccountsIInv, NEW c \in Calls, Mnemonic(c) PROVE AccountsIInv'
<1> DEFINE x == call[c]
           w == x.target.wallet
           has == IF w = Primary THEN open.seed ELSE w \in open.hd \/ (x.op = "switch" /\ w \in open.sk)
<1>1. Doing(c, "mnemonic") /\ UNCHANGED Kept
  BY DEF Mnemonic
<1>2. /\ Sane(x) /\ x \in Handlers /\ x.st = "open" /\ Head(x.todo) = "mnemonic" /\ "mnemonic" \in Ahead(x)
      /\ Allowed(x.op, Ahead(x)) /\ Read(x) /\ Asked(x)
      /\ ~crossed /\ ~cut /\ x.op \in Opens => Opening(x, Ahead(x), open, store, stale)
      /\ ~crossed /\ ~cut => Beside(x, open)
  BY <1>1, HandlerHas
<1>3. \/ has /\ call' = [call EXCEPT ![c] = Forward(x)]
      \/ call' = [call EXCEPT ![c] = Denied(x)]
  BY DEF Mnemonic, Proceeds, Ends
<1>4. x.op \in {"add", "switch"} /\ Same(x, x)
  BY <1>2 DEF Allowed, Has, Same
<1>5. CASE has /\ call' = [call EXCEPT ![c] = Forward(x)]
  <2>1. x.op = "add" => w \notin SKs
    <3>1. open.hd \subseteq HDs
      BY DEF AccountsIInv, AccountsTyped, Sessions
    <3> QED
      BY <1>5, <3>1, AccountsAssumptions
  <2>2. \A y : Goes(x, y) /\ y.st = "open" => Read(y)
    <3> SUFFICES ASSUME NEW y, Goes(x, y), y.st = "open" PROVE Read(y)
      OBVIOUS
    <3>1. PICK steps, rest : steps = Ahead(x) /\ rest = Ahead(y)
      OBVIOUS
    <3>2. /\ y.op = x.op /\ y.target = x.target /\ rest = steps \ {"mnemonic"} /\ y.accounts = x.accounts
          /\ y.active = x.active /\ y.extra = x.extra
      BY <1>2, <3>1 DEF Goes, Reading
    <3> QED
      BY <1>2, <2>1, <3>1, <3>2 DEF Read
  <2>3. ASSUME ~crossed, ~cut, x.op \in Opens PROVE Opening(x, Ahead(x) \ {"mnemonic"}, open, store, stale)
    <3>1. x.op = "switch" /\ Opening(x, Ahead(x), open, store, stale)
      BY <1>2, <1>4, <2>3 DEF Opens
    <3>2. PICK steps : steps = Ahead(x)
      OBVIOUS
    <3>3. Resting(open, store, stale)
      BY <1>2, <3>1 DEF Opening
    <3>4. open # Closed
      <4>1. open.seed \/ open.hd # {} \/ open.sk # {}
        BY <1>5
      <4>2. Closed.seed = FALSE /\ Closed.hd = {} /\ Closed.sk = {}
        BY DEF Closed
      <4> QED
        BY <4>1, <4>2
    <3>5. open.pk # Nil /\ (~stale => open.seed)
      BY <3>3, <3>4 DEF Resting, Agrees
    <3>6. Opening(x, steps \ {"mnemonic"}, open, store, stale)
      BY <3>1, <3>2, <3>5 DEF Opening, Placed
    <3> QED
      BY <3>2, <3>6
  <2> QED
    BY <1>1, <1>2, <1>4, <1>5, <2>2, <2>3, GoesKeeps
<1>6. CASE call' = [call EXCEPT ![c] = Denied(x)]
  BY <1>1, <1>6, DenyKeeps
<1> QED
  BY <1>3, <1>5, <1>6

LEMMA GetStoreKeeps ==
    ASSUME AccountsIInv, NEW c \in Calls, GetStore(c) PROVE AccountsIInv'
<1> DEFINE x == call[c]
<1>1. Doing(c, "getStore") /\ UNCHANGED Kept
  BY DEF GetStore
<1>2. /\ Sane(x) /\ x \in Handlers /\ x.st = "open" /\ Head(x.todo) = "getStore" /\ "getStore" \in Ahead(x)
      /\ Allowed(x.op, Ahead(x)) /\ Read(x) /\ Asked(x)
      /\ ~crossed /\ ~cut /\ x.op \in Opens => Opening(x, Ahead(x), open, store, stale)
      /\ ~crossed /\ ~cut => Beside(x, open)
  BY <1>1, HandlerHas
<1>3. PICK z : z = [x EXCEPT !.accounts = store.accounts, !.active = store.active]
  OBVIOUS
<1>4. \/ Fits(x.op, x.target) /\ call' = [call EXCEPT ![c] = Forward(z)]
      \/ ~Fits(x.op, x.target) /\ call' = [call EXCEPT ![c] = Denied(x)]
  BY <1>3 DEF GetStore, Ends
<1>5. store \in Stores
  BY DEF AccountsIInv, AccountsTyped
<1>6. /\ z \in Handlers /\ Same(x, z) /\ z.accounts = store.accounts /\ z.active = store.active
      /\ z.extra = x.extra /\ z.chosen = x.chosen /\ z.op = x.op /\ z.target = x.target
      /\ Ahead(z) = Ahead(x) /\ Head(z.todo) = "getStore"
  <2>1. store.accounts \in SUBSET AllAccounts /\ store.active \in AllAccounts \cup {Nil}
    BY <1>5 DEF Stores
  <2>2. /\ z \in Handlers /\ Same(x, z) /\ z.accounts = store.accounts /\ z.active = store.active
        /\ z.extra = x.extra /\ z.chosen = x.chosen
    BY <1>2, <1>3, <2>1 DEF Handlers, Same
  <2> QED
    BY <1>2, <2>2 DEF Same, Ahead
<1>7. CASE Fits(x.op, x.target) /\ call' = [call EXCEPT ![c] = Forward(z)]
  <2>1. \A y : Goes(z, y) /\ y.st = "open" => Read(y)
    <3> SUFFICES ASSUME NEW y, Goes(z, y), y.st = "open" PROVE Read(y)
      OBVIOUS
    <3>1. PICK steps, rest : steps = Ahead(x) /\ rest = Ahead(y)
      OBVIOUS
    <3>2. /\ y.op = x.op /\ y.target = x.target /\ rest = steps \ {"getStore"} /\ y.accounts = store.accounts
          /\ y.active = store.active /\ y.extra = x.extra
      BY <1>6, <3>1 DEF Goes, Reading
    <3>3. /\ x.op = "switch" => x.target \in store.accounts
          /\ x.op = "remove" => x.target # First /\ x.target # store.active
          /\ x.op = "removeHd" => \A a \in store.accounts : a = store.active => a.wallet # x.target.wallet
      BY <1>7 DEF Fits
    <3>4. x.op # "create"
      BY <1>2 DEF Allowed, Has, Imports, Removes
    <3>5. x.op = "unlock" => "fill" \in rest
      <4>1. x.op = "unlock" => Follows(x.todo, "getStore", "fill")
        BY <1>2 DEF Sane, Program, Order
      <4>2. x.op = "unlock" => "fill" \in Ahead(x)
        BY <1>2, <4>1, FollowsAhead DEF Ahead
      <4> QED
        BY <3>1, <3>2, <4>2
    <3> QED
      BY <1>2, <3>1, <3>2, <3>3, <3>4, <3>5 DEF Read
  <2>2. ASSUME ~crossed, ~cut, x.op \in Opens PROVE Opening(z, Ahead(x) \ {"getStore"}, open, store, stale)
    <3>1. Opening(x, Ahead(x), open, store, stale) /\ x.op \in {"unlock", "switch"}
      BY <1>2, <2>2 DEF Allowed, Has, Opens, Imports, Removes
    <3>2. PICK steps : steps = Ahead(x)
      OBVIOUS
    <3>3. CASE x.op = "unlock"
      <4>1. "fill" \in steps
        <5>1. Follows(x.todo, "getStore", "fill")
          BY <1>2, <3>3 DEF Sane, Program, Order
        <5> QED
          BY <1>2, <3>2, <5>1, FollowsAhead DEF Ahead
      <4>2. ~stale => (store.accounts # {} => store.active \in store.accounts)
        BY DEF AccountsIInv, ActiveKept, PrimaryListed
      <4>3. Opening(z, steps \ {"getStore"}, open, store, stale)
        BY <1>6, <3>1, <3>2, <3>3, <4>1, <4>2 DEF Opening, Placed
      <4> QED
        BY <3>2, <4>3
    <3>4. CASE x.op = "switch"
      <4>1. Opening(z, steps \ {"getStore"}, open, store, stale)
        BY <1>6, <3>1, <3>2, <3>4 DEF Opening, Placed
      <4> QED
        BY <3>2, <4>1
    <3> QED
      BY <3>1, <3>3, <3>4
  <2>3. ~crossed /\ ~cut => Beside(z, open)
    BY <1>2, <1>6 DEF Beside
  <2> QED
    BY <1>1, <1>6, <1>7, <2>1, <2>2, <2>3, GoesKeeps
<1>8. CASE ~Fits(x.op, x.target) /\ call' = [call EXCEPT ![c] = Denied(x)]
  <2>1. x.op \notin Opens \/ x.op = "switch"
    BY <1>8 DEF Fits, Opens
  <2> QED
    BY <1>1, <1>8, <2>1, DenyKeeps
<1> QED
  BY <1>4, <1>7, <1>8

\* While an import or a removal runs, no handler that opens or closes the session does.
LEMMA BesideRests ==
    ASSUME AccountsIInv, NEW c \in Calls, call[c].st = "open", call[c].op \in Imports \cup Removes, ~crossed, ~cut
    PROVE  Resting(open, store, stale) /\ \A d \in Calls : call[d].st = "open" => call[d].op \notin Opens
<1>1. call[c].op \in OpenWriters /\ call[c].op \notin Opens
  BY DEF OpenWriters, Opens, Imports, Removes
<1>2. \A d \in Calls : call[d].st = "open" => call[d].op \notin Opens
  BY <1>1 DEF AccountsIInv, Alone
<1> QED
  BY <1>2 DEF AccountsIInv, SessionKept

LEMMA GetExtraKeeps ==
    ASSUME AccountsIInv, NEW c \in Calls, GetExtra(c) PROVE AccountsIInv'
<1> DEFINE x == call[c]
<1>1. PICK s \in {"getExtraHd", "getExtraSk"} : Doing(c, s)
  BY DEF GetExtra
<1>2. UNCHANGED Kept
  BY DEF GetExtra
<1>3. /\ Sane(x) /\ x \in Handlers /\ x.st = "open" /\ Head(x.todo) = s /\ s \in Ahead(x)
      /\ Allowed(x.op, Ahead(x)) /\ Read(x) /\ Asked(x)
      /\ ~crossed /\ ~cut => Beside(x, open)
  BY <1>1, HandlerHas
<1>4. PICK more : more = IF s = "getExtraHd" THEN open.hd ELSE open.sk
  OBVIOUS
<1>5. Doing(c, "getExtraHd") <=> s = "getExtraHd"
  BY <1>1, <1>3 DEF Doing
<1>6. PICK z : z = [x EXCEPT !.extra = more]
  OBVIOUS
<1>7. call' = [call EXCEPT ![c] = Forward(z)]
  BY <1>4, <1>5, <1>6 DEF GetExtra, Ends
<1>8. /\ open.hd \subseteq HDs /\ open.sk \subseteq SKs
      /\ (s = "getExtraHd" => more \subseteq HDs) /\ (s = "getExtraSk" => more \subseteq SKs)
  BY <1>4 DEF AccountsIInv, AccountsTyped, Sessions
<1>9. /\ z \in Handlers /\ Same(x, z) /\ z.accounts = x.accounts /\ z.active = x.active
      /\ z.extra = more /\ z.chosen = x.chosen /\ z.op = x.op /\ z.target = x.target
      /\ Ahead(z) = Ahead(x) /\ Head(z.todo) = s
  <2>1. more \subseteq Wallets
    BY <1>8 DEF Wallets
  <2>2. /\ z \in Handlers /\ Same(x, z) /\ z.accounts = x.accounts /\ z.active = x.active
        /\ z.extra = more /\ z.chosen = x.chosen
    BY <1>3, <1>6, <2>1 DEF Handlers, Same
  <2> QED
    BY <1>3, <2>2 DEF Same, Ahead
<1>10. x.op \in Imports \cup Removes /\ x.op \notin Opens
  BY <1>3 DEF Allowed, Has, Imports, Removes, Opens
<1>11. /\ s = "getExtraHd" => "putExtraSk" \notin Ahead(x)
       /\ s = "getExtraSk" => "putExtraHd" \notin Ahead(x)
  <2>1. PICK steps : steps = Ahead(x)
    OBVIOUS
  <2>2. CASE x.op = "removeHd"
    <3>1. \/ "saveHd" \notin steps /\ "getExtraHd" \notin steps /\ "putExtraHd" \notin steps
          \/ "saveSk" \notin steps /\ "getExtraSk" \notin steps /\ "putExtraSk" \notin steps
      BY <1>3, <2>1, <2>2 DEF Allowed
    <3> QED
      BY <1>3, <2>1, <3>1
  <2>3. CASE x.op # "removeHd"
    <3>1. /\ Has(x.op, steps, "getExtraHd", {"importHd", "removeHd"})
          /\ Has(x.op, steps, "putExtraHd", {"importHd", "removeHd"})
          /\ Has(x.op, steps, "getExtraSk", {"importSk"} \cup Removes)
          /\ Has(x.op, steps, "putExtraSk", {"importSk"} \cup Removes)
      BY <1>3, <2>1 DEF Allowed
    <3> QED
      BY <1>3, <2>1, <2>3, <3>1 DEF Has, Removes
  <2> QED
    BY <2>2, <2>3
<1>12. \A y : Goes(z, y) /\ y.st = "open" => Read(y)
  <2> SUFFICES ASSUME NEW y, Goes(z, y), y.st = "open" PROVE Read(y)
    OBVIOUS
  <2>1. PICK steps, rest : steps = Ahead(x) /\ rest = Ahead(y)
    OBVIOUS
  <2>2. /\ y.op = x.op /\ y.target = x.target /\ rest = steps \ {s} /\ y.accounts = x.accounts
        /\ y.active = x.active /\ y.extra = more
    BY <1>9, <2>1 DEF Goes, Reading
  <2>3. /\ "putExtraHd" \in rest => y.extra \subseteq HDs
        /\ "putExtraSk" \in rest => y.extra \subseteq SKs
    BY <1>8, <1>11, <2>1, <2>2
  <2> QED
    BY <1>3, <2>1, <2>2, <2>3 DEF Read
<1>13. ~crossed /\ ~cut => Beside(z, open)
  <2> SUFFICES ASSUME ~crossed, ~cut PROVE Beside(z, open)
    OBVIOUS
  <2>1. Resting(open, store, stale)
    BY <1>3, <1>10, BesideRests
  <2>2. open.pk = Nil => more = {}
    BY <1>4, <2>1 DEF Resting, Closed
  <2> QED
    BY <1>3, <1>9, <2>2 DEF Beside
<1> QED
  BY <1>1, <1>2, <1>7, <1>9, <1>10, <1>12, <1>13, GoesKeeps

\* A handler goes on after a write.
LEMMA WriteKeeps ==
    ASSUME AccountsIInv, NEW c \in Calls, NEW s, Doing(c, s), NEW z \in Handlers, Same(call[c], z),
           call' = [call EXCEPT ![c] = Forward(z)],
           \A y : Goes(z, y) /\ y.st = "open" => Read(y),
           main' \in Passwords \cup {Nil}, hdList' \subseteq HdEntries, skList' \subseteq SkEntries,
           store' \in Stores, open' \in Sessions, stale' \in BOOLEAN, rekeyed' \in BOOLEAN,
           UNCHANGED <<plan, stops, cut, crossed>>,
           ActiveKept', NoneBricked', OwnedKeys',
           ~crossed /\ ~cut /\ call[c].op \in Opens => Opening(z, Ahead(call[c]) \ {s}, open', store', stale'),
           call[c].op \notin Opens => SessionKept'
    PROVE  AccountsIInv'
<1> DEFINE x == call[c]
<1>0. PICK y : y = Forward(z)
  OBVIOUS
<1>1. /\ Goes(z, y) /\ Sane(x) /\ x.st = "open" /\ Head(x.todo) = s /\ Ahead(z) = Ahead(x) /\ z.op = x.op
  BY <1>0, Moves DEF AccountsIInv
<1>2. Sane(y)
  BY <1>1, SaneGoes
<1>3. y.op = x.op
  BY <1>1 DEF Goes
<1>4. cut' \in BOOLEAN /\ crossed' \in BOOLEAN /\ crossed' = crossed /\ cut' = cut
  BY DEF AccountsIInv, AccountsTyped
<1>5. AccountsTyped'
  BY <1>0, <1>2, <1>4, TypedStep DEF AccountsIInv
<1>6. Alone'
  BY <1>0, <1>1, <1>3, <1>4, AloneStep DEF AccountsIInv
<1>7. SessionKept'
  <2>1. CASE x.op \in Opens
    <3>1. ~crossed /\ ~cut => Opening(z, Ahead(x) \ {Head(x.todo)}, open', store', stale')
      BY <1>1, <2>1
    <3>2. ASSUME ~crossed, ~cut
          PROVE  /\ y.st = "open" => Opening(y, Ahead(y), open', store', stale')
                 /\ y.st # "open" => Resting(open', store', stale')
      <4>1. PICK o \in Sessions : o = open'
        OBVIOUS
      <4>2. PICK old \in BOOLEAN : old = stale'
        OBVIOUS
      <4>3. PICK st : st = store'
        OBVIOUS
      <4>4. Opening(z, Ahead(x) \ {Head(x.todo)}, o, st, old)
        BY <3>1, <3>2, <4>1, <4>2, <4>3
      <4>5. /\ y.st = "open" => Opening(y, Ahead(y), o, st, old)
            /\ y.st # "open" => Resting(o, st, old)
        BY <1>1, <2>1, <4>4, OpeningGoes
      <4> QED
        BY <4>1, <4>2, <4>3, <4>5
    <3> QED
      BY <1>0, <1>1, <1>3, <1>4, <2>1, <3>2, SessionOpens DEF AccountsIInv
  <2> QED
    BY <2>1
<1> QED
  BY <1>5, <1>6, <1>7 DEF AccountsIInv

\* A handler goes on past a step that touches neither the list nor the keys.
LEMMA OwnedPass ==
    ASSUME AccountsIInv, NEW c \in Calls, NEW s, Doing(c, s), s \notin {"saveStore", "saveSk"},
           NEW z \in Handlers, Same(call[c], z), call' = [call EXCEPT ![c] = Forward(z)],
           skList' = skList, store'.accounts = store.accounts, cut' = cut, stale => stale'
    PROVE  OwnedKeys'
<1> DEFINE x == call[c]
<1>0. PICK y : y = Forward(z)
  OBVIOUS
<1>1. Goes(z, y) /\ Sane(x) /\ x.st = "open" /\ Head(x.todo) = s
  BY <1>0, Moves DEF AccountsIInv
<1>2. \A w : (Adding(x, w) => Adding(y, w)) /\ (Removing(x, w) => Removing(y, w))
  BY <1>1, OwesGoes
<1> QED
  BY <1>0, <1>2, OwnedStep DEF AccountsIInv

LEMMA TypedNow ==
    ASSUME AccountsIInv
    PROVE  /\ main \in Passwords \cup {Nil} /\ hdList \subseteq HdEntries /\ skList \subseteq SkEntries
           /\ store \in Stores /\ open \in Sessions /\ stale \in BOOLEAN /\ rekeyed \in BOOLEAN
  BY DEF AccountsIInv, AccountsTyped, AccountsTypeOK, HdEntries, SkEntries

\* A step of a handler that opens or closes the session, the storage as it was.
LEMMA SessionStep ==
    ASSUME AccountsIInv, NEW c \in Calls, NEW s, Doing(c, s),
           s \notin {"saveStore", "saveSk", "mnemonic", "getStore", "fill"}, call[c].op \in Opens,
           call' = [call EXCEPT ![c] = Forward(call[c])], open' \in Sessions,
           UNCHANGED <<main, store, hdList, skList, plan, stops, stale, rekeyed, cut, crossed>>,
           ~crossed /\ ~cut => Opening(call[c], Ahead(call[c]) \ {s}, open', store, stale)
    PROVE  AccountsIInv'
<1>1. Sane(call[c]) /\ call[c] \in Handlers /\ call[c].st = "open" /\ Head(call[c].todo) = s
  BY HandlerHas
<1>2. Same(call[c], call[c])
  BY DEF Same
<1>3. \A y : Goes(call[c], y) /\ y.st = "open" => Read(y)
  BY <1>1, <1>2, ReadGoes
<1>4. ActiveKept' /\ NoneBricked'
  BY DEF AccountsIInv, ActiveKept, NoneBricked
<1>5. OwnedKeys'
  BY <1>1, <1>2, OwnedPass
<1> QED
  BY <1>1, <1>2, <1>3, <1>4, <1>5, TypedNow, WriteKeeps

LEMMA ReadableIds ==
    ASSUME NEW p
    PROVE  /\ \A list \in SUBSET HdEntries : Readable(list, p) \subseteq HDs
           /\ \A list \in SUBSET SkEntries : Readable(list, p) \subseteq SKs
  BY DEF Readable, HdEntries, SkEntries

\* What comes before the head of a program is not ahead any more.
LEMMA BeforeHead ==
    ASSUME NEW x, Sane(x), x.st = "open"
    PROVE  /\ x.op = "unlock" /\ Head(x.todo) \in {"getStore", "fill", "extraHd", "extraSk", "choose", "putAccount", "putSecret", "putSeed"} =>
                 "decrypt" \notin Ahead(x)
           /\ x.op = "unlock" /\ Head(x.todo) \in {"fill", "choose"} => "getStore" \notin Ahead(x)
           /\ x.op = "unlock" /\ Head(x.todo) = "choose" => "fill" \notin Ahead(x)
           /\ x.op = "switch" /\ Head(x.todo) = "saveStore" => "getStore" \notin Ahead(x)
           /\ x.op = "switch" /\ Head(x.todo) \in {"saveStore", "putAccount", "putSecret"} => "mnemonic" \notin Ahead(x)
           /\ x.op = "add" /\ Head(x.todo) = "saveStore" => "mnemonic" \notin Ahead(x)
           /\ x.op \in Removes /\ Head(x.todo) = "saveStore" => "getStore" \notin Ahead(x)
           /\ x.op = "reset" /\ Head(x.todo) \in {"dropAccount", "dropSecret", "dropSeed", "dropHd", "dropSk", "clearWallet"} =>
                 "verify" \notin Ahead(x)
<1>1. /\ x.todo \in Seq(StepNames) /\ x.todo # <<>> /\ Once(x.todo) /\ Order(x.op, x.target.wallet, x.todo)
  BY DEF Sane, Handlers, Program
<1>2. \A s : Follows(x.todo, s, Head(x.todo)) => s \notin Ahead(x)
  BY <1>1, HeadFollows DEF Ahead
<1>3. CASE x.op = "unlock"
  BY <1>1, <1>2, <1>3 DEF Order, Removes
<1>4. CASE x.op = "switch"
  BY <1>1, <1>2, <1>4 DEF Order, Removes
<1>5. CASE x.op = "add"
  BY <1>1, <1>2, <1>5 DEF Order, Removes
<1>6. CASE x.op \in Removes
  BY <1>1, <1>2, <1>6 DEF Order, Removes
<1>7. CASE x.op = "reset"
  BY <1>1, <1>2, <1>7 DEF Order, Removes
<1> QED
  BY <1>3, <1>4, <1>5, <1>6, <1>7

LEMMA ExtraHdKeeps ==
    ASSUME AccountsIInv, NEW c \in Calls, ExtraHd(c) PROVE AccountsIInv'
<1> DEFINE x == call[c]
<1>1. /\ Doing(c, "extraHd") /\ call' = [call EXCEPT ![c] = Forward(x)]
      /\ UNCHANGED <<main, store, hdList, skList, plan, stops, stale, rekeyed, cut, crossed>>
  BY DEF ExtraHd, Ends
<1>2. PICK ids : ids = Readable(x.hd, x.pw)
  OBVIOUS
<1>3. /\ Sane(x) /\ x \in Handlers /\ x.st = "open" /\ Head(x.todo) = "extraHd" /\ "extraHd" \in Ahead(x)
      /\ Allowed(x.op, Ahead(x))
      /\ ~crossed /\ ~cut /\ x.op \in Opens => Opening(x, Ahead(x), open, store, stale)
  BY <1>1, HandlerHas
<1>4. x.op = "unlock" /\ "decrypt" \notin Ahead(x)
  BY <1>3, BeforeHead DEF Allowed, Has
<1>5. ids \subseteq HDs
  BY <1>2, <1>3, ReadableIds DEF Handlers
<1>6. open \in Sessions
  BY TypedNow
<1>7. /\ open' \in Sessions /\ open'.pk = open.pk /\ open'.secret = open.secret /\ open'.seed = open.seed
  BY <1>2, <1>5, <1>6 DEF ExtraHd, Sessions
<1>8. ASSUME ~crossed, ~cut PROVE Opening(x, Ahead(x) \ {"extraHd"}, open', store, stale)
  <2>1. PICK steps : steps = Ahead(x)
    OBVIOUS
  <2>2. Opening(x, steps, open, store, stale)
    BY <1>3, <1>4, <1>8, <2>1 DEF Opens
  <2>3. Opening(x, steps \ {"extraHd"}, open', store, stale)
    BY <1>4, <1>7, <2>1, <2>2 DEF Opening, Placed
  <2> QED
    BY <2>1, <2>3
<1>9. x.op \in Opens
  BY <1>4 DEF Opens
<1> QED
  BY <1>1, <1>7, <1>8, <1>9, SessionStep

LEMMA ExtraSkKeeps ==
    ASSUME AccountsIInv, NEW c \in Calls, ExtraSk(c) PROVE AccountsIInv'
<1> DEFINE x == call[c]
<1>1. /\ Doing(c, "extraSk") /\ call' = [call EXCEPT ![c] = Forward(x)]
      /\ UNCHANGED <<main, store, hdList, skList, plan, stops, stale, rekeyed, cut, crossed>>
  BY DEF ExtraSk, Ends
<1>2. PICK ids : ids = Readable(x.sk, x.pw)
  OBVIOUS
<1>3. /\ Sane(x) /\ x \in Handlers /\ x.st = "open" /\ Head(x.todo) = "extraSk" /\ "extraSk" \in Ahead(x)
      /\ Allowed(x.op, Ahead(x))
      /\ ~crossed /\ ~cut /\ x.op \in Opens => Opening(x, Ahead(x), open, store, stale)
  BY <1>1, HandlerHas
<1>4. x.op = "unlock" /\ "decrypt" \notin Ahead(x)
  BY <1>3, BeforeHead DEF Allowed, Has
<1>5. ids \subseteq SKs
  BY <1>2, <1>3, ReadableIds DEF Handlers
<1>6. open \in Sessions
  BY TypedNow
<1>7. /\ open' \in Sessions /\ open'.pk = open.pk /\ open'.secret = open.secret /\ open'.seed = open.seed
  BY <1>2, <1>5, <1>6 DEF ExtraSk, Sessions
<1>8. ASSUME ~crossed, ~cut PROVE Opening(x, Ahead(x) \ {"extraSk"}, open', store, stale)
  <2>1. PICK steps : steps = Ahead(x)
    OBVIOUS
  <2>2. Opening(x, steps, open, store, stale)
    BY <1>3, <1>4, <1>8, <2>1 DEF Opens
  <2>3. Opening(x, steps \ {"extraSk"}, open', store, stale)
    BY <1>4, <1>7, <2>1, <2>2 DEF Opening, Placed
  <2> QED
    BY <2>1, <2>3
<1>9. x.op \in Opens
  BY <1>4 DEF Opens
<1> QED
  BY <1>1, <1>7, <1>8, <1>9, SessionStep

Puts == {"putAccount", "putSecret", "putSeed"}
Drops == {"dropAccount", "dropSecret", "dropSeed", "dropHd", "dropSk"}

LEMMA SessionProgram ==
    ASSUME NEW s, NEW t,
           s = <<"putAccount", "putSecret", "putSeed">>,
           t = <<"dropAccount", "dropSecret", "dropSeed", "dropHd", "dropSk">>,
           NEW q, q = s \o t
    PROVE  ToSet(q) = Puts \cup Drops
<1>2. s \in Seq(StepNames) /\ Len(s) = 3 /\ t \in Seq(StepNames) /\ Len(t) = 5
  BY DEF StepNames
<1>3. /\ s[1] = "putAccount" /\ s[2] = "putSecret" /\ s[3] = "putSeed"
      /\ t[1] = "dropAccount" /\ t[2] = "dropSecret" /\ t[3] = "dropSeed" /\ t[4] = "dropHd" /\ t[5] = "dropSk"
  OBVIOUS
<1>4. /\ q \in Seq(StepNames) /\ Len(q) = Len(s) + Len(t)
      /\ \A i \in 1..Len(s) : q[i] = s[i]
      /\ \A i \in 1..Len(t) : q[Len(s) + i] = t[i]
  BY <1>2, Concat
<1>5. DOMAIN q = {1, 2, 3, 4, 5, 6, 7, 8}
  BY <1>2, <1>4
<1>6. q[1] = s[1] /\ q[2] = s[2] /\ q[3] = s[3]
  BY <1>2, <1>4
<1>7. q[4] = t[1] /\ q[5] = t[2] /\ q[6] = t[3] /\ q[7] = t[4] /\ q[8] = t[5]
  BY <1>2, <1>4
<1> QED
  BY <1>3, <1>5, <1>6, <1>7 DEF ToSet, Puts, Drops

LEMMA SessionSteps == ToSet(OpenSession \o CloseSession) = Puts \cup Drops
  BY SessionProgram DEF OpenSession, CloseSession

LEMMA WriteSessionKeeps ==
    ASSUME AccountsIInv, NEW c \in Calls, WriteSession(c) PROVE AccountsIInv'
<1> DEFINE x == call[c]
<1>1. PICK s \in Puts \cup Drops : Doing(c, s) /\ open' = SessionWrite(x, s)
  BY SessionSteps DEF WriteSession
<1>2. /\ call' = [call EXCEPT ![c] = Forward(x)]
      /\ UNCHANGED <<main, store, hdList, skList, plan, stops, stale, rekeyed, cut, crossed>>
  BY DEF WriteSession, Ends
<1>3. /\ Sane(x) /\ x \in Handlers /\ x.st = "open" /\ Head(x.todo) = s /\ s \in Ahead(x)
      /\ Allowed(x.op, Ahead(x)) /\ Asked(x)
      /\ ~crossed /\ ~cut /\ x.op \in Opens => Opening(x, Ahead(x), open, store, stale)
  BY <1>1, HandlerHas
<1>4. PICK a : a = Opened(x)
  OBVIOUS
<1>5. /\ s \in {"putAccount", "putSecret"} => x.op \in {"create", "unlock", "switch"}
      /\ s = "putSeed" => x.op \in {"create", "unlock"}
      /\ s \in Drops => x.op \in {"lock", "reset"}
  BY <1>3 DEF Allowed, Has, Drops
<1>6. /\ x.op = "create" => a = First
      /\ x.op = "unlock" => a = x.chosen
      /\ x.op = "switch" => a = x.target
  BY <1>4 DEF Opened
<1>7. /\ x.chosen \in AllAccounts \cup {Nil} /\ x.target \in AllAccounts
      /\ x.op = "create" => x.target = First
  BY <1>3 DEF Handlers, Asked
<1>8. s \in {"putAccount", "putSecret"} => a \in AllAccounts \cup {Nil}
  BY <1>5, <1>6, <1>7
<1>9. open \in Sessions
  BY TypedNow
<1>10. /\ s = "putAccount" => open' = [open EXCEPT !.pk = a]
       /\ s = "putSecret" => open' = [open EXCEPT !.secret = a]
       /\ s = "putSeed" => open' = [open EXCEPT !.seed = TRUE]
       /\ s = "dropAccount" => open' = [open EXCEPT !.pk = Nil]
       /\ s = "dropSecret" => open' = [open EXCEPT !.secret = Nil]
       /\ s = "dropSeed" => open' = [open EXCEPT !.seed = FALSE]
       /\ s = "dropHd" => open' = [open EXCEPT !.hd = {}]
       /\ s = "dropSk" => open' = [open EXCEPT !.sk = {}]
  BY <1>1, <1>4 DEF SessionWrite
<1>11. /\ open' \in Sessions
       /\ open'.pk = IF s = "putAccount" THEN a ELSE IF s = "dropAccount" THEN Nil ELSE open.pk
       /\ open'.secret = IF s = "putSecret" THEN a ELSE IF s = "dropSecret" THEN Nil ELSE open.secret
       /\ open'.hd = IF s = "dropHd" THEN {} ELSE open.hd
       /\ open'.sk = IF s = "dropSk" THEN {} ELSE open.sk
  <2>1. CASE s = "putAccount"
    BY <1>8, <1>9, <1>10, <2>1 DEF Sessions
  <2>2. CASE s = "putSecret"
    BY <1>8, <1>9, <1>10, <2>2 DEF Sessions
  <2>3. CASE s \in {"putSeed", "dropSeed"}
    BY <1>9, <1>10, <2>3 DEF Sessions
  <2>4. CASE s \in {"dropAccount", "dropSecret"}
    BY <1>9, <1>10, <2>4 DEF Sessions
  <2>5. CASE s \in {"dropHd", "dropSk"}
    BY <1>9, <1>10, <2>5 DEF Sessions
  <2> QED
    BY <1>1, <2>1, <2>2, <2>3, <2>4, <2>5 DEF Puts, Drops
<1>12. /\ s = "putSeed" => open'.seed
       /\ s = "dropSeed" => ~open'.seed
       /\ s \notin {"putSeed", "dropSeed"} => open'.seed = open.seed
  BY <1>1, <1>9, <1>10 DEF Sessions, Puts, Drops
<1>13. x.op \in Opens /\ s \notin {"saveStore", "saveSk", "mnemonic", "getStore", "fill"}
  BY <1>1, <1>5 DEF Opens, Puts, Drops
<1>14. ASSUME ~crossed, ~cut PROVE Opening(x, Ahead(x) \ {s}, open', store, stale)
  <2>1. PICK steps : steps = Ahead(x)
    OBVIOUS
  <2>2. Opening(x, steps, open, store, stale)
    BY <1>3, <1>13, <1>14, <2>1
  <2>3. CASE x.op = "create"
    <3>1. s \in Puts
      BY <1>1, <1>5, <2>3 DEF Puts
    <3>2. /\ Placed(steps, open, First) /\ ("putSeed" \in steps \/ open.seed)
          /\ "saveStore" \notin steps /\ ~stale => store.active = First
      BY <2>2, <2>3 DEF Opening
    <3>3. Placed(steps \ {s}, open', First)
      BY <1>6, <1>11, <2>3, <3>1, <3>2 DEF Placed, Puts
    <3>4. "putSeed" \in steps \ {s} \/ open'.seed
      BY <1>12, <3>1, <3>2 DEF Puts
    <3>5. "saveStore" \notin steps \ {s} => "saveStore" \notin steps
      BY <3>1 DEF Puts
    <3>6. Opening(x, steps \ {s}, open', store, stale)
      BY <2>3, <3>2, <3>3, <3>4, <3>5 DEF Opening
    <3> QED
      BY <2>1, <3>6
  <2>4. CASE x.op = "unlock"
    <3>1. s \in Puts
      BY <1>1, <1>5, <2>4 DEF Puts
    <3>2. "decrypt" \notin steps
      BY <1>3, <2>1, <2>4, <3>1, BeforeHead DEF Puts
    <3>3. Placed(steps, open, x.chosen) /\ ("putSeed" \in steps \/ open.seed)
      BY <2>2, <2>4 DEF Opening
    <3>4. Placed(steps \ {s}, open', x.chosen)
      BY <1>6, <1>11, <2>4, <3>1, <3>3 DEF Placed, Puts
    <3>5. "putSeed" \in steps \ {s} \/ open'.seed
      BY <1>12, <3>1, <3>3 DEF Puts
    <3>6. \A t \in {"fill", "choose", "getStore", "decrypt"} : t \in steps \ {s} <=> t \in steps
      BY <3>1 DEF Puts
    <3>7. Opening(x, steps \ {s}, open', store, stale)
      BY <2>2, <2>4, <3>2, <3>4, <3>5, <3>6 DEF Opening
    <3> QED
      BY <2>1, <3>7
  <2>5. CASE x.op = "switch"
    <3>1. s \in {"putAccount", "putSecret"}
      BY <1>1, <1>5, <2>5 DEF Puts
    <3>2. "mnemonic" \notin steps
      BY <1>3, <2>1, <2>5, <3>1, BeforeHead
    <3>3. /\ Placed(steps, open, x.target) /\ open.pk # Nil /\ (~stale => open.seed)
          /\ "saveStore" \notin steps /\ ~stale => store.active = x.target
      BY <2>2, <2>5, <3>2 DEF Opening
    <3>4. Placed(steps \ {s}, open', x.target)
      BY <1>6, <1>11, <2>5, <3>1, <3>3 DEF Placed
    <3>5. open'.pk # Nil
      BY <1>6, <1>7, <1>11, <2>5, <3>1, <3>3, AccountsAssumptions
    <3>6. open'.seed = open.seed /\ ("saveStore" \notin steps \ {s} => "saveStore" \notin steps)
      BY <1>12, <3>1
    <3>7. Opening(x, steps \ {s}, open', store, stale)
      BY <2>5, <3>2, <3>3, <3>4, <3>5, <3>6 DEF Opening
    <3> QED
      BY <2>1, <3>7
  <2>6. CASE x.op \in {"lock", "reset"}
    <3>1. s \in Drops
      BY <1>1, <1>5, <2>6 DEF Puts
    <3>2. x.op = "reset" => "verify" \notin steps
      BY <1>3, <2>1, <3>1, BeforeHead DEF Drops
    <3>3. Dropped(steps, open)
      BY <2>2, <2>6 DEF Opening
    <3>4. Dropped(steps \ {s}, open')
      BY <1>11, <1>12, <3>1, <3>3 DEF Dropped, Drops
    <3>5. Opening(x, steps \ {s}, open', store, stale)
      BY <2>6, <3>2, <3>4 DEF Opening
    <3> QED
      BY <2>1, <3>5
  <2> QED
    BY <1>13, <2>3, <2>4, <2>5, <2>6 DEF Opens
<1> QED
  BY <1>1, <1>2, <1>11, <1>13, <1>14, SessionStep

LEMMA PutExtraKeeps ==
    ASSUME AccountsIInv, NEW c \in Calls, PutExtra(c) PROVE AccountsIInv'
<1> DEFINE x == call[c]
           w == x.target.wallet
<1>1. PICK s \in {"putExtraHd", "putExtraSk"} : Doing(c, s)
  BY DEF PutExtra
<1>2. PICK extra : extra = IF x.op \in Imports THEN x.extra \cup {w} ELSE x.extra \ {w}
  OBVIOUS
<1>3. /\ Sane(x) /\ x \in Handlers /\ x.st = "open" /\ Head(x.todo) = s /\ s \in Ahead(x)
      /\ Allowed(x.op, Ahead(x)) /\ Asked(x) /\ Read(x)
      /\ ~crossed /\ ~cut => Beside(x, open)
  BY <1>1, HandlerHas
<1>4. Doing(c, "putExtraHd") <=> s = "putExtraHd"
  BY <1>1, <1>3 DEF Doing
<1>5. /\ call' = [call EXCEPT ![c] = Forward(x)]
      /\ s = "putExtraHd" => open' = [open EXCEPT !.hd = extra]
      /\ s = "putExtraSk" => open' = [open EXCEPT !.sk = extra]
      /\ UNCHANGED <<main, store, hdList, skList, plan, stops, stale, rekeyed, cut, crossed>>
  BY <1>2, <1>4 DEF PutExtra, Ends, Imports
<1>6. x.op \in Imports \cup Removes /\ x.op \notin Opens
  BY <1>3 DEF Allowed, Has, Imports, Removes, Opens
<1>7. /\ s = "putExtraHd" => extra \subseteq HDs
      /\ s = "putExtraSk" => extra \subseteq SKs
  <2>1. /\ s = "putExtraHd" => x.extra \subseteq HDs /\ x.op \in {"importHd", "removeHd"}
        /\ s = "putExtraSk" => x.extra \subseteq SKs /\ x.op \in {"importSk"} \cup Removes
    BY <1>3 DEF Read, Allowed, Has
  <2>2. /\ x.op = "importHd" => w \in HDs
        /\ x.op = "importSk" => w \in SKs
    BY <1>3 DEF Asked
  <2> QED
    BY <1>2, <2>1, <2>2 DEF Imports, Removes
<1>8. open \in Sessions
  BY TypedNow
<1>9. /\ open' \in Sessions /\ open'.pk = open.pk /\ open'.secret = open.secret /\ open'.seed = open.seed
      /\ open'.hd = IF s = "putExtraHd" THEN extra ELSE open.hd
      /\ open'.sk = IF s = "putExtraSk" THEN extra ELSE open.sk
  BY <1>1, <1>5, <1>7, <1>8 DEF Sessions
<1>10. Same(x, x)
  BY DEF Same
<1>11. \A y : Goes(x, y) /\ y.st = "open" => Read(y)
  BY <1>1, <1>3, <1>10, ReadGoes
<1>12. ActiveKept' /\ NoneBricked'
  BY <1>5 DEF AccountsIInv, ActiveKept, NoneBricked
<1>13. OwnedKeys'
  BY <1>1, <1>3, <1>5, <1>10, OwnedPass
<1>14. SessionKept'
  <2> SUFFICES ASSUME ~crossed, ~cut
               PROVE  /\ (\A d \in Calls : call'[d].st = "open" => call'[d].op \notin Opens) => Resting(open', store', stale')
                      /\ \A d \in Calls : call'[d].st = "open" /\ call'[d].op \in Opens =>
                            Opening(call'[d], Ahead(call'[d]), open', store', stale')
                      /\ \A d \in Calls : call'[d].st = "open" => Beside(call'[d], open')
    BY <1>5 DEF SessionKept, Ahead
  <2>1. Resting(open, store, stale) /\ \A d \in Calls : call[d].st = "open" => call[d].op \notin Opens
    BY <1>3, <1>6, BesideRests
  <2>2. PICK y : y = Forward(x)
    OBVIOUS
  <2>3. Goes(x, y)
    BY <1>1, <1>3, <1>10, <2>2, Moves DEF AccountsIInv
  <2>4. /\ call'[c] = y /\ \A d \in Calls \ {c} : call'[d] = call[d]
        /\ y.op = x.op /\ (y.st = "open" => y.extra = x.extra)
    BY <1>5, <2>2, <2>3 DEF AccountsIInv, AccountsTyped, Goes, Reading
  <2>5. \A d \in Calls : call[d].st = "open" => Beside(call[d], open)
    BY DEF AccountsIInv, SessionKept
  <2>6. Beside(x, open) /\ (y.st = "open" => Beside(y, open))
    BY <1>3, <2>4 DEF Beside
  <2>7. \A d \in Calls : call'[d].st = "open" => Beside(call'[d], open) /\ call'[d].op \notin Opens
    BY <1>6, <2>1, <2>4, <2>5, <2>6
  <2>8. \A d \in Calls : call'[d].st = "open" => Beside(call'[d], open') /\ call'[d].op \notin Opens
    BY <1>9, <2>7 DEF Beside
  <2>9. Resting(open', store', stale')
    <3>1. CASE open.pk = Nil
      <4>1. open = Closed /\ x.extra = {} /\ x.op \notin Imports
        BY <1>6, <2>1, <2>6, <3>1 DEF Resting, Beside
      <4>2. extra = {} /\ Closed.hd = {} /\ Closed.sk = {}
        BY <1>2, <4>1 DEF Closed
      <4>3. open'.hd = {} /\ open'.sk = {} /\ open'.pk = Nil /\ open'.secret = Nil /\ open'.seed = FALSE
        BY <1>9, <4>1, <4>2 DEF Closed
      <4>4. open' = [pk |-> open'.pk, secret |-> open'.secret, seed |-> open'.seed, hd |-> open'.hd, sk |-> open'.sk]
        BY <1>9 DEF Sessions
      <4>5. open' = Closed
        BY <4>3, <4>4 DEF Closed
      <4> QED
        BY <1>9, <3>1, <4>5 DEF Resting
    <3>2. CASE open.pk # Nil
      BY <1>5, <1>9, <2>1, <3>2 DEF Resting, Agrees
    <3> QED
      BY <3>1, <3>2
  <2> QED
    BY <2>8, <2>9
<1> QED
  BY <1>1, <1>3, <1>5, <1>6, <1>9, <1>10, <1>11, <1>12, <1>13, <1>14, TypedNow, WriteKeeps

LEMMA PutMainKeeps ==
    ASSUME AccountsIInv, NEW c \in Calls, PutMain(c) PROVE AccountsIInv'
<1> DEFINE x == call[c]
<1>1. /\ Doing(c, "putMain") /\ call' = [call EXCEPT ![c] = Forward(x)] /\ main' = x.pw
      /\ rekeyed' = (rekeyed \/ main # Nil)
      /\ UNCHANGED <<store, hdList, skList, open, plan, stops, stale, cut, crossed>>
  BY DEF PutMain, Ends
<1>2. /\ Sane(x) /\ x \in Handlers /\ x.st = "open" /\ Head(x.todo) = "putMain" /\ "putMain" \in Ahead(x)
      /\ Allowed(x.op, Ahead(x)) /\ Asked(x)
      /\ ~crossed /\ ~cut /\ x.op \in Opens => Opening(x, Ahead(x), open, store, stale)
  BY <1>1, HandlerHas
<1>3. Same(x, x)
  BY DEF Same
<1>4. \A y : Goes(x, y) /\ y.st = "open" => Read(y)
  BY <1>2, <1>3, ReadGoes
<1>5. x.op = "create" /\ x.op \in Opens
  BY <1>2 DEF Allowed, Has, Opens
<1>6. ActiveKept'
  BY <1>1 DEF AccountsIInv, ActiveKept
<1>7. NoneBricked'
  <2> SUFFICES ASSUME ~stale, ~rekeyed, main = Nil
               PROVE  /\ \A a \in store'.accounts : a.wallet # Primary => Entry(a.wallet, main') \in hdList' \cup skList'
                      /\ \A e \in hdList' \cup skList' : e.under = main'
    BY <1>1 DEF NoneBricked
  <2>1. /\ \A a \in store.accounts : a.wallet # Primary => Entry(a.wallet, main) \in hdList \cup skList
        /\ \A e \in hdList \cup skList : e.under = main
    BY DEF AccountsIInv, NoneBricked
  <2>2. \A e \in hdList \cup skList : e.under \in Passwords
    BY TypedNow DEF HdEntries, SkEntries
  <2>3. hdList \cup skList = {}
    BY <2>1, <2>2, AccountsAssumptions
  <2> QED
    BY <1>1, <2>1, <2>3
<1>8. OwnedKeys'
  BY <1>1, <1>2, <1>3, OwnedPass
<1>9. main' \in Passwords \cup {Nil} /\ rekeyed' \in BOOLEAN
  BY <1>1, <1>2, TypedNow DEF Handlers
<1>10. ~crossed /\ ~cut => Opening(x, Ahead(x) \ {"putMain"}, open, store, stale)
  BY <1>2, <1>5, OpeningPass
<1> QED
  BY <1>1, <1>2, <1>3, <1>4, <1>5, <1>6, <1>7, <1>8, <1>9, <1>10, TypedNow, WriteKeeps

LEMMA ClearWalletKeeps ==
    ASSUME AccountsIInv, NEW c \in Calls, ClearWallet(c) PROVE AccountsIInv'
<1> DEFINE x == call[c]
<1>1. /\ Doing(c, "clearWallet") /\ call' = [call EXCEPT ![c] = Forward(x)]
      /\ main' = Nil /\ store' = Empty /\ hdList' = {} /\ skList' = {}
      /\ UNCHANGED <<open, plan, stops, stale, rekeyed, cut, crossed>>
  BY DEF ClearWallet, Ends
<1>2. /\ Sane(x) /\ x \in Handlers /\ x.st = "open" /\ Head(x.todo) = "clearWallet" /\ "clearWallet" \in Ahead(x)
      /\ Allowed(x.op, Ahead(x))
      /\ ~crossed /\ ~cut /\ x.op \in Opens => Opening(x, Ahead(x), open, store, stale)
  BY <1>1, HandlerHas
<1>3. Same(x, x)
  BY DEF Same
<1>4. \A y : Goes(x, y) /\ y.st = "open" => Read(y)
  BY <1>2, <1>3, ReadGoes
<1>5. x.op = "reset" /\ x.op \in Opens
  BY <1>2 DEF Allowed, Has, Opens
<1>6. store'.accounts = {} /\ store' \in Stores
  BY <1>1 DEF Empty, Stores
<1>7. ActiveKept' /\ NoneBricked' /\ OwnedKeys'
  BY <1>1, <1>6 DEF ActiveKept, PrimaryListed, NoneBricked, OwnedKeys
<1>8. ASSUME ~crossed, ~cut PROVE Opening(x, Ahead(x) \ {"clearWallet"}, open, store', stale)
  <2>1. PICK steps : steps = Ahead(x)
    OBVIOUS
  <2>2. "verify" \notin steps
    BY <1>2, <1>5, <2>1, BeforeHead
  <2>3. Dropped(steps, open)
    BY <1>2, <1>5, <1>8, <2>1 DEF Opening
  <2>4. Dropped(steps \ {"clearWallet"}, open)
    BY <2>3 DEF Dropped
  <2>5. Opening(x, steps \ {"clearWallet"}, open, store', stale)
    BY <1>5, <2>2, <2>4 DEF Opening
  <2> QED
    BY <2>1, <2>5
<1> QED
  BY <1>1, <1>2, <1>3, <1>4, <1>5, <1>6, <1>7, <1>8, TypedNow, WriteKeeps

LEMMA ThrowsKeeps ==
    ASSUME AccountsIInv, NEW c \in Calls, Throws(c) PROVE AccountsIInv'
<1> DEFINE x == call[c]
<1>1. PICK y : y = Over(x, "lost")
  OBVIOUS
<1>2. /\ Doing(c, "throws") /\ call' = [call EXCEPT ![c] = y] /\ cut' = TRUE
      /\ UNCHANGED <<main, store, hdList, skList, open, plan, stops, stale, rekeyed, crossed>>
  BY <1>1 DEF Throws, Ends
<1>3. Sane(x) /\ x.st = "open"
  BY <1>2, HandlerHas
<1>4. Sane(y) /\ y.op = x.op
  BY <1>1, <1>3, SaneOver
<1>5. AccountsTyped'
  <2>1. cut' \in BOOLEAN /\ crossed' \in BOOLEAN
    BY <1>2 DEF AccountsIInv, AccountsTyped
  <2> QED
    BY <1>2, <1>4, <2>1, TypedNow, TypedStep DEF AccountsIInv
<1>6. ActiveKept' /\ NoneBricked'
  BY <1>2 DEF AccountsIInv, ActiveKept, NoneBricked
<1>7. OwnedKeys' /\ SessionKept'
  BY <1>2 DEF OwnedKeys, SessionKept
<1>8. Alone'
  BY <1>2, <1>3, <1>4, AloneStep DEF AccountsIInv
<1> QED
  BY <1>5, <1>6, <1>7, <1>8 DEF AccountsIInv

\* A handler that neither opens nor closes the session goes on, the active account as it was.
LEMMA BesideStep ==
    ASSUME AccountsIInv, NEW c \in Calls, NEW s, Doing(c, s), call[c].op \notin Opens,
           call' = [call EXCEPT ![c] = Forward(call[c])], open' = open, crossed' = crossed, cut' = cut,
           stale' \in BOOLEAN, stale' \/ (~stale /\ store'.active = store.active)
    PROVE  SessionKept'
<1> DEFINE x == call[c]
<1>1. Sane(x) /\ x \in Handlers /\ x.st = "open" /\ (~crossed /\ ~cut => Beside(x, open))
  BY HandlerHas
<1>2. Same(x, x)
  BY DEF Same
<1>3. PICK y : y = Forward(x)
  OBVIOUS
<1>4. Goes(x, y)
  BY <1>1, <1>2, <1>3, Moves DEF AccountsIInv
<1>5. y.op = x.op /\ (y.st = "open" => y.extra = x.extra)
  BY <1>4 DEF Goes, Reading
<1>6. ~crossed /\ ~cut /\ y.st = "open" => Beside(y, open)
  BY <1>1, <1>5 DEF Beside
<1> QED
  BY <1>1, <1>3, <1>5, <1>6, SessionBeside DEF AccountsIInv

\* Whoever owed or owned a key still does, but for the handler that made the step.
LEMMA OwnedOver ==
    ASSUME AccountsTyped, OwnedKeys, NEW c \in Calls, NEW y, call' = [call EXCEPT ![c] = y],
           cut' = cut, stale => stale',
           ~cut /\ ~stale' => \A e \in skList' :
               \/ Owner(e.id, store') \/ Adding(y, e.id) \/ Removing(y, e.id)
               \/ /\ \E f \in skList : f.id = e.id
                  /\ ~Owner(e.id, store) /\ ~Adding(call[c], e.id) /\ ~Removing(call[c], e.id)
    PROVE  OwnedKeys'
<1> SUFFICES ASSUME ~cut', ~stale', NEW e \in skList'
             PROVE  \/ Owner(e.id, store')
                    \/ \E d \in Calls : Adding(call'[d], e.id) \/ Removing(call'[d], e.id)
  BY DEF OwnedKeys
<1>1. call'[c] = y /\ \A d \in Calls \ {c} : call'[d] = call[d]
  BY DEF AccountsTyped
<1>2. CASE Adding(y, e.id) \/ Removing(y, e.id)
  BY <1>1, <1>2
<1>3. ASSUME NEW f \in skList, f.id = e.id, ~Owner(e.id, store), ~Adding(call[c], e.id), ~Removing(call[c], e.id)
      PROVE  \E d \in Calls : Adding(call'[d], e.id) \/ Removing(call'[d], e.id)
  <2>1. PICK d \in Calls : Adding(call[d], e.id) \/ Removing(call[d], e.id)
    BY <1>3 DEF OwnedKeys
  <2>2. d # c
    BY <1>3, <2>1
  <2> QED
    BY <1>1, <2>1, <2>2
<1> QED
  BY <1>2, <1>3

\* What a handler still owes once it has done the step.
LEMMA OwesStep ==
    ASSUME NEW x, Sane(x), x.st = "open", NEW y, Goes(x, y), NEW w
    PROVE  /\ x.op = "importSk" /\ Head(x.todo) = "saveSk" /\ x.target.wallet = w => Adding(y, w)
           /\ x.op \in Removes /\ Head(x.todo) = "saveStore" /\ x.target.wallet = w /\ Imported(w) => Removing(y, w)
<1>1. /\ x.todo \in Seq(StepNames) /\ x.todo # <<>> /\ Once(x.todo) /\ Order(x.op, x.target.wallet, x.todo)
  BY DEF Sane, Handlers, Program
<1>2. Head(x.todo) \in Ahead(x)
  BY <1>1, TailAhead DEF Ahead
<1>3. ASSUME NEW t, Follows(x.todo, Head(x.todo), t), t # Head(x.todo)
      PROVE  y.st = "open" /\ t \in Ahead(y) /\ Head(x.todo) \notin Ahead(y) /\ y.op = x.op /\ y.target = x.target
  <2>1. t \in Ahead(x)
    BY <1>2, <1>3, FollowsAhead DEF Ahead
  <2> QED
    BY <1>3, <2>1 DEF Goes
<1>4. CASE x.op = "importSk" /\ Head(x.todo) = "saveSk" /\ x.target.wallet = w
  <2>1. Follows(x.todo, "saveSk", "saveStore")
    BY <1>1, <1>4 DEF Order
  <2> QED
    BY <1>3, <1>4, <2>1 DEF Adding, Removes
<1>5. CASE x.op \in Removes /\ Head(x.todo) = "saveStore" /\ x.target.wallet = w /\ Imported(w)
  <2>1. Follows(x.todo, "saveStore", "saveSk")
    BY <1>1, <1>5 DEF Order
  <2> QED
    BY <1>3, <1>5, <2>1 DEF Removing, Removes
<1> QED
  BY <1>4, <1>5

\* A list of keys that is written as it was read, but for the handler's own.
LEMMA ListKeeps ==
    ASSUME NEW p, NEW old, NEW x, x.op \in Imports \cup Removes \cup {"createHd", "rename"},
           NEW list, list = EditedList(x, old), \A e \in old : e.under = p,
           x.op \in Imports \cup {"createHd"} => x.pw = p
    PROVE  /\ \A e \in list : e.under = p
           /\ \A w : Entry(w, p) \in old /\ (x.op \in Removes => w # x.target.wallet) => Entry(w, p) \in list
  BY DEF EditedList, Entry, Imports, Removes

\* After a list of keys was written from a fresh copy, no account has lost its key.
LEMMA ListNoneBricked ==
    ASSUME AccountsIInv, NEW x, x.op \in Imports \cup Removes \cup {"createHd", "rename"}, ~stale, ~rekeyed,
           ~Relisted(x), ~Rekeyed(x), NEW list, NEW other, hdList \cup skList = list \cup other,
           NEW new, new = EditedList(x, list)
    PROVE  /\ \A a \in store.accounts : a.wallet # Primary => Entry(a.wallet, main) \in new \cup other
           /\ \A e \in new \cup other : e.under = main
<1>1. /\ \A a \in store.accounts : a.wallet # Primary => Entry(a.wallet, main) \in list \cup other
      /\ \A e \in list \cup other : e.under = main
  BY DEF AccountsIInv, NoneBricked
<1>2. x.op \in Imports \cup {"createHd"} => x.pw = main
  BY DEF Rekeyed, Imports
<1>3. x.op \in Removes => \A a \in store.accounts : a.wallet # x.target.wallet
  BY DEF Relisted, Removes
<1>4. /\ \A e \in new : e.under = main
      /\ \A w : Entry(w, main) \in list /\ (x.op \in Removes => w # x.target.wallet) => Entry(w, main) \in new
  BY <1>1, <1>2, ListKeeps
<1> QED
  BY <1>1, <1>3, <1>4

LEMMA SaveHdKeeps ==
    ASSUME AccountsIInv, NEW c \in Calls, SaveHd(c) PROVE AccountsIInv'
<1> DEFINE x == call[c]
<1>1. /\ Doing(c, "saveHd") /\ call' = [call EXCEPT ![c] = Forward(x)]
      /\ hdList' = EditedList(x, x.hd)
      /\ stale' = (stale \/ x.hd # hdList \/ Relisted(x)) /\ rekeyed' = (rekeyed \/ Rekeyed(x))
      /\ UNCHANGED <<main, store, skList, open, plan, stops, cut, crossed>>
  BY DEF SaveHd, Ends
<1>2. /\ Sane(x) /\ x \in Handlers /\ x.st = "open" /\ Head(x.todo) = "saveHd" /\ "saveHd" \in Ahead(x)
      /\ Allowed(x.op, Ahead(x)) /\ Asked(x)
  BY <1>1, HandlerHas
<1>3. Same(x, x)
  BY DEF Same
<1>4. \A y : Goes(x, y) /\ y.st = "open" => Read(y)
  BY <1>2, <1>3, ReadGoes
<1>5. x.op \in {"createHd", "importHd", "removeHd"} /\ x.op \notin Opens
  BY <1>2 DEF Allowed, Has, Opens
<1>6. hdList' \subseteq HdEntries
  <2>1. x.op \in {"createHd", "importHd"} => x.target.wallet \in HDs /\ x.pw \in Passwords
    BY <1>2 DEF Asked, Handlers
  <2>2. x.hd \subseteq HdEntries
    BY <1>2 DEF Handlers
  <2> QED
    BY <1>1, <1>5, <2>1, <2>2 DEF EditedList, Entry, HdEntries
<1>7. stale' \in BOOLEAN /\ rekeyed' \in BOOLEAN /\ (stale' \/ ~stale)
  BY <1>1, TypedNow
<1>8. ActiveKept'
  BY <1>1 DEF AccountsIInv, ActiveKept
<1>9. NoneBricked'
  <2> SUFFICES ASSUME ~stale', ~rekeyed'
               PROVE  /\ \A a \in store'.accounts : a.wallet # Primary => Entry(a.wallet, main') \in hdList' \cup skList'
                      /\ \A e \in hdList' \cup skList' : e.under = main'
    BY DEF NoneBricked
  <2>1. /\ ~stale /\ ~rekeyed /\ x.hd = hdList /\ ~Relisted(x) /\ ~Rekeyed(x)
        /\ x.op \in Imports \cup Removes \cup {"createHd", "rename"}
    BY <1>1, <1>5 DEF Imports, Removes
  <2>2. PICK new : new = EditedList(x, hdList)
    OBVIOUS
  <2>3. /\ \A a \in store.accounts : a.wallet # Primary => Entry(a.wallet, main) \in new \cup skList
        /\ \A e \in new \cup skList : e.under = main
    BY <2>1, <2>2, ListNoneBricked
  <2>4. hdList' = new /\ skList' = skList /\ store' = store /\ main' = main
    BY <1>1, <2>1, <2>2
  <2> QED
    BY <2>3, <2>4
<1>10. OwnedKeys'
  BY <1>1, <1>2, <1>3, OwnedPass
<1>11. SessionKept'
  BY <1>1, <1>5, <1>7, BesideStep
<1> QED
  BY <1>1, <1>2, <1>3, <1>4, <1>5, <1>6, <1>7, <1>8, <1>9, <1>10, <1>11, TypedNow, WriteKeeps

LEMMA SaveSkKeeps ==
    ASSUME AccountsIInv, NEW c \in Calls, SaveSk(c) PROVE AccountsIInv'
<1> DEFINE x == call[c]
<1>1. /\ Doing(c, "saveSk") /\ call' = [call EXCEPT ![c] = Forward(x)]
      /\ skList' = EditedList(x, x.sk)
      /\ stale' = (stale \/ x.sk # skList \/ Relisted(x)) /\ rekeyed' = (rekeyed \/ Rekeyed(x))
      /\ UNCHANGED <<main, store, hdList, open, plan, stops, cut, crossed>>
  BY DEF SaveSk, Ends
<1>2. /\ Sane(x) /\ x \in Handlers /\ x.st = "open" /\ Head(x.todo) = "saveSk" /\ "saveSk" \in Ahead(x)
      /\ Allowed(x.op, Ahead(x)) /\ Asked(x)
  BY <1>1, HandlerHas
<1>3. Same(x, x)
  BY DEF Same
<1>4. \A y : Goes(x, y) /\ y.st = "open" => Read(y)
  BY <1>2, <1>3, ReadGoes
<1>5. x.op \in {"rename", "remove", "importSk", "removeHd"} /\ x.op \notin Opens
  BY <1>2 DEF Allowed, Has, Opens
<1>6. skList' \subseteq SkEntries
  <2>1. x.op = "importSk" => x.target.wallet \in SKs /\ x.pw \in Passwords
    BY <1>2 DEF Asked, Handlers
  <2>2. x.sk \subseteq SkEntries
    BY <1>2 DEF Handlers
  <2> QED
    BY <1>1, <1>5, <2>1, <2>2 DEF EditedList, Entry, SkEntries
<1>7. stale' \in BOOLEAN /\ rekeyed' \in BOOLEAN /\ (stale' \/ ~stale)
  BY <1>1, TypedNow
<1>8. ActiveKept'
  BY <1>1 DEF AccountsIInv, ActiveKept
<1>9. NoneBricked'
  <2> SUFFICES ASSUME ~stale', ~rekeyed'
               PROVE  /\ \A a \in store'.accounts : a.wallet # Primary => Entry(a.wallet, main') \in hdList' \cup skList'
                      /\ \A e \in hdList' \cup skList' : e.under = main'
    BY DEF NoneBricked
  <2>1. /\ ~stale /\ ~rekeyed /\ x.sk = skList /\ ~Relisted(x) /\ ~Rekeyed(x)
        /\ x.op \in Imports \cup Removes \cup {"createHd", "rename"}
    BY <1>1, <1>5 DEF Imports, Removes
  <2>2. PICK new : new = EditedList(x, skList)
    OBVIOUS
  <2>3. /\ \A a \in store.accounts : a.wallet # Primary => Entry(a.wallet, main) \in new \cup hdList
        /\ \A e \in new \cup hdList : e.under = main
    BY <2>1, <2>2, ListNoneBricked
  <2>4. hdList' = hdList /\ skList' = new /\ store' = store /\ main' = main
    BY <1>1, <2>1, <2>2
  <2> QED
    BY <2>3, <2>4
<1>10. OwnedKeys'
  <2>1. PICK y : y = Forward(x)
    OBVIOUS
  <2>2. Goes(x, y)
    BY <1>1, <1>2, <1>3, <2>1, Moves DEF AccountsIInv
  <2>3. ASSUME ~stale', NEW e \in skList'
        PROVE  \/ Owner(e.id, store') \/ Adding(y, e.id) \/ Removing(y, e.id)
               \/ /\ \E f \in skList : f.id = e.id
                  /\ ~Owner(e.id, store) /\ ~Adding(x, e.id) /\ ~Removing(x, e.id)
    <3>1. x.sk = skList /\ store' = store
      BY <1>1, <2>3
    <3>2. CASE e \in skList /\ (x.op \in Removes => e.id # x.target.wallet)
      <4>1. ~Adding(x, e.id) /\ ~Removing(x, e.id)
        BY <1>2, <3>2 DEF Adding, Removing
      <4> QED
        BY <3>1, <3>2, <4>1
    <3>3. CASE x.op = "importSk" /\ e.id = x.target.wallet
      BY <1>2, <2>2, <3>3, OwesStep
    <3>4. \/ e \in skList /\ (x.op \in Removes => e.id # x.target.wallet)
          \/ x.op = "importSk" /\ e.id = x.target.wallet
      BY <1>1, <1>5, <3>1 DEF EditedList, Entry, Removes
    <3> QED
      BY <3>2, <3>3, <3>4
  <2> QED
    BY <1>1, <2>1, <2>3, OwnedOver DEF AccountsIInv
<1>11. SessionKept'
  BY <1>1, <1>5, <1>7, BesideStep
<1> QED
  BY <1>1, <1>2, <1>3, <1>4, <1>5, <1>6, <1>7, <1>8, <1>9, <1>10, <1>11, TypedNow, WriteKeeps

LEMMA RewriteKeeps ==
    ASSUME AccountsIInv, NEW c \in Calls, Rewrite(c) PROVE AccountsIInv'
<1> DEFINE x == call[c]
<1>1. /\ Doing(c, "rewrite") /\ call' = [call EXCEPT ![c] = Forward(x)]
      /\ main' = x.next
      /\ hdList' = IF x.hd # {} THEN Reencrypted(x.hd, x.next) ELSE hdList
      /\ skList' = IF x.sk # {} THEN Reencrypted(x.sk, x.next) ELSE skList
      /\ stale' = (stale \/ x.hd # hdList \/ x.sk # skList) /\ rekeyed' = (rekeyed \/ main # x.pw)
      /\ UNCHANGED <<store, open, plan, stops, cut, crossed>>
  BY DEF Rewrite, Ends
<1>2. /\ Sane(x) /\ x \in Handlers /\ x.st = "open" /\ Head(x.todo) = "rewrite" /\ "rewrite" \in Ahead(x)
      /\ Allowed(x.op, Ahead(x)) /\ Asked(x)
  BY <1>1, HandlerHas
<1>3. Same(x, x)
  BY DEF Same
<1>4. \A y : Goes(x, y) /\ y.st = "open" => Read(y)
  BY <1>2, <1>3, ReadGoes
<1>5. x.op = "password" /\ x.op \notin Opens
  BY <1>2 DEF Allowed, Has, Opens
<1>6. main' \in Passwords \cup {Nil} /\ hdList' \subseteq HdEntries /\ skList' \subseteq SkEntries
  <2>1. x.next \in Passwords /\ x.hd \subseteq HdEntries /\ x.sk \subseteq SkEntries
    BY <1>2, <1>5 DEF Asked, Handlers
  <2>2. Reencrypted(x.hd, x.next) \subseteq HdEntries /\ Reencrypted(x.sk, x.next) \subseteq SkEntries
    BY <2>1 DEF Reencrypted, Entry, HdEntries, SkEntries
  <2> QED
    BY <1>1, <2>1, <2>2, TypedNow
<1>7. stale' \in BOOLEAN /\ rekeyed' \in BOOLEAN /\ (stale' \/ ~stale)
  BY <1>1, TypedNow
<1>8. ActiveKept'
  BY <1>1 DEF AccountsIInv, ActiveKept
<1>b. ASSUME ~stale' PROVE hdList' = Reencrypted(hdList, x.next) /\ skList' = Reencrypted(skList, x.next)
  <2>1. Reencrypted({}, x.next) = {}
    BY DEF Reencrypted
  <2> QED
    BY <1>1, <1>b, <2>1
<1>9. NoneBricked'
  <2> SUFFICES ASSUME ~stale', ~rekeyed'
               PROVE  /\ \A a \in store'.accounts : a.wallet # Primary => Entry(a.wallet, main') \in hdList' \cup skList'
                      /\ \A e \in hdList' \cup skList' : e.under = main'
    BY DEF NoneBricked
  <2>1. \A a \in store.accounts : a.wallet # Primary => Entry(a.wallet, main) \in hdList \cup skList
    BY <1>1 DEF AccountsIInv, NoneBricked
  <2>2. \A w : /\ Entry(w, main) \in hdList => Entry(w, x.next) \in Reencrypted(hdList, x.next)
               /\ Entry(w, main) \in skList => Entry(w, x.next) \in Reencrypted(skList, x.next)
    BY DEF Entry, Reencrypted
  <2>3. \A e \in Reencrypted(hdList, x.next) \cup Reencrypted(skList, x.next) : e.under = x.next
    BY DEF Entry, Reencrypted
  <2> QED
    BY <1>1, <1>b, <2>1, <2>2, <2>3
<1>10. OwnedKeys'
  <2>1. PICK y : y = Forward(x)
    OBVIOUS
  <2>2. \A w : ~Adding(x, w) /\ ~Removing(x, w)
    BY <1>2, <1>5, OwesNothing
  <2>3. ASSUME ~stale', NEW e \in skList'
        PROVE  \/ Owner(e.id, store')
               \/ /\ \E f \in skList : f.id = e.id
                  /\ ~Owner(e.id, store) /\ ~Adding(x, e.id) /\ ~Removing(x, e.id)
    BY <1>1, <1>b, <2>2, <2>3 DEF Reencrypted, Entry
  <2> QED
    BY <1>1, <2>1, <2>3, OwnedOver DEF AccountsIInv
<1>11. SessionKept'
  BY <1>1, <1>5, <1>7, BesideStep
<1> QED
  BY <1>1, <1>2, <1>3, <1>4, <1>5, <1>6, <1>7, <1>8, <1>9, <1>10, <1>11, TypedNow, WriteKeeps

LEMMA HasMost ==
    ASSUME NEW m \in Nat, NEW S \in SUBSET (0..m), S # {}
    PROVE  \E i \in S : \A j \in S : j <= i
<1> DEFINE Q(n) == \A T \in SUBSET (0..n) : T # {} => \E i \in T : \A j \in T : j <= i
           G == {n \in Nat : Q(n)}
<1>1. 0 \in G
  <2>1. \A j \in 0..0 : j = 0
    OBVIOUS
  <2>2. \A T \in SUBSET (0..0) : T # {} => T = {0}
    BY <2>1
  <2>3. \A j \in {0} : j <= 0
    OBVIOUS
  <2> QED
    BY <2>2, <2>3
<1>2. ASSUME NEW n \in Nat, n \in G PROVE n + 1 \in G
  <2> SUFFICES ASSUME NEW T \in SUBSET (0..(n + 1)), T # {} PROVE \E i \in T : \A j \in T : j <= i
    OBVIOUS
  <2>1. CASE n + 1 \in T
    <3>1. \A j \in T : j <= n + 1
      OBVIOUS
    <3> QED
      BY <2>1, <3>1
  <2>2. CASE n + 1 \notin T
    <3>1. \A j \in T : j \in 0..n
      BY <2>2
    <3>2. T \in SUBSET (0..n)
      BY <3>1
    <3> QED
      BY <1>2, <3>2
  <2> QED
    BY <2>1, <2>2
<1> HIDE DEF G
<1>3. \A n \in Nat : n \in G
  BY <1>1, <1>2, SetInduction
<1> QED
  BY <1>3 DEF G

LEMMA NextIsNat ==
    ASSUME NEW accounts \in SUBSET AllAccounts, NEW w
    PROVE  nextIndex(accounts, w) \in Nat
<1>1. PICK used : used = {a.index : a \in {a \in accounts : a.wallet = w}}
  OBVIOUS
<1>2. \A a \in AllAccounts : a.index \in 0..MaxIndex
  BY AccountsAssumptions DEF AllAccounts, Account
<1>3. used \in SUBSET (0..MaxIndex)
  BY <1>1, <1>2
<1>4. CASE used = {}
  BY <1>1, <1>4 DEF nextIndex
<1>5. CASE used # {}
  <2>1. \E i \in used : \A j \in used : j <= i
    BY <1>3, <1>5, HasMost, AccountsAssumptions
  <2>2. PICK m \in used : m = CHOOSE i \in used : \A j \in used : j <= i
    BY <2>1
  <2>3. nextIndex(accounts, w) = 1 + m
    BY <1>1, <1>5, <2>2 DEF nextIndex
  <2> QED
    BY <1>3, <2>3
<1> QED
  BY <1>4, <1>5

LEMMA Listed ==
    /\ First \in AllAccounts /\ First.wallet = Primary
    /\ \A w \in Wallets \ SKs, i \in 0..MaxIndex : Account(w, i) \in AllAccounts
    /\ \A a \in AllAccounts : a.wallet \in Wallets
    /\ Nil \notin AllAccounts
<1>1. \A w \in Wallets \ SKs, i \in 0..MaxIndex : Account(w, i) \in AllAccounts
  BY DEF AllAccounts
<1>2. Primary \in Wallets \ SKs /\ 0 \in 0..MaxIndex
  BY AccountsAssumptions DEF Wallets
<1>3. First \in AllAccounts /\ First.wallet = Primary
  BY <1>1, <1>2 DEF First, Account
<1>4. \A a \in AllAccounts : a.wallet \in Wallets
  BY DEF AllAccounts, Account, Wallets
<1> QED
  BY <1>1, <1>3, <1>4, AccountsAssumptions

\* The store an edit leaves.
LEMMA Edits ==
    ASSUME NEW x, Sane(x), x.st = "open", Head(x.todo) = "saveStore",
           x.op = "add" => nextIndex(x.accounts, x.target.wallet) <= MaxIndex
    PROVE  /\ EditedStore(x) \in Stores
           /\ ~Gone(x) /\ PrimaryListed([accounts |-> x.accounts, active |-> x.active]) => PrimaryListed(EditedStore(x))
           /\ x.op = "create" => EditedStore(x).active = First
           /\ x.op = "switch" => EditedStore(x).active = x.target
           /\ x.op \notin {"create", "switch"} => EditedStore(x).active = x.active
           /\ \A a \in EditedStore(x).accounts :
                 a \in x.accounts \/ a = First \/ (x.op \in {"add"} \cup Imports /\ a.wallet = x.target.wallet)
           /\ \A a \in x.accounts :
                 a \in EditedStore(x).accounts \/ (x.op \in Removes /\ a.wallet = x.target.wallet)
           /\ x.op \in Imports => x.target \in EditedStore(x).accounts
<1> DEFINE w == x.target.wallet
           n == nextIndex(x.accounts, w)
<1>1. /\ x \in Handlers /\ x.todo \in Seq(StepNames) /\ x.todo # <<>> /\ Asked(x) /\ Read(x)
      /\ Program(x.op, w, x.todo)
  BY DEF Sane, Handlers
<1>2. "saveStore" \in Ahead(x) /\ Allowed(x.op, Ahead(x))
  BY <1>1, TailAhead DEF Program, Ahead
<1>3. /\ x.accounts \in SUBSET AllAccounts /\ x.active \in AllAccounts \cup {Nil} /\ x.target \in AllAccounts
      /\ x.op \in {"create", "add", "switch", "rename", "reorder"} \cup Imports \cup Removes
  BY <1>1, <1>2 DEF Handlers, Asked, Allowed, Has
<1>4. CASE x.op = "create"
  <2>1. EditedStore(x) = [accounts |-> {First}, active |-> First]
    BY <1>4 DEF EditedStore
  <2>2. x.accounts = {}
    BY <1>1, <1>4 DEF Read
  <2> QED
    BY <1>4, <2>1, <2>2, Listed DEF Stores, PrimaryListed, Imports, Removes
<1>5. CASE x.op = "add"
  <2>1. EditedStore(x) = [accounts |-> x.accounts \cup {Account(w, n)}, active |-> x.active]
    BY <1>5 DEF EditedStore
  <2>2. Account(w, n) \in AllAccounts /\ Account(w, n).wallet = w
    <3>1. "mnemonic" \notin Ahead(x)
      BY <1>5, BeforeHead
    <3>2. w \notin SKs /\ w \in Wallets
      BY <1>1, <1>3, <1>5, <3>1, Listed DEF Read
    <3>3. n \in 0..MaxIndex
      BY <1>3, <1>5, NextIsNat, AccountsAssumptions
    <3> QED
      BY <3>2, <3>3, Listed DEF Account
  <2>3. ~Gone(x) => x.accounts # {}
    BY <1>5 DEF Gone
  <2> QED
    BY <1>3, <1>5, <2>1, <2>2, <2>3 DEF Stores, PrimaryListed, Imports, Removes
<1>6. CASE x.op = "switch"
  <2>1. EditedStore(x) = [accounts |-> x.accounts, active |-> x.target]
    BY <1>6 DEF EditedStore
  <2>2. x.target \in x.accounts
    BY <1>1, <1>6, BeforeHead DEF Read
  <2> QED
    BY <1>3, <1>6, <2>1, <2>2 DEF Stores, PrimaryListed, Imports, Removes
<1>7. CASE x.op = "remove"
  <2>1. EditedStore(x) = [accounts |-> x.accounts \ {x.target}, active |-> x.active]
    BY <1>7 DEF EditedStore
  <2>2. x.target # First /\ x.target # x.active
    BY <1>1, <1>7, BeforeHead DEF Read, Removes
  <2> QED
    BY <1>3, <1>7, <2>1, <2>2 DEF Stores, PrimaryListed, Imports, Removes
<1>8. CASE x.op = "removeHd"
  <2>1. EditedStore(x) = [accounts |-> {a \in x.accounts : a.wallet # w}, active |-> x.active]
    BY <1>8 DEF EditedStore
  <2>2. w # Primary /\ \A a \in x.accounts : a = x.active => a.wallet # w
    BY <1>1, <1>8, BeforeHead DEF Read, Asked, Removes
  <2> QED
    BY <1>3, <1>8, <2>1, <2>2, Listed DEF Stores, PrimaryListed, Imports, Removes
<1>9. CASE x.op \in Imports
  <2>1. EditedStore(x) = [accounts |-> x.accounts \cup {x.target}, active |-> x.active]
    BY <1>9 DEF EditedStore, Imports
  <2>2. ~Gone(x) => x.accounts # {}
    BY <1>9 DEF Gone, Imports
  <2> QED
    BY <1>3, <1>9, <2>1, <2>2 DEF Stores, PrimaryListed, Imports, Removes
<1>10. CASE x.op \in {"rename", "reorder"}
  <2>1. EditedStore(x) = [accounts |-> x.accounts, active |-> x.active]
    BY <1>10 DEF EditedStore
  <2> QED
    BY <1>3, <1>10, <2>1 DEF Stores, PrimaryListed, Imports, Removes
<1> QED
  BY <1>3, <1>4, <1>5, <1>6, <1>7, <1>8, <1>9, <1>10 DEF Removes

LEMMA SaveStoreKeeps ==
    ASSUME AccountsIInv, NEW c \in Calls, SaveStore(c) PROVE AccountsIInv'
<1> DEFINE x == call[c]
<1>0. PICK st : st = EditedStore(x)
  OBVIOUS
<1>1. /\ Doing(c, "saveStore") /\ call' = [call EXCEPT ![c] = Forward(x)]
      /\ x.op = "add" => nextIndex(x.accounts, x.target.wallet) <= MaxIndex
      /\ store' = st /\ stale' = (stale \/ Unread(x) \/ Gone(x))
      /\ UNCHANGED <<main, hdList, skList, open, plan, stops, rekeyed, cut, crossed>>
  BY <1>0 DEF SaveStore, Ends
<1>2. /\ Sane(x) /\ x \in Handlers /\ x.st = "open" /\ Head(x.todo) = "saveStore" /\ "saveStore" \in Ahead(x)
      /\ Allowed(x.op, Ahead(x)) /\ Asked(x)
      /\ ~crossed /\ ~cut /\ x.op \in Opens => Opening(x, Ahead(x), open, store, stale)
  BY <1>1, HandlerHas
<1>3. Same(x, x)
  BY DEF Same
<1>4. \A y : Goes(x, y) /\ y.st = "open" => Read(y)
  BY <1>2, <1>3, ReadGoes
<1>5. /\ st \in Stores
      /\ ~Gone(x) /\ PrimaryListed([accounts |-> x.accounts, active |-> x.active]) => PrimaryListed(st)
      /\ x.op = "create" => st.active = First
      /\ x.op = "switch" => st.active = x.target
      /\ x.op \notin {"create", "switch"} => st.active = x.active
      /\ \A a \in st.accounts :
            a \in x.accounts \/ a = First \/ (x.op \in {"add"} \cup Imports /\ a.wallet = x.target.wallet)
      /\ \A a \in x.accounts : a \in st.accounts \/ (x.op \in Removes /\ a.wallet = x.target.wallet)
      /\ x.op \in Imports => x.target \in st.accounts
  BY <1>0, <1>1, <1>2, Edits
<1>6. stale' \in BOOLEAN
  BY <1>1, TypedNow
<1>7. ASSUME ~stale'
      PROVE  /\ ~stale /\ ~Gone(x) /\ x.accounts = store.accounts /\ x.active = store.active
             /\ store = [accounts |-> x.accounts, active |-> x.active]
  <2>1. ~stale /\ ~Gone(x) /\ store = [accounts |-> x.accounts, active |-> x.active]
    BY <1>1, <1>7 DEF Unread
  <2> QED
    BY <2>1
<1>8. ActiveKept'
  BY <1>1, <1>5, <1>7 DEF AccountsIInv, ActiveKept
<1>9. NoneBricked'
  <2> SUFFICES ASSUME ~stale', ~rekeyed, NEW a \in st.accounts, a.wallet # Primary
               PROVE  Entry(a.wallet, main) \in hdList \cup skList
    BY <1>1, <1>7 DEF AccountsIInv, NoneBricked
  <2>1. /\ \A b \in store.accounts : b.wallet # Primary => Entry(b.wallet, main) \in hdList \cup skList
        /\ \A e \in hdList \cup skList : e.under = main
    BY <1>7 DEF AccountsIInv, NoneBricked
  <2>2. CASE a \in x.accounts
    BY <1>7, <2>1, <2>2
  <2>3. CASE x.op \in {"add"} \cup Imports /\ a.wallet = x.target.wallet
    <3>1. a.wallet \in HDs \cup SKs
      <4>1. a \in AllAccounts
        BY <1>5 DEF Stores
      <4> QED
        BY <4>1, Listed DEF Wallets
    <3>2. a.wallet \in Ids(hdList \cup skList)
      BY <1>7, <2>3, <3>1 DEF Gone, Imports
    <3>3. PICK e \in hdList \cup skList : e.id = a.wallet
      BY <3>2 DEF Ids
    <3>4. e = Entry(a.wallet, main)
      BY <2>1, <3>3, TypedNow DEF Entry, HdEntries, SkEntries
    <3> QED
      BY <3>4
  <2> QED
    BY <1>5, <2>2, <2>3, Listed
<1>10. OwnedKeys'
  <2>1. PICK y : y = Forward(x)
    OBVIOUS
  <2>2. Goes(x, y)
    BY <1>1, <1>2, <1>3, <2>1, Moves DEF AccountsIInv
  <2>3. ASSUME ~stale', NEW e \in skList
        PROVE  \/ Owner(e.id, st) \/ Adding(y, e.id) \/ Removing(y, e.id)
               \/ ~Owner(e.id, store) /\ ~Adding(x, e.id) /\ ~Removing(x, e.id)
    <3>1. CASE Owner(e.id, store)
      <4>1. PICK a \in x.accounts : a.wallet = e.id
        BY <1>7, <2>3, <3>1 DEF Owner
      <4>2. CASE a \in st.accounts
        BY <4>1, <4>2 DEF Owner
      <4>3. CASE x.op \in Removes /\ a.wallet = x.target.wallet
        <5>1. Imported(e.id)
          BY TypedNow DEF SkEntries, Imported
        <5> QED
          BY <1>2, <2>2, <4>1, <4>3, <5>1, OwesStep
      <4> QED
        BY <1>5, <4>2, <4>3
    <3>2. CASE Adding(x, e.id)
      BY <1>5, <3>2 DEF Adding, Owner, Imports
    <3>3. ~Removing(x, e.id)
      BY <1>2 DEF Removing
    <3> QED
      BY <3>1, <3>2, <3>3
  <2> QED
    BY <1>1, <2>1, <2>3, OwnedOver DEF AccountsIInv
<1>11. x.op \notin Opens => SessionKept'
  <2> SUFFICES ASSUME x.op \notin Opens PROVE SessionKept'
    OBVIOUS
  <2>1. stale' \/ (~stale /\ store'.active = store.active)
    BY <1>1, <1>5, <1>7 DEF Opens
  <2> QED
    BY <1>1, <1>6, <2>1, BesideStep
<1>12. ASSUME ~crossed, ~cut, x.op \in Opens PROVE Opening(x, Ahead(x) \ {"saveStore"}, open, store', stale')
  <2>1. PICK steps : steps = Ahead(x)
    OBVIOUS
  <2>2. Opening(x, steps, open, store, stale) /\ x.op \in {"create", "switch"}
    BY <1>2, <1>12, <2>1 DEF Allowed, Has, Opens, Imports, Removes
  <2>3. stale => stale'
    BY <1>1
  <2>4. CASE x.op = "create"
    <3>1. /\ Placed(steps \ {"saveStore"}, open, First) /\ ("putSeed" \in steps \ {"saveStore"} \/ open.seed)
      BY <2>2, <2>4 DEF Opening, Placed
    <3>2. Opening(x, steps \ {"saveStore"}, open, store', stale')
      BY <1>1, <1>5, <2>4, <3>1 DEF Opening
    <3> QED
      BY <2>1, <3>2
  <2>5. CASE x.op = "switch"
    <3>1. "mnemonic" \notin steps
      BY <1>2, <2>1, <2>5, BeforeHead
    <3>2. /\ open.pk # Nil /\ (~stale => open.seed) /\ Placed(steps \ {"saveStore"}, open, x.target)
      BY <2>2, <2>5, <3>1 DEF Opening, Placed
    <3>3. Opening(x, steps \ {"saveStore"}, open, store', stale')
      BY <1>1, <1>5, <2>3, <2>5, <3>1, <3>2 DEF Opening
    <3> QED
      BY <2>1, <3>3
  <2> QED
    BY <2>2, <2>4, <2>5
<1> QED
  BY <1>1, <1>2, <1>3, <1>4, <1>5, <1>6, <1>8, <1>9, <1>10, <1>11, <1>12, TypedNow, WriteKeeps

\* What an unlock reads does not matter to what a handler asks later.
LEMMA UnlockReads ==
    ASSUME NEW x, x.op = "unlock", Allowed(x.op, Ahead(x)), NEW z, Same(x, z), NEW y, Goes(z, y), y.st = "open",
           z.accounts # {}
    PROVE  Read(y)
<1>1. PICK steps, rest : steps = Ahead(x) /\ rest = Ahead(y)
  OBVIOUS
<1>2. y.op = "unlock" /\ y.accounts # {} /\ rest \subseteq steps
  BY <1>1 DEF Goes, Reading, Same, Ahead
<1>3. "putExtraHd" \notin steps /\ "putExtraSk" \notin steps
  BY <1>1 DEF Allowed, Has, Imports, Removes
<1> QED
  BY <1>1, <1>2, <1>3 DEF Read

LEMMA FillKeeps ==
    ASSUME AccountsIInv, NEW c \in Calls, Fill(c) PROVE AccountsIInv'
<1> DEFINE x == call[c]
<1>1. /\ Doing(c, "fill")
      /\ UNCHANGED <<main, hdList, skList, open, plan, stops, rekeyed, cut, crossed>>
  BY DEF Fill
<1>2. /\ Sane(x) /\ x \in Handlers /\ x.st = "open" /\ Head(x.todo) = "fill" /\ "fill" \in Ahead(x)
      /\ Allowed(x.op, Ahead(x))
      /\ ~crossed /\ ~cut /\ x.op \in Opens => Opening(x, Ahead(x), open, store, stale)
  BY <1>1, HandlerHas
<1>3. x.op = "unlock" /\ x.op \in Opens
  BY <1>2 DEF Allowed, Has, Opens
<1>4. "choose" \in Ahead(x) /\ "decrypt" \notin Ahead(x)
  <2>1. Follows(x.todo, "fill", "choose")
    BY <1>2, <1>3 DEF Sane, Program, Order
  <2> QED
    BY <1>2, <1>3, <2>1, BeforeHead, FollowsAhead DEF Ahead
<1>5. PICK steps : steps = Ahead(x)
  OBVIOUS
<1>6. CASE x.accounts = {}
  <2>1. PICK z : z = [x EXCEPT !.accounts = {First}, !.active = First]
    OBVIOUS
  <2>2. /\ store' = [accounts |-> {First}, active |-> First] /\ stale' = (stale \/ Unread(x))
        /\ call' = [call EXCEPT ![c] = Forward(z)]
    BY <1>6, <2>1 DEF Fill, Ends
  <2>3. /\ z \in Handlers /\ Same(x, z) /\ z.accounts = {First} /\ z.active = First /\ z.chosen = x.chosen
        /\ z.op = "unlock"
    BY <1>2, <1>3, <2>1, Listed DEF Handlers, Same
  <2>4. \A y : Goes(z, y) /\ y.st = "open" => Read(y)
    BY <1>2, <1>3, <2>3, UnlockReads
  <2>5. store' \in Stores /\ stale' \in BOOLEAN
    BY <2>2, Listed, TypedNow DEF Stores
  <2>6. ActiveKept'
    BY <2>2 DEF ActiveKept, PrimaryListed
  <2>7. NoneBricked'
    <3>1. \A a \in store'.accounts : a.wallet = Primary
      BY <2>2, Listed
    <3> QED
      BY <1>1, <2>2, <3>1 DEF AccountsIInv, NoneBricked
  <2>8. OwnedKeys'
    <3>1. PICK y : y = Forward(z)
      OBVIOUS
    <3>2. ASSUME ~stale', NEW e \in skList
          PROVE  ~Owner(e.id, store) /\ ~Adding(x, e.id) /\ ~Removing(x, e.id)
      <4>1. store.accounts = {}
        <5>1. store = [accounts |-> x.accounts, active |-> x.active]
          BY <2>2, <3>2 DEF Unread
        <5> QED
          BY <1>6, <5>1
      <4> QED
        BY <1>3, <4>1 DEF Owner, Adding, Removing, Removes
    <3> QED
      BY <1>1, <2>2, <3>1, <3>2, OwnedOver DEF AccountsIInv
  <2>9. ASSUME ~crossed, ~cut PROVE Opening(z, Ahead(x) \ {"fill"}, open, store', stale')
    <3>1. Placed(steps, open, x.chosen) /\ ("putSeed" \in steps \/ open.seed)
      BY <1>2, <1>3, <1>5, <2>9 DEF Opening
    <3>2. Placed(steps \ {"fill"}, open, z.chosen)
      BY <2>3, <3>1 DEF Placed
    <3>3. Opening(z, steps \ {"fill"}, open, store', stale')
      BY <1>4, <1>5, <2>2, <2>3, <3>1, <3>2 DEF Opening
    <3> QED
      BY <1>5, <3>3
  <2> QED
    BY <1>1, <1>3, <2>2, <2>3, <2>4, <2>5, <2>6, <2>7, <2>8, <2>9, TypedNow, WriteKeeps
<1>7. CASE x.accounts # {}
  <2>1. UNCHANGED <<store, stale>> /\ call' = [call EXCEPT ![c] = Forward(x)]
    BY <1>7 DEF Fill, Ends
  <2>2. Same(x, x)
    BY DEF Same
  <2>3. \A y : Goes(x, y) /\ y.st = "open" => Read(y)
    BY <1>2, <1>3, <1>7, <2>2, UnlockReads
  <2>4. ActiveKept' /\ NoneBricked'
    BY <1>1, <2>1 DEF AccountsIInv, ActiveKept, NoneBricked
  <2>5. OwnedKeys'
    BY <1>1, <1>2, <2>1, <2>2, OwnedPass
  <2>6. ASSUME ~crossed, ~cut PROVE Opening(x, Ahead(x) \ {"fill"}, open, store', stale')
    <3>1. Opening(x, steps, open, store, stale)
      BY <1>2, <1>3, <1>5, <2>6
    <3>2. Opening(x, steps \ {"fill"}, open, store', stale')
      BY <1>3, <2>1, <3>1 DEF Opening, Placed
    <3> QED
      BY <1>5, <3>2
  <2> QED
    BY <1>1, <1>2, <1>3, <2>1, <2>2, <2>3, <2>4, <2>5, <2>6, TypedNow, WriteKeeps
<1> QED
  BY <1>6, <1>7

\* The account an unlock opens: the active one, or the primary one in its place.
LEMMA Chooses ==
    ASSUME NEW x \in Handlers, x.accounts # {}
    PROVE  /\ ActiveOf(x) \in x.accounts /\ Chosen(x) \in {ActiveOf(x), First} /\ Chosen(x) \in AllAccounts
           /\ x.active \in x.accounts => ActiveOf(x) = x.active
<1>1. x.accounts \subseteq AllAccounts
  BY DEF Handlers
<1>2. ActiveOf(x) \in x.accounts /\ (x.active \in x.accounts => ActiveOf(x) = x.active)
  BY DEF ActiveOf
<1>3. Chosen(x) \in {ActiveOf(x), First}
  BY DEF Chosen
<1> QED
  BY <1>1, <1>2, <1>3, Listed

LEMMA ChooseKeeps ==
    ASSUME AccountsIInv, NEW c \in Calls, Choose(c) PROVE AccountsIInv'
<1> DEFINE x == call[c]
<1>0. PICK to, was : to = Chosen(x) /\ was = ActiveOf(x)
  OBVIOUS
<1>a. PICK coerced \in BOOLEAN : coerced <=> (to # was /\ to # x.active)
  OBVIOUS
<1>b. PICK z : z = [x EXCEPT !.chosen = to]
  OBVIOUS
<1>1. /\ Doing(c, "choose") /\ call' = [call EXCEPT ![c] = Forward(z)]
      /\ store' = IF coerced THEN [accounts |-> x.accounts, active |-> to] ELSE store
      /\ stale' = (stale \/ (coerced /\ Unread(x)))
      /\ UNCHANGED <<main, hdList, skList, open, plan, stops, rekeyed, cut, crossed>>
  BY <1>0, <1>a, <1>b DEF Choose, Ends
<1>2. /\ Sane(x) /\ x \in Handlers /\ x.st = "open" /\ Head(x.todo) = "choose" /\ "choose" \in Ahead(x)
      /\ Allowed(x.op, Ahead(x)) /\ Read(x)
      /\ ~crossed /\ ~cut /\ x.op \in Opens => Opening(x, Ahead(x), open, store, stale)
  BY <1>1, HandlerHas
<1>3. x.op = "unlock" /\ x.op \in Opens
  BY <1>2 DEF Allowed, Has, Opens
<1>4. "fill" \notin Ahead(x) /\ "decrypt" \notin Ahead(x) /\ "getStore" \notin Ahead(x)
  BY <1>2, <1>3, BeforeHead
<1>5. x.accounts # {}
  BY <1>2, <1>3, <1>4 DEF Read
<1>6. /\ was \in x.accounts /\ to \in {was, First} /\ to \in AllAccounts
      /\ x.active \in x.accounts => was = x.active
  BY <1>0, <1>2, <1>5, Chooses
<1>7. "putAccount" \in Ahead(x) /\ "putSecret" \in Ahead(x)
  <2>1. Follows(x.todo, "choose", "putAccount") /\ Follows(x.todo, "choose", "putSecret")
    BY <1>2, <1>3 DEF Sane, Program, Order
  <2> QED
    BY <1>2, <2>1, FollowsAhead DEF Ahead
<1>8. z \in Handlers /\ Same(x, z) /\ z.op = "unlock" /\ z.accounts = x.accounts /\ z.chosen = to
  BY <1>2, <1>3, <1>6, <1>b DEF Handlers, Same
<1>9. \A y : Goes(z, y) /\ y.st = "open" => Read(y)
  BY <1>2, <1>3, <1>5, <1>8, UnlockReads
<1>10. stale' \in BOOLEAN /\ store' \in Stores
  BY <1>1, <1>2, <1>6, TypedNow DEF Stores, Handlers
<1>11. ASSUME ~stale' PROVE ~stale /\ store'.accounts = store.accounts /\ (coerced => x.accounts = store.accounts)
  <2>1. coerced => store = [accounts |-> x.accounts, active |-> x.active]
    BY <1>1, <1>11 DEF Unread
  <2>2. coerced => x.accounts = store.accounts
    BY <2>1
  <2>3. store'.accounts = IF coerced THEN x.accounts ELSE store.accounts
    BY <1>1
  <2> QED
    BY <1>1, <1>11, <2>2, <2>3
<1>12. ActiveKept'
  <2>1. ASSUME ~stale', coerced PROVE First \in store.accounts /\ to = First
    BY <1>5, <1>6, <1>11, <1>a, <2>1 DEF AccountsIInv, ActiveKept, PrimaryListed
  <2> QED
    BY <1>1, <1>11, <2>1 DEF AccountsIInv, ActiveKept, PrimaryListed
<1>13. NoneBricked'
  BY <1>1, <1>11 DEF AccountsIInv, NoneBricked
<1>14. OwnedKeys'
  <2>1. PICK y : y = Forward(z)
    OBVIOUS
  <2>2. ASSUME ~stale', NEW e \in skList
        PROVE  Owner(e.id, store') \/ (~Owner(e.id, store) /\ ~Adding(x, e.id) /\ ~Removing(x, e.id))
    BY <1>3, <1>11, <2>2 DEF Owner, Adding, Removing, Removes
  <2> QED
    BY <1>1, <2>1, <2>2, OwnedOver DEF AccountsIInv
<1>15. ASSUME ~crossed, ~cut PROVE Opening(z, Ahead(x) \ {"choose"}, open, store', stale')
  <2>1. PICK steps : steps = Ahead(x)
    OBVIOUS
  <2>2. Opening(x, steps, open, store, stale)
    BY <1>2, <1>3, <1>15, <2>1
  <2>3. Placed(steps \ {"choose"}, open, to)
    BY <1>7, <2>1 DEF Placed
  <2>4. "putSeed" \in steps \ {"choose"} \/ open.seed
    BY <1>3, <2>2 DEF Opening
  <2>5. ~stale => x.active = store.active /\ x.active \in x.accounts
    BY <1>2, <1>3, <1>4, <1>5, <2>1, <2>2 DEF Opening
  <2>6. ~stale' => store'.active = to
    BY <1>1, <1>6, <1>11, <1>a, <2>5
  <2>7. to # Nil
    BY <1>6, Listed
  <2>8. Opening(z, steps \ {"choose"}, open, store', stale')
    BY <1>4, <1>8, <2>1, <2>3, <2>4, <2>6, <2>7 DEF Opening
  <2> QED
    BY <2>1, <2>8
<1> QED
  BY <1>1, <1>3, <1>8, <1>9, <1>10, <1>12, <1>13, <1>14, <1>15, TypedNow, WriteKeeps

LEMMA StopKeeps == ASSUME AccountsIInv, Stop PROVE AccountsIInv'
<1>1. /\ stops < plan.stops /\ stops' = stops + 1
      /\ cut' = (cut \/ \E c \in Calls : call[c].st = "open")
      /\ call' = [c \in Calls |-> IF call[c].st = "open" THEN Over(call[c], "lost") ELSE call[c]]
      /\ UNCHANGED <<main, store, hdList, skList, open, plan, stale, rekeyed, crossed>>
  BY DEF Stop
<1>2. ASSUME NEW c \in Calls PROVE Sane(call'[c]) /\ call'[c].st # "open" /\ (call[c].st # "open" => call'[c] = call[c])
  <2>1. Sane(call[c])
    BY DEF AccountsIInv, AccountsTyped
  <2>2. Sane(Over(call[c], "lost")) /\ Over(call[c], "lost").st = "lost"
    BY <2>1, SaneOver
  <2> QED
    BY <1>1, <2>1, <2>2
<1>3. AccountsTyped'
  <2>1. plan \in Plans /\ stops \in 0..plan.stops /\ plan.stops \in Nat
    BY AccountsAssumptions DEF AccountsIInv, AccountsTyped, AccountsTypeOK
  <2>2. stops' \in 0..plan'.stops
    BY <1>1, <2>1
  <2>3. \A c \in Calls : call'[c].st = "open" <=> call'[c].todo # <<>>
    BY <1>2 DEF Sane
  <2>4. AccountsTypeOK'
    BY <1>1, <2>1, <2>2, <2>3 DEF AccountsIInv, AccountsTyped, AccountsTypeOK
  <2>5. cut' \in BOOLEAN
    BY <1>1 DEF AccountsIInv, AccountsTyped
  <2> QED
    BY <1>1, <1>2, <2>4, <2>5 DEF AccountsIInv, AccountsTyped
<1>4. ActiveKept' /\ NoneBricked'
  BY <1>1 DEF AccountsIInv, ActiveKept, NoneBricked
<1>5. Alone'
  BY <1>2 DEF Alone
<1>6. ~cut' => ~cut /\ \A c \in Calls : call[c].st # "open" /\ call'[c] = call[c]
  BY <1>1, <1>2
<1>7. OwnedKeys'
  BY <1>1, <1>6 DEF AccountsIInv, OwnedKeys
<1>8. SessionKept'
  BY <1>1, <1>2, <1>6 DEF AccountsIInv, SessionKept
<1> QED
  BY <1>3, <1>4, <1>5, <1>7, <1>8 DEF AccountsIInv

\* A request that has just arrived.
Arrived(op, p, q, t) ==
    [Idle EXCEPT !.op = op, !.todo = ProgramOf(op, t.wallet), !.st = "open", !.pw = p, !.next = q, !.target = t]

LEMMA Arrives ==
    ASSUME NEW op \in Requests, NEW p \in Passwords \cup {Nil}, NEW q \in Passwords \cup {Nil}, NEW t \in AllAccounts,
           NEW y, y = Arrived(op, p, q, t),
           Asked(y)
    PROVE  Sane(y) /\ Begins(op, Ahead(y))
<1>2. PICK steps : steps = ProgramOf(op, t.wallet)
  OBVIOUS
<1>3. steps \in Seq(StepNames) /\ steps # <<>> /\ Program(op, t.wallet, steps) /\ Begins(op, ToSet(steps))
  BY <1>2, Listed, ProgramStarts
<1>4. /\ y \in Handlers /\ y.op = op /\ y.todo = steps /\ y.st = "open" /\ y.target = t
      /\ y.accounts = {} /\ y.extra = {}
  <2>1. y = [op |-> op, todo |-> steps, st |-> "open", pw |-> p, next |-> q, target |-> t,
             accounts |-> {}, active |-> Nil, hd |-> {}, sk |-> {}, extra |-> {}, chosen |-> Nil]
    BY <1>2 DEF Arrived, Idle
  <2> QED
    BY <1>3, <2>1 DEF Handlers
<1>5. Begins(op, Ahead(y))
  BY <1>3, <1>4 DEF Ahead
<1>6. Read(y)
  <2>1. PICK all : all = Ahead(y)
    OBVIOUS
  <2> QED
    BY <1>4, <1>5, <2>1 DEF Read, Begins, Imports, Removes
<1> QED
  BY <1>3, <1>4, <1>5, <1>6 DEF Sane

LEMMA OpeningBegins ==
    ASSUME NEW x, x.op \in Opens, NEW steps, Begins(x.op, steps), NEW o, NEW st, NEW old, Resting(o, st, old)
    PROVE  Opening(x, steps, o, st, old)
<1>1. CASE x.op \in {"lock", "reset"}
  BY <1>1 DEF Begins, Opening, Dropped
<1>2. CASE x.op = "create"
  BY <1>2 DEF Begins, Opening, Placed
<1>3. CASE x.op = "unlock"
  BY <1>3 DEF Begins, Opening, Placed
<1>4. CASE x.op = "switch"
  BY <1>4 DEF Begins, Opening, Placed
<1> QED
  BY <1>1, <1>2, <1>3, <1>4 DEF Opens

LEMMA SubmitKeeps ==
    ASSUME AccountsIInv, NEW c \in Calls, Submit(c) PROVE AccountsIInv'
<1>1. PICK op \in plan.calls[c], p \in Passwords \cup {Nil}, q \in Passwords \cup {Nil}, t \in AllAccounts :
          /\ op = "password" <=> q # Nil
          /\ op \in Unasked => p = Nil
          /\ p = Nil => op \in Unasked \cup Optional
          /\ op = "create" => main = Nil
          /\ op \in {"createHd", "importHd", "importSk"} =>
                /\ open.pk # Nil /\ t.index = 0
                /\ t.wallet \in (IF op = "importSk" THEN SKs ELSE HDs)
                /\ t \in store.accounts \/ t.wallet \notin Ids(hdList \cup skList)
                /\ \A d \in Calls : call[d].st # "new" => call[d].target # t
          /\ op \in {"create", "unlock", "lock", "reset", "reorder", "password", "phrase"} => t = First
          /\ op = "removeHd" => t.wallet # Primary /\ t.index = 0
          /\ op \in {"add", "removeHd"} => t.index = 0
          /\ call' = [call EXCEPT ![c] = Arrived(op, p, q, t)]
          /\ crossed' = (crossed \/ \E d \in Calls :
                /\ call[d].st = "open" /\ {op, call[d].op} \subseteq OpenWriters
                /\ {op, call[d].op} \cap Opens # {})
  BY DEF Submit, Arrived
<1>a. op \in Requests
  BY AccountsAssumptions DEF AccountsIInv, AccountsTyped, AccountsTypeOK
<1>2. call[c].st = "new" /\ UNCHANGED <<main, store, hdList, skList, open, plan, stops, stale, rekeyed, cut>>
  BY DEF Submit
<1>3. PICK y : y = Arrived(op, p, q, t)
  OBVIOUS
<1>b. y.op = op /\ y.pw = p /\ y.next = q /\ y.target = t /\ y.st = "open" /\ y.extra = {}
  BY <1>3 DEF Idle, Arrived
<1>4. Asked(y)
  BY <1>1, <1>a, <1>b DEF Asked, Unasked, Optional
<1>5. Sane(y) /\ Begins(op, Ahead(y))
  BY <1>3, <1>4, <1>a, Arrives
<1>6. call' = [call EXCEPT ![c] = y] /\ call'[c] = y /\ \A d \in Calls \ {c} : call'[d] = call[d]
  BY <1>1, <1>3 DEF AccountsIInv, AccountsTyped
<1>7. crossed' \in BOOLEAN /\ cut' \in BOOLEAN
  BY <1>1, <1>2 DEF AccountsIInv, AccountsTyped
<1>8. AccountsTyped'
  BY <1>2, <1>5, <1>b, <1>6, <1>7, TypedNow, TypedStep DEF AccountsIInv
<1>9. ActiveKept' /\ NoneBricked'
  BY <1>2 DEF AccountsIInv, ActiveKept, NoneBricked
<1>10. OwnedKeys'
  <2>1. \A w : ~Adding(call[c], w) /\ ~Removing(call[c], w)
    BY <1>2 DEF Adding, Removing
  <2> QED
    BY <1>2, <1>6, <2>1, OwnedStep DEF AccountsIInv
<1>11. ASSUME ~crossed'
       PROVE  /\ ~crossed
              /\ \A d \in Calls : call[d].st = "open" /\ op \in Opens => call[d].op \notin OpenWriters
              /\ \A d \in Calls : call[d].st = "open" /\ call[d].op \in Opens => op \notin OpenWriters
  BY <1>1, <1>11 DEF OpenWriters
<1>12. Alone'
  BY <1>5, <1>b, <1>6, <1>11 DEF AccountsIInv, Alone
<1>13. SessionKept'
  <2> SUFFICES ASSUME ~crossed', ~cut'
               PROVE  /\ (\A d \in Calls : call'[d].st = "open" => call'[d].op \notin Opens) => Resting(open, store, stale)
                      /\ \A d \in Calls : call'[d].st = "open" /\ call'[d].op \in Opens =>
                            Opening(call'[d], Ahead(call'[d]), open, store, stale)
                      /\ \A d \in Calls : call'[d].st = "open" => Beside(call'[d], open)
    BY <1>2 DEF SessionKept, Ahead
  <2>1. ~crossed /\ ~cut
    BY <1>2, <1>11
  <2>2. (\A d \in Calls : call[d].st = "open" => call[d].op \notin Opens) => Resting(open, store, stale)
    BY <2>1 DEF AccountsIInv, SessionKept
  <2>3. (\A d \in Calls : call'[d].st = "open" => call'[d].op \notin Opens) => Resting(open, store, stale)
    BY <1>2, <1>6, <2>2
  <2>4. ASSUME NEW d \in Calls, call'[d].st = "open", call'[d].op \in Opens
        PROVE  Opening(call'[d], Ahead(call'[d]), open, store, stale)
    <3>1. CASE d = c
      <4>1. op \in Opens
        BY <1>5, <1>b, <1>6, <2>4, <3>1
      <4>2. \A e \in Calls : call[e].st = "open" => call[e].op \notin Opens
        BY <1>11, <4>1 DEF OpenWriters
      <4>3. Opening(y, Ahead(y), open, store, stale)
        BY <1>5, <1>b, <2>2, <4>1, <4>2, OpeningBegins
      <4> QED
        BY <1>6, <3>1, <4>3
    <3>2. CASE d # c
      BY <1>6, <2>1, <2>4, <3>2 DEF AccountsIInv, SessionKept
    <3> QED
      BY <3>1, <3>2
  <2>5. Beside(y, open)
    BY <1>1, <1>5, <1>b DEF Beside, Imports
  <2>6. \A d \in Calls : call'[d].st = "open" => Beside(call'[d], open)
    BY <1>6, <2>1, <2>5 DEF AccountsIInv, SessionKept
  <2> QED
    BY <2>3, <2>4, <2>6
<1> QED
  BY <1>8, <1>9, <1>10, <1>12, <1>13 DEF AccountsIInv

LEMMA ClosedSession == Closed \in Sessions /\ Closed.pk = Nil
  BY DEF Closed, Sessions

\* A wallet that has keys when the plan starts.
StartStore(st, keys, missed) ==
    /\ st = [accounts |-> st.accounts, active |-> st.active]
    /\ \A a : a \in st.accounts <=> \E w \in keys : a = Account(w, 0)
    /\ st.active = First \/ \E w \in missed : st.active = Account(w, 0)
Held(st, list, p) ==
    /\ \A a \in st.accounts : a.wallet # Primary => Entry(a.wallet, p) \in list
    /\ \A e \in list : e.under = p
StartList(list, keys, missed, p, q) ==
    \A e : e \in list <=> \E w \in keys : e = Entry(w, IF w \in missed THEN q ELSE p)

LEMMA StartsWithKeys ==
    ASSUME NEW keys, keys \subseteq Wallets, Primary \in keys, NEW missed, missed \subseteq keys \ {Primary},
           NEW p \in Passwords, NEW q \in Passwords, missed = {} => q = p,
           NEW st, NEW hds, NEW sks,
           StartStore(st, keys, missed), StartList(hds, keys \cap HDs, missed, p, q),
           StartList(sks, keys \cap SKs, missed, p, q)
    PROVE  /\ st \in Stores /\ hds \subseteq HdEntries /\ sks \subseteq SkEntries
           /\ st.active \in st.accounts /\ First \in st.accounts
           /\ missed = {} => st.active = First
           /\ \A e \in sks : Owner(e.id, st)
           /\ missed = {} => Held(st, hds \cup sks, p)
<1>1. /\ st = [accounts |-> st.accounts, active |-> st.active]
      /\ \A a : a \in st.accounts <=> \E w \in keys : a = Account(w, 0)
      /\ st.active = First \/ \E w \in missed : st.active = Account(w, 0)
      /\ \A e : e \in hds <=> \E w \in keys \cap HDs : e = Entry(w, IF w \in missed THEN q ELSE p)
      /\ \A e : e \in sks <=> \E w \in keys \cap SKs : e = Entry(w, IF w \in missed THEN q ELSE p)
  BY DEF StartStore, StartList
<1>2. \A w \in Wallets : Account(w, 0) \in AllAccounts
  BY AccountsAssumptions DEF AllAccounts
<1>3. First \in st.accounts /\ st.active \in st.accounts /\ st.accounts \subseteq AllAccounts
  BY <1>1, <1>2 DEF First
<1>4. st \in Stores
  BY <1>1, <1>3 DEF Stores
<1>5. hds \subseteq HdEntries /\ sks \subseteq SkEntries
  BY <1>1 DEF Entry, HdEntries, SkEntries
<1>6. \A e \in sks : Owner(e.id, st)
  <2> SUFFICES ASSUME NEW e \in sks PROVE Owner(e.id, st)
    OBVIOUS
  <2>1. PICK w \in keys : e = Entry(w, IF w \in missed THEN q ELSE p)
    BY <1>1
  <2>2. e.id = w /\ Account(w, 0) \in st.accounts /\ Account(w, 0).wallet = w
    BY <1>1, <2>1 DEF Entry, Account
  <2> QED
    BY <2>2 DEF Owner
<1>7. ASSUME missed = {} PROVE st.active = First /\ Held(st, hds \cup sks, p)
  <2>1. /\ \A e : e \in hds <=> \E w \in keys \cap HDs : e = Entry(w, p)
        /\ \A e : e \in sks <=> \E w \in keys \cap SKs : e = Entry(w, p)
    BY <1>1, <1>7
  <2>2. \A e \in hds \cup sks : e.under = p
    BY <2>1 DEF Entry
  <2>3. ASSUME NEW a \in st.accounts, a.wallet # Primary PROVE Entry(a.wallet, p) \in hds \cup sks
    <3>1. PICK w \in keys : a = Account(w, 0)
      BY <1>1
    <3>2. a.wallet = w /\ w \in HDs \cup SKs
      BY <2>3, <3>1 DEF Account, Wallets
    <3> QED
      BY <2>1, <3>2
  <2> QED
    BY <1>1, <1>7, <2>2, <2>3 DEF Held
<1> QED
  BY <1>3, <1>4, <1>5, <1>6, <1>7

\* The states a plan starts in.
LEMMA AccountsStart ==
    ASSUME AccountsInit
    PROVE  /\ store \in Stores /\ hdList \subseteq HdEntries /\ skList \subseteq SkEntries /\ open \in Sessions
           /\ main \in Passwords \cup {Nil} /\ rekeyed \in BOOLEAN
           /\ PrimaryListed(store) /\ (\A e \in skList : Owner(e.id, store)) /\ NoneBricked
           /\ Resting(open, store, FALSE)
<1>1. plan \in Plans
  BY DEF AccountsInit
<1>2. CASE plan.keys = {}
  <2>1. /\ main = Nil /\ store = Empty /\ hdList = {} /\ skList = {} /\ open = Closed /\ rekeyed = FALSE
    BY <1>2 DEF AccountsInit
  <2> QED
    BY <2>1, ClosedSession DEF Empty, Stores, PrimaryListed, NoneBricked, Resting
<1>3. CASE plan.keys # {}
  <2>1. /\ plan.keys \subseteq Wallets /\ Primary \in plan.keys /\ Passwords # {}
        /\ plan.missed \subseteq plan.keys \ {Primary}
        /\ plan.missed # {} => \A r \in Passwords : Passwords # {r}
    BY <1>1, <1>3, AccountsAssumptions
  <2>2. PICK p \in Passwords : p = CHOOSE r \in Passwords : TRUE
    BY <2>1
  <2>3. PICK q \in Passwords : q = IF plan.missed = {} THEN p ELSE CHOOSE r \in Passwords : r # p
    <3>1. plan.missed # {} => \E r \in Passwords : r # p
      BY <2>1, <2>2
    <3> QED
      BY <3>1
  <2>4. PICK opened : opened = [pk |-> First, secret |-> First, seed |-> TRUE,
                                hd |-> plan.keys \cap HDs, sk |-> plan.keys \cap SKs]
    OBVIOUS
  <2>5. /\ main = p
        /\ store \in [accounts : {{Account(w, 0) : w \in plan.keys}},
                      active : {First} \cup {Account(w, 0) : w \in plan.missed}]
        /\ hdList = {Entry(w, IF w \in plan.missed THEN q ELSE p) : w \in plan.keys \cap HDs}
        /\ skList = {Entry(w, IF w \in plan.missed THEN q ELSE p) : w \in plan.keys \cap SKs}
        /\ open = Closed \/ (open = opened /\ plan.missed = {})
        /\ rekeyed = (plan.missed # {})
    <3>1. \A w \in plan.missed : (CHOOSE r \in Passwords : r # p) = q
      BY <2>3
    <3> QED
      BY <1>3, <2>2, <2>4, <3>1 DEF AccountsInit
  <2>6. /\ store \in Stores /\ hdList \subseteq HdEntries /\ skList \subseteq SkEntries
        /\ store.active \in store.accounts /\ First \in store.accounts
        /\ plan.missed = {} => store.active = First
        /\ \A e \in skList : Owner(e.id, store)
        /\ plan.missed = {} => Held(store, hdList \cup skList, p)
    <3>1. StartStore(store, plan.keys, plan.missed)
      BY <2>5 DEF StartStore
    <3>2. /\ StartList(hdList, plan.keys \cap HDs, plan.missed, p, q)
          /\ StartList(skList, plan.keys \cap SKs, plan.missed, p, q)
      BY <2>5 DEF StartList
    <3>3. plan.missed = {} => q = p
      BY <2>3
    <3> QED
      BY <2>1, <3>1, <3>2, <3>3, StartsWithKeys
  <2>7. opened \in Sessions /\ opened.pk = First /\ opened.secret = First /\ opened.seed = TRUE
    BY <2>4, Listed DEF Sessions
  <2>8. NoneBricked
    BY <2>5, <2>6 DEF NoneBricked, Held
  <2>9. Resting(open, store, FALSE)
    BY <2>5, <2>6, <2>7, ClosedSession, Listed DEF Resting, Agrees
  <2> QED
    BY <2>5, <2>6, <2>7, <2>8, <2>9, ClosedSession DEF PrimaryListed
<1> QED
  BY <1>2, <1>3

LEMMA AccountsStartWell == ASSUME AccountsInit PROVE AccountsIInv
<1>1. /\ plan \in Plans /\ stops = 0 /\ call = [c \in Calls |-> Idle]
      /\ stale = FALSE /\ cut = FALSE /\ crossed = FALSE
  BY DEF AccountsInit
<1>2. Sane(Idle) /\ Idle.st = "new" /\ Idle.todo = <<>>
  BY IdleHandler DEF Sane, Idle
<1>3. \A c \in Calls : call[c] = Idle
  BY <1>1
<1>4. stops \in 0..plan.stops
  BY <1>1, AccountsAssumptions
<1>5. AccountsTyped
  <2>1. /\ store.accounts \subseteq AllAccounts /\ store.active \in AllAccounts \cup {Nil}
        /\ open.pk \in AllAccounts \cup {Nil} /\ open.secret \in AllAccounts \cup {Nil}
        /\ open.hd \subseteq HDs /\ open.sk \subseteq SKs
    BY AccountsStart DEF Stores, Sessions
  <2>2. AccountsTypeOK
    BY <1>1, <1>2, <1>3, <1>4, <2>1, AccountsStart DEF AccountsTypeOK, HdEntries, SkEntries
  <2>3. DOMAIN call = Calls /\ \A c \in Calls : Sane(call[c])
    BY <1>1, <1>2, <1>3
  <2> QED
    BY <1>1, <2>2, <2>3, AccountsStart DEF AccountsTyped
<1>6. \A c \in Calls : call[c].st # "open"
  BY <1>2, <1>3
<1>7. ActiveKept /\ NoneBricked /\ OwnedKeys
  BY AccountsStart DEF ActiveKept, OwnedKeys
<1>8. Alone /\ SessionKept
  BY <1>1, <1>6, AccountsStart DEF Alone, SessionKept
<1> QED
  BY <1>5, <1>7, <1>8 DEF AccountsIInv

LEMMA AccountsHoldInv == ASSUME AccountsIInv PROVE AccountsInv
<1>1. AccountsTypeOK /\ NoneBricked
  BY DEF AccountsIInv, AccountsTyped
<1>2. ActiveListed
  BY DEF AccountsIInv, ActiveKept, PrimaryListed, ActiveListed
<1>3. Quiet /\ ~crossed /\ ~cut => Resting(open, store, stale)
  BY DEF AccountsIInv, SessionKept, Quiet
<1>4. SessionMatches /\ LockForgets
  BY <1>3 DEF SessionMatches, LockForgets, Resting, Agrees
<1>5. NoOrphans
  BY DEF AccountsIInv, OwnedKeys, NoOrphans, Quiet, Adding, Removing, Owner
<1> QED
  BY <1>1, <1>2, <1>4, <1>5 DEF AccountsInv

LEMMA StepsKeep == ASSUME AccountsIInv, NEW c \in Calls, AccountsStep(c) PROVE AccountsIInv'
  BY VerifyKeeps, GetStoreKeeps, MnemonicKeeps, GetHdKeeps, GetSkKeeps, RevealKeeps, SaveStoreKeeps, SaveHdKeeps,
     SaveSkKeeps, ThrowsKeeps, RewriteKeeps, PutMainKeeps, ClearWalletKeeps, FillKeeps, ExtraHdKeeps, ExtraSkKeeps,
     ChooseKeeps, GetExtraKeeps, PutExtraKeeps, WriteSessionKeeps DEF AccountsStep

(* What the handlers of the wallet's accounts keep at every await, for any *)
(* accounts, imported keys, passwords and requests: no key is bricked, the *)
(* active account and the primary one are listed, every imported key has   *)
(* an account or a handler about to write it, and the session is that of   *)
(* the active account unless a handler is on its way to write it.          *)
THEOREM AccountsKept == AccountsSpec => []AccountsIInv
<1>1. AccountsInit => AccountsIInv
  BY AccountsStartWell
<1>2. AccountsIInv /\ [AccountsNext]_accountVars => AccountsIInv'
  <2>1. ASSUME AccountsIInv, AccountsNext PROVE AccountsIInv'
    BY <2>1, StopKeeps, SubmitKeeps, StepsKeep DEF AccountsNext
  <2>2. ASSUME AccountsIInv, UNCHANGED accountVars PROVE AccountsIInv'
    BY <2>2 DEF accountVars, AccountsIInv, AccountsTyped, AccountsTypeOK, ActiveKept, NoneBricked, OwnedKeys,
                Alone, SessionKept, Ahead, Adding, Removing, Beside
  <2> QED
    BY <2>1, <2>2
<1> QED
  BY <1>1, <1>2, PTL DEF AccountsSpec

(* Whatever handlers interleave, unless two of them wrote what the other   *)
(* had read or the worker stopped between two writes: the list, the keys   *)
(* and the session belong together, and a lock leaves nothing behind.      *)
THEOREM AccountsHold == AccountsSpec => []AccountsInv
  BY AccountsKept, AccountsHoldInv, PTL

\* A step changes its handler.
LEMMA StepMoves ==
    ASSUME AccountsIInv, NEW c \in Calls, NEW s, Doing(c, s), call' = [call EXCEPT ![c] = Forward(call[c])]
    PROVE  call[c].st = "open" /\ call'[c] # call[c]
<1>1. PICK x, y : x = call[c] /\ y = Forward(x)
  OBVIOUS
<1>2. Same(x, x) /\ x \in Handlers
  BY <1>1, HandlerHas DEF Same
<1>3. Goes(x, y) /\ x.st = "open" /\ Head(x.todo) = s /\ s \in Ahead(x)
  BY <1>1, <1>2, Moves DEF AccountsIInv
<1>4. y # x
  <2>1. CASE y.st = "open"
    BY <1>3, <2>1 DEF Goes
  <2>2. CASE y.st # "open"
    BY <1>3, <2>2
  <2> QED
    BY <2>1, <2>2
<1>5. call'[c] = y
  BY <1>1 DEF AccountsIInv, AccountsTyped
<1> QED
  BY <1>1, <1>3, <1>4, <1>5

Removed(w) ==
    \/ stale'
    \/ \E c \in Calls :
          /\ call[c].st = "open" /\ call'[c] # call[c]
          /\ \/ call[c].op = "reset"
             \/ call[c].op \in {"remove", "removeHd"} /\ call[c].target.wallet = w

LEMMA EditRemoves ==
    ASSUME NEW x, x.op \in Imports \cup Removes \cup {"createHd", "rename"}, NEW list, NEW new, new = EditedList(x, list),
           NEW e \in list, e \notin new
    PROVE  x.op \in Removes /\ e.id = x.target.wallet
  BY DEF EditedList, Imports, Removes

LEMMA SaveRemoves ==
    ASSUME AccountsIInv, NEW c \in Calls, SaveHd(c) \/ SaveSk(c), ~stale', NEW e \in hdList \cup skList,
           e \notin hdList' \cup skList'
    PROVE  Removed(e.id)
<1> DEFINE x == call[c]
<1>1. CASE SaveHd(c)
  <2>1. /\ Doing(c, "saveHd") /\ call' = [call EXCEPT ![c] = Forward(x)] /\ skList' = skList
        /\ hdList' = EditedList(x, x.hd) /\ x.hd = hdList
    BY <1>1 DEF SaveHd, Ends
  <2>2. x.op \in Imports \cup Removes \cup {"createHd", "rename"}
    BY <2>1, HandlerHas DEF Allowed, Has, Imports, Removes
  <2>3. x.op \in Removes /\ e.id = x.target.wallet
    BY <2>1, <2>2, EditRemoves
  <2> QED
    BY <2>1, <2>3, StepMoves DEF Removed, Removes
<1>2. CASE SaveSk(c)
  <2>1. /\ Doing(c, "saveSk") /\ call' = [call EXCEPT ![c] = Forward(x)] /\ hdList' = hdList
        /\ skList' = EditedList(x, x.sk) /\ x.sk = skList
    BY <1>2 DEF SaveSk, Ends
  <2>2. x.op \in Imports \cup Removes \cup {"createHd", "rename"}
    BY <2>1, HandlerHas DEF Allowed, Has, Imports, Removes
  <2>3. x.op \in Removes /\ e.id = x.target.wallet
    BY <2>1, <2>2, EditRemoves
  <2> QED
    BY <2>1, <2>3, StepMoves DEF Removed, Removes
<1> QED
  BY <1>1, <1>2

LEMMA RewriteRemoves ==
    ASSUME NEW c \in Calls, Rewrite(c), ~stale', NEW e \in hdList \cup skList
    PROVE  e.id \in Ids(hdList' \cup skList')
<1>1. /\ call[c].hd = hdList /\ call[c].sk = skList
      /\ hdList' = IF call[c].hd # {} THEN Reencrypted(call[c].hd, call[c].next) ELSE hdList
      /\ skList' = IF call[c].sk # {} THEN Reencrypted(call[c].sk, call[c].next) ELSE skList
  BY DEF Rewrite
<1>2. \E f \in hdList' \cup skList' : f.id = e.id
  <2>1. PICK f : f = Entry(e.id, call[c].next)
    OBVIOUS
  <2>2. f.id = e.id
    BY <2>1 DEF Entry
  <2>3. \A list : e \in list => f \in Reencrypted(list, call[c].next)
    BY <2>1 DEF Reencrypted
  <2>4. f \in hdList' \cup skList'
    BY <1>1, <2>3
  <2> QED
    BY <2>2, <2>4
<1> QED
  BY <1>2 DEF Ids

LEMMA StepRemoves ==
    ASSUME AccountsIInv, AccountsNext, NEW w \in Ids(hdList \cup skList) \ Ids(hdList' \cup skList')
    PROVE  Removed(w)
<1>1. PICK e \in hdList \cup skList : e.id = w
  BY DEF Ids
<1>2. e \notin hdList' \cup skList'
  BY <1>1 DEF Ids
<1>3. ~UNCHANGED <<hdList, skList>>
  BY <1>1, <1>2
<1>4. PICK c \in Calls : SaveHd(c) \/ SaveSk(c) \/ Rewrite(c) \/ ClearWallet(c)
  <2>1. ~Stop /\ \A c \in Calls : ~Submit(c)
    BY <1>3 DEF Stop, Submit
  <2>2. PICK c \in Calls : AccountsStep(c)
    BY <2>1 DEF AccountsNext
  <2>3. /\ ~Verify(c) /\ ~GetStore(c) /\ ~Mnemonic(c) /\ ~GetHd(c) /\ ~GetSk(c) /\ ~RevealKey(c) /\ ~GetExtra(c)
    BY <1>3 DEF Verify, GetStore, Mnemonic, GetHd, GetSk, RevealKey, GetExtra, Kept
  <2>4. /\ ~SaveStore(c) /\ ~Throws(c) /\ ~PutMain(c) /\ ~Fill(c) /\ ~ExtraHd(c) /\ ~ExtraSk(c) /\ ~Choose(c)
        /\ ~PutExtra(c) /\ ~WriteSession(c)
    BY <1>3 DEF SaveStore, Throws, PutMain, Fill, ExtraHd, ExtraSk, Choose, PutExtra, WriteSession
  <2> QED
    BY <2>2, <2>3, <2>4 DEF AccountsStep
<1>5. CASE stale'
  BY <1>5 DEF Removed
<1>6. CASE ~stale' /\ (SaveHd(c) \/ SaveSk(c))
  BY <1>1, <1>2, <1>6, SaveRemoves
<1>7. CASE ~stale' /\ Rewrite(c)
  BY <1>1, <1>7, RewriteRemoves
<1>8. CASE ClearWallet(c)
  <2>1. Doing(c, "clearWallet") /\ call' = [call EXCEPT ![c] = Forward(call[c])]
    BY <1>8 DEF ClearWallet, Ends
  <2>2. call[c].op = "reset"
    BY <2>1, HandlerHas DEF Allowed, Has
  <2> QED
    BY <2>1, <2>2, StepMoves DEF Removed
<1> QED
  BY <1>4, <1>5, <1>6, <1>7, <1>8

(* A key leaves the stored lists only by a step of a removal of its own    *)
(* wallet or of the reset: no rename, reorder, import or password change   *)
(* loses one, unless a handler wrote back a list another had changed.      *)
THEOREM KeysKept == AccountsSpec => KeysOnlyRemoved
<1>1. AccountsIInv /\ [AccountsNext]_accountVars =>
          [\A w \in Ids(hdList \cup skList) \ Ids(hdList' \cup skList') : Removed(w)]_accountVars
  BY StepRemoves
<1>2. AccountsSpec => [][\A w \in Ids(hdList \cup skList) \ Ids(hdList' \cup skList') : Removed(w)]_accountVars
  BY <1>1, AccountsKept, PTL DEF AccountsSpec
<1> QED
  BY <1>2 DEF KeysOnlyRemoved, Removed
=============================================================================
