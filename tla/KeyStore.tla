------------------------------ MODULE KeyStore ------------------------------
(***************************************************************************)
(* The keystore of accounts/keystore: key files in a directory that other  *)
(* programs change too, the account cache with its file watcher, the keys  *)
(* unlocked in memory with their timers, the wallets and their events.     *)
(*                                                                         *)
(* A thread is a caller of the API, the watcher's loop or the updater.  It *)
(* has the list of the steps still to be done in "todo": a step is what the*)
(* code does between two points at which another thread can come between,  *)
(* and it is the first of the list; a call pushes the steps of its callee. *)
(* An account is a pair of a file and an address; the names of files are   *)
(* numbers, in the order of their paths.                                   *)
(***************************************************************************)
EXTENDS Integers, Sequences, SequencesExt, FiniteSets, Functions, TLC

CONSTANTS Users,      \* threads that call the API
          Files, Addresses, Passphrases,
          FirstAddress, FirstPassphrase, \* of the key file there at the start
          Loads       \* workloads: the calls the users choose from, a bound on their
                      \* number and one on the changes that other programs make

Threads == Users \cup {"watcher", "updater"}

VARIABLES disk,       \* key files: address, passphrase, time of modification
          clock,      \* the time of the last change of the directory
          used,       \* file names taken: they contain the time of creation
          load, changes, \* the workload; changes made so far
          watch,      \* watcher: off, starting, watching (not "running" yet), running
          ev, rescan, \* watcher: an event is queued; debounce is armed
          throttle,   \* accountCache: running, fired
          fileC,      \* fileCache
          all,        \* accountCache.all, and byAddr with it
          notify,     \* accountCache.notify has an element
          unlocked,   \* address -> handle of the unlocked key
          handles,    \* the keys handed out: address, timed, aborted, zeroed
          timers,     \* handles whose expire goroutine runs
          wallets, balance, \* wallets; history: arrivals less drops, as sent
          updating, subs,
          mu,         \* the thread that holds KeyStore.mu over several steps
          todo, loc,  \* of each thread: steps to do, local variables
          calls,
          blind       \* history: why the cache may differ from the directory for long

diskVars   == <<disk, clock, used>>
watchVars  == <<watch, ev, rescan>>
cacheVars  == <<throttle, fileC, all, notify>>
unlockVars == <<unlocked, handles, timers>>
walletVars == <<wallets, balance, updating, subs>>
vars == <<diskVars, load, changes, watchVars, cacheVars, unlockVars, walletVars, mu, todo, loc, calls, blind>>

Account(f, a) == <<f, a>>
NoAccount == <<>>
Locals    == [call |-> [op |-> "none"], acc |-> NoAccount, handle |-> 0, listing |-> <<>>,
              creates |-> {}, deletes |-> {}, updates |-> {}, read |-> NoAccount, events |-> {}]

Scanning(t) == Range(todo[t]) \cap {"scan.diff", "scan.apply", "scan.add"} # {}

\* After NewKeyStore: the cache is loaded, the watcher starts in the background.
Init ==
    /\ disk = (1 :> [addr |-> FirstAddress, pass |-> FirstPassphrase, mod |-> 1])
    /\ clock = 1 /\ used = {1} /\ load \in Loads /\ changes = 0
    /\ watch = "starting" /\ ev = FALSE /\ rescan = FALSE
    /\ throttle = "running" /\ fileC = [all |-> {1}, lastMod |-> 1] /\ notify = TRUE
    /\ all = {Account(1, disk[1].addr)}
    /\ unlocked = [a \in Addresses |-> 0] /\ handles = <<>> /\ timers = {}
    /\ wallets = all /\ balance = [x \in Files \X Addresses |-> IF x \in all THEN 1 ELSE 0]
    /\ updating = FALSE /\ subs = 0
    /\ mu = "nobody"
    /\ todo = [t \in Threads |-> <<>>] /\ loc = [t \in Threads |-> Locals]
    /\ calls = 0 /\ blind = {}

-----------------------------------------------------------------------------
(* Threads *)

At(t, step) == todo[t] # <<>> /\ Head(todo[t]) = step

Goto(t, steps) == todo' = [todo EXCEPT ![t] = steps \o Tail(@)]
Done(t)        == Goto(t, <<>>)
Return(t)      == todo' = [todo EXCEPT ![t] = <<>>] /\ loc' = [loc EXCEPT ![t] = Locals]
\* To the next step with the same local variables, or out of the call.
Proceed(t)     == IF Len(todo[t]) = 1 THEN Return(t) ELSE Done(t) /\ UNCHANGED loc

MuFree(t) == mu \in {"nobody", t}

scanAccounts   == <<"scan.list", "scan.diff", "scan.apply", "scan.notify">>
accountsSteps  == <<"reload", "copy">>
refreshWallets == <<"mu">> \o accountsSteps \o <<"send">>
getDecryptedKey == <<"reload", "find", "GetKey">>

-----------------------------------------------------------------------------
(* The directory, and the watcher of it *)

\* A file of the directory changes: the watcher gets an event once it watches.
Change(d, why) ==
    /\ disk' = d
    /\ clock' = clock + 1
    /\ ev' = (ev \/ watch \in {"watching", "running"})
    /\ blind' = blind \cup why \cup IF watch \in {"watching", "running"} THEN {} ELSE {"missed"}

KeyFile(a, p) == [addr |-> a, pass |-> p, mod |-> clock + 1]
Put(f, a, p, why) == Change((f :> KeyFile(a, p)) @@ disk, why)
Unlink(f, why) == Change(Restrict(disk, DOMAIN disk \ {f}), why)

\* No scan has read the file yet.
Unseen(f) == IF f \notin fileC.all \/ \E t \in Threads : f \in loc[t].creates THEN {"unseen"} ELSE {}

\* Another program creates, replaces or removes a key file.  If a call has put
\* its account into the cache and no scan has read it, the old account stays.
External ==
    /\ changes < load.maxChanges /\ changes' = changes + 1
    /\ \/ \E f \in Files \ used, a \in Addresses, p \in Passphrases :
            Put(f, a, p, {}) /\ used' = used \cup {f}
       \/ \E f \in DOMAIN disk, a \in Addresses : Put(f, a, disk[f].pass, Unseen(f)) /\ UNCHANGED used
       \/ \E f \in DOMAIN disk : Unlink(f, Unseen(f)) /\ UNCHANGED used
    /\ UNCHANGED <<load, watch, rescan, cacheVars, unlockVars, walletVars, mu, todo, loc, calls>>

\* watcher.loop up to "running": notify.Watch fails or events begin to arrive.
loopStarts ==
    /\ \/ watch = "starting" /\ watch' \in {"off", "watching"}
       \/ watch = "watching" /\ watch' = "running"
    /\ UNCHANGED <<diskVars, load, changes, ev, rescan, cacheVars, unlockVars, walletVars, mu,
                   todo, loc, calls, blind>>

\* An event arms the debounce timer, and the timer starts a scan.
loop ==
    /\ watch = "running" /\ todo["watcher"] = <<>>
    /\ \/ ev /\ ev' = FALSE /\ rescan' = TRUE /\ UNCHANGED todo
       \/ rescan /\ rescan' = FALSE /\ UNCHANGED ev
          /\ todo' = [todo EXCEPT !["watcher"] = scanAccounts]
    /\ UNCHANGED <<diskVars, load, changes, watch, cacheVars, unlockVars, walletVars, mu, loc, calls, blind>>

throttleFires ==
    /\ throttle = "running" /\ throttle' = "fired"
    /\ UNCHANGED <<diskVars, load, changes, watchVars, fileC, all, notify, unlockVars, walletVars, mu,
                   todo, loc, calls, blind>>

-----------------------------------------------------------------------------
(* accountCache *)

maybeReload(t) ==
    /\ At(t, "reload")
    /\ IF watch = "running" \/ throttle = "running"
       THEN Proceed(t) /\ UNCHANGED <<watch, throttle>>
       ELSE /\ watch' = IF watch = "off" THEN "starting" ELSE watch
            /\ throttle' = "running"
            /\ Goto(t, scanAccounts) /\ UNCHANGED loc
    /\ UNCHANGED <<diskVars, load, changes, ev, rescan, fileC, all, notify, unlockVars, walletVars, mu,
                   calls, blind>>

\* fileCache.scan lists the directory before it takes its lock.
scanList(t) ==
    /\ At(t, "scan.list") /\ Done(t)
    /\ loc' = [loc EXCEPT ![t].listing = [f \in DOMAIN disk |-> disk[f].mod]]
    /\ blind' = IF \E u \in Threads \ {t} : Scanning(u) THEN blind \cup {"overlap"} ELSE blind \ {"missed"}
    /\ UNCHANGED <<diskVars, load, changes, watchVars, cacheVars, unlockVars, walletVars, mu, calls>>

\* Mutant: the time of the scan is remembered instead of the files' times.
MutDiff(t) ==
    LET files == DOMAIN loc[t].listing
        mods == {f \in files : loc[t].listing[f] > fileC.lastMod}
        creates == files \ fileC.all
    IN /\ At(t, "scan.diff")
       /\ fileC' = [all |-> files, lastMod |-> clock]
       /\ loc' = [loc EXCEPT ![t].listing = <<>>, ![t].creates = creates,
                             ![t].deletes = fileC.all \ files, ![t].updates = mods \ creates]
       /\ IF creates \cup (fileC.all \ files) \cup mods = {}
          THEN todo' = [todo EXCEPT ![t] = SubSeq(@, 4, Len(@))]
          ELSE Done(t)
       /\ UNCHANGED <<diskVars, load, changes, watchVars, throttle, all, notify, unlockVars, walletVars,
                      mu, calls, blind>>

\* Then it compares the listing with the one before.
scanDiff(t) ==
    LET files == DOMAIN loc[t].listing
        mods == {f \in files : loc[t].listing[f] > fileC.lastMod}
        creates == files \ fileC.all
    IN /\ At(t, "scan.diff")
       /\ fileC' = [all |-> files,
                    lastMod |-> CHOOSE m \in {0} \cup Range(loc[t].listing) :
                                  \A n \in Range(loc[t].listing) : n <= m]
       /\ loc' = [loc EXCEPT ![t].listing = <<>>, ![t].creates = creates,
                             ![t].deletes = fileC.all \ files, ![t].updates = mods \ creates]
       /\ IF creates \cup (fileC.all \ files) \cup mods = {}
          THEN todo' = [todo EXCEPT ![t] = SubSeq(@, 4, Len(@))]
          ELSE Done(t)
       /\ UNCHANGED <<diskVars, load, changes, watchVars, throttle, all, notify, unlockVars, walletVars,
                      mu, calls, blind>>

readAccount(f) == IF f \in DOMAIN disk THEN Account(f, disk[f].addr) ELSE NoAccount

\* Removes one account of the file, if there is one.
deleteByFile(f) ==
    LET ofFile == {x \in all : x[1] = f} IN
    IF ofFile = {} THEN {all} ELSE {all \ {x} : x \in ofFile}

\* The diffs one by one: creates, then deletes, then updates.
scanApply(t) ==
    LET l == loc[t] IN
    /\ At(t, "scan.apply")
    /\ CASE l.creates # {} ->
              \E f \in l.creates :
                /\ loc' = [loc EXCEPT ![t].creates = @ \ {f}, ![t].read = readAccount(f)]
                /\ todo' = [todo EXCEPT ![t] = <<"scan.add">> \o @]
                /\ UNCHANGED all
         [] l.creates = {} /\ l.deletes # {} ->
              \E f \in l.deletes :
                /\ loc' = [loc EXCEPT ![t].deletes = @ \ {f}]
                /\ all' \in deleteByFile(f)
                /\ UNCHANGED todo
         [] l.creates = {} /\ l.deletes = {} /\ l.updates # {} ->
              \E f \in l.updates :
                /\ loc' = [loc EXCEPT ![t].updates = @ \ {f}, ![t].read = <<f>>]
                /\ all' \in deleteByFile(f)
                /\ todo' = [todo EXCEPT ![t] = <<"scan.read", "scan.add">> \o @]
         [] OTHER -> Done(t) /\ UNCHANGED <<all, loc>>
    /\ UNCHANGED <<diskVars, load, changes, watchVars, throttle, fileC, notify, unlockVars, walletVars,
                   mu, calls, blind>>

scanRead(t) ==
    /\ At(t, "scan.read") /\ Done(t)
    /\ loc' = [loc EXCEPT ![t].read = readAccount(@[1])]
    /\ UNCHANGED <<diskVars, load, changes, watchVars, cacheVars, unlockVars, walletVars, mu, calls, blind>>

scanAdd(t) ==
    /\ At(t, "scan.add") /\ Done(t)
    /\ all' = all \cup ({loc[t].read} \ {NoAccount})
    /\ loc' = [loc EXCEPT ![t].read = NoAccount]
    /\ UNCHANGED <<diskVars, load, changes, watchVars, throttle, fileC, notify, unlockVars, walletVars,
                   mu, calls, blind>>

scanNotify(t) ==
    /\ At(t, "scan.notify") /\ Proceed(t)
    /\ notify' = TRUE
    /\ UNCHANGED <<diskVars, load, changes, watchVars, throttle, fileC, all, unlockVars, walletVars, mu,
                   calls, blind>>

scan(t) == scanList(t) \/ scanDiff(t) \/ scanApply(t) \/ scanRead(t) \/ scanAdd(t) \/ scanNotify(t)

-----------------------------------------------------------------------------
(* KeyStore: calls that find and decrypt a key *)

diskFrame == <<diskVars, load, changes, watchVars>>

\* A unique match of the address.
find(t) ==
    LET matches == {x \in all : x[2] = loc[t].call.addr} IN
    /\ At(t, "find")
    /\ IF Cardinality(matches) = 1
       THEN Done(t) /\ loc' = [loc EXCEPT ![t].acc = CHOOSE x \in matches : TRUE]
       ELSE Return(t)
    /\ UNCHANGED <<diskFrame, cacheVars, unlockVars, walletVars, mu, calls, blind>>

\* DecryptKey gives the key back to the passphrase of EncryptKey only; a file
\* that is gone or has another key by now is an error.
DecryptKey(file, pass) == file.pass = pass

GetKey(t) ==
    LET x == loc[t].acc IN
    /\ At(t, "GetKey")
    /\ IF /\ x[1] \in DOMAIN disk
          /\ DecryptKey(disk[x[1]], loc[t].call.pass)
          /\ disk[x[1]].addr = x[2]
       THEN Proceed(t) ELSE Return(t)
    /\ UNCHANGED <<diskFrame, cacheVars, unlockVars, walletVars, mu, calls, blind>>

zeroKey(h) == [handles EXCEPT ![h].zeroed = TRUE]

\* Mutant: the early return of an indefinite unlock is missing.
MutUnlock(t) ==
    LET c == loc[t].call
        h == unlocked[c.addr]
        new == Len(handles) + 1
        key == [addr |-> c.addr, timed |-> c.timed, aborted |-> FALSE,
                zeroed |-> h # 0 /\ ~handles[IF h = 0 THEN 1 ELSE h].timed]
    IN /\ At(t, "unlock") /\ MuFree(t) /\ Proceed(t)
       /\ handles' = Append(handles, key)
       /\ unlocked' = [unlocked EXCEPT ![c.addr] = new]
       /\ timers' = IF c.timed THEN timers \cup {new} ELSE timers
       /\ UNCHANGED <<diskFrame, cacheVars, walletVars, mu, calls, blind>>

\* TimedUnlock, once it has the key; Unlock is without a timeout.
TimedUnlock(t) ==
    LET c == loc[t].call
        h == unlocked[c.addr]
        new == Len(handles) + 1
        key == [addr |-> c.addr, timed |-> c.timed, aborted |-> FALSE, zeroed |-> FALSE]
    IN /\ At(t, "unlock") /\ MuFree(t) /\ Proceed(t)
       /\ IF h # 0 /\ ~handles[h].timed
          THEN handles' = Append(handles, [key EXCEPT !.zeroed = TRUE]) /\ UNCHANGED <<unlocked, timers>>
          ELSE /\ handles' = Append(IF h = 0 THEN handles ELSE [handles EXCEPT ![h].aborted = TRUE], key)
               /\ unlocked' = [unlocked EXCEPT ![c.addr] = new]
               /\ timers' = IF c.timed THEN timers \cup {new} ELSE timers
       /\ UNCHANGED <<diskFrame, cacheVars, walletVars, mu, calls, blind>>

\* Mutant: no comparison of the instance.
MutDrop(h) ==
    /\ handles' = zeroKey(h)
    /\ unlocked' = [unlocked EXCEPT ![handles[h].addr] = 0]

\* The end of expire: only the instance it was started with is dropped.
drop(h) ==
    IF unlocked[handles[h].addr] = h
    THEN handles' = zeroKey(h) /\ unlocked' = [unlocked EXCEPT ![handles[h].addr] = 0]
    ELSE UNCHANGED <<handles, unlocked>>

\* The goroutine of a timed unlock: either channel of its select.
expire(h) ==
    /\ \/ handles[h].aborted /\ UNCHANGED <<handles, unlocked>>
       \/ mu = "nobody" /\ drop(h)
    /\ timers' = timers \ {h}
    /\ UNCHANGED <<diskFrame, cacheVars, walletVars, mu, todo, loc, calls, blind>>

\* Lock looks the key up, releases the mutex and runs expire without a timeout.
LockLookup(t) ==
    LET h == unlocked[loc[t].call.addr] IN
    /\ At(t, "lookup") /\ MuFree(t)
    /\ IF h = 0 THEN Return(t) ELSE Done(t) /\ loc' = [loc EXCEPT ![t].handle = h]
    /\ UNCHANGED <<diskFrame, cacheVars, unlockVars, walletVars, mu, calls, blind>>

LockExpire(t) ==
    /\ At(t, "expire") /\ Proceed(t)
    /\ \/ handles[loc[t].handle].aborted /\ UNCHANGED <<handles, unlocked>>
       \/ MuFree(t) /\ drop(loc[t].handle)
    /\ UNCHANGED <<diskFrame, cacheVars, timers, walletVars, mu, calls, blind>>

\* The key that SignHash and SignTx sign with.
SignHash(a) == handles[unlocked[a]]

\* A wallet has one account and knows it by the address, or by the file as well.
\* It asks the keystore for the key of the address: nothing while it is locked.
NoURL == 0
walletContains(w, addr, file) == w[2] = addr /\ file \in {NoURL, w[1]}
walletSignHash(w, addr, file) ==
    IF walletContains(w, addr, file) /\ unlocked[addr] # 0 THEN {SignHash(addr)} ELSE {}

\* A signature with a passphrase: the key that was decrypted for it is zeroed.
SignHashWithPassphrase(t) ==
    /\ At(t, "sign") /\ Proceed(t)
    /\ handles' = Append(handles, [addr |-> loc[t].call.addr, timed |-> FALSE, aborted |-> FALSE, zeroed |-> TRUE])
    /\ UNCHANGED <<diskFrame, cacheVars, unlocked, timers, walletVars, mu, calls, blind>>

-----------------------------------------------------------------------------
(* KeyStore: calls that change key files *)

\* StoreKey renames a temporary file into place, or fails.
StoreKey(t) ==
    LET x == loc[t].acc IN
    /\ At(t, "store")
    /\ \/ Proceed(t) /\ Put(x[1], x[2], loc[t].call.newPass, {})
       \/ Return(t) /\ UNCHANGED <<disk, clock, ev, blind>>
    /\ UNCHANGED <<used, load, changes, watch, rescan, cacheVars, unlockVars, walletVars, mu, calls>>

\* The call changes the cache by itself; "late" if the file has changed since.
cacheAdd(t) ==
    LET x == loc[t].acc IN
    /\ At(t, "add") /\ Proceed(t)
    /\ all' = all \cup {x}
    /\ blind' = IF readAccount(x[1]) = x THEN blind ELSE blind \cup {"late"}
    /\ UNCHANGED <<diskFrame, throttle, fileC, notify, unlockVars, walletVars, mu, calls>>

\* ImportECDSA refuses a key whose address the cache has.
hasAddress(t) ==
    /\ At(t, "has")
    /\ IF \E x \in all : x[2] = loc[t].call.addr THEN Return(t) ELSE Proceed(t)
    /\ UNCHANGED <<diskFrame, cacheVars, unlockVars, walletVars, mu, calls, blind>>

DeleteFile(t) ==
    LET x == loc[t].acc IN
    /\ At(t, "remove")
    /\ IF x[1] \in DOMAIN disk
       THEN Proceed(t) /\ Unlink(x[1], {})
       ELSE Return(t) /\ UNCHANGED <<disk, clock, ev, blind>>
    /\ UNCHANGED <<used, load, changes, watch, rescan, cacheVars, unlockVars, walletVars, mu, calls>>

cacheDelete(t) ==
    LET x == loc[t].acc IN
    /\ At(t, "delete") /\ Proceed(t)
    /\ all' = all \ {x}
    /\ blind' = IF readAccount(x[1]) = x THEN blind \cup {"late"} ELSE blind
    /\ UNCHANGED <<diskFrame, throttle, fileC, notify, unlockVars, walletVars, mu, calls>>

-----------------------------------------------------------------------------
(* KeyStore: wallets, events and the updater *)

lockMu(t) ==
    /\ At(t, "mu") /\ mu = "nobody" /\ Proceed(t)
    /\ mu' = t
    /\ UNCHANGED <<diskFrame, cacheVars, unlockVars, walletVars, calls, blind>>

\* The merge of refreshWallets: an account whose file has a wallet for another
\* address is passed over, and only the next refresh finds it; if two accounts
\* have one file, it depends on their order in the list.
Merge(accs, old) ==
    LET new == {x \in accs : x \in old \/ \A w \in old : w[1] # x[1]}
        after == {x \in accs \ new : \E w \in new : w[1] = x[1]}
    IN {new \cup some : some \in SUBSET after}

\* Mutant: leftover wallets are forgotten without an event.
MutCopy(t) ==
    /\ At(t, "copy") /\ Done(t)
    /\ wallets' \in Merge(all, wallets)
    /\ loc' = [loc EXCEPT ![t].events = {<<x, 1>> : x \in wallets' \ wallets}]
    /\ mu' = "nobody"
    /\ UNCHANGED <<diskFrame, cacheVars, unlockVars, balance, updating, subs, calls, blind>>

copyAccounts(t) ==
    /\ At(t, "copy") /\ Done(t)
    /\ wallets' \in Merge(all, wallets)
    /\ loc' = [loc EXCEPT ![t].events = {<<x, 1>> : x \in wallets' \ wallets} \cup
                                        {<<x, -1>> : x \in wallets \ wallets'}]
    /\ mu' = "nobody"
    /\ UNCHANGED <<diskFrame, cacheVars, unlockVars, balance, updating, subs, calls, blind>>

\* The events go out one by one, after the mutex is released.
sendEvents(t) ==
    /\ At(t, "send")
    /\ IF loc[t].events = {}
       THEN Proceed(t) /\ UNCHANGED balance
       ELSE \E e \in loc[t].events :
              /\ loc' = [loc EXCEPT ![t].events = @ \ {e}]
              /\ balance' = [balance EXCEPT ![e[1]] = @ + e[2]]
              /\ UNCHANGED todo
    /\ UNCHANGED <<diskFrame, cacheVars, unlockVars, wallets, updating, subs, mu, calls, blind>>

Subscribe(t) ==
    /\ At(t, "subscribe") /\ MuFree(t) /\ Proceed(t)
    /\ subs' = subs + 1
    /\ updating' = TRUE
    /\ UNCHANGED <<diskFrame, cacheVars, unlockVars, wallets, balance, mu, calls, blind>>

Unsubscribe(t) ==
    /\ At(t, "unsubscribe") /\ Proceed(t)
    /\ subs' = IF subs = 0 THEN 0 ELSE subs - 1
    /\ UNCHANGED <<diskFrame, cacheVars, unlockVars, wallets, balance, updating, mu, calls, blind>>

\* The updater wakes up at a change or at the end of its refresh cycle.
updater ==
    /\ updating /\ todo["updater"] = <<>>
    /\ todo' = [todo EXCEPT !["updater"] = refreshWallets \o <<"count">>]
    /\ notify' = FALSE
    /\ UNCHANGED <<diskFrame, throttle, fileC, all, unlockVars, walletVars, mu, loc, calls, blind>>

countSubscribers ==
    /\ At("updater", "count") /\ MuFree("updater") /\ Return("updater")
    /\ updating' = (subs # 0)
    /\ UNCHANGED <<diskFrame, cacheVars, unlockVars, wallets, balance, subs, mu, calls, blind>>

-----------------------------------------------------------------------------
(* Calls of the API *)

\* "create" is NewAccount, Import and ImportPreSaleKey; "import" ImportECDSA;
\* "export" Export, "sign" the calls that sign with a passphrase.
StepsOf(op) ==
    CASE op = "create" -> <<"store", "add">> \o refreshWallets
      [] op = "import" -> <<"reload", "has", "store", "add">> \o refreshWallets
      [] op = "delete" -> getDecryptedKey \o <<"remove", "delete">> \o refreshWallets
      [] op = "update" -> getDecryptedKey \o <<"store">>
      [] op = "unlock" -> getDecryptedKey \o <<"unlock">>
      [] op = "export" -> getDecryptedKey
      [] op = "sign" -> getDecryptedKey \o <<"sign">>
      [] op = "lock" -> <<"lookup", "expire">>
      [] op = "wallets" -> refreshWallets
      [] op = "subscribe" -> <<"subscribe">>
      [] op = "unsubscribe" -> <<"unsubscribe">>

keyFileName == {f \in Files \ used : \A g \in Files \ used : f <= g}

Call(t, c) ==
    /\ todo[t] = <<>> /\ calls < load.maxCalls /\ calls' = calls + 1
    /\ todo' = [todo EXCEPT ![t] = StepsOf(c.op)]
    /\ IF c.op \in {"create", "import"}
       THEN \E f \in keyFileName :
              /\ used' = used \cup {f}
              /\ loc' = [loc EXCEPT ![t] = [Locals EXCEPT !.call = c, !.acc = Account(f, c.addr)]]
       ELSE UNCHANGED used /\ loc' = [loc EXCEPT ![t] = [Locals EXCEPT !.call = c]]
    /\ UNCHANGED <<disk, clock, load, changes, watchVars, cacheVars, unlockVars, walletVars, mu, blind>>

step(t) ==
    \/ maybeReload(t) \/ scan(t) \/ find(t) \/ GetKey(t) \/ TimedUnlock(t) \/ SignHashWithPassphrase(t)
    \/ LockLookup(t) \/ LockExpire(t) \/ StoreKey(t) \/ cacheAdd(t) \/ hasAddress(t)
    \/ DeleteFile(t) \/ cacheDelete(t) \/ lockMu(t) \/ copyAccounts(t) \/ sendEvents(t)
    \/ Subscribe(t) \/ Unsubscribe(t)

Next ==
    \/ External \/ loopStarts \/ loop \/ throttleFires \/ updater \/ countSubscribers
    \/ \E h \in timers : expire(h)
    \/ \E t \in Threads : step(t)
    \/ \E t \in Users, c \in load.calls : Call(t, c)

Spec == Init /\ [][Next]_vars

-----------------------------------------------------------------------------
(* Properties *)

\* Type correctness of the keystore's state.
TypeOK ==
    /\ DOMAIN disk \subseteq used /\ used \subseteq Files
    /\ \A f \in DOMAIN disk : disk[f] \in [addr : Addresses, pass : Passphrases, mod : 1..clock]
    /\ watch \in {"off", "starting", "watching", "running"}
    /\ throttle \in {"running", "fired"}
    /\ all \cup wallets \subseteq Files \X Addresses
    /\ fileC.all \subseteq Files /\ fileC.lastMod \in 0..clock
    /\ unlocked \in [Addresses -> 0..Len(handles)]
    /\ timers \subseteq 1..Len(handles)
    /\ mu \in Threads \cup {"nobody"}
    /\ blind \subseteq {"missed", "overlap", "late", "unseen"}

\* The key that SignHash and SignTx find for an address, called directly or through
\* a wallet that may be out of date, is that address's key and has not been zeroed
\* by an expire, a Lock, a second unlock or a signature with a passphrase.
KeysUsable ==
    /\ TypeOK
    /\ \A a \in Addresses : unlocked[a] # 0 => SignHash(a).addr = a /\ ~SignHash(a).zeroed
    /\ \A w \in wallets, a \in Addresses, f \in Files \cup {NoURL} :
          \A key \in walletSignHash(w, a, f) : key.addr = w[2] /\ ~key.zeroed

\* A timed unlock in force has the goroutine that ends it: replacing one by
\* another, locking and unlocking again never leave a key without its timer.
TimersRun ==
    \A a \in Addresses : unlocked[a] # 0 /\ SignHash(a).timed =>
      unlocked[a] \in timers /\ ~SignHash(a).aborted

\* "If the address was previously unlocked indefinitely the timeout is not
\* altered": the timers of earlier unlocks and later timed unlocks leave it
\* alone, only a Lock of this very unlock ends it.  When Lock returns, the unlock
\* that it found is over, whichever timer, Lock or unlock came between its
\* look-up and its expire.  A timed unlock has its timer (TimersRun).
UnlocksEnd ==
    /\ [][\A a \in Addresses :
            unlocked[a] # 0 /\ ~SignHash(a).timed /\ unlocked'[a] # unlocked[a] =>
              \E t \in Users : At(t, "expire") /\ loc[t].handle = unlocked[a]]_vars
    /\ [][\A t \in Users : At(t, "expire") /\ todo'[t] = <<>> =>
            unlocked'[loc[t].call.addr] # loc[t].handle]_vars
    /\ []TimersRun

\* Once all calls have returned and the watcher has nothing to do, the cache
\* has the accounts of the directory, although scans, calls and other programs
\* change both meanwhile; and with the updater on and nothing to tell it there
\* is no wallet without an account.
QuiescentSync ==
    /\ \A t \in Threads : todo[t] = <<>>
    /\ watch = "running" /\ ~ev /\ ~rescan /\ blind = {}
    => /\ all = {Account(f, disk[f].addr) : f \in DOMAIN disk}
       /\ updating /\ ~notify => wallets \subseteq all

Pending(e) == Cardinality({t \in Threads : e \in loc[t].events})

\* A subscriber that adds arrivals and drops, in whatever order the refreshes
\* of several threads send them, ends up with the wallets: no event is lost or
\* sent twice.
EventsBalance ==
    \A x \in Files \X Addresses :
      balance[x] + Pending(<<x, 1>>) - Pending(<<x, -1>>) = IF x \in wallets THEN 1 ELSE 0
=============================================================================
