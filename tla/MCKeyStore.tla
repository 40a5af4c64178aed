----------------------------- MODULE MCKeyStore -----------------------------
(* Two callers, two addresses and two file names for TLC. *)
EXTENDS KeyStore

C(op, a) == [op |-> op, addr |-> a, pass |-> "p", newPass |-> "p", timed |-> FALSE]

Load(cs, n, m) == [calls |-> cs, maxCalls |-> n, maxChanges |-> m]

Unlocks == {C("unlock", "a"), [C("unlock", "a") EXCEPT !.timed = TRUE], C("lock", "a"), C("sign", "a")}
Updates == {C("create", "b"), C("delete", "a"), [C("update", "a") EXCEPT !.newPass = "q"]}
Wallets == {C("subscribe", "a"), C("unsubscribe", "a"), C("wallets", "a")}
Imports == {C("import", "a"), C("import", "b"), C("export", "a")}

MCLoads == {Load(Unlocks, 4, 0), Load(Updates, 2, 0), Load(Updates \cup Imports, 1, 1), Load(Wallets, 2, 1)}
=============================================================================
