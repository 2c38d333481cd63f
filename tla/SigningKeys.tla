---------------------------- MODULE SigningKeys ----------------------------
(***************************************************************************)
(* The signing keys of the OAuth provider: made when first needed, rotated *)
(* by the application, published and checked by the active ones            *)
(* (packages/plugin-idp/src/keys.ts, jwt.ts, packages/idp-drizzle/src/pg). *)
(***************************************************************************)
EXTENDS FiniteSets, Naturals, Sequences, Slots

CONSTANTS
    Key,            \* kids generateAndPersistKey may draw
    Caller          \* slots for calls in progress

VARIABLES
    keys,           \* rows in the order of createdAt: the kid and whether it is active
    doing,          \* calls in progress
    \* History.
    concurrent      \* a call went on to make a key while another was about to

keyVars == <<keys, doing, concurrent>>

KeyRow == [kid : Key, active : BOOLEAN]

\* sign: the token endpoint; rotate and bootstrap: the api of the plugin.
Task ==
    [pc : {"idle", "read", "retire", "create", "sign"}, task : {"rotate", "ensure", "none"},
     key : Key \cup {Nil}]

NoTask == [pc |-> "idle", task |-> "none", key |-> Nil]

Kids == {keys[i].kid : i \in DOMAIN keys}
ActiveKeys == {keys[i].kid : i \in {j \in DOMAIN keys : keys[j].active}}

KeyTypeOK ==
    /\ keys \in Seq(KeyRow)
    /\ Cardinality(Kids) = Len(keys)
    /\ doing \in [Caller -> Task]
    /\ concurrent \in BOOLEAN

KeyInit ==
    /\ keys = <<>> /\ concurrent = FALSE
    /\ doing = [c \in Caller |-> NoTask]

Go(c, d) == doing' = [doing EXCEPT ![c] = d]

\* A call to the token endpoint, keys.bootstrap or keys.rotate.
StartTask(c, task) ==
    /\ doing[c] = NoTask
    /\ Go(c, [NoTask EXCEPT !.pc = "read", !.task = task])
    /\ UNCHANGED <<keys, concurrent>>

\* The last active key, by createdAt.
IsCurrent(k) ==
    \E i \in DOMAIN keys :
        keys[i].kid = k /\ keys[i].active /\ \A j \in DOMAIN keys : keys[j].active => j <= i

\* Calls past their look at the keys that have yet to store one.
Making == {c \in Caller : doing[c].pc \in {"retire", "create"}}

\* adapter.keys.getActive.
ReadActive(c) ==
    LET d == doing[c] IN
    /\ d.pc = "read"
    /\ \/ /\ ActiveKeys = {} /\ Go(c, [d EXCEPT !.pc = "create"])
       \/ \E k \in ActiveKeys :
             /\ IsCurrent(k)
             /\ Go(c, [d EXCEPT !.key = k, !.pc = IF d.task = "rotate" THEN "retire" ELSE "sign"])
    /\ concurrent' = (concurrent \/ (doing'[c].pc # "sign" /\ Making # {}))
    /\ UNCHANGED keys

\* Mutant: the key that is retired stays active.
RetiredNot(k) == keys

\* markRotated.
Retired(k) == [i \in DOMAIN keys |-> IF keys[i].kid = k THEN [keys[i] EXCEPT !.active = FALSE] ELSE keys[i]]

Retire(c) ==
    LET d == doing[c] IN
    /\ d.pc = "retire"
    /\ keys' = Retired(d.key)
    /\ Go(c, [d EXCEPT !.pc = "create"])
    /\ UNCHANGED concurrent

\* generateAndPersistKey; a rotation that ends before it leaves no active key,
\* and the next token makes one.
CreateKey(c) ==
    LET d == doing[c] IN
    /\ d.pc = "create"
    /\ \E k \in Key \ Kids :
          /\ keys' = Append(keys, [kid |-> k, active |-> TRUE])
          /\ Go(c, IF d.task = "rotate" THEN NoTask ELSE [d EXCEPT !.pc = "sign", !.key = k])
    /\ UNCHANGED concurrent

\* signAccessToken with the key that was read, unless only a key was asked for; it
\* may have been retired since, and then the token does not verify.
SignToken(c) ==
    /\ doing[c].pc = "sign"
    /\ Go(c, NoTask)
    /\ UNCHANGED <<keys, concurrent>>

\* The call ends at its await.
Stop(c) == doing[c].pc # "idle" /\ Go(c, NoTask) /\ UNCHANGED <<keys, concurrent>>

KeyNext ==
    \E c \in Caller :
        \/ \E task \in {"rotate", "ensure"} : StartTask(c, task)
        \/ ReadActive(c) \/ Retire(c) \/ CreateKey(c) \/ SignToken(c) \/ Stop(c)

KeySpec == KeyInit /\ [][KeyNext]_keyVars

-----------------------------------------------------------------------------
(* Properties.                                                             *)

\* Nothing makes one key the only active one: it is so as long as no call looked for
\* the active key, and went on to make one, while another was between its look and
\* its insert; calls that only read are no excuse (keys.ts:38-55).
OneActiveKey == Cardinality(ActiveKeys) > 1 => concurrent

=============================================================================
