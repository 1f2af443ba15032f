------------------------------- MODULE Startup -------------------------------
(***************************************************************************)
(* What a start of the server does to the accounts and to the wrapped      *)
(* master key: `start_server` in src/src/main.py with users.sync_env_user, *)
(* keystore.adopt_legacy_record and keystore.ensure_usable, and the SFTP   *)
(* login that uses what it leaves behind.                                  *)
(*                                                                         *)
(* One replica runs at a time (README), so a start interleaves with        *)
(* nothing but its own death, which may come between any two of its        *)
(* writes.  The environment is chosen anew for every start.  A password    *)
(* stands for its hash; a wrapping is its contents and the password that   *)
(* opens it.  A fault may make a wrapping that nothing opens, which is     *)
(* what _replace_wrapping tests for.                                       *)
(***************************************************************************)
EXTENDS FiniteSets

CONSTANTS
  Usernames,  \* values of SFTP_USER
  Passwords,  \* values of SFTP_PASSWORD and SFTP_PASSWORD_OLD
  Costs,      \* key derivation settings
  Accounts,   \* uuids of account rows
  Keys,       \* master keys
  Legacy,     \* LEGACY_ID, the record of a deployment older than accounts
  NoPassword, NoKey, NoRow, NoRecord, NoEnvironment

ASSUME NoneAssumption ==
  /\ Legacy \notin Accounts
  /\ NoPassword \notin Passwords /\ NoKey \notin Keys

RecordIds == Accounts \cup {Legacy}
Rows == [id : Accounts, password : Passwords]
Records == [key : Keys, password : Passwords \cup {NoPassword}, cost : Costs]
Environments == [user : Usernames, password : Passwords,
                 old : Passwords \cup {NoPassword}, cost : Costs,
                 upgrade : BOOLEAN]
ASSUME RowsAssumption ==
  /\ NoRow \notin Rows /\ NoRecord \notin Records
  /\ NoEnvironment \notin Environments

VARIABLES
  users,     \* collection `users`: Usernames -> the row
  backup,    \* rows the operator may put back: Usernames -> set of rows
  keystore,  \* collection `keystore`: RecordIds -> the wrapping
  rootKey,   \* the key the tree is tagged and encrypted with, once it exists
  pc,        \* where the process is
  env        \* its environment

stored == <<users, backup, keystore, rootKey>>
vars == <<stored, pc, env>>

Steps == {"down", "reach", "sync", "adopt", "ensure", "bind", "listening"}

TypeOK ==
  /\ users \in [Usernames -> Rows \cup {NoRow}]
  /\ backup \in [Usernames -> SUBSET Rows]
  /\ keystore \in [RecordIds -> Records \cup {NoRecord}]
  /\ rootKey \in Keys \cup {NoKey}
  /\ pc \in Steps
  /\ env \in Environments \cup {NoEnvironment}

-----------------------------------------------------------------------------
Stored(i) == keystore[i] # NoRecord

\* The account of a user whose row there is, and the record it points to.
Account(u) == users[u].id

Opens(i, p) == Stored(i) /\ keystore[i].password = p

\* users.authenticate, then keystore.open_master_key: both the stored hash and
\* the wrapping must take the password.
Opened(u, p) ==
  IF users[u] # NoRow /\ users[u].password = p /\ Opens(Account(u), p)
  THEN keystore[Account(u)].key ELSE NoKey

\* wrap_master_key, sound or spoilt.
Wrappings(k, p, c) ==
  [key : {k}, password : {p, NoPassword}, cost : {c}]

\* Ids and keys are random: one not seen before.
FreshAccounts ==
  {i \in Accounts : /\ ~Stored(i)
                    /\ \A u \in Usernames :
                         /\ users[u] # NoRow => Account(u) # i
                         /\ \A r \in backup[u] : r.id # i}
FreshKeys ==
  {k \in Keys \ {rootKey} : \A i \in RecordIds : Stored(i) => keystore[i].key # k}

\* The environment ends with the process.
Exit == pc' = "down" /\ env' = NoEnvironment

-----------------------------------------------------------------------------
\* A fresh deployment, or one from before accounts with its files and its key.
Init ==
  /\ users = [u \in Usernames |-> NoRow]
  /\ backup = [u \in Usernames |-> {}]
  /\ \/ keystore = [i \in RecordIds |-> NoRecord] /\ rootKey = NoKey
     \/ \E k \in Keys, p \in Passwords, c \in Costs :
          /\ keystore = [i \in RecordIds |->
               IF i = Legacy THEN [key |-> k, password |-> p, cost |-> c]
                             ELSE NoRecord]
          /\ rootKey = k
  /\ pc = "down" /\ env = NoEnvironment

Start ==
  /\ pc = "down" /\ pc' = "reach"
  /\ env' \in Environments
  /\ UNCHANGED stored

\* check_discord_reachable: a warning at most, or a ConfigError.
Reach ==
  /\ pc = "reach"
  /\ \/ pc' = "sync" /\ UNCHANGED env
     \/ Exit
  /\ UNCHANGED stored

SyncEnvUser ==
  /\ pc = "sync" /\ pc' = "adopt"
  /\ LET u == env.user IN
     \/ /\ users[u] = NoRow
        /\ \E i \in FreshAccounts :
             users' = [users EXCEPT ![u] = [id |-> i, password |-> env.password]]
     \/ /\ users[u] # NoRow
        /\ users' = [users EXCEPT ![u].password = env.password]
  /\ UNCHANGED <<backup, keystore, rootKey, env>>

\* adopt_legacy_record: a rename of the record, whoever the account is.
Adopt ==
  /\ pc = "adopt" /\ pc' = "ensure"
  /\ LET i == Account(env.user) IN
     IF ~Stored(i) /\ Stored(Legacy)
     THEN keystore' = [keystore EXCEPT ![i] = keystore[Legacy],
                                       ![Legacy] = NoRecord]
     ELSE UNCHANGED keystore
  /\ UNCHANGED <<users, backup, rootKey, env>>

-----------------------------------------------------------------------------
\* ensure_usable: one of the five that follow.

\* MUTANT: no look at what else the keystore holds.
BootstrapAnyway ==
  /\ pc = "ensure" /\ pc' = "bind"
  /\ LET i == Account(env.user) IN
     /\ ~Stored(i)
     /\ \E k \in FreshKeys : \E r \in Wrappings(k, env.password, env.cost) :
          keystore' = [keystore EXCEPT ![i] = r]
  /\ UNCHANGED <<users, backup, rootKey, env>>

Bootstrap ==
  /\ pc = "ensure" /\ pc' = "bind"
  /\ \A i \in RecordIds : ~Stored(i)
  /\ \E k \in FreshKeys : \E r \in Wrappings(k, env.password, env.cost) :
       keystore' = [keystore EXCEPT ![Account(env.user)] = r]
  /\ UNCHANGED <<users, backup, rootKey, env>>

RefuseOrphan ==
  /\ pc = "ensure"
  /\ ~Stored(Account(env.user)) /\ \E i \in RecordIds : Stored(i)
  /\ Exit /\ UNCHANGED stored

\* MUTANT: the new wrapping is written without being opened first.
ReplaceUntested(k) ==
  \E r \in Wrappings(k, env.password, env.cost) :
    /\ keystore' = [keystore EXCEPT ![Account(env.user)] = r]
    /\ pc' = "bind" /\ UNCHANGED env

\* _replace_wrapping: written only if it opens to the same key.
ReplaceWrapping(k) ==
  \E r \in Wrappings(k, env.password, env.cost) :
    IF r.password = env.password
    THEN /\ keystore' = [keystore EXCEPT ![Account(env.user)] = r]
         /\ pc' = "bind" /\ UNCHANGED env
    ELSE Exit /\ UNCHANGED keystore

\* The password opens: upgrade_kdf if asked to, or carry on.
UseRecord ==
  /\ pc = "ensure"
  /\ LET i == Account(env.user) IN
     /\ Opens(i, env.password)
     /\ IF env.upgrade /\ keystore[i].cost # env.cost
        THEN ReplaceWrapping(keystore[i].key)
        ELSE pc' = "bind" /\ UNCHANGED <<keystore, env>>
  /\ UNCHANGED <<users, backup, rootKey>>

\* It does not, but the old one does: rewrap.
Rewrap ==
  /\ pc = "ensure"
  /\ LET i == Account(env.user) IN
     /\ Stored(i) /\ ~Opens(i, env.password)
     /\ env.old # NoPassword /\ Opens(i, env.old)
     /\ ReplaceWrapping(keystore[i].key)
  /\ UNCHANGED <<users, backup, rootKey>>

\* MUTANT: a warning only.
ListenAllTheSame ==
  /\ pc = "ensure" /\ pc' = "bind"
  /\ LET i == Account(env.user) IN
     /\ Stored(i) /\ ~Opens(i, env.password)
     /\ env.old = NoPassword \/ ~Opens(i, env.old)
  /\ UNCHANGED <<stored, env>>

RefusePassword ==
  /\ pc = "ensure"
  /\ LET i == Account(env.user) IN
     /\ Stored(i) /\ ~Opens(i, env.password)
     /\ env.old = NoPassword \/ ~Opens(i, env.old)
  /\ Exit /\ UNCHANGED stored

\* ensure_host_key and the two listeners: up, or an error that ends the start.
Bind ==
  /\ pc = "bind"
  /\ \/ pc' = "listening" /\ UNCHANGED env
     \/ Exit
  /\ UNCHANGED stored

-----------------------------------------------------------------------------
\* validate_password: an account, its key, and a tree that verifies with it.
\* ensure_root makes the tree if there is none.
Login(u, p) ==
  /\ pc = "listening"
  /\ Opened(u, p) # NoKey /\ rootKey \in {NoKey, Opened(u, p)}
  /\ rootKey' = Opened(u, p)
  /\ UNCHANGED <<users, backup, keystore, pc, env>>

\* The process ends, in good order or not.
Die == pc # "down" /\ Exit /\ UNCHANGED stored

\* The collection `users` is dropped or rebuilt apart from `keystore`, the case
\* the refusal names, or rows of an earlier time are put back.
LoseUsers ==
  /\ pc = "down"
  /\ users' = [u \in Usernames |-> NoRow]
  /\ backup' = [u \in Usernames |-> backup[u] \cup ({users[u]} \ {NoRow})]
  /\ UNCHANGED <<keystore, rootKey, pc, env>>

RestoreRow(u) ==
  /\ pc = "down"
  /\ \E r \in backup[u] : users' = [users EXCEPT ![u] = r]
  /\ UNCHANGED <<backup, keystore, rootKey, pc, env>>

Opening == Bootstrap \/ RefuseOrphan \/ UseRecord \/ Rewrap \/ RefusePassword
Starting == Start \/ Reach \/ SyncEnvUser \/ Adopt \/ Opening \/ Bind
Operator == LoseUsers \/ \E u \in Usernames : RestoreRow(u)

Next ==
  \/ Starting \/ Die \/ Operator
  \/ \E u \in Usernames, p \in Passwords : Login(u, p)

Spec == Init /\ [][Next]_vars

-----------------------------------------------------------------------------
\* Whatever the passwords, crashes and restored rows: once there are files, the
\* key they are encrypted with is in the keystore, under a password that is one
\* ("the single most dangerous write in the system", keystore.py).
TreeKeyIsKept ==
  rootKey # NoKey =>
    \E i \in RecordIds : /\ Stored(i)
                         /\ keystore[i].key = rootKey
                         /\ keystore[i].password # NoPassword

\* Whoever gets past a login holds the key of the tree, so that no second key
\* ever comes to encrypt a part of it, whichever accounts have come and gone.
NobodyHoldsAnotherKey ==
  \A u \in Usernames, p \in Passwords :
    rootKey # NoKey => Opened(u, p) \in {NoKey, rootKey}

\* "A server that accepts logins and then fails every read looks like data
\* loss": nobody listens before the configured password opens the tree.
ListeningOpensTheTree ==
  pc = "listening" =>
    /\ users[env.user] # NoRow /\ users[env.user].password = env.password
    /\ rootKey # NoKey => Opened(env.user, env.password) = rootKey
=============================================================================
