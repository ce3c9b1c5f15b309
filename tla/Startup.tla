------------------------------- MODULE Startup -------------------------------
(***************************************************************************)
(* From `budge server` to a serving process: the lock on the database      *)
(* file, the migrations, the unlock secret, the trust root and the owner   *)
(* account. Several commands may be started on one file, by binaries that  *)
(* know different numbers of migrations and with different unlock secrets; *)
(* each may fail or be killed between any two transactions.                *)
(***************************************************************************)
EXTENDS Naturals

CONSTANTS Proc,        \* server processes
          Secret,      \* unlock secrets an operator may type
          Latest,      \* migrations the newest binary brings
          NoSecret,    \* no salt and check rows
          NoRoot       \* no authority row

VARIABLES lock,        \* the processes whose flock on the file was granted
          version,     \* PRAGMA user_version
          applied,     \* how often each migration's statements were committed
          check,       \* the secret that opens the check row
          root,        \* the process whose trust root the authority row holds
          owner,       \* whether the owners table has its row
          procs

file == <<version, applied, check, root, owner>>
vars == <<lock, file, procs>>

Migration == 1..Latest

\* locked: flock granted; migrating: user_version read; migrated: past migrate;
\* unlocked: Open has returned; authority: initTLS has its keys; trusted: and stored them
PC == {"idle", "locked", "migrating", "migrated", "unlocked", "authority", "trusted", "serving"}

\* known: migrations in this binary; at: the last one migrate found or ran; ca: the root
\* that the process signs with.
Process ==
    [pc : PC, known : 0..Latest, at : 0..Latest,
     secret : Secret \cup {NoSecret}, ca : Proc \cup {NoRoot}]

ASSUME StartupAssumption ==
    /\ Latest \in Nat \ {0}
    /\ NoSecret \notin Secret /\ NoRoot \notin Proc

TypeOK ==
    /\ lock \in SUBSET Proc
    /\ version \in 0..Latest
    /\ applied \in [Migration -> Nat]
    /\ check \in Secret \cup {NoSecret}
    /\ root \in Proc \cup {NoRoot}
    /\ owner \in BOOLEAN
    /\ procs \in [Proc -> Process]

Idle == [pc |-> "idle", known |-> 0, at |-> 0, secret |-> NoSecret, ca |-> NoRoot]

\* A file that O_CREATE has just made.
Init ==
    /\ lock = {}
    /\ version = 0
    /\ applied = [m \in Migration |-> 0]
    /\ check = NoSecret
    /\ root = NoRoot
    /\ owner = FALSE
    /\ procs = [p \in Proc |-> Idle]
-----------------------------------------------------------------------------
At(p, pc) == procs[p].pc = pc

Goto(p, pc) == procs' = [procs EXCEPT ![p].pc = pc]

Begin(p) ==
    /\ At(p, "idle")
    /\ lock' = lock \cup {p}
    /\ \E n \in Migration, s \in Secret :
           procs' = [procs EXCEPT ![p] =
               [Idle EXCEPT !.pc = "locked", !.known = n, !.secret = s]]
    /\ UNCHANGED file

\* Open with a lock that other servers may share.
LockShared(p) == Begin(p)

\* Open: the non-blocking exclusive lock, held until Close or death.
Lock(p) == lock = {} /\ Begin(p)

\* migrate that runs whatever it does not know of.
migrateAnyway(p) ==
    /\ At(p, "locked")
    /\ procs' = [procs EXCEPT ![p].pc = "migrating", ![p].at = version]
    /\ UNCHANGED <<lock, file>>

\* migrate reads user_version and refuses a newer database.
migrate(p) ==
    /\ At(p, "locked")
    /\ version <= procs[p].known
    /\ procs' = [procs EXCEPT ![p].pc = "migrating", ![p].at = version]
    /\ UNCHANGED <<lock, file>>

\* A migration that leaves user_version to a later statement.
ApplyUnversioned(p) ==
    LET m == procs[p].at + 1 IN
    /\ At(p, "migrating") /\ procs[p].at < procs[p].known
    /\ applied' = [applied EXCEPT ![m] = @ + 1]
    /\ procs' = [procs EXCEPT ![p].at = m]
    /\ UNCHANGED <<lock, version, check, root, owner>>

\* migrate that counts its files from zero.
ApplyOneMore(p) ==
    LET m == procs[p].at + 1 IN
    /\ At(p, "migrating") /\ procs[p].at <= procs[p].known
    /\ version' = m
    /\ procs' = [procs EXCEPT ![p].at = m]
    /\ UNCHANGED <<lock, applied, check, root, owner>>

\* One migration with its user_version, in one transaction.
Apply(p) ==
    LET m == procs[p].at + 1 IN
    /\ At(p, "migrating") /\ procs[p].at < procs[p].known
    /\ applied' = [applied EXCEPT ![m] = @ + 1]
    /\ version' = m
    /\ procs' = [procs EXCEPT ![p].at = m]
    /\ UNCHANGED <<lock, check, root, owner>>

Migrated(p) ==
    /\ At(p, "migrating") /\ procs[p].at >= procs[p].known
    /\ Goto(p, "migrated")
    /\ UNCHANGED <<lock, file>>

\* Open on a new database: salt and check are written together.
SetSecret(p) ==
    /\ At(p, "migrated") /\ check = NoSecret
    /\ check' = procs[p].secret
    /\ Goto(p, "unlocked")
    /\ UNCHANGED <<lock, version, applied, root, owner>>

\* Open on a database with a salt: only the secret it was made with opens the check row.
Unlock(p) ==
    /\ At(p, "migrated") /\ check = procs[p].secret
    /\ Goto(p, "unlocked")
    /\ UNCHANGED <<lock, file>>

\* initTLS loads the authority or makes a new root, and in the end stores what it has.
initTLS(p) ==
    /\ At(p, "unlocked")
    /\ procs' = [procs EXCEPT ![p].pc = "authority",
                              ![p].ca = IF root = NoRoot THEN p ELSE root]
    /\ UNCHANGED <<lock, file>>

StoreAuthority(p) ==
    /\ At(p, "authority")
    /\ root' = procs[p].ca
    /\ Goto(p, "trusted")
    /\ UNCHANGED <<lock, version, applied, check, owner>>

\* New: the first setup makes the owner account.
New(p) ==
    /\ At(p, "trusted")
    /\ owner' = TRUE
    /\ Goto(p, "serving")
    /\ UNCHANGED <<lock, version, applied, check, root>>

\* An error, a graceful stop or a kill: Close or the kernel gives the lock back.
Quit(p) ==
    /\ ~At(p, "idle")
    /\ procs' = [procs EXCEPT ![p] = Idle]
    /\ lock' = lock \ {p}
    /\ UNCHANGED file

Step(p) ==
    \/ Lock(p) \/ migrate(p) \/ Apply(p) \/ Migrated(p)
    \/ SetSecret(p) \/ Unlock(p)
    \/ initTLS(p) \/ StoreAuthority(p) \/ New(p)
    \/ Quit(p)

Next == \E p \in Proc : Step(p)

Spec == Init /\ [][Next]_vars
-----------------------------------------------------------------------------
\* Starts that are killed between migrations, and binaries of different ages, leave every
\* migration up to user_version run exactly once and no later one run (migrate's
\* transaction per file, the lock).
MigratedOnce ==
    \A m \in Migration : applied[m] = IF m <= version THEN 1 ELSE 0

\* What a process has established at each point of its start, and that only the holder of
\* the lock is past the beginning: with TypeOK and MigratedOnce, an inductive invariant.
Holder == \A p \in Proc : ~At(p, "idle") => lock = {p}
HasSecret == \A p \in Proc : ~At(p, "idle") => procs[p].secret \in Secret
HasVersion ==
    \A p \in Proc :
        /\ At(p, "migrating") => procs[p].at = version /\ version <= procs[p].known
        /\ ~(procs[p].pc \in {"idle", "locked", "migrating"}) => version = procs[p].known
HasCheck ==
    \A p \in Proc :
        procs[p].pc \in {"unlocked", "authority", "trusted", "serving"} => check = procs[p].secret
HasRoot ==
    \A p \in Proc :
        /\ At(p, "authority") =>
               procs[p].ca \in Proc /\ (root = NoRoot \/ root = procs[p].ca)
        /\ procs[p].pc \in {"trusted", "serving"} => root = procs[p].ca
        /\ At(p, "serving") => owner

StartInv ==
    TypeOK /\ MigratedOnce /\ Holder /\ HasSecret /\ HasVersion /\ HasCheck /\ HasRoot

\* The trust root that enrolled devices rely on is never replaced, although every start
\* writes the authority row (initTLS's upsert under the lock).
RootStays == [][root # NoRoot => root' = root]_vars

\* What serves a file fits it: no other process serves it, its schema is the one this
\* binary knows, the secret is the one that seals its rows, and certificates are signed
\* under the stored root.
ServesItsFile ==
    \A p \in Proc : At(p, "serving") =>
        /\ \A q \in Proc : At(q, "serving") => q = p
        /\ version = procs[p].known
        /\ check = procs[p].secret
        /\ root = procs[p].ca
        /\ owner
=============================================================================
