---------------------------- MODULE StartupProofs ----------------------------
(***************************************************************************)
(* Proofs about Startup, for every set of processes and secrets and any    *)
(* number of migrations.                                                   *)
(***************************************************************************)
EXTENDS Startup, TLAPS

USE StartupAssumption DEF file, At, Goto, Begin, Migration

\* What the steps write over a process is a process.
LEMMA FieldTypes ==
    ASSUME NEW x \in Process, NEW pc \in PC, NEW n \in 0..Latest, NEW c \in Proc \cup {NoRoot}
    PROVE  /\ [x EXCEPT !.pc = pc] \in Process
           /\ [x EXCEPT !.pc = pc, !.at = n] \in Process
           /\ [x EXCEPT !.pc = pc, !.ca = c] \in Process
  BY DEF Process

\* The same for a migration's number alone.
LEMMA AtType ==
    ASSUME NEW x \in Process, NEW n \in 0..Latest PROVE [x EXCEPT !.at = n] \in Process
  BY DEF Process

\* A process that has ended.
LEMMA IdleType == Idle \in Process
  BY DEF Process, PC, Idle

\* A process that has just begun.
LEMMA FreshType ==
    ASSUME NEW n \in Migration, NEW s \in Secret
    PROVE  [Idle EXCEPT !.pc = "locked", !.known = n, !.secret = s] \in Process
<1>1. n \in 0..Latest
  OBVIOUS
<1> QED
  BY <1>1, IdleType DEF Process, PC

\* Replacing one process by another keeps the table of processes.
LEMMA ReplaceType ==
    ASSUME procs \in [Proc -> Process], NEW p \in Proc, NEW y \in Process,
           procs' = [procs EXCEPT ![p] = y]
    PROVE  procs' \in [Proc -> Process]
  OBVIOUS

\* A step keeps the types.
LEMMA StepType ==
    ASSUME StartInv, NEW p \in Proc, Step(p) PROVE TypeOK'
<1> USE DEF StartInv, TypeOK
<1>0. procs[p] \in Process /\ procs[p].at \in 0..Latest /\ procs[p].known \in 0..Latest
  BY DEF Process
<1>1. CASE Lock(p)
  <2>1. PICK n \in Migration, s \in Secret :
            procs' = [procs EXCEPT ![p] =
                [Idle EXCEPT !.pc = "locked", !.known = n, !.secret = s]]
    BY <1>1 DEF Lock
  <2>2. procs' \in [Proc -> Process]
    BY <2>1, FreshType, ReplaceType
  <2> QED
    BY <1>1, <2>2 DEF Lock
<1>2. CASE migrate(p)
  <2> DEFINE y == [procs[p] EXCEPT !.pc = "migrating", !.at = version]
  <2>1. y \in Process
    BY <1>2, <1>0, FieldTypes DEF migrate, PC
  <2>2. procs' = [procs EXCEPT ![p] = y]
    BY <1>2 DEF migrate
  <2> HIDE DEF y
  <2>3. procs' \in [Proc -> Process]
    BY <2>1, <2>2, ReplaceType
  <2> QED
    BY <1>2, <2>3, <1>0 DEF migrate
<1>3. CASE Apply(p)
  <2> DEFINE y == [procs[p] EXCEPT !.at = procs[p].at + 1]
  <2>0. procs[p].at + 1 \in 0..Latest
    BY <1>3, <1>0 DEF Apply
  <2>1. y \in Process
    BY <2>0, <1>0, AtType
  <2>2. procs' = [procs EXCEPT ![p] = y]
    BY <1>3 DEF Apply
  <2> HIDE DEF y
  <2>3. procs' \in [Proc -> Process]
    BY <2>1, <2>2, ReplaceType
  <2> QED
    BY <1>3, <2>3, <1>0 DEF Apply
<1>4. CASE Migrated(p)
  <2> DEFINE y == [procs[p] EXCEPT !.pc = "migrated"]
  <2>1. y \in Process
    BY <1>4, <1>0, FieldTypes DEF Migrated, PC
  <2>2. procs' = [procs EXCEPT ![p] = y]
    BY <1>4 DEF Migrated
  <2> HIDE DEF y
  <2>3. procs' \in [Proc -> Process]
    BY <2>1, <2>2, ReplaceType
  <2> QED
    BY <1>4, <2>3, <1>0 DEF Migrated
<1>5. CASE SetSecret(p)
  <2> DEFINE y == [procs[p] EXCEPT !.pc = "unlocked"]
  <2>1. y \in Process
    BY <1>5, <1>0, FieldTypes DEF SetSecret, PC
  <2>2. procs' = [procs EXCEPT ![p] = y]
    BY <1>5 DEF SetSecret
  <2> HIDE DEF y
  <2>3. procs' \in [Proc -> Process]
    BY <2>1, <2>2, ReplaceType
  <2> QED
    BY <1>5, <2>3, <1>0 DEF SetSecret, HasSecret
<1>6. CASE Unlock(p)
  <2> DEFINE y == [procs[p] EXCEPT !.pc = "unlocked"]
  <2>1. y \in Process
    BY <1>6, <1>0, FieldTypes DEF Unlock, PC
  <2>2. procs' = [procs EXCEPT ![p] = y]
    BY <1>6 DEF Unlock
  <2> HIDE DEF y
  <2>3. procs' \in [Proc -> Process]
    BY <2>1, <2>2, ReplaceType
  <2> QED
    BY <1>6, <2>3, <1>0 DEF Unlock
<1>7. CASE initTLS(p)
  <2> DEFINE y == [procs[p] EXCEPT !.pc = "authority", !.ca = IF root = NoRoot THEN p ELSE root]
  <2>1. y \in Process
    BY <1>7, <1>0, FieldTypes DEF initTLS, PC
  <2>2. procs' = [procs EXCEPT ![p] = y]
    BY <1>7 DEF initTLS
  <2> HIDE DEF y
  <2>3. procs' \in [Proc -> Process]
    BY <2>1, <2>2, ReplaceType
  <2> QED
    BY <1>7, <2>3, <1>0 DEF initTLS
<1>8. CASE StoreAuthority(p)
  <2> DEFINE y == [procs[p] EXCEPT !.pc = "trusted"]
  <2>1. y \in Process
    BY <1>8, <1>0, FieldTypes DEF StoreAuthority, PC
  <2>2. procs' = [procs EXCEPT ![p] = y]
    BY <1>8 DEF StoreAuthority
  <2> HIDE DEF y
  <2>3. procs' \in [Proc -> Process]
    BY <2>1, <2>2, ReplaceType
  <2> QED
    BY <1>8, <2>3, <1>0 DEF StoreAuthority, HasRoot
<1>9. CASE New(p)
  <2> DEFINE y == [procs[p] EXCEPT !.pc = "serving"]
  <2>1. y \in Process
    BY <1>9, <1>0, FieldTypes DEF New, PC
  <2>2. procs' = [procs EXCEPT ![p] = y]
    BY <1>9 DEF New
  <2> HIDE DEF y
  <2>3. procs' \in [Proc -> Process]
    BY <2>1, <2>2, ReplaceType
  <2> QED
    BY <1>9, <2>3, <1>0 DEF New
<1>10. CASE Quit(p)
  <2> DEFINE y == Idle
  <2>1. y \in Process
    BY IdleType
  <2>2. procs' = [procs EXCEPT ![p] = y]
    BY <1>10 DEF Quit
  <2> HIDE DEF y
  <2>3. procs' \in [Proc -> Process]
    BY <2>1, <2>2, ReplaceType
  <2> QED
    BY <1>10, <2>3, <1>0 DEF Quit
<1> QED
  BY <1>1, <1>2, <1>3, <1>4, <1>5, <1>6, <1>7, <1>8, <1>9, <1>10 DEF Step

\* A step runs the next migration or none.
LEMMA StepMigrates ==
    ASSUME StartInv, NEW p \in Proc, Step(p) PROVE MigratedOnce'
<1> USE DEF StartInv, TypeOK, Process, PC, Idle
<1>1. CASE Lock(p)
  BY <1>1 DEF Lock, Holder, HasSecret, HasVersion, HasCheck, HasRoot, MigratedOnce
<1>2. CASE migrate(p)
  BY <1>2 DEF migrate, Holder, HasSecret, HasVersion, HasCheck, HasRoot, MigratedOnce
<1>3. CASE Apply(p)
  BY <1>3 DEF Apply, Holder, HasSecret, HasVersion, HasCheck, HasRoot, MigratedOnce
<1>4. CASE Migrated(p)
  BY <1>4 DEF Migrated, Holder, HasSecret, HasVersion, HasCheck, HasRoot, MigratedOnce
<1>5. CASE SetSecret(p)
  BY <1>5 DEF SetSecret, Holder, HasSecret, HasVersion, HasCheck, HasRoot, MigratedOnce
<1>6. CASE Unlock(p)
  BY <1>6 DEF Unlock, Holder, HasSecret, HasVersion, HasCheck, HasRoot, MigratedOnce
<1>7. CASE initTLS(p)
  BY <1>7 DEF initTLS, Holder, HasSecret, HasVersion, HasCheck, HasRoot, MigratedOnce
<1>8. CASE StoreAuthority(p)
  BY <1>8 DEF StoreAuthority, Holder, HasSecret, HasVersion, HasCheck, HasRoot, MigratedOnce
<1>9. CASE New(p)
  BY <1>9 DEF New, Holder, HasSecret, HasVersion, HasCheck, HasRoot, MigratedOnce
<1>10. CASE Quit(p)
  BY <1>10 DEF Quit, Holder, HasSecret, HasVersion, HasCheck, HasRoot, MigratedOnce
<1> QED
  BY <1>1, <1>2, <1>3, <1>4, <1>5, <1>6, <1>7, <1>8, <1>9, <1>10 DEF Step

\* Only the holder of the lock gets past the beginning.
LEMMA StepHolds ==
    ASSUME StartInv, NEW p \in Proc, Step(p) PROVE Holder' /\ HasSecret'
<1> USE DEF StartInv, TypeOK, Process, PC, Idle
<1>1. CASE Lock(p)
  BY <1>1 DEF Lock, Holder, HasSecret, HasVersion, HasCheck, HasRoot, MigratedOnce
<1>2. CASE migrate(p)
  BY <1>2 DEF migrate, Holder, HasSecret, HasVersion, HasCheck, HasRoot, MigratedOnce
<1>3. CASE Apply(p)
  BY <1>3 DEF Apply, Holder, HasSecret, HasVersion, HasCheck, HasRoot, MigratedOnce
<1>4. CASE Migrated(p)
  BY <1>4 DEF Migrated, Holder, HasSecret, HasVersion, HasCheck, HasRoot, MigratedOnce
<1>5. CASE SetSecret(p)
  BY <1>5 DEF SetSecret, Holder, HasSecret, HasVersion, HasCheck, HasRoot, MigratedOnce
<1>6. CASE Unlock(p)
  BY <1>6 DEF Unlock, Holder, HasSecret, HasVersion, HasCheck, HasRoot, MigratedOnce
<1>7. CASE initTLS(p)
  BY <1>7 DEF initTLS, Holder, HasSecret, HasVersion, HasCheck, HasRoot, MigratedOnce
<1>8. CASE StoreAuthority(p)
  BY <1>8 DEF StoreAuthority, Holder, HasSecret, HasVersion, HasCheck, HasRoot, MigratedOnce
<1>9. CASE New(p)
  BY <1>9 DEF New, Holder, HasSecret, HasVersion, HasCheck, HasRoot, MigratedOnce
<1>10. CASE Quit(p)
  BY <1>10 DEF Quit, Holder, HasSecret, HasVersion, HasCheck, HasRoot, MigratedOnce
<1> QED
  BY <1>1, <1>2, <1>3, <1>4, <1>5, <1>6, <1>7, <1>8, <1>9, <1>10 DEF Step

\* A start goes on only with the schema it knows.
LEMMA StepVersion ==
    ASSUME StartInv, NEW p \in Proc, Step(p) PROVE HasVersion'
<1> USE DEF StartInv, TypeOK, Process, PC, Idle
<1>1. CASE Lock(p)
  BY <1>1 DEF Lock, Holder, HasSecret, HasVersion, HasCheck, HasRoot, MigratedOnce
<1>2. CASE migrate(p)
  BY <1>2 DEF migrate, Holder, HasSecret, HasVersion, HasCheck, HasRoot, MigratedOnce
<1>3. CASE Apply(p)
  <2>1. procs[p].at = version /\ lock = {p} /\ version < procs[p].known
    BY <1>3 DEF Apply, HasVersion, Holder
  <2>2. version' = version + 1 /\ procs' = [procs EXCEPT ![p].at = version + 1]
    BY <1>3, <2>1 DEF Apply
  <2>3. \A q \in Proc : q # p => At(q, "idle")
    BY <2>1 DEF Holder
  <2>4. procs'[p].pc = "migrating" /\ procs'[p].at = version' /\ version' <= procs'[p].known
    BY <1>3, <2>1, <2>2 DEF Apply
  <2>5. \A q \in Proc : q # p => procs'[q].pc = "idle"
    BY <2>2, <2>3
  <2> QED
    BY <2>4, <2>5 DEF HasVersion
<1>4. CASE Migrated(p)
  BY <1>4 DEF Migrated, Holder, HasSecret, HasVersion, HasCheck, HasRoot, MigratedOnce
<1>5. CASE SetSecret(p)
  BY <1>5 DEF SetSecret, Holder, HasSecret, HasVersion, HasCheck, HasRoot, MigratedOnce
<1>6. CASE Unlock(p)
  BY <1>6 DEF Unlock, Holder, HasSecret, HasVersion, HasCheck, HasRoot, MigratedOnce
<1>7. CASE initTLS(p)
  BY <1>7 DEF initTLS, Holder, HasSecret, HasVersion, HasCheck, HasRoot, MigratedOnce
<1>8. CASE StoreAuthority(p)
  BY <1>8 DEF StoreAuthority, Holder, HasSecret, HasVersion, HasCheck, HasRoot, MigratedOnce
<1>9. CASE New(p)
  BY <1>9 DEF New, Holder, HasSecret, HasVersion, HasCheck, HasRoot, MigratedOnce
<1>10. CASE Quit(p)
  BY <1>10 DEF Quit, Holder, HasSecret, HasVersion, HasCheck, HasRoot, MigratedOnce
<1> QED
  BY <1>1, <1>2, <1>3, <1>4, <1>5, <1>6, <1>7, <1>8, <1>9, <1>10 DEF Step

\* A start goes on only with the secret of the file.
LEMMA StepChecks ==
    ASSUME StartInv, NEW p \in Proc, Step(p) PROVE HasCheck'
<1> USE DEF StartInv, TypeOK, Process, PC, Idle
<1>1. CASE Lock(p)
  BY <1>1 DEF Lock, Holder, HasSecret, HasVersion, HasCheck, HasRoot, MigratedOnce
<1>2. CASE migrate(p)
  BY <1>2 DEF migrate, Holder, HasSecret, HasVersion, HasCheck, HasRoot, MigratedOnce
<1>3. CASE Apply(p)
  BY <1>3 DEF Apply, Holder, HasSecret, HasVersion, HasCheck, HasRoot, MigratedOnce
<1>4. CASE Migrated(p)
  BY <1>4 DEF Migrated, Holder, HasSecret, HasVersion, HasCheck, HasRoot, MigratedOnce
<1>5. CASE SetSecret(p)
  BY <1>5 DEF SetSecret, Holder, HasSecret, HasVersion, HasCheck, HasRoot, MigratedOnce
<1>6. CASE Unlock(p)
  BY <1>6 DEF Unlock, Holder, HasSecret, HasVersion, HasCheck, HasRoot, MigratedOnce
<1>7. CASE initTLS(p)
  BY <1>7 DEF initTLS, Holder, HasSecret, HasVersion, HasCheck, HasRoot, MigratedOnce
<1>8. CASE StoreAuthority(p)
  BY <1>8 DEF StoreAuthority, Holder, HasSecret, HasVersion, HasCheck, HasRoot, MigratedOnce
<1>9. CASE New(p)
  BY <1>9 DEF New, Holder, HasSecret, HasVersion, HasCheck, HasRoot, MigratedOnce
<1>10. CASE Quit(p)
  BY <1>10 DEF Quit, Holder, HasSecret, HasVersion, HasCheck, HasRoot, MigratedOnce
<1> QED
  BY <1>1, <1>2, <1>3, <1>4, <1>5, <1>6, <1>7, <1>8, <1>9, <1>10 DEF Step

\* A start signs only with the root of the file.
LEMMA StepRoot ==
    ASSUME StartInv, NEW p \in Proc, Step(p) PROVE HasRoot'
<1> USE DEF StartInv, TypeOK, Process, PC, Idle
<1>1. CASE Lock(p)
  BY <1>1 DEF Lock, Holder, HasSecret, HasVersion, HasCheck, HasRoot, MigratedOnce
<1>2. CASE migrate(p)
  BY <1>2 DEF migrate, Holder, HasSecret, HasVersion, HasCheck, HasRoot, MigratedOnce
<1>3. CASE Apply(p)
  BY <1>3 DEF Apply, Holder, HasSecret, HasVersion, HasCheck, HasRoot, MigratedOnce
<1>4. CASE Migrated(p)
  BY <1>4 DEF Migrated, Holder, HasSecret, HasVersion, HasCheck, HasRoot, MigratedOnce
<1>5. CASE SetSecret(p)
  BY <1>5 DEF SetSecret, Holder, HasSecret, HasVersion, HasCheck, HasRoot, MigratedOnce
<1>6. CASE Unlock(p)
  BY <1>6 DEF Unlock, Holder, HasSecret, HasVersion, HasCheck, HasRoot, MigratedOnce
<1>7. CASE initTLS(p)
  BY <1>7 DEF initTLS, Holder, HasSecret, HasVersion, HasCheck, HasRoot, MigratedOnce
<1>8. CASE StoreAuthority(p)
  <2>1. lock = {p} /\ procs' = [procs EXCEPT ![p].pc = "trusted"] /\ root' = procs[p].ca
    BY <1>8 DEF StoreAuthority, Holder
  <2>2. procs'[p].pc = "trusted" /\ procs'[p].ca = root'
    BY <2>1
  <2>3. \A q \in Proc : q # p => procs'[q].pc = "idle"
    BY <2>1 DEF Holder
  <2> QED
    BY <2>2, <2>3 DEF HasRoot
<1>9. CASE New(p)
  BY <1>9 DEF New, Holder, HasSecret, HasVersion, HasCheck, HasRoot, MigratedOnce
<1>10. CASE Quit(p)
  BY <1>10 DEF Quit, Holder, HasSecret, HasVersion, HasCheck, HasRoot, MigratedOnce
<1> QED
  BY <1>1, <1>2, <1>3, <1>4, <1>5, <1>6, <1>7, <1>8, <1>9, <1>10 DEF Step

\* The inductive invariant holds of every start, however many are tried or killed.
THEOREM StartInvariant == Spec => []StartInv
<1>1. Init => StartInv
  <2> SUFFICES ASSUME Init PROVE StartInv
    OBVIOUS
  <2>1. \A p \in Proc : At(p, "idle")
    BY DEF Init, Idle
  <2>2. TypeOK
    <3>1. procs \in [Proc -> Process]
      BY IdleType DEF Init
    <3>2. applied \in [Migration -> Nat] /\ version \in 0..Latest
      BY DEF Init
    <3> QED
      BY <3>1, <3>2 DEF Init, TypeOK
  <2>3. MigratedOnce
    BY DEF Init, MigratedOnce
  <2> QED
    BY <2>1, <2>2, <2>3 DEF StartInv, Holder, HasSecret, HasVersion, HasCheck, HasRoot
<1>2. StartInv /\ [Next]_vars => StartInv'
  <2>1. ASSUME StartInv, NEW p \in Proc, Step(p) PROVE StartInv'
    BY <2>1, StepType, StepMigrates, StepHolds, StepVersion, StepChecks, StepRoot DEF StartInv
  <2>2. ASSUME StartInv, UNCHANGED vars PROVE StartInv'
    BY <2>2 DEF vars, StartInv, TypeOK, MigratedOnce, Holder, HasSecret, HasVersion, HasCheck,
                HasRoot
  <2> QED
    BY <2>1, <2>2 DEF Next
<1> QED
  BY <1>1, <1>2, PTL DEF Spec

\* Lock, version, secrets and processes stay within their types (Open, migrate, initTLS, New).
THEOREM StartupTypes == Spec => []TypeOK
<1>1. StartInv => TypeOK
  BY DEF StartInv
<1> QED
  BY <1>1, StartInvariant, PTL

\* Every migration up to user_version was committed exactly once and no later one was,
\* whatever binaries were started on the file and wherever they were killed (migrate).
THEOREM MigrationsRunOnce == Spec => []MigratedOnce
<1>1. StartInv => MigratedOnce
  BY DEF StartInv
<1> QED
  BY <1>1, StartInvariant, PTL

\* A serving process is alone, knows the file's schema exactly, holds its secret and signs
\* under its root (Open's lock and check row, migrate's version test, initTLS).
THEOREM ServersFitTheirFile == Spec => []ServesItsFile
<1>1. StartInv => ServesItsFile
  BY DEF StartInv, ServesItsFile, Holder, HasVersion, HasCheck, HasRoot
<1> QED
  BY <1>1, StartInvariant, PTL

\* A stored trust root is never replaced (initTLS's upsert).
THEOREM RootIsKept == Spec => RootStays
<1>1. StartInv /\ [Next]_vars => [root # NoRoot => root' = root]_vars
  <2>1. ASSUME StartInv, NEW p \in Proc, Step(p), root # NoRoot PROVE root' = root
    BY <2>1 DEF StartInv, HasRoot, Step, Lock, migrate, Apply, Migrated, SetSecret, Unlock,
                initTLS, StoreAuthority, New, Quit
  <2> QED
    BY <2>1 DEF Next
<1> QED
  BY <1>1, StartInvariant, PTL DEF Spec, RootStays
=============================================================================
