------------------------------ MODULE Settings ------------------------------
(***************************************************************************)
(* The settings of a company and its books lock (put_settings and          *)
(* set_books_lock in src/api.rs, their store calls in src/store/pg.rs).    *)
(*                                                                         *)
(* put_settings reads, merges and writes in two statements and takes no    *)
(* lock.  The store's set_books_lock is a transaction under the company's  *)
(* advisory lock, the one posting_commit takes: it keeps other commits     *)
(* out, but not a settings write between its own read and write.           *)
(*                                                                         *)
(* The lock is one more field of the stored settings and is kept apart     *)
(* from the others here.  A date is a number, 0 is no lock.  The role a    *)
(* request was authorized with is part of its command; Identity has the    *)
(* roles.                                                                  *)
(***************************************************************************)
EXTENDS Integers

CONSTANTS
    Handlers,  \* requests that may run at the same time
    Commands,  \* what clients send
    Fields,    \* the settings other than the lock
    Values,    \* their values
    Default,   \* the value of a field of CompanySettings::default
    Tomorrow,  \* the latest date the books may be locked through
    NoCommand, \* the command of an idle handler
    Nobody     \* the advisory lock is free

Locks == 0..Tomorrow

\* The settings and the lock, as one read sees them.
NothingRead == [fields |-> [f \in Fields |-> Default], lock |-> 0]

ASSUME SettingsAssumption ==
    /\ Default \in Values /\ Tomorrow \in Nat
    /\ NoCommand \notin Commands /\ Nobody \notin Handlers

VARIABLES
    fields,    \* company_settings: the fields other than the lock
    lock,      \* company_settings: books_lock_date
    advisory,  \* who holds the company's advisory lock
    pc,        \* per handler, where it is
    cmd,       \* per handler, its command
    seen       \* per handler, the settings as it read them

handlerVars == <<pc, cmd, seen>>
settingsVars == <<fields, lock, advisory, handlerVars>>

-----------------------------------------------------------------------------
Begin(h, c) ==
    /\ pc[h] = "idle"
    /\ pc' = [pc EXCEPT ![h] = "start"]
    /\ cmd' = [cmd EXCEPT ![h] = c]
    /\ UNCHANGED <<fields, lock, advisory, seen>>

\* An answer of any kind: the handler is gone.
End(h) ==
    /\ pc' = [pc EXCEPT ![h] = "idle"]
    /\ cmd' = [cmd EXCEPT ![h] = NoCommand]
    /\ seen' = [seen EXCEPT ![h] = NothingRead]

\* A read of the settings, on the way to the next store call.
Read(h, next) ==
    /\ pc' = [pc EXCEPT ![h] = next]
    /\ seen' = [seen EXCEPT ![h] = [fields |-> fields, lock |-> lock]]
    /\ UNCHANGED cmd

At(h, where, kind) == pc[h] = where /\ cmd[h].kind = kind

\* The client disconnects, or the store fails, at an await.  A transaction
\* that did not commit is rolled back.
Abandon(h) ==
    /\ pc[h] # "idle"
    /\ End(h)
    /\ advisory' = IF advisory = h THEN Nobody ELSE advisory
    /\ UNCHANGED <<fields, lock>>

May(h, roles) == cmd[h].role \in roles

Settlers == {"Owner", "Admin", "Accountant"}

-----------------------------------------------------------------------------
(* put_settings: [kind |-> "put", role, patch, lock].  patch gives some    *)
(* fields a value; lock is the set of locks the patch mentions, at most    *)
(* one.                                                                    *)

ReadSettings(h) ==
    /\ At(h, "start", "put")
    /\ \/ ~(May(h, Settlers) /\ cmd[h].lock \subseteq {lock}) /\ End(h)
       \/ May(h, Settlers) /\ cmd[h].lock \subseteq {lock} /\ Read(h, "write")
    /\ UNCHANGED <<fields, lock, advisory>>

\* Mutant: the fields that are not sent go back to their defaults.
UnmergedMutant(h) ==
    [f \in Fields |-> IF f \in DOMAIN cmd[h].patch THEN cmd[h].patch[f] ELSE Default]

Merged(h) ==
    [f \in Fields |-> IF f \in DOMAIN cmd[h].patch THEN cmd[h].patch[f] ELSE seen[h].fields[f]]

\* Whatever lock the merged settings hold, the stored one stays.
LockAfterPut(h) == lock

put_company_settings(h) ==
    /\ At(h, "write", "put")
    /\ fields' = Merged(h)
    /\ lock' = LockAfterPut(h)
    /\ End(h)
    /\ UNCHANGED advisory

-----------------------------------------------------------------------------
(* set_books_lock: [kind |-> "lock", role, expected, new].                 *)

Reopens(old, new) == old # 0 /\ (new = 0 \/ new < old)

\* The handler judges by the lock its caller saw.
Permitted(h) ==
    /\ May(h, Settlers)
    /\ cmd[h].new <= Tomorrow
    /\ Reopens(cmd[h].expected, cmd[h].new) => May(h, {"Owner", "Admin"})

\* Mutant: the lock is set whatever it was.
UnexpectedMutant(h) == FALSE

Moved(h) == lock # cmd[h].expected

\* The transaction begins, once the advisory lock is free, and reads.
LockBooks(h) ==
    /\ At(h, "start", "lock")
    /\ \/ /\ ~Permitted(h)
          /\ End(h) /\ UNCHANGED advisory
       \/ /\ Permitted(h) /\ advisory = Nobody
          /\ lock = cmd[h].new \/ Moved(h)
          /\ End(h) /\ UNCHANGED advisory
       \/ /\ Permitted(h) /\ advisory = Nobody
          /\ lock # cmd[h].new /\ ~Moved(h)
          /\ Read(h, "write") /\ advisory' = h
    /\ UNCHANGED <<fields, lock>>

\* All the settings are written, as they were read.
WriteLock(h) ==
    /\ At(h, "write", "lock")
    /\ fields' = seen[h].fields
    /\ lock' = cmd[h].new
    /\ advisory' = Nobody
    /\ End(h)

-----------------------------------------------------------------------------
SettingsInit ==
    /\ fields = [f \in Fields |-> Default]
    /\ lock = 0 /\ advisory = Nobody
    /\ pc = [h \in Handlers |-> "idle"]
    /\ cmd = [h \in Handlers |-> NoCommand]
    /\ seen = [h \in Handlers |-> NothingRead]

SettingsStep(h) ==
    \/ \E c \in Commands : Begin(h, c)
    \/ Abandon(h)
    \/ ReadSettings(h) \/ put_company_settings(h)
    \/ LockBooks(h) \/ WriteLock(h)

-----------------------------------------------------------------------------
(* Properties                                                              *)

\* A device that missed a change can never silently undo it: the lock moves
\* only for a caller who saw the lock as it was, also when whole settings are
\* sent back that were read before the lock moved.  And finalised periods are
\* reopened (the lock cleared or moved earlier) only by an owner or an admin,
\* although the handler checks the role against the lock its caller claims to
\* have seen and the lock may move before the transaction (set_books_lock).
LockMovedKnowingly ==
    [][lock' # lock =>
          \E h \in Handlers :
              /\ At(h, "write", "lock")
              /\ cmd[h].expected = lock /\ cmd[h].new = lock'
              /\ Reopens(lock, lock') => May(h, {"Owner", "Admin"})]_settingsVars

\* A setting changes without having been sent only when the settings changed
\* between the read and the write of the put_settings or set_books_lock that
\* writes it, and then it goes back to what that request read.  (It does:
\* put_settings is not atomic, and set_books_lock writes back fields that
\* put_settings may have replaced since it read them.)
SettingLostOnlyByRace ==
    [][\A f \in Fields : fields'[f] # fields[f] =>
          \E h \in Handlers :
              /\ pc'[h] = "idle"
              /\ \/ At(h, "write", "put") /\ f \in DOMAIN cmd[h].patch
                 \/ /\ At(h, "write", "put") \/ At(h, "write", "lock")
                    /\ seen[h].fields[f] = fields'[f]]_settingsVars
=============================================================================
