------------------------------- MODULE SyncLog -------------------------------
(***************************************************************************)
(* The replication log of one company and what survives a restore:         *)
(* append_mutations and its hash chain, sync push, pull and history        *)
(* (src/api.rs, src/history.rs, src/store/pg.rs), postings as the log sees *)
(* them, backups, restores, and the lost-history report of a device whose  *)
(* book is ahead of the restored server.                                   *)
(*                                                                         *)
(* Appends lock the company's counter row before they read last_version    *)
(* and set it together with the rows, so an append is one step and         *)
(* last_version is the length of the log.  SHA-256 is taken to be          *)
(* injective: a chain value is the function from the versions it covers to *)
(* their records.  One doctype and its series stand for all.               *)
(*                                                                         *)
(* A device is not in this repository; it follows the rules that           *)
(* src/history.rs, sync_pull and docs/OPERATIONS.md give it.               *)
(***************************************************************************)
EXTENDS Integers, Sequences, FiniteSets, FiniteSetsExt, SequencesExt

CONSTANTS
    Docs,         \* documents of the doctype
    Batches,      \* the batches of client edits devices push
    Pushers,      \* push handlers that may run at the same time
    Devices,      \* devices that pull the log
    PageSize,     \* sync_pull_max_page_size
    MaxLog,       \* bound: longest log
    MaxRestores,  \* bound: restores from a backup
    NoHash,       \* SQL null in chain_hash and last_hash
    NoBackup      \* no dump taken yet

\* A log row: mutation id, document, official number (0 in a client's edit).
\* The id of a posting's row is derived from the document, a client's is not.
Mutation == [id : Docs \X Nat, doc : Docs, num : Nat]

PostingId(d) == <<d, 0>>

ASSUME BatchesAssumption ==
    \A b \in Batches :
        /\ b \in Seq(Mutation) /\ b # <<>>
        /\ \A i \in DOMAIN b : b[i].num = 0 /\ b[i].id # PostingId(b[i].doc)

ASSUME NullAssumption == NoHash \notin Seq(Mutation)

ASSUME PageAssumption == PageSize \in Nat \ {0}

ASSUME BoundsAssumption == MaxLog \in Nat /\ MaxRestores \in Nat

VARIABLES
    number, series,         \* documents.official_number (0 = no row); numbering_series
    log, hash, cached,      \* mutations by version, their chain_hash; last_hash
    recoveries,             \* history_recoveries
    backup, restores,       \* the newest dump; how often it was restored
    push,                   \* the push handlers
    held, mark, session,    \* a device's book, its checkpoint, where its sync is
    page, more,             \* the page being applied, and its hasMore
    former, recovery        \* official records of an archived book; recovery id

store == <<number, series, log, hash, cached, recoveries>>
deviceVars == <<held, mark, session, page, more, former, recovery>>
vars == <<store, backup, restores, push, deviceVars>>

-----------------------------------------------------------------------------
(* The hash chain.                                                         *)

GENESIS == << >>

\* The chain value after linking the rows from+1..to of a log onto prev.
Link(prev, rows, from, to) ==
    [v \in DOMAIN prev \cup (from + 1)..to |->
        IF v > from THEN rows[v] ELSE prev[v]]

\* The newest row that is linked; 0 when none is.
LastLinked == Max({0} \cup {v \in DOMAIN log : hash[v] # NoHash})

Anchor == IF LastLinked = 0 THEN GENESIS ELSE hash[LastLinked]

\* The value row v has once chain_tip has linked what was not.
LinkedAt(v) == IF v <= LastLinked THEN hash[v] ELSE Link(Anchor, log, LastLinked, v)

\* Mutant: the cached value is extended without comparing it with the row.
ChainTipMutant ==
    IF cached # NoHash THEN cached ELSE Link(Anchor, log, LastLinked, Len(log))

\* The chain value at the head.  The cached value is only a shortcut.
chain_tip == Link(Anchor, log, LastLinked, Len(log))

\* chain_tip's writes: rows without a value get one.
LinkRows ==
    /\ hash' = [v \in DOMAIN log |-> LinkedAt(v)]
    /\ cached' = IF log = <<>> THEN cached ELSE chain_tip

\* Mutant: a checkpoint at the head is taken for one past it.
AtHashMutant(at) ==
    IF at = 0 THEN GENESIS ELSE IF at >= Len(log) THEN NoHash ELSE LinkedAt(at)

\* at_hash of history_checkpoint: null when the log ends before that version.
AtHash(at) ==
    IF at = 0 THEN GENESIS ELSE IF at > Len(log) THEN NoHash ELSE LinkedAt(at)

-----------------------------------------------------------------------------
(* Appending.                                                              *)

Logged(id) == \E v \in DOMAIN log : log[v].id = id

\* The counter row of the company is locked: another append, and a reader of
\* the chain, waits for the transaction that holds it.
CounterFree == \A w \in Pushers : push[w].phase # "appending"

\* The rows a transaction adds to the log.  A server from before the chain
\* leaves both the new rows and the cached value alone.
append_mutations(new, chained) ==
    LET rows == log \o new
    IN  /\ Len(rows) <= MaxLog
        /\ log' = rows
        /\ hash' = [v \in DOMAIN rows |->
                       IF chained /\ v <= Len(log) THEN LinkedAt(v)
                       ELSE IF chained THEN Link(chain_tip, rows, Len(log), v)
                       ELSE IF v <= Len(log) THEN hash[v]
                       ELSE NoHash]
        /\ cached' = IF chained THEN Link(chain_tip, rows, Len(log), Len(rows)) ELSE cached

\* A posting takes the next number and replicates the document.
Post(d, chained) ==
    /\ number[d] = 0 /\ CounterFree
    /\ number' = [number EXCEPT ![d] = series + 1]
    /\ series' = series + 1
    /\ LET m == [id |-> PostingId(d), doc |-> d, num |-> series + 1]
       IN  append_mutations(IF Logged(m.id) THEN <<>> ELSE <<m>>, chained)
    /\ UNCHANGED <<recoveries, backup, restores, push, deviceVars>>

-----------------------------------------------------------------------------
(* sync_push: reads outside any transaction, then the append.              *)

Idle == [phase |-> "idle", batch |-> <<>>, known |-> {}, next |-> 1, rows |-> <<>>]

\* known_mutation_ids.
BeginPush(w, batch) ==
    /\ push[w].phase = "idle"
    /\ push' = [push EXCEPT ![w] =
                   [Idle EXCEPT !.phase = "checking", !.batch = batch,
                                !.known = {m \in ToSet(batch) : Logged(m.id)}]]
    /\ UNCHANGED <<store, backup, restores, deviceVars>>

\* posted_document for the next mutation that is not known: an official
\* document refuses the whole batch.
CheckPush(w) ==
    /\ push[w].phase = "checking"
    /\ push[w].next <= Len(push[w].batch)
    /\ LET m == push[w].batch[push[w].next]
           immutable == m \notin push[w].known /\ number[m.doc] # 0
       IN  \/ immutable /\ push' = [push EXCEPT ![w] = Idle]
           \/ ~immutable /\ push' = [push EXCEPT ![w].next = @ + 1]
    /\ UNCHANGED <<store, backup, restores, deviceVars>>

\* push_mutations opens its transaction and locks the counter row.
LockCounter(w) ==
    /\ push[w].phase = "checking" /\ push[w].next > Len(push[w].batch)
    /\ CounterFree
    /\ push' = [push EXCEPT ![w].phase = "appending", ![w].next = 1]
    /\ UNCHANGED <<store, backup, restores, deviceVars>>

\* One turn of the append loop: a mutation the log holds is skipped.
AppendRow(w) ==
    /\ push[w].phase = "appending"
    /\ push[w].next <= Len(push[w].batch)
    /\ LET m == push[w].batch[push[w].next]
       IN  push' = [push EXCEPT ![w].next = @ + 1,
                                ![w].rows = IF Logged(m.id) THEN @ ELSE Append(@, m)]
    /\ UNCHANGED <<store, backup, restores, deviceVars>>

CommitPush(w, chained) ==
    /\ push[w].phase = "appending" /\ push[w].next > Len(push[w].batch)
    /\ append_mutations(push[w].rows, chained)
    /\ push' = [push EXCEPT ![w] = Idle]
    /\ UNCHANGED <<number, series, recoveries, backup, restores, deviceVars>>

\* The client disconnects: an open transaction rolls back.
AbandonPush(w) ==
    /\ push[w].phase # "idle"
    /\ push' = [push EXCEPT ![w] = Idle]
    /\ UNCHANGED <<store, backup, restores, deviceVars>>

-----------------------------------------------------------------------------
(* Backup and restore.                                                     *)

Backup ==
    /\ backup' = [number |-> number, series |-> series, log |-> log, hash |-> hash,
                  cached |-> cached, recoveries |-> recoveries]
    /\ backup' # backup
    /\ UNCHANGED <<store, restores, push, deviceVars>>

\* The backend is stopped for a restore, so no request or sync outlives it.
Restore ==
    /\ backup # NoBackup /\ restores < MaxRestores
    /\ restores' = restores + 1
    /\ number' = backup.number /\ series' = backup.series
    /\ log' = backup.log /\ hash' = backup.hash /\ cached' = backup.cached
    /\ recoveries' = backup.recoveries
    /\ push' = [w \in Pushers |-> Idle]
    /\ session' = [d \in Devices |-> "idle"]
    /\ page' = [d \in Devices |-> <<>>]
    /\ more' = [d \in Devices |-> FALSE]
    /\ UNCHANGED <<backup, held, mark, former, recovery>>

-----------------------------------------------------------------------------
(* A device.                                                               *)

\* The official records of a book.
Official(rows) == {m \in ToSet(rows) : m.num # 0}

\* Before it syncs a device compares its checkpoint with the server's chain.
\* If they differ it archives its book and starts a new one from version 0.
CheckHistory(dev) ==
    /\ session[dev] = "idle" /\ CounterFree
    /\ LinkRows
    /\ session' = [session EXCEPT ![dev] = "checked"]
    /\ \/ /\ AtHash(Len(held[dev])) = mark[dev]
          /\ UNCHANGED <<held, mark, former, recovery>>
       \/ /\ AtHash(Len(held[dev])) # mark[dev]
          /\ held' = [held EXCEPT ![dev] = <<>>]
          /\ mark' = [mark EXCEPT ![dev] = GENESIS]
          /\ former' = [former EXCEPT ![dev] = @ \cup Official(held[dev])]
          /\ recovery' = [recovery EXCEPT ![dev] = @ + 1]
    /\ UNCHANGED <<number, series, log, recoveries, backup, restores, push, page, more>>

\* Mutant: the first row of a page repeats the last one of the page before.
PullPageMutant(after) ==
    SubSeq(log, IF after = 0 THEN 1 ELSE after, Min({after + PageSize, Len(log)}))

\* pull_mutations: the rows past the cursor, at most a page of them.
PullPage(after) == SubSeq(log, after + 1, Min({after + PageSize, Len(log)}))

sync_pull(dev) ==
    /\ session[dev] = "checked"
    /\ session' = [session EXCEPT ![dev] = "paged"]
    /\ page' = [page EXCEPT ![dev] = PullPage(Len(held[dev]))]
    /\ more' = [more EXCEPT ![dev] = Len(log) - Len(held[dev]) > PageSize]
    /\ UNCHANGED <<store, backup, restores, push, held, mark, former, recovery>>

\* The page is applied with the chain value at its last row as checkpoint.
ApplyPage(dev) ==
    /\ session[dev] = "paged" /\ CounterFree
    /\ LinkRows
    /\ held' = [held EXCEPT ![dev] = @ \o page[dev]]
    /\ mark' = [mark EXCEPT ![dev] = AtHash(Len(held[dev]) + Len(page[dev]))]
    /\ session' = [session EXCEPT ![dev] = IF more[dev] THEN "checked" ELSE "idle"]
    /\ page' = [page EXCEPT ![dev] = <<>>]
    /\ more' = [more EXCEPT ![dev] = FALSE]
    /\ UNCHANGED <<number, series, log, recoveries, backup, restores, push,
                   former, recovery>>

-----------------------------------------------------------------------------
(* Lost history.                                                           *)

\* What a recovered device misses in its new book.
Lost(dev) ==
    {m \in former[dev] : \A n \in Official(held[dev]) : n.doc # m.doc}

\* Reported records whose document the server does not have.
Gone(lost) == {m \in lost : number[m.doc] = 0}

\* Of those, the ones whose number another document carries by now.
number_reused(lost) ==
    {m \in Gone(lost) : \E d \in Docs \ {m.doc} : number[d] = m.num}

\* Mutant: the floors are computed and answered but not stored.
FloorMutant(lost) == series

\* The series is raised to the greatest lost number.
SeriesAfter(lost) == Max({series} \cup {m.num : m \in Gone(lost)})

\* record_lost_history: a known recovery id is answered from its row.
record_lost_history(id, lost) ==
    IF \E p \in recoveries : p.id = id
    THEN UNCHANGED <<series, recoveries>>
    ELSE /\ series' = SeriesAfter(lost)
         /\ recoveries' = recoveries \cup
               {[id |-> id, lost |-> lost, gone |-> Gone(lost),
                 reused |-> number_reused(lost)]}

\* The device sends its report; when the answer is lost it will send it again.
ReportLost(dev, answered) ==
    /\ session[dev] = "idle" /\ former[dev] # {}
    /\ record_lost_history(<<dev, recovery[dev]>>, Lost(dev))
    /\ former' = IF answered THEN [former EXCEPT ![dev] = {}] ELSE former
    /\ UNCHANGED <<number, log, hash, cached, backup, restores, push, held, mark,
                   session, page, more, recovery>>

-----------------------------------------------------------------------------
\* A company as the chain's migration finds it may have rows already.
Init ==
    /\ number = [d \in Docs |-> 0] /\ series = 0
    /\ \E b \in Batches \cup {<<>>} : log = b /\ Len(b) <= MaxLog
    /\ hash = [v \in DOMAIN log |-> NoHash] /\ cached = NoHash
    /\ recoveries = {}
    /\ backup = NoBackup /\ restores = 0
    /\ push = [w \in Pushers |-> Idle]
    /\ held = [d \in Devices |-> <<>>]
    /\ mark = [d \in Devices |-> GENESIS]
    /\ session = [d \in Devices |-> "idle"]
    /\ page = [d \in Devices |-> <<>>]
    /\ more = [d \in Devices |-> FALSE]
    /\ former = [d \in Devices |-> {}]
    /\ recovery = [d \in Devices |-> 0]

DeviceStep(dev) == CheckHistory(dev) \/ sync_pull(dev) \/ ApplyPage(dev)

Next ==
    \/ \E d \in Docs, chained \in BOOLEAN : Post(d, chained)
    \/ \E w \in Pushers, b \in Batches : BeginPush(w, b)
    \/ \E w \in Pushers : CheckPush(w) \/ LockCounter(w) \/ AppendRow(w)
    \/ \E w \in Pushers, chained \in BOOLEAN : CommitPush(w, chained)
    \/ \E w \in Pushers : AbandonPush(w)
    \/ Backup
    \/ Restore
    \/ \E dev \in Devices : DeviceStep(dev)
    \/ \E dev \in Devices, answered \in BOOLEAN : ReportLost(dev, answered)

Spec == Init /\ [][Next]_vars

\* A push whose transaction is open ends it, by committing or rolling back.
EndPush(w) ==
    /\ push[w].phase = "appending"
    /\ AppendRow(w) \/ (\E chained \in BOOLEAN : CommitPush(w, chained)) \/ AbandonPush(w)

\* A device that is on keeps syncing and an open transaction ends; nobody
\* has to post, push, report or restore.
FairSpec ==
    /\ Spec
    /\ \A dev \in Devices : SF_vars(DeviceStep(dev))
    /\ \A w \in Pushers : WF_vars(EndPush(w))

-----------------------------------------------------------------------------
(* What makes the log a history devices can rely on.                       *)

PushType == [phase : {"idle", "checking", "appending"}, batch : Seq(Mutation),
             known : SUBSET Mutation, next : Nat \ {0}, rows : Seq(Mutation)]

\* Type invariant.  The store of the backup is typed with the rest of it.
TypeOK ==
    /\ number \in [Docs -> Nat] /\ series \in Nat
    /\ log \in Seq(Mutation)
    /\ hash \in [DOMAIN log -> Seq(Mutation) \cup {NoHash}]
    /\ push \in [Pushers -> PushType]
    /\ held \in [Devices -> Seq(Mutation)] /\ page \in [Devices -> Seq(Mutation)]
    /\ session \in [Devices -> {"idle", "checked", "paged"}]
    /\ former \in [Devices -> SUBSET Mutation]
    /\ DOMAIN mark = Devices /\ DOMAIN more = Devices /\ recovery \in [Devices -> Nat]
    /\ backup # NoBackup =>
          /\ backup.number \in [Docs -> Nat] /\ backup.series \in Nat
          /\ backup.log \in Seq(Mutation)
          /\ backup.hash \in [DOMAIN backup.log -> Seq(Mutation) \cup {NoHash}]

\* The first v records of a log.
Prefix(rows, v) == [u \in 1..v |-> rows[u]]

Exact(rows, values) ==
    \A v \in DOMAIN rows : values[v] # NoHash =>
        /\ values[v] = Prefix(rows, v)
        /\ \A u \in 1..v : values[u] # NoHash

\* The linked rows are the oldest ones, and each carries the chain value of
\* everything up to it, whatever servers appended in between (chain_tip: "a
\* stale cache must never be extended").
ChainExact == Exact(log, hash)

\* A device that has been let through to sync holds exactly the server's
\* first records, also when the server was restored from a backup and has
\* grown past the device's cursor since (sync_history, history_checkpoint).
BookIsServerHistory ==
    \A dev \in Devices : session[dev] # "idle" =>
        /\ Len(held[dev]) + Len(page[dev]) <= Len(log)
        /\ held[dev] \o page[dev] = Prefix(log, Len(held[dev]) + Len(page[dev]))

\* After a lost-history report no document other than the lost one carries a
\* lost number, unless the report said so (record_lost_history under the
\* posting lock).
LostNumbersRetired ==
    \A p \in recoveries : \A m \in p.gone \ p.reused :
        \A d \in Docs \ {m.doc} : number[d] # m.num

\* Once nothing is appended or restored any more, every device ends up with
\* exactly the server's log, a diverged one after starting over.
DevicesCatchUp == \A dev \in Devices : <>[](held[dev] = log)

\* An official document is immutable on the sync plane: no client edit of it
\* follows its posting on the log (sync_push).
PostedImmutable ==
    \A u, v \in DOMAIN log :
        u < v /\ log[u].doc = log[v].doc /\ log[u].num # 0 => log[v].num # 0

\* A number reported lost is never issued again (report_lost_history).  This
\* fails with three documents: one that was submitted again, under another
\* number, before its loss was reported sets no floor for its first number.
\* LostNumbersRetired is what holds.
LostNumbersNeverReissued ==
    [][\A d \in Docs : number[d] = 0 /\ number'[d] # 0 =>
          \A p \in recoveries : \A m \in p.lost : number'[d] # m.num]_vars
=============================================================================
