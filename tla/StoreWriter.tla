---------------------------- MODULE StoreWriter ----------------------------
(***************************************************************************)
(* StoreWriter: the one way configurations are written.  Each call reads   *)
(* the stored row and writes the new one in one SQLite transaction,        *)
(* checked calls only if the row still has the version (update_at) the     *)
(* client read, and a transaction that meets a concurrent one is run again *)
(* from its start, a bounded number of times.                              *)
(*                                                                         *)
(* SQLite in WAL mode is external: a transaction sees the database as of   *)
(* its first statement; its first write needs the only write lock, and     *)
(* fails at once when another transaction holds it or has committed since. *)
(* A row is its version and the call that wrote it; the wall clock may     *)
(* show any time at any call.                                              *)
(***************************************************************************)
EXTENDS Integers, Sequences, FiniteSets

CONSTANTS
  Clients,     \* concurrent callers
  NoClient,    \* nobody holds the write lock
  Keys,        \* primary keys of the table
  Clock,       \* readings of the wall clock
  MAX_RETRIES, \* attempts of one call
  MaxBatch,    \* bound: configurations of one call
  MaxCalls     \* bound: calls

ASSUME StoreConstants ==
  /\ NoClient \notin Clients
  /\ Clock \subseteq Nat \ {0}
  /\ MAX_RETRIES \in Nat \ {0} /\ MaxBatch \in Nat \ {0} /\ MaxCalls \in Nat

VARIABLES
  rows,     \* database: the committed rows
  commits,  \* number of committed writes
  lock,     \* the client whose transaction holds the write lock
  tx,       \* the call each client is in
  seen,     \* the rows each client has read
  calls,    \* calls made so far; a call's number names what it writes
  outcome,  \* what the call of each number returned
  era       \* history: deletions of each key

storeVars == << rows, commits, lock, tx, seen, calls, outcome, era >>

NoRow == [ver |-> 0, by |-> 0, era |-> 0]
Row == [ver : Nat, by : Nat, era : Nat]
Kinds == {"blind", "checked", "delete"}
Batches == UNION {[1 .. n -> Keys] : n \in 1 .. MaxBatch}
NoRows == [k \in Keys |-> NoRow]

NoTx == [pc |-> "idle", kind |-> "blind", keys |-> << >>, i |-> 1, base |-> NoRows,
         at |-> 0, work |-> NoRows, old |-> NoRow, retries |-> 0, call |-> 0]
Pcs == {"idle", "begin", "read", "write", "commit"}
TxRecord == [pc : Pcs, kind : Kinds, keys : Batches \cup {<< >>}, i : Nat, base : [Keys -> Row], at : Nat,
             work : [Keys -> Row], old : Row, retries : 0 .. (MAX_RETRIES - 1), call : 0 .. MaxCalls]

\* A transaction's record after a step.
Tx(t, pc, i, at, work, old) ==
  [pc |-> pc, kind |-> t.kind, keys |-> t.keys, i |-> i, base |-> t.base,
   at |-> at, work |-> work, old |-> old, retries |-> t.retries, call |-> t.call]

StoreInit ==
  /\ rows = NoRows /\ commits = 0 /\ lock = NoClient
  /\ tx = [c \in Clients |-> NoTx]
  /\ seen = [c \in Clients |-> NoRows]
  /\ calls = 0 /\ outcome = [n \in 1 .. MaxCalls |-> "none"]
  /\ era = [k \in Keys |-> 0]

\* find_by_id, list, find_ids: the client's copy of a row.
Find(c, k) ==
  /\ tx[c].pc = "idle" /\ seen[c][k] # rows[k]
  /\ seen' = [seen EXCEPT ![c] = [seen[c] EXCEPT ![k] = rows[k]]]
  /\ UNCHANGED << rows, commits, lock, tx, calls, outcome, era >>

\* upsert, checked_upsert, their _many forms, and delete_and_get.
CallStore(c, kind, ks) ==
  /\ tx[c].pc = "idle" /\ calls < MaxCalls
  /\ kind = "delete" => Len(ks) = 1
  /\ calls' = calls + 1
  /\ tx' = [tx EXCEPT ![c] = [pc |-> "begin", kind |-> kind, keys |-> ks, i |-> 1, base |-> seen[c],
                              at |-> 0, work |-> NoRows, old |-> NoRow, retries |-> 0, call |-> calls + 1]]
  /\ UNCHANGED << rows, commits, lock, seen, outcome, era >>

Unlock(c) == lock' = IF lock = c THEN NoClient ELSE lock

\* The call returns.
Return(c, result) ==
  /\ outcome' = [outcome EXCEPT ![tx[c].call] = result]
  /\ tx' = [tx EXCEPT ![c] = NoTx]
  /\ Unlock(c)

\* The attempt is rolled back and a fresh transaction begins, unless this was the
\* last one.
TryAgain(c) ==
  IF tx[c].retries + 1 >= MAX_RETRIES THEN Return(c, "exhausted")
  ELSE /\ tx' = [tx EXCEPT ![c] = [pc |-> "begin", kind |-> tx[c].kind, keys |-> tx[c].keys, i |-> 1,
                                   base |-> tx[c].base, at |-> 0, work |-> NoRows, old |-> NoRow,
                                   retries |-> tx[c].retries + 1, call |-> tx[c].call]]
       /\ Unlock(c) /\ UNCHANGED outcome

Begin(c) ==
  /\ tx[c].pc = "begin"
  /\ tx' = [tx EXCEPT ![c] = Tx(tx[c], "read", 1, 0, NoRows, NoRow)]
  /\ UNCHANGED << rows, commits, lock, seen, calls, outcome, era >>

Key(c) == tx[c].keys[tx[c].i]

\* upsert_inner reads the stored row; the first read fixes the snapshot.  A
\* deletion that finds nothing has nothing to write.
ReadOld(c) ==
  /\ tx[c].pc = "read"
  /\ LET work == IF tx[c].i = 1 THEN rows ELSE tx[c].work
         at == IF tx[c].i = 1 THEN commits ELSE tx[c].at
         done == tx[c].kind = "delete" /\ work[Key(c)] = NoRow
     IN  tx' = [tx EXCEPT ![c] = Tx(tx[c], IF done THEN "commit" ELSE "write", tx[c].i, at, work, work[Key(c)])]
  /\ UNCHANGED << rows, commits, lock, seen, calls, outcome, era >>

\* A write statement gets the lock: SQLite.
MayWrite(c) == lock = c \/ (lock = NoClient /\ tx[c].at = commits)

\* SQLITE_BUSY, SQLITE_BUSY_SNAPSHOT (and a primary-key race, in other modes).
Busy(c) ==
  /\ tx[c].pc = "write" /\ ~MayWrite(c)
  /\ TryAgain(c)
  /\ UNCHANGED << rows, commits, seen, calls, era >>

\* The conditional UPDATE of a checked write matches no row.
Conflicts(c) == tx[c].kind = "checked" /\ tx[c].old # NoRow /\ tx[c].old.ver # tx[c].base[Key(c)].ver

Conflict(c) ==
  /\ tx[c].pc = "write" /\ MayWrite(c) /\ Conflicts(c)
  /\ Return(c, "conflict")
  /\ UNCHANGED << rows, commits, seen, calls, era >>

next_update_at(old, now) == IF now > old.ver + 1 THEN now ELSE old.ver + 1

NewRow(c, now) ==
  IF tx[c].kind = "delete" THEN NoRow
  ELSE [ver |-> IF tx[c].old = NoRow THEN now ELSE next_update_at(tx[c].old, now),
        by |-> tx[c].call, era |-> era[Key(c)]]

\* Mutant: the version is not compared.
Write_unchecked(c, now) ==
  /\ tx[c].pc = "write" /\ MayWrite(c)
  /\ lock' = c
  /\ LET last == tx[c].i = Len(tx[c].keys)
     IN  tx' = [tx EXCEPT ![c] = Tx(tx[c], IF last THEN "commit" ELSE "read", IF last THEN tx[c].i ELSE tx[c].i + 1,
                                    tx[c].at, [tx[c].work EXCEPT ![Key(c)] = NewRow(c, now)], tx[c].old)]
  /\ UNCHANGED << rows, commits, seen, calls, outcome, era >>

\* The row is updated, inserted or deleted, and the next configuration's turn comes.
Write(c, now) ==
  /\ tx[c].pc = "write" /\ MayWrite(c) /\ ~Conflicts(c)
  /\ lock' = c
  /\ LET last == tx[c].i = Len(tx[c].keys)
     IN  tx' = [tx EXCEPT ![c] = Tx(tx[c], IF last THEN "commit" ELSE "read", IF last THEN tx[c].i ELSE tx[c].i + 1,
                                    tx[c].at, [tx[c].work EXCEPT ![Key(c)] = NewRow(c, now)], tx[c].old)]
  /\ UNCHANGED << rows, commits, seen, calls, outcome, era >>

Written(c) == {tx[c].keys[j] : j \in 1 .. Len(tx[c].keys)}

\* The client learns the rows it has written.
Commit(c) ==
  /\ tx[c].pc = "commit"
  /\ IF lock = c
     THEN /\ rows' = tx[c].work /\ commits' = commits + 1
          /\ era' = [k \in Keys |-> IF k \in Written(c) /\ tx[c].kind = "delete" THEN era[k] + 1 ELSE era[k]]
          /\ seen' = [seen EXCEPT ![c] = [k \in Keys |-> IF k \in Written(c) THEN tx[c].work[k] ELSE seen[c][k]]]
     ELSE UNCHANGED << rows, commits, era, seen >>
  /\ Return(c, "ok")
  /\ UNCHANGED calls

\* COMMIT itself is refused: nothing was written.
CommitBusy(c) ==
  /\ tx[c].pc = "commit" /\ lock = c
  /\ TryAgain(c)
  /\ UNCHANGED << rows, commits, seen, calls, era >>

\* Any other error of a statement or of COMMIT: rolled back and returned.
Fatal(c) ==
  /\ tx[c].pc \in {"read", "write", "commit"}
  /\ Return(c, "error")
  /\ UNCHANGED << rows, commits, seen, calls, era >>

StoreStep(c) ==
  \/ Begin(c) \/ ReadOld(c) \/ Busy(c) \/ Conflict(c) \/ Commit(c) \/ CommitBusy(c) \/ Fatal(c)
  \/ \E now \in Clock : Write(c, now)

StoreNext ==
  \E c \in Clients :
    \/ StoreStep(c)
    \/ \E k \in Keys : Find(c, k)
    \/ \E kind \in Kinds, ks \in Batches : CallStore(c, kind, ks)

StoreSpec == StoreInit /\ [][StoreNext]_storeVars

(***************************************************************************)
(* Properties                                                              *)
(***************************************************************************)
\* Types of the rows, the transactions and the clients' copies.
StoreTypeOK ==
  /\ rows \in [Keys -> Row] /\ commits \in Nat /\ lock \in Clients \cup {NoClient}
  /\ seen \in [Clients -> [Keys -> Row]] /\ calls \in 0 .. MaxCalls /\ era \in [Keys -> Nat]
  /\ outcome \in [1 .. MaxCalls -> {"none", "ok", "conflict", "exhausted", "error"}]
  /\ tx \in [Clients -> TxRecord]
  /\ \A c \in Clients :
       tx[c].pc # "idle" => /\ tx[c].keys \in Batches /\ tx[c].i \in 1 .. Len(tx[c].keys)
                            /\ tx[c].call \in 1 .. calls

\* A checked write that is about to commit replaces exactly the row its client had
\* read (or creates one): what another client stored in between is never
\* overwritten, unless the key was deleted since then.
NoLostUpdate ==
  \A c \in Clients :
    tx[c].pc = "commit" /\ tx[c].kind = "checked" =>
      \A k \in Written(c) : rows[k] \in {NoRow, tx[c].base[k]} \/ era[k] # tx[c].base[k].era

\* The same without the exception: "can never produce a colliding version".
NeverLostUpdate ==
  \A c \in Clients :
    tx[c].pc = "commit" /\ tx[c].kind = "checked" =>
      \A k \in Written(c) : rows[k] \in {NoRow, tx[c].base[k]}

\* A transaction that holds the write lock works on the latest database: the old
\* row it reports is the one it replaces, and rows it does not name stay.
WritesOnLatest ==
  \A c \in Clients :
    lock = c => /\ tx[c].at = commits
                /\ \A k \in Keys : k \notin Written(c) => tx[c].work[k] = rows[k]

\* What a call wrote is in the database only if the call succeeded; a conflict, an
\* exhausted retry or an error in the middle of a batch leaves nothing behind.
FailuresLeaveNothing == \A k \in Keys : rows[k] # NoRow => outcome[rows[k].by] = "ok"

\* Every transaction of the writer acts as one step on the database: whoever
\* holds the write lock, also on a retry, works on the rows as the last commit
\* left them; a checked write never overwrites what its caller has not read;
\* and a call that met a conflict, an error in the middle of its batch or the
\* end of its retries has changed nothing.
TransactionsSound == StoreTypeOK /\ WritesOnLatest /\ NoLostUpdate /\ FailuresLeaveNothing

\* A row's version only grows until the row is deleted, whatever the clock shows:
\* a change of the row is always a change of its version.
VersionsGrow ==
  [][\A k \in Keys : rows[k] # NoRow /\ rows'[k] \notin {NoRow, rows[k]} => rows'[k].ver > rows[k].ver]_storeVars
=============================================================================
