---------------------- MODULE SQLTransactionCoordinator ----------------------
(***************************************************************************)
(* The locks of one origin's databases in one context (WebCore/Modules/    *)
(* webdatabase/SQLTransactionCoordinator.cpp): many readers or one writer, *)
(* granted in the order they asked.  A coordinator is a record             *)
(*   pending       pendingTransactions                                     *)
(*   readers       activeReadTransactions                                  *)
(*   writers       activeWriteTransaction, as a set of at most one         *)
(*   shuttingDown  m_isShuttingDown                                        *)
(* and its operations are functions of that record; the transactions whose *)
(* lockAcquired() a call runs are given by Granted.                        *)
(***************************************************************************)
EXTENDS Naturals, Sequences, FiniteSets, SequencesExt

CONSTANT ReadOnly   \* the transactions made by readTransaction()

NewCoordinator ==
    [pending |-> <<>>, readers |-> {}, writers |-> {}, shuttingDown |-> FALSE]

Active(info) == info.readers \cup info.writers

WriterIgnoresReaders(info) ==
    IF info.writers # {} \/ info.pending = <<>> THEN <<>>
    ELSE <<info.pending[1]>>

\* The transactions that processPendingTransactions lets through, in order:
\* the readers up to the first writer, or a writer when nobody is active.
Granted(info) ==
    LET p == info.pending
        readers == CHOOSE n \in 0 .. Len(p) :
                       /\ \A i \in 1 .. n : p[i] \in ReadOnly
                       /\ n < Len(p) => p[n + 1] \notin ReadOnly
    IN  IF info.writers # {} \/ p = <<>> THEN <<>>
        ELSE IF readers > 0 THEN SubSeq(p, 1, readers)
        ELSE IF info.readers = {} THEN <<p[1]>>
        ELSE <<>>

\* processPendingTransactions
ProcessPendingTransactions(info) ==
    LET granted == Granted(info)
    IN  [info EXCEPT
            !.pending = SubSeq(@, Len(granted) + 1, Len(@)),
            !.readers = @ \cup (ToSet(granted) \cap ReadOnly),
            !.writers = @ \cup (ToSet(granted) \ ReadOnly)]

\* acquireLock and releaseLock before they call processPendingTransactions.
Asking(info, t) == [info EXCEPT !.pending = Append(@, t)]
Without(info, t) ==
    IF info.shuttingDown THEN info
    ELSE [info EXCEPT !.readers = @ \ {t}, !.writers = @ \ {t}]

\* The record that shutdown leaves when it comes to its end.
ShutDown == [NewCoordinator EXCEPT !.shuttingDown = TRUE]
=============================================================================
