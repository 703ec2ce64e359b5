------------------------------- MODULE TxPool -------------------------------
(***************************************************************************)
(* The pool of transactions made offline (crypto/mod.rs, TxPool, a mock of *)
(* the proofs): submit checks the nonce against all that was seen of the   *)
(* sender, commit_pending takes a batch in order, and a new state root     *)
(* covers what is committed.  Nonces are 64 bits wide, and the next nonce  *)
(* of a sender is computed modulo that width in the release build.         *)
(***************************************************************************)
EXTENDS Naturals, Sequences, SequencesExt, FiniteSets, FiniteSetsExt

CONSTANTS
  Senders,
  Me,         \* the node's own key
  NonceCap,   \* 2^64
  MaxPool     \* bound on the transactions of a behaviour

ASSUME TxPoolAssumption == NonceCap \in Nat \ {0} /\ MaxPool \in Nat /\ Me \in Senders

VARIABLES
  waiting,    \* pending
  committed,  \* committed
  roots       \* state_roots: each covers a number of committed transactions

poolVars == <<waiting, committed, roots>>

All == committed \o waiting
NoncesOf(sender, s) == {s[i].nonce : i \in {j \in DOMAIN s : s[j].sender = sender}}

\* Slip: what waits is forgotten.
NextAfterCommitted(sender) ==
  Max({0} \cup {(n + 1) % NonceCap : n \in NoncesOf(sender, committed)})

\* next_expected_nonce
NextNonce(sender) == Max({0} \cup {(n + 1) % NonceCap : n \in NoncesOf(sender, All)})

\* submit, with a proof that matches the fields.
Submit(tx) ==
  /\ Len(All) < MaxPool
  /\ tx.nonce \notin NoncesOf(tx.sender, waiting)
  /\ tx.nonce >= NextNonce(tx.sender)
  /\ waiting' = Append(waiting, tx)
  /\ UNCHANGED <<committed, roots>>

\* send_transaction: the nonce is the next one.
Send == Submit([sender |-> Me, nonce |-> NextNonce(Me)])

\* commit_pending
CommitBatch(n) ==
  LET size == Min({n, Len(waiting)}) IN
    /\ size > 0
    /\ waiting' = SubSeq(waiting, size + 1, Len(waiting))
    /\ committed' = committed \o SubSeq(waiting, 1, size)
    /\ roots' = Append(roots, Len(committed'))

PoolInit == waiting = <<>> /\ committed = <<>> /\ roots = <<0>>

PoolNext ==
  \/ Send
  \/ \E s \in Senders, n \in 0 .. NonceCap - 1 : Submit([sender |-> s, nonce |-> n])
  \/ \E n \in 1 .. MaxPool : CommitBatch(n)

TxPoolSpec == PoolInit /\ [][PoolNext]_poolVars

-----------------------------------------------------------------------------
\* In the order of commitment the nonces of a sender increase, so that none is
\* processed twice, but for the last nonce of the type: its successor is 0, and it
\* may be submitted again once it is committed.  Roots never go back.
NoncesIncrease ==
  /\ \A i, j \in DOMAIN All :
       i < j /\ All[i].sender = All[j].sender /\ All[i].nonce # NonceCap - 1
       => All[i].nonce < All[j].nonce
  /\ \A i, j \in DOMAIN roots : i < j => roots[i] < roots[j]
=============================================================================
