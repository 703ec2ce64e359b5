---------------------------- MODULE TrustProofs ----------------------------
(***************************************************************************)
(* What WebOfTrust promises, for every network, set of founders, number of *)
(* required endorsements and number of restarts: trust rests on founders   *)
(* alone, and who is held guilty without cause sent more than a budget.    *)
(***************************************************************************)
EXTENDS WebOfTrust, FiniteSetTheorems, SequenceTheorems, TLAPS

\* The scores and endorsements of a node.  Who endorsed a key was trusted then,
\* and trust never falls within a life: it is trusted still.
ScoresOK ==
  \A n \in Nodes, k \in Keys :
    score[n][k] \in IF k \in Base(n) THEN {Genesis} ELSE {0, 35, 40, Trusted70}

EndorsersTrusted == \A n \in Nodes, k \in Keys : endorsers[n][k] \subseteq Trusted(n)

Shapes ==
  /\ score \in [Nodes -> [Keys -> Nat]]
  /\ endorsers \in [Nodes -> [Keys -> SUBSET Keys]]

TrustInv == Shapes /\ ScoresOK /\ EndorsersTrusted /\ TrustGrounded

-----------------------------------------------------------------------------
(* One endorsement *)

\* What endorse makes of the score of b when a, trusted, endorses it.
LEMMA IntegrateScores ==
  ASSUME Shapes, ScoresOK, EndorsersTrusted,
         NEW n \in Nodes, NEW a \in Keys, NEW b \in Keys, Integrate(n, a, b)
  PROVE  /\ a \in Trusted(n)
         /\ endorsers' = [endorsers EXCEPT ![n] = [endorsers[n] EXCEPT ![b] = @ \cup {a}]]
         /\ score' = [score EXCEPT ![n] = [score[n] EXCEPT ![b] = ScoreAfter(n, a, b)]]
         /\ b \in Base(n) => ScoreAfter(n, a, b) = Genesis
         /\ b \notin Base(n) => ScoreAfter(n, a, b) \in {0, 35, 40, Trusted70}
         /\ ScoreAfter(n, a, b) >= Trusted70 <=>
              b \in Trusted(n) \/ Cardinality(endorsers[n][b] \cup {a}) >= Required
<1>1. a \in Trusted(n)
  BY DEF Integrate, Refusal
<1>2. score[n][a] \in {Genesis, Trusted70} /\ score[n][a] \div 2 \in {35, 40}
  <2>1. score[n][a] \in {Genesis, 0, 35, 40, Trusted70} /\ score[n][a] >= Trusted70
    BY <1>1 DEF ScoresOK, Trusted
  <2>. QED  BY <2>1 DEF Genesis, Trusted70
<1>3. (endorsers[n][b] \cup {a}) \cap Trusted(n) = endorsers[n][b] \cup {a}
  BY <1>1 DEF EndorsersTrusted
<1>4. score[n][b] \in Nat /\ (b \in Base(n) => score[n][b] = Genesis)
      /\ (b \notin Base(n) => score[n][b] \in {0, 35, 40, Trusted70})
  BY DEF ScoresOK, Genesis, Trusted70
<1>5. b \in Trusted(n) <=> score[n][b] >= Trusted70
  BY DEF Trusted
<1> DEFINE gained == score[n][a] \div 2
           raised == IF score[n][b] > gained THEN score[n][b] ELSE gained
           enough == Cardinality(endorsers[n][b] \cup {a}) >= Required
<1>6. ScoreAfter(n, a, b) = IF enough /\ raised < Trusted70 THEN Trusted70 ELSE raised
  BY <1>3 DEF ScoreAfter, ScoreGaining, Promotes
<1>7. gained \in {35, 40}
  BY <1>2
<1>8. /\ b \in Base(n) => ScoreAfter(n, a, b) = Genesis
      /\ b \notin Base(n) => ScoreAfter(n, a, b) \in {0, 35, 40, Trusted70}
      /\ ScoreAfter(n, a, b) >= Trusted70 <=> b \in Trusted(n) \/ enough
  <2> HIDE DEF gained, enough
  <2>. QED  BY <1>4, <1>5, <1>6, <1>7 DEF Genesis, Trusted70
<1>9. /\ endorsers' = [endorsers EXCEPT ![n] = [endorsers[n] EXCEPT ![b] = @ \cup {a}]]
      /\ score' = [score EXCEPT ![n] = [score[n] EXCEPT ![b] = ScoreAfter(n, a, b)]]
  BY DEF Integrate, Shapes
<1>. QED  BY <1>1, <1>8, <1>9

-----------------------------------------------------------------------------
(* What an endorsement leaves of the foundations *)

\* A key is trusted after an endorsement if it was, or if it is the one endorsed
\* and its endorsers are enough.
LEMMA IntegrateTrusted ==
  ASSUME Shapes, ScoresOK, EndorsersTrusted,
         NEW n \in Nodes, NEW a \in Keys, NEW b \in Keys, Integrate(n, a, b)
  PROVE  /\ a \in Trusted(n)
         /\ \A m \in Nodes \ {n} : Trusted(m)' = Trusted(m) /\ endorsers'[m] = endorsers[m]
         /\ \A k \in Keys \ {b} : endorsers'[n][k] = endorsers[n][k]
         /\ endorsers'[n][b] = endorsers[n][b] \cup {a}
         /\ Trusted(n)' = Trusted(n) \cup
              (IF Cardinality(endorsers'[n][b]) >= Required THEN {b} ELSE {})
<1> DEFINE after == ScoreAfter(n, a, b)
<1>1. /\ a \in Trusted(n)
      /\ endorsers' = [endorsers EXCEPT ![n] = [endorsers[n] EXCEPT ![b] = @ \cup {a}]]
      /\ score' = [score EXCEPT ![n] = [score[n] EXCEPT ![b] = after]]
      /\ after >= Trusted70 <=>
           b \in Trusted(n) \/ Cardinality(endorsers[n][b] \cup {a}) >= Required
  BY IntegrateScores
<1> HIDE DEF after
<1>2. /\ endorsers'[n][b] = endorsers[n][b] \cup {a}
      /\ \A k \in Keys \ {b} : endorsers'[n][k] = endorsers[n][k]
      /\ \A m \in Nodes \ {n} : endorsers'[m] = endorsers[m]
  BY <1>1 DEF Shapes
<1>3. /\ score'[n][b] = after
      /\ \A k \in Keys \ {b} : score'[n][k] = score[n][k]
      /\ \A m \in Nodes \ {n} : score'[m] = score[m]
  BY <1>1 DEF Shapes
<1>4. \A m \in Nodes \ {n} : Trusted(m)' = Trusted(m)
  BY <1>3 DEF Trusted
<1>5. ASSUME NEW k \in Keys \ {b} PROVE k \in Trusted(n)' <=> k \in Trusted(n)
  BY <1>3 DEF Trusted
<1>6. b \in Trusted(n)' <=> b \in Trusted(n) \/ Cardinality(endorsers'[n][b]) >= Required
  BY <1>1, <1>2, <1>3 DEF Trusted
<1>7. Trusted(n) \subseteq Keys /\ Trusted(n)' \subseteq Keys
  BY DEF Trusted
<1>. QED  BY <1>1, <1>2, <1>4, <1>5, <1>6, <1>7

\* A set that is closed under what is integrated after an endorsement was closed
\* before it.
LEMMA ClosedBefore ==
  ASSUME NEW n \in Nodes, NEW S \in SUBSET Keys, Closed(n, S)',
         \A k \in Keys : endorsers[n][k] \subseteq endorsers'[n][k]
  PROVE  Closed(n, S)
<1> SUFFICES ASSUME NEW k \in Keys, Cardinality(endorsers[n][k] \cap S) >= Required
             PROVE  k \in S
  BY DEF Closed
<1> DEFINE old == endorsers[n][k] \cap S
           new == endorsers'[n][k] \cap S
<1>1. IsFiniteSet(S)
  BY FS_Subset, TrustAssumption
<1>2. IsFiniteSet(new) /\ old \subseteq new
  BY <1>1, FS_Subset
<1>3. Cardinality(old) <= Cardinality(new) /\ Cardinality(new) \in Nat /\ Cardinality(old) \in Nat
  BY <1>2, FS_Subset, FS_CardinalityType
<1>4. Cardinality(new) >= Required
  BY <1>3, TrustAssumption
<1>. QED  BY <1>4 DEF Closed

\* TrustGrounded of one node.
Grounded(n) ==
  /\ Base(n) \subseteq Trusted(n) /\ Closed(n, Trusted(n))
  /\ \A S \in SUBSET (Keys \ Base(n)) :
       Closed(n, Base(n) \cup S) => Trusted(n) \subseteq Base(n) \cup S

LEMMA GroundedUnchanged ==
  ASSUME NEW n \in Nodes, Grounded(n), Trusted(n)' = Trusted(n), endorsers'[n] = endorsers[n]
  PROVE  Grounded(n)'
<1>1. \A S : Closed(n, S)' <=> Closed(n, S)
  BY DEF Closed
<1>. QED  BY <1>1 DEF Grounded, Base, Closed

\* endorse keeps the trust of its node the least that its endorsements close.
LEMMA IntegrateGrounded ==
  ASSUME Shapes, ScoresOK, EndorsersTrusted,
         NEW n \in Nodes, NEW a \in Keys, NEW b \in Keys, Integrate(n, a, b), Grounded(n)
  PROVE  Grounded(n)'
<1> DEFINE more == IF Cardinality(endorsers'[n][b]) >= Required THEN {b} ELSE {}
<1>1. /\ a \in Trusted(n)
      /\ \A k \in Keys \ {b} : endorsers'[n][k] = endorsers[n][k]
      /\ endorsers'[n][b] = endorsers[n][b] \cup {a}
      /\ Trusted(n)' = Trusted(n) \cup more
  BY IntegrateTrusted
<1>2. \A k \in Keys : endorsers[n][k] \subseteq endorsers'[n][k]
  BY <1>1
<1>3. \A k \in Keys : endorsers'[n][k] \subseteq Trusted(n)
  BY <1>1 DEF EndorsersTrusted
<1>4. Trusted(n) \subseteq Trusted(n)' /\ Trusted(n)' \subseteq Keys
  BY <1>1 DEF Trusted
<1>5. (Base(n) \subseteq Trusted(n))'
  BY <1>4 DEF Grounded, Base
<1>6. Closed(n, Trusted(n))'
  <2> SUFFICES ASSUME NEW k \in Keys,
                      Cardinality(endorsers'[n][k] \cap Trusted(n)') >= Required
               PROVE  k \in Trusted(n)'
    BY DEF Closed
  <2>1. endorsers'[n][k] \cap Trusted(n)' = endorsers'[n][k]
    BY <1>3, <1>4
  <2>2. CASE k = b
    BY <2>1, <2>2, <1>1
  <2>3. CASE k # b
    <3>1. endorsers[n][k] \cap Trusted(n) = endorsers[n][k]
      BY DEF EndorsersTrusted
    <3>2. endorsers'[n][k] = endorsers[n][k]
      BY <1>1, <2>3
    <3>3. k \in Trusted(n)
      BY <3>1, <3>2, <2>1 DEF Grounded, Closed
    <3>. QED  BY <3>3, <1>4
  <2>. QED  BY <2>2, <2>3
<1>7. ASSUME NEW S \in SUBSET (Keys \ Base(n)), Closed(n, Base(n) \cup S)'
      PROVE  Trusted(n)' \subseteq Base(n) \cup S
  <2> DEFINE T == Base(n) \cup S
  <2>1. T \in SUBSET Keys
    BY TrustAssumption DEF Base
  <2>2. Closed(n, T)'
    BY <1>7 DEF Base
  <2>3. Closed(n, T)
    <3> HIDE DEF T
    <3>. QED  BY <2>1, <2>2, <1>2, ClosedBefore
  <2>4. Trusted(n) \subseteq T
    BY <2>3 DEF Grounded
  <2>5. CASE Cardinality(endorsers'[n][b]) >= Required
    <3>1. endorsers'[n][b] \cap T = endorsers'[n][b]
      BY <1>3, <2>4
    <3>2. b \in T
      <4> HIDE DEF T
      <4>. QED  BY <3>1, <2>2, <2>5 DEF Closed
    <3>. QED  BY <3>2, <2>4, <1>1
  <2>6. CASE ~(Cardinality(endorsers'[n][b]) >= Required)
    BY <2>6, <2>4, <1>1
  <2>. QED  BY <2>5, <2>6
<1>. QED  BY <1>5, <1>6, <1>7 DEF Grounded, Base

\* A node that starts trusts its founders and itself, and nobody endorsed.
LEMMA StartsGrounded ==
  ASSUME NEW n \in Nodes, score[n] = Bootstrapped(n), endorsers[n] = [k \in Keys |-> {}]
  PROVE  Grounded(n)
<1>1. Trusted(n) = Base(n)
  BY TrustAssumption DEF Trusted, Base, Bootstrapped, Genesis, Trusted70
<1>2. Closed(n, Base(n))
  <2>1. ASSUME NEW k \in Keys PROVE Cardinality(endorsers[n][k] \cap Base(n)) = 0
    BY FS_EmptySet
  <2>. QED  BY <2>1, TrustAssumption DEF Closed
<1>. QED  BY <1>1, <1>2 DEF Grounded

-----------------------------------------------------------------------------
(* The invariant *)

LEMMA TrustInit == Init => TrustInv
<1> SUFFICES ASSUME Init PROVE TrustInv
  OBVIOUS
<1>1. Shapes /\ ScoresOK
  BY TrustAssumption DEF Init, Shapes, ScoresOK, Bootstrapped, Base, Genesis
<1>2. EndorsersTrusted
  BY DEF Init, EndorsersTrusted
<1>3. ASSUME NEW n \in Nodes PROVE Grounded(n)
  BY StartsGrounded DEF Init
<1>. QED  BY <1>1, <1>2, <1>3 DEF TrustInv, TrustGrounded, Grounded

\* Any step by which a node takes in an endorsement.
LEMMA IntegrateKeeps ==
  ASSUME Shapes, ScoresOK, EndorsersTrusted, TrustGrounded,
         NEW n \in Nodes, NEW a \in Keys, NEW b \in Keys, Integrate(n, a, b)
  PROVE  TrustInv'
<1> DEFINE after == ScoreAfter(n, a, b)
<1>1. /\ endorsers' = [endorsers EXCEPT ![n] = [endorsers[n] EXCEPT ![b] = @ \cup {a}]]
      /\ score' = [score EXCEPT ![n] = [score[n] EXCEPT ![b] = after]]
  BY DEF Integrate, Shapes
<1>8. /\ b \in Base(n) => after = Genesis
      /\ b \notin Base(n) => after \in {0, 35, 40, Trusted70}
  BY IntegrateScores
<1>2. /\ a \in Trusted(n)
      /\ \A m \in Nodes \ {n} : Trusted(m)' = Trusted(m) /\ endorsers'[m] = endorsers[m]
      /\ \A k \in Keys \ {b} : endorsers'[n][k] = endorsers[n][k]
      /\ endorsers'[n][b] = endorsers[n][b] \cup {a}
      /\ Trusted(n) \subseteq Trusted(n)'
  BY IntegrateTrusted
<1>3. Shapes'
  <2>1. after \in Nat
    BY <1>8 DEF Genesis, Trusted70
  <2> HIDE DEF after
  <2>. QED  BY <1>1, <2>1 DEF Shapes
<1>4. ScoresOK'
  <2> HIDE DEF after
  <2>. QED  BY <1>1, <1>8 DEF Shapes, ScoresOK, Base
<1>5. EndorsersTrusted'
  BY <1>1, <1>2 DEF EndorsersTrusted
<1>6. ASSUME NEW m \in Nodes PROVE Grounded(m)'
  <2>1. Grounded(m)
    BY DEF TrustGrounded, Grounded
  <2>2. CASE m = n
    BY <2>1, <2>2, IntegrateGrounded
  <2>3. CASE m # n
    BY <2>1, <2>3, <1>2, GroundedUnchanged
  <2>. QED  BY <2>2, <2>3
<1>. QED  BY <1>3, <1>4, <1>5, <1>6 DEF TrustInv, TrustGrounded, Grounded

\* A step that leaves scores and endorsements alone.
LEMMA ViewsUnchanged == TrustInv /\ UNCHANGED <<score, endorsers>> => TrustInv'
<1> SUFFICES ASSUME TrustInv, UNCHANGED <<score, endorsers>> PROVE TrustInv'
  OBVIOUS
<1>1. /\ \A n \in Nodes : Trusted(n)' = Trusted(n)
      /\ \A n \in Nodes : \A S : Closed(n, S)' <=> Closed(n, S)
  BY DEF Trusted, Closed
<1>2. Shapes' /\ ScoresOK' /\ EndorsersTrusted'
  BY <1>1 DEF TrustInv, Shapes, ScoresOK, EndorsersTrusted, Base
<1>3. ASSUME NEW n \in Nodes PROVE Grounded(n)'
  BY GroundedUnchanged, <1>1 DEF TrustInv, TrustGrounded, Grounded
<1>. QED  BY <1>2, <1>3 DEF TrustInv, TrustGrounded, Grounded

LEMMA RestartKeeps ==
  ASSUME TrustInv, NEW n \in Nodes, Restart(n) PROVE TrustInv'
<1>1. /\ score' = [score EXCEPT ![n] = Bootstrapped(n)]
      /\ endorsers' = [endorsers EXCEPT ![n] = [k \in Keys |-> {}]]
      /\ Shapes /\ ScoresOK /\ EndorsersTrusted /\ TrustGrounded
  BY DEF Restart, TrustInv
<1>2. /\ score'[n] = Bootstrapped(n) /\ endorsers'[n] = [k \in Keys |-> {}]
      /\ \A m \in Nodes \ {n} : score'[m] = score[m] /\ endorsers'[m] = endorsers[m]
  BY <1>1 DEF Shapes
<1>3. Bootstrapped(n) \in [Keys -> Nat]
  BY DEF Bootstrapped, Genesis
<1>4. Shapes'
  BY <1>1, <1>3 DEF Shapes
<1>5. ScoresOK'
  <2> SUFFICES ASSUME NEW m \in Nodes, NEW k \in Keys
               PROVE  score'[m][k] \in IF k \in Base(m) THEN {Genesis} ELSE {0, 35, 40, Trusted70}
    BY DEF ScoresOK, Base
  <2>1. CASE m = n
    BY <2>1, <1>2 DEF Bootstrapped
  <2>2. CASE m # n
    BY <2>2, <1>1, <1>2 DEF ScoresOK
  <2>. QED  BY <2>1, <2>2
<1>6. \A m \in Nodes \ {n} : Trusted(m)' = Trusted(m)
  BY <1>2 DEF Trusted
<1>7. EndorsersTrusted'
  <2> SUFFICES ASSUME NEW m \in Nodes, NEW k \in Keys PROVE endorsers'[m][k] \subseteq Trusted(m)'
    BY DEF EndorsersTrusted
  <2>1. CASE m = n
    BY <2>1, <1>2
  <2>2. CASE m # n
    BY <2>2, <1>1, <1>2, <1>6 DEF EndorsersTrusted
  <2>. QED  BY <2>1, <2>2
<1>8. ASSUME NEW m \in Nodes PROVE Grounded(m)'
  <2>1. CASE m = n
    <3>1. Trusted(n)' = Base(n)
      BY <1>2, TrustAssumption DEF Trusted, Base, Bootstrapped, Genesis, Trusted70
    <3>2. Closed(n, Base(n))'
      <4>1. ASSUME NEW k \in Keys PROVE Cardinality(endorsers'[n][k] \cap Base(n)) = 0
        BY <1>2, FS_EmptySet
      <4>. QED  BY <4>1, TrustAssumption DEF Closed, Base
    <3>. QED  BY <2>1, <3>1, <3>2 DEF Grounded, Closed, Base
  <2>2. CASE m # n
    BY <2>2, <1>1, <1>2, <1>6, GroundedUnchanged DEF TrustGrounded, Grounded
  <2>. QED  BY <2>1, <2>2
<1>. QED  BY <1>4, <1>5, <1>7, <1>8 DEF TrustInv, TrustGrounded, Grounded

-----------------------------------------------------------------------------
(* What the nodes hand each other *)

Wire == [signer : Nodes, endorsed : Keys, pow : Int, at : Nat]

\* The windows of the gate, none beyond a budget, and the history of what they count.
Windows ==
  /\ counted \in [Nodes -> [Keys -> Nat]] /\ noise \in [Nodes -> [Keys -> Nat]]
  /\ \A n \in Nodes, k \in Keys :
       counted[n][k] > 0 => \E budget \in Budgets : counted[n][k] <= budget

Traffic ==
  /\ score \in [Nodes -> [Keys -> Nat]]
  /\ penalties \in [Nodes -> [Keys -> 0 .. Worst]]
  /\ Windows
  /\ outbox \in [Nodes -> Seq(Wire)]
  /\ sent \in [Nodes -> [Nodes -> Nat]]
  /\ \A n, m \in Nodes : sent[n][m] <= Len(outbox[n])
  /\ restarts \in [Nodes -> Nat] /\ \A n \in Nodes : restarts[n] <= Restarts[n]

LEMMA PowType ==
  ASSUME Traffic, NEW n \in Nodes, NEW k \in Keys PROVE RequiredPow(n, k) \in Int
<1> DEFINE share == (2 * (4 * Trusted70 - 2 * score[n][k]) + Trusted70) \div (2 * Trusted70)
           p == penalties[n][k]
           s == score[n][k]
<1>1. p \in 0 .. Worst /\ s \in Nat
  BY DEF Traffic
<1>2. share \in Int
  BY <1>1 DEF Trusted70
<1>3. RequiredPow(n, k) = CASE p >= Throttled -> 4 [] p < Throttled /\ s >= Trusted70 -> 0 [] OTHER -> share
  BY DEF RequiredPow
<1> HIDE DEF share, p, s
<1>4. CASE p >= Throttled
  <2>1. ~(p < Throttled)
    BY <1>1, <1>4 DEF Throttled
  <2>2. RequiredPow(n, k) = 4
    BY <1>3, <1>4, <2>1, Zenon
  <2>. QED  BY <2>2
<1>5. CASE ~(p >= Throttled) /\ p < Throttled /\ s >= Trusted70
  <2>1. RequiredPow(n, k) = 0
    BY <1>3, <1>5, Zenon
  <2>. QED  BY <2>1
<1>6. CASE ~(p >= Throttled) /\ ~(p < Throttled /\ s >= Trusted70)
  <2>1. RequiredPow(n, k) = share
    BY <1>3, <1>6, Zenon
  <2>. QED  BY <2>1, <1>2
<1>. QED  BY <1>4, <1>5, <1>6

\* Appending to one outbox keeps the marks of every peer within it.
LEMMA OutboxGrows ==
  ASSUME Traffic, NEW n \in Nodes, NEW e \in Wire,
         outbox' = [outbox EXCEPT ![n] = Append(@, e)]
  PROVE  /\ outbox' \in [Nodes -> Seq(Wire)]
         /\ \A m \in Nodes : /\ Len(outbox[m]) \in Nat /\ Len(outbox'[m]) \in Nat
                            /\ Len(outbox[m]) <= Len(outbox'[m])
         /\ \A m, k \in Nodes : sent[m][k] <= Len(outbox'[m])
<1>1. outbox[n] \in Seq(Wire)
  BY DEF Traffic
<1>2. Append(outbox[n], e) \in Seq(Wire) /\ Len(Append(outbox[n], e)) = Len(outbox[n]) + 1
  BY <1>1
<1>3. outbox'[n] = Append(outbox[n], e) /\ \A m \in Nodes \ {n} : outbox'[m] = outbox[m]
  BY DEF Traffic
<1>4. \A m \in Nodes : Len(outbox[m]) \in Nat
  BY DEF Traffic
<1>5. outbox' \in [Nodes -> Seq(Wire)]
  BY <1>2 DEF Traffic
<1>6. ASSUME NEW m \in Nodes
      PROVE  Len(outbox[m]) \in Nat /\ Len(outbox'[m]) \in Nat /\ Len(outbox[m]) <= Len(outbox'[m])
  BY <1>2, <1>3, <1>4
<1>7. ASSUME NEW m \in Nodes, NEW k \in Nodes PROVE sent[m][k] <= Len(outbox'[m])
  <2>1. sent[m][k] \in Nat /\ sent[m][k] <= Len(outbox[m])
    BY DEF Traffic
  <2>. QED  BY <2>1, <1>6
<1>. QED  BY <1>5, <1>6, <1>7

LEMMA PenaltiesType ==
  ASSUME Traffic, NEW n \in Nodes, NEW k \in Keys, NEW amount \in Nat
  PROVE  /\ Penalised(n, k, amount) \in [Nodes -> [Keys -> 0 .. Worst]]
         /\ \A m \in Nodes, j \in Keys :
              <<m, j>> # <<n, k>> => Penalised(n, k, amount)[m][j] = penalties[m][j]
<1> DEFINE more == IF penalties[n][k] + amount > Worst THEN Worst ELSE penalties[n][k] + amount
<1>1. penalties[n][k] \in 0 .. Worst
  BY DEF Traffic
<1>2. more \in 0 .. Worst
  BY <1>1 DEF Worst
<1>3. Penalised(n, k, amount) = [penalties EXCEPT ![n] = [penalties[n] EXCEPT ![k] = more]]
  BY DEF Penalised, Traffic
<1> HIDE DEF more
<1>. QED  BY <1>2, <1>3 DEF Traffic

\* What the gate leaves of the windows and the penalties.
LEMMA GateTypes ==
  ASSUME Traffic, NEW n \in Nodes, NEW k \in Keys, GateAdmits(n, k) \/ GateRejects(n, k)
  PROVE  /\ counted' \in [Nodes -> [Keys -> Nat]]
         /\ \A m \in Nodes, j \in Keys :
              counted'[m][j] > 0 => \E budget \in Budgets : counted'[m][j] <= budget
         /\ GateRejects(n, k) => penalties' \in [Nodes -> [Keys -> 0 .. Worst]]
<1>3. GateRejects(n, k) => penalties' \in [Nodes -> [Keys -> 0 .. Worst]]
  <2>1. ExcessiveRate \in Nat /\ penalties \in [Nodes -> [Keys -> 0 .. Worst]]
    BY DEF ExcessiveRate, Traffic
  <2>2. Penalised(n, k, ExcessiveRate) \in [Nodes -> [Keys -> 0 .. Worst]]
    BY <2>1, PenaltiesType
  <2>. QED  BY <2>1, <2>2 DEF GateRejects
<1>1. CASE GateAdmits(n, k)
  <2>1. PICK budget \in Budgets : counted[n][k] < budget
    BY <1>1 DEF GateAdmits
  <2>2. counted' = [counted EXCEPT ![n] = [counted[n] EXCEPT ![k] = counted[n][k] + 1]]
    BY <1>1 DEF GateAdmits, Traffic, Windows
  <2>3. counted[n][k] \in Nat /\ budget \in Nat
    BY TrustAssumption DEF Traffic, Windows
  <2>4. counted[n][k] + 1 \in Nat /\ counted[n][k] + 1 <= budget
    BY <2>1, <2>3
  <2>5. counted' \in [Nodes -> [Keys -> Nat]]
    BY <2>2, <2>4 DEF Traffic, Windows
  <2>6. ASSUME NEW m \in Nodes, NEW j \in Keys, counted'[m][j] > 0
        PROVE  \E b \in Budgets : counted'[m][j] <= b
    <3>1. CASE m = n /\ j = k
      <4>1. counted'[m][j] = counted[n][k] + 1
        BY <2>2, <3>1 DEF Traffic, Windows
      <4>. QED  BY <4>1, <2>4
    <3>2. CASE ~(m = n /\ j = k)
      <4>1. counted'[m][j] = counted[m][j]
        BY <2>2, <3>2 DEF Traffic, Windows
      <4>. QED  BY <4>1, <2>6 DEF Traffic, Windows
    <3>. QED  BY <3>1, <3>2
  <2>7. GateRejects(n, k) => penalties' \in [Nodes -> [Keys -> 0 .. Worst]]
    BY <1>3
  <2>. QED  BY <2>5, <2>6, <2>7
<1>2. CASE GateRejects(n, k)
  <2>1. counted' = counted
    BY <1>2 DEF GateRejects
  <2>. QED  BY <2>1, <1>3 DEF Traffic, Windows
<1>. QED  BY <1>1, <1>2

\* The event that n hands next to m.
Upcoming(n, m) == outbox[n][sent[n][m] + 1]

LEMMA HandedOnWire ==
  ASSUME Traffic, NEW n \in Nodes, NEW m \in Nodes, sent[n][m] < Len(outbox[n])
  PROVE  Upcoming(n, m) \in Wire
<1>1. outbox[n] \in Seq(Wire) /\ sent[n][m] \in Nat
  BY DEF Traffic
<1>2. sent[n][m] + 1 \in 1 .. Len(outbox[n])
  BY <1>1
<1>. QED  BY <1>1, <1>2, ElementOfSeq DEF Upcoming

\* Node::endorse and the end of a hand-over put a sound endorsement in an outbox.
LEMMA TrafficEndorse ==
  ASSUME Traffic, NEW n \in Nodes, NEW b \in Keys, Shapes',
         Endorse(n, b) \/ EndorseUnpublished(n, b)
  PROVE  Traffic'
<1>1. CASE Endorse(n, b)
  <2>1. RequiredPow(n, n) \in Int
    BY PowType, TrustAssumption
  <2>2. Endorsement(n, b) \in Wire
    BY <2>1 DEF Endorsement, Wire, Traffic
  <2>3. /\ outbox' \in [Nodes -> Seq(Wire)]
        /\ \A m, k \in Nodes : sent[m][k] <= Len(outbox'[m])
    <3>1. outbox' = [outbox EXCEPT ![n] = Append(@, Endorsement(n, b))]
      BY <1>1 DEF Endorse
    <3>. QED  BY <2>2, <3>1, OutboxGrows
  <2>. QED  BY <1>1, <2>3 DEF Endorse, Traffic, Windows, Shapes, guardVars
<1>2. CASE EndorseUnpublished(n, b)
  BY <1>2 DEF EndorseUnpublished, Traffic, Windows, Shapes, guardVars
<1>. QED  BY <1>1, <1>2

\* Whatever the refusal, an endorsement that passed the gate penalises nobody: all
\* refusals of endorse are noise.
LEMMA RefusalsAreNoise ==
  ASSUME NEW n, NEW a, NEW b, Refusal(n, a, b) # "none" PROVE Refusal(n, a, b) \in PoliticalNoise
BY Zenon DEF Refusal, PoliticalNoise

\* The ways an event handed over can go.
LEMMA HandCases ==
  ASSUME NEW n \in Nodes, NEW m \in Nodes, Hand(n, m)
  PROVE  LET e == Upcoming(n, m)
         IN  /\ sent[n][m] < Len(outbox[n])
             /\ sent' = [sent EXCEPT ![n][m] = @ + 1]
             /\ restarts' = restarts
             /\ \/ outbox' = Relay(m, e) \/ outbox' = outbox
             /\ \/ Uncounted(m, e) /\ penalties' = penalties /\ counted' = counted
                \/ ~Uncounted(m, e) /\ GateAdmits(m, e.signer) /\ penalties' = penalties
                \/ ~Uncounted(m, e) /\ GateRejects(m, e.signer) /\ outbox' = outbox
             /\ noise' = IF e.signer = m \/ e \in Range(outbox'[m]) THEN noise
                         ELSE [noise EXCEPT ![m][e.signer] = @ + 1]
<1> DEFINE e == Upcoming(n, m)
<1>1. /\ sent[n][m] < Len(outbox[n])
      /\ sent' = [sent EXCEPT ![n][m] = @ + 1]
      /\ restarts' = restarts
      /\ Receive(m, e)
      /\ noise' = IF e.signer = m \/ e \in Range(outbox'[m]) THEN noise
                  ELSE [noise EXCEPT ![m][e.signer] = @ + 1]
  BY DEF Hand, Upcoming
<1>2. Handle(m, e) => penalties' = penalties /\ (outbox' = Relay(m, e) \/ outbox' = outbox)
  BY RefusalsAreNoise DEF Handle
<1> HIDE DEF e
<1>3. /\ \/ outbox' = Relay(m, e) \/ outbox' = outbox
      /\ \/ Uncounted(m, e) /\ penalties' = penalties /\ counted' = counted
         \/ ~Uncounted(m, e) /\ GateAdmits(m, e.signer) /\ penalties' = penalties
         \/ ~Uncounted(m, e) /\ GateRejects(m, e.signer) /\ outbox' = outbox
  BY <1>1, <1>2 DEF Receive
<1>. QED  BY <1>1, <1>3 DEF e

LEMMA TrafficHand ==
  ASSUME Traffic, NEW n \in Nodes, NEW m \in Nodes, Shapes', Hand(n, m) PROVE Traffic'
<1> DEFINE e == Upcoming(n, m)
<1>1. /\ sent[n][m] < Len(outbox[n])
      /\ sent' = [sent EXCEPT ![n][m] = @ + 1]
      /\ restarts' = restarts
      /\ outbox' = Relay(m, e) \/ outbox' = outbox
      /\ \/ Uncounted(m, e) /\ penalties' = penalties /\ counted' = counted
         \/ ~Uncounted(m, e) /\ GateAdmits(m, e.signer) /\ penalties' = penalties
         \/ ~Uncounted(m, e) /\ GateRejects(m, e.signer) /\ outbox' = outbox
      /\ noise' = IF e.signer = m \/ e \in Range(outbox'[m]) THEN noise
                  ELSE [noise EXCEPT ![m][e.signer] = @ + 1]
  BY HandCases
<1>2. e \in Wire /\ e.signer \in Keys
  <2>1. e \in Wire
    BY <1>1, HandedOnWire
  <2>. QED  BY <2>1, TrustAssumption DEF Wire
<1>3. /\ penalties' \in [Nodes -> [Keys -> 0 .. Worst]]
      /\ counted' \in [Nodes -> [Keys -> Nat]]
      /\ \A l \in Nodes, k \in Keys :
           counted'[l][k] > 0 => \E budget \in Budgets : counted'[l][k] <= budget
  <2> HIDE DEF e
  <2>1. CASE penalties' = penalties /\ counted' = counted
    BY <2>1 DEF Traffic, Windows
  <2>2. CASE GateAdmits(m, e.signer) /\ penalties' = penalties
    BY <2>2, <1>2, GateTypes DEF Traffic
  <2>3. CASE GateRejects(m, e.signer)
    BY <2>3, <1>2, GateTypes
  <2>. QED  BY <1>1, <2>1, <2>2, <2>3
<1>7. noise' \in [Nodes -> [Keys -> Nat]]
  <2> DEFINE more == noise[m][e.signer] + 1
  <2> HIDE DEF e
  <2>1. noise' = noise \/ noise' = [noise EXCEPT ![m] = [noise[m] EXCEPT ![e.signer] = more]]
    BY <1>1 DEF Traffic, Windows
  <2>3. noise \in [Nodes -> [Keys -> Nat]]
    BY DEF Traffic, Windows
  <2>4. noise[m][e.signer] \in Nat
    <3> HIDE DEF more
    <3>. QED  BY <1>2, <2>3
  <2>2. more \in Nat /\ noise \in [Nodes -> [Keys -> Nat]]
    BY <2>3, <2>4
  <2> HIDE DEF more
  <2>. QED  BY <2>1, <2>2, <1>2
<1>8. Windows'
  BY <1>3, <1>7 DEF Windows
<1>4. /\ outbox' \in [Nodes -> Seq(Wire)]
      /\ \A k \in Nodes : /\ Len(outbox[k]) \in Nat /\ Len(outbox'[k]) \in Nat
                         /\ Len(outbox[k]) <= Len(outbox'[k])
  <2>1. \A k \in Nodes : Len(outbox[k]) \in Nat
    BY DEF Traffic
  <2>2. CASE outbox' = outbox
    BY <2>1, <2>2 DEF Traffic
  <2>3. CASE outbox' = [outbox EXCEPT ![m] = Append(@, e)]
    <3> HIDE DEF e
    <3>. QED  BY <2>3, <1>2, OutboxGrows
  <2>. QED  BY <1>1, <2>2, <2>3 DEF Relay
<1>5. sent' \in [Nodes -> [Nodes -> Nat]]
  BY <1>1 DEF Traffic
<1>6. ASSUME NEW k \in Nodes, NEW l \in Nodes PROVE sent'[k][l] <= Len(outbox'[k])
  <2>1. Len(outbox[k]) \in Nat /\ Len(outbox'[k]) \in Nat /\ Len(outbox[k]) <= Len(outbox'[k])
    BY <1>4
  <2>2. sent[k][l] \in Nat /\ sent[k][l] <= Len(outbox[k]) /\ sent[n][m] \in Nat
    BY DEF Traffic
  <2>3. sent'[k][l] = IF k = n /\ l = m THEN sent[n][m] + 1 ELSE sent[k][l]
    BY <1>1 DEF Traffic
  <2>4. sent'[k][l] <= Len(outbox[k])
    BY <2>1, <2>2, <2>3, <1>1
  <2>5. sent'[k][l] \in Nat
    BY <1>5
  <2>. QED  BY <2>1, <2>4, <2>5
<1>. QED  BY <1>1, <1>3, <1>4, <1>5, <1>6, <1>8 DEF Traffic, Shapes

LEMMA TrafficRestart ==
  ASSUME Traffic, NEW n \in Nodes, Shapes', Restart(n) PROVE Traffic'
<1>1. /\ restarts[n] < Restarts[n]
      /\ restarts' = [restarts EXCEPT ![n] = @ + 1]
      /\ penalties' = [penalties EXCEPT ![n] = [k \in Keys |-> 0]]
      /\ counted' = [counted EXCEPT ![n] = [k \in Keys |-> 0]]
      /\ noise' = [noise EXCEPT ![n] = [k \in Keys |-> 0]]
      /\ outbox' = [outbox EXCEPT ![n] = <<>>]
      /\ sent' = [sent EXCEPT ![n] = [m \in Nodes |-> 0]]
  BY DEF Restart
<1>2. /\ penalties' \in [Nodes -> [Keys -> 0 .. Worst]]
      /\ sent' \in [Nodes -> [Nodes -> Nat]]
      /\ restarts' \in [Nodes -> Nat] /\ \A k \in Nodes : restarts'[k] <= Restarts[k]
  <2>1. penalties' \in [Nodes -> [Keys -> 0 .. Worst]] /\ sent' \in [Nodes -> [Nodes -> Nat]]
    BY <1>1 DEF Traffic, Worst
  <2>2. restarts[n] \in Nat /\ Restarts[n] \in Nat
    BY TrustAssumption DEF Traffic
  <2>3. restarts[n] + 1 \in Nat /\ restarts[n] + 1 <= Restarts[n]
    BY <1>1, <2>2
  <2>. QED  BY <1>1, <2>1, <2>3 DEF Traffic
<1>3. <<>> \in Seq(Wire) /\ Len(<<>>) = 0
  BY EmptySeq
<1>4. outbox' \in [Nodes -> Seq(Wire)]
  BY <1>1, <1>3 DEF Traffic
<1>5. ASSUME NEW k \in Nodes, NEW l \in Nodes PROVE sent'[k][l] <= Len(outbox'[k])
  BY <1>1, <1>3 DEF Traffic
<1>6. /\ counted' \in [Nodes -> [Keys -> Nat]] /\ noise' \in [Nodes -> [Keys -> Nat]]
      /\ \A l \in Nodes, k \in Keys :
           counted'[l][k] > 0 => \E budget \in Budgets : counted'[l][k] <= budget
  <2>1. counted' \in [Nodes -> [Keys -> Nat]] /\ noise' \in [Nodes -> [Keys -> Nat]]
    BY <1>1 DEF Traffic, Windows
  <2>2. \A l \in Nodes, k \in Keys : counted'[l][k] = IF l = n THEN 0 ELSE counted[l][k]
    BY <1>1 DEF Traffic, Windows
  <2>3. ASSUME NEW l \in Nodes, NEW k \in Keys, counted'[l][k] > 0
        PROVE  \E budget \in Budgets : counted'[l][k] <= budget
    <3>1. l # n /\ counted'[l][k] = counted[l][k]
      BY <2>2, <2>3
    <3>. QED  BY <2>3, <3>1 DEF Traffic, Windows
  <2>. QED  BY <2>1, <2>3
<1>7. Windows'
  BY <1>6 DEF Windows
<1>. QED  BY <1>2, <1>4, <1>5, <1>7 DEF Traffic, Shapes

LEMMA TrafficLapse ==
  ASSUME Traffic, NEW n \in Nodes, NEW k \in Keys, Shapes', Lapse(n, k)
  PROVE  /\ Traffic'
         /\ \A m \in Nodes, j \in Keys : counted'[m][j] <= counted[m][j]
<1>1. PICK fewer \in 0 .. counted[n][k] - 1 : counted' = [counted EXCEPT ![n][k] = fewer]
  BY DEF Lapse
<1>2. counted[n][k] \in Nat /\ fewer \in Nat /\ fewer < counted[n][k]
  BY <1>1 DEF Traffic, Windows
<1>3. /\ counted' \in [Nodes -> [Keys -> Nat]]
      /\ counted'[n][k] = fewer
      /\ \A m \in Nodes, j \in Keys : <<m, j>> # <<n, k>> => counted'[m][j] = counted[m][j]
  BY <1>1, <1>2 DEF Traffic, Windows
<1>4. ASSUME NEW m \in Nodes, NEW j \in Keys PROVE counted'[m][j] <= counted[m][j]
  <2>1. counted[m][j] \in Nat
    BY DEF Traffic, Windows
  <2>2. CASE <<m, j>> = <<n, k>>
    BY <1>2, <1>3, <2>2
  <2>3. CASE <<m, j>> # <<n, k>>
    BY <1>3, <2>1, <2>3
  <2>. QED  BY <2>2, <2>3
<1>5. ASSUME NEW m \in Nodes, NEW j \in Keys, counted'[m][j] > 0
      PROVE  \E budget \in Budgets : counted'[m][j] <= budget
  <2>1. counted[m][j] \in Nat /\ counted'[m][j] \in Nat /\ counted'[m][j] <= counted[m][j]
    BY <1>3, <1>4 DEF Traffic, Windows
  <2>4. counted[m][j] > 0
    BY <2>1, <1>5
  <2>2. PICK budget \in Budgets : counted[m][j] <= budget
    BY <2>4 DEF Traffic, Windows
  <2>3. budget \in Nat
    BY TrustAssumption
  <2>. QED  BY <2>1, <2>2, <2>3
<1>. QED  BY <1>3, <1>4, <1>5 DEF Lapse, Traffic, Windows, Shapes

LEMMA TrafficInit == Init => Traffic
<1>1. <<>> \in Seq(Wire) /\ Len(<<>>) = 0
  BY EmptySeq
<1>. QED  BY <1>1, TrustAssumption DEF Init, Traffic, Windows, Bootstrapped, Genesis, Worst

-----------------------------------------------------------------------------
(* The whole step *)

TrafficInv == TrustInv /\ Traffic

\* The actions through which a view changes are endorse and a restart.
LEMMA ViewsNext == TrafficInv /\ [Next]_vars => TrustInv'
<1> SUFFICES ASSUME TrafficInv, [Next]_vars PROVE TrustInv'
  OBVIOUS
<1>1. TrustInv /\ Traffic
  BY DEF TrafficInv
<1>2. ASSUME NEW n \in Nodes, NEW a \in Keys, NEW b \in Keys, Integrate(n, a, b) PROVE TrustInv'
  BY <1>1, <1>2, IntegrateKeeps DEF TrustInv
<1>3. ASSUME NEW w \in Wishes, Endorse(w[1], w[2]) \/ EndorseUnpublished(w[1], w[2])
      PROVE  TrustInv'
  BY <1>2, <1>3, TrustAssumption DEF Endorse, EndorseUnpublished
<1>4. ASSUME NEW l \in Links, Hand(l[1], l[2]) PROVE TrustInv'
  <2> DEFINE e == Upcoming(l[1], l[2])
  <2>1. l[1] \in Nodes /\ l[2] \in Nodes
    BY TrustAssumption
  <2>2. e \in Wire
    BY <1>1, <1>4, <2>1, HandedOnWire DEF Hand
  <2>3. e.signer \in Keys /\ e.endorsed \in Keys
    BY <2>2, TrustAssumption DEF Wire
  <2>4. Integrate(l[2], e.signer, e.endorsed) \/ UNCHANGED <<score, endorsers>>
    BY <1>4 DEF Hand, Receive, Handle, Upcoming
  <2> HIDE DEF e
  <2>. QED  BY <2>1, <2>3, <2>4, <1>1, <1>2, ViewsUnchanged
<1>5. ASSUME NEW n \in Nodes, Restart(n) PROVE TrustInv'
  BY <1>1, <1>5, RestartKeeps
<1>6. CASE UNCHANGED <<score, endorsers>>
  BY <1>1, <1>6, ViewsUnchanged
<1>. QED
  BY <1>3, <1>4, <1>5, <1>6 DEF Next, vars, ReceiveMalformed, Report, Lapse

LEMMA TrafficNext == TrafficInv /\ [Next]_vars => TrafficInv'
<1> SUFFICES ASSUME TrafficInv, [Next]_vars PROVE Traffic'
  BY ViewsNext DEF TrafficInv
<1>1. TrustInv /\ Traffic /\ Shapes /\ Shapes'
  BY ViewsNext DEF TrafficInv, TrustInv
<1>2. ASSUME NEW w \in Wishes, Endorse(w[1], w[2]) \/ EndorseUnpublished(w[1], w[2])
      PROVE  Traffic'
  BY <1>1, <1>2, TrafficEndorse, TrustAssumption
<1>3. ASSUME NEW l \in Links, Hand(l[1], l[2]) PROVE Traffic'
  BY <1>1, <1>3, TrafficHand, TrustAssumption
<1>4. ASSUME NEW n \in Nodes, NEW k \in Keys,
             ReceiveMalformed(n, k) \/ Report(n, k) \/ Lapse(n, k)
      PROVE  Traffic'
  <2>1. CASE ReceiveMalformed(n, k)
    <3>1. /\ counted' \in [Nodes -> [Keys -> Nat]]
          /\ \A m \in Nodes, j \in Keys :
               counted'[m][j] > 0 => \E budget \in Budgets : counted'[m][j] <= budget
          /\ penalties' \in [Nodes -> [Keys -> 0 .. Worst]]
      BY <1>1, <2>1, GateTypes, PenaltiesType DEF ReceiveMalformed, InvalidEvent
    <3>. QED  BY <1>1, <2>1, <3>1 DEF ReceiveMalformed, Traffic, Windows
  <2>2. CASE Report(n, k)
    BY <1>1, <2>2, PenaltiesType DEF Report, RemoteReport, Traffic, Windows
  <2>3. CASE Lapse(n, k)
    BY <1>1, <2>3, TrafficLapse
  <2>. QED  BY <1>4, <2>1, <2>2, <2>3
<1>5. ASSUME NEW n \in Nodes, Restart(n) PROVE Traffic'
  BY <1>1, <1>5, TrafficRestart
<1>6. CASE UNCHANGED vars
  BY <1>1, <1>6 DEF vars, guardVars, Traffic, Windows
<1>. QED
  BY <1>2, <1>3, <1>4, <1>5, <1>6, TrustAssumption DEF Next

LEMMA TrafficAlways == Spec => []TrafficInv
<1>1. Init => TrafficInv
  BY TrustInit, TrafficInit DEF TrafficInv
<1>. QED  BY <1>1, TrafficNext, PTL DEF Spec

-----------------------------------------------------------------------------
(* The theorems *)

\* Types, the scores that endorsements can give, and the marks of a peer within the
\* outbox it is served from.
THEOREM TrustTypes == Spec => []TypeOK
<1>1. TrafficInv => TypeOK
  BY TrustAssumption DEF TrafficInv, TrustInv, ScoresOK, Shapes, Traffic, Windows, TypeOK
<1>. QED  BY <1>1, TrafficAlways, PTL

\* The keys a node trusts are the least set that holds its founders and itself and
\* that the endorsements it integrated close, whatever the order of endorse, of the
\* relays and of restarts.
THEOREM TrustRestsOnFounders == Spec => []TrustGrounded
<1>1. TrafficInv => TrustGrounded
  BY DEF TrafficInv, TrustInv
<1>. QED  BY <1>1, TrafficAlways, PTL

-----------------------------------------------------------------------------
(* Who is held guilty *)

\* What n was sent by k in this life: the endorsements it knows, and the copies of
\* those it did not come to know.
Weight(n, k) == noise[n][k] + Cardinality(KnownOf(n, k))

\* The window of a signer counts no more than that, and a signer is held guilty of
\* its rate past a budget only.
WindowExplained(n, k) == k # n /\ <<n, k>> \notin Malformed => counted[n][k] <= Weight(n, k)

GuiltExplained(n, k) ==
  penalties[n][k] > 0 /\ <<n, k>> \notin Reported \cup Malformed
    => k # n /\ \E budget \in Budgets : Weight(n, k) > budget

ExcessInv == \A n \in Nodes, k \in Keys : WindowExplained(n, k) /\ GuiltExplained(n, k)

LEMMA WeightType ==
  ASSUME Traffic, NEW n \in Nodes, NEW k \in Keys
  PROVE  IsFiniteSet(KnownOf(n, k)) /\ Cardinality(KnownOf(n, k)) \in Nat /\ Weight(n, k) \in Nat
<1>1. outbox[n] \in Seq(Wire) /\ noise[n][k] \in Nat
  BY DEF Traffic, Windows
<1>2. DOMAIN outbox[n] = 1 .. Len(outbox[n]) /\ Len(outbox[n]) \in Nat
  BY <1>1
<1>3. IsFiniteSet(KnownOf(n, k))
  <2>1. IsFiniteSet(1 .. Len(outbox[n])) /\ KnownOf(n, k) \subseteq 1 .. Len(outbox[n])
    BY <1>2, FS_Interval DEF KnownOf
  <2>. QED  BY <2>1, FS_Subset
<1>4. Cardinality(KnownOf(n, k)) \in Nat
  BY <1>3, FS_CardinalityType
<1>. QED  BY <1>1, <1>3, <1>4 DEF Weight

\* An endorsement appended is one more known of its signer.
LEMMA KnownAppended ==
  ASSUME Traffic, NEW n \in Nodes, NEW e \in Wire, outbox'[n] = Append(outbox[n], e)
  PROVE  /\ Cardinality(KnownOf(n, e.signer))' = Cardinality(KnownOf(n, e.signer)) + 1
         /\ \A k \in Keys \ {e.signer} : KnownOf(n, k)' = KnownOf(n, k)
<1> DEFINE last == Len(outbox[n]) + 1
<1>1. outbox[n] \in Seq(Wire)
  BY DEF Traffic
<1>2. /\ Len(outbox[n]) \in Nat /\ DOMAIN outbox[n] = 1 .. Len(outbox[n])
      /\ DOMAIN outbox'[n] = 1 .. last
      /\ outbox'[n][last] = e /\ \A i \in DOMAIN outbox[n] : outbox'[n][i] = outbox[n][i]
  BY <1>1
<1>3. DOMAIN outbox'[n] = DOMAIN outbox[n] \cup {last} /\ last \notin DOMAIN outbox[n]
  BY <1>2
<1> HIDE DEF last
<1>4. KnownOf(n, e.signer)' = KnownOf(n, e.signer) \cup {last} /\ last \notin KnownOf(n, e.signer)
  BY <1>2, <1>3 DEF KnownOf
<1>5. \A k \in Keys \ {e.signer} : KnownOf(n, k)' = KnownOf(n, k)
  BY <1>2, <1>3 DEF KnownOf
<1>6. e.signer \in Keys
  BY TrustAssumption DEF Wire
<1>7. Cardinality(KnownOf(n, e.signer) \cup {last}) = Cardinality(KnownOf(n, e.signer)) + 1
  BY <1>4, <1>6, WeightType, FS_AddElement
<1>. QED  BY <1>4, <1>5, <1>7

\* A pair of node and signer whose window does not grow, that is not penalised and
\* from whom nothing is forgotten.
LEMMA ExcessKept ==
  ASSUME Traffic, Traffic', NEW n \in Nodes, NEW k \in Keys,
         WindowExplained(n, k), GuiltExplained(n, k),
         counted'[n][k] <= counted[n][k], penalties'[n][k] = penalties[n][k],
         noise[n][k] <= noise'[n][k],
         Cardinality(KnownOf(n, k)) <= Cardinality(KnownOf(n, k))'
  PROVE  WindowExplained(n, k)' /\ GuiltExplained(n, k)'
<1>1. /\ Weight(n, k) \in Nat /\ Cardinality(KnownOf(n, k)) \in Nat
      /\ noise[n][k] \in Nat /\ counted[n][k] \in Nat
  BY WeightType DEF Traffic, Windows
<1>2. /\ Weight(n, k)' \in Nat /\ Cardinality(KnownOf(n, k))' \in Nat
      /\ noise'[n][k] \in Nat /\ counted'[n][k] \in Nat
  <2>1. IsFiniteSet(KnownOf(n, k))' /\ Cardinality(KnownOf(n, k))' \in Nat /\ Weight(n, k)' \in Nat
    <3>1. outbox'[n] \in Seq(Wire) /\ noise'[n][k] \in Nat
      BY DEF Traffic, Windows
    <3>2. DOMAIN outbox'[n] = 1 .. Len(outbox'[n]) /\ Len(outbox'[n]) \in Nat
      BY <3>1
    <3>3. IsFiniteSet(KnownOf(n, k)')
      <4>1. /\ IsFiniteSet(1 .. Len(outbox'[n]))
            /\ KnownOf(n, k)' \subseteq 1 .. Len(outbox'[n])
        BY <3>2, FS_Interval DEF KnownOf
      <4>. QED  BY <4>1, FS_Subset
    <3>4. Cardinality(KnownOf(n, k)') \in Nat
      BY <3>3, FS_CardinalityType
    <3>. QED  BY <3>1, <3>3, <3>4 DEF Weight
  <2>. QED  BY <2>1 DEF Traffic, Windows
<1>3. Weight(n, k) <= Weight(n, k)'
  BY <1>1, <1>2 DEF Weight
<1>4. WindowExplained(n, k)'
  BY <1>1, <1>2, <1>3 DEF WindowExplained
<1>5. GuiltExplained(n, k)'
  <2> SUFFICES ASSUME penalties'[n][k] > 0, <<n, k>> \notin Reported \cup Malformed
               PROVE  k # n /\ \E budget \in Budgets : Weight(n, k)' > budget
    BY DEF GuiltExplained
  <2>1. k # n /\ \E budget \in Budgets : Weight(n, k) > budget
    BY DEF GuiltExplained
  <2>2. PICK budget \in Budgets : Weight(n, k) > budget
    BY <2>1
  <2>3. budget \in Nat
    BY TrustAssumption
  <2>. QED  BY <1>1, <1>2, <1>3, <2>1, <2>2, <2>3
<1>. QED  BY <1>4, <1>5

\* What an event handed over leaves: every known endorsement stays known, and one that
\* is counted or rejected weighs one more, whether it becomes known or not.
LEMMA HandWeighs ==
  ASSUME Traffic, NEW n \in Nodes, NEW m \in Nodes, Hand(n, m),
         NEW e, e = Upcoming(n, m)
  PROVE  /\ e \in Wire /\ e.signer \in Keys
         /\ \A l \in Nodes, k \in Keys :
              /\ noise[l][k] <= noise'[l][k]
              /\ Cardinality(KnownOf(l, k)) <= Cardinality(KnownOf(l, k))'
         /\ ~Uncounted(m, e) => Weight(m, e.signer)' = Weight(m, e.signer) + 1
<1>1. /\ sent[n][m] < Len(outbox[n])
      /\ outbox' = Relay(m, e) \/ outbox' = outbox
      /\ noise' = IF e.signer = m \/ e \in Range(outbox'[m]) THEN noise
                  ELSE [noise EXCEPT ![m][e.signer] = @ + 1]
  BY HandCases
<1>2. e \in Wire /\ e.signer \in Keys
  <2>1. e \in Wire
    BY <1>1, HandedOnWire
  <2>. QED  BY <2>1, TrustAssumption DEF Wire
<1>3. outbox' = outbox \/ outbox' = [outbox EXCEPT ![m] = Append(@, e)]
  BY <1>1 DEF Relay
<1>4. \A l \in Nodes \ {m} : outbox'[l] = outbox[l]
  BY <1>3 DEF Traffic
<1>5. outbox'[m] = outbox[m] \/ outbox'[m] = Append(outbox[m], e)
  BY <1>3 DEF Traffic
<1>6. ASSUME NEW l \in Nodes, NEW k \in Keys
      PROVE  Cardinality(KnownOf(l, k)) <= Cardinality(KnownOf(l, k))'
  <2>1. Cardinality(KnownOf(l, k)) \in Nat
    BY WeightType
  <2>2. CASE outbox'[l] = outbox[l]
    <3>1. KnownOf(l, k)' = KnownOf(l, k)
      BY <2>2 DEF KnownOf
    <3>. QED  BY <2>1, <3>1
  <2>3. CASE l = m /\ outbox'[m] = Append(outbox[m], e)
    <3>1. CASE k = e.signer
      BY <2>1, <2>3, <3>1, <1>2, KnownAppended
    <3>2. CASE k # e.signer
      <4>1. KnownOf(l, k)' = KnownOf(l, k)
        BY <2>3, <3>2, <1>2, KnownAppended
      <4>. QED  BY <2>1, <4>1
    <3>. QED  BY <3>1, <3>2
  <2>. QED  BY <1>4, <1>5, <2>2, <2>3
<1>7. /\ noise \in [Nodes -> [Keys -> Nat]]
      /\ noise' = noise \/ noise' = [noise EXCEPT ![m] = [noise[m] EXCEPT ![e.signer] = noise[m][e.signer] + 1]]
  BY <1>1, <1>2 DEF Traffic, Windows
<1>8. ASSUME NEW l \in Nodes, NEW k \in Keys PROVE noise[l][k] <= noise'[l][k]
  <2>1. noise[l][k] \in Nat
    BY <1>7
  <2>2. CASE l = m /\ k = e.signer
    BY <1>2, <1>7, <2>1, <2>2
  <2>3. CASE ~(l = m /\ k = e.signer)
    <3>1. noise'[l][k] = noise[l][k]
      BY <1>2, <1>7, <2>3
    <3>. QED  BY <2>1, <3>1
  <2>. QED  BY <2>2, <2>3
<1>9. ASSUME ~Uncounted(m, e) PROVE Weight(m, e.signer)' = Weight(m, e.signer) + 1
  <2>1. e.signer # m /\ e \notin Range(outbox[m])
    BY <1>9 DEF Uncounted
  <2>2. noise[m][e.signer] \in Nat /\ Cardinality(KnownOf(m, e.signer)) \in Nat
    BY <1>2, <1>7, WeightType
  <2>3. CASE e \in Range(outbox'[m])
    <3>1. outbox'[m] = Append(outbox[m], e)
      BY <2>1, <2>3, <1>5
    <3>2. Cardinality(KnownOf(m, e.signer))' = Cardinality(KnownOf(m, e.signer)) + 1
      BY <1>2, <3>1, KnownAppended
    <3>3. noise' = noise
      BY <1>1, <2>3
    <3>. QED  BY <2>2, <3>2, <3>3 DEF Weight
  <2>4. CASE e \notin Range(outbox'[m])
    <3>1. outbox'[m] # Append(outbox[m], e)
      <4>1. SUFFICES ASSUME outbox'[m] = Append(outbox[m], e) PROVE e \in Range(outbox'[m])
        BY <2>4
      <4>2. outbox[m] \in Seq(Wire)
        BY DEF Traffic
      <4>3. Len(outbox[m]) + 1 \in DOMAIN outbox'[m] /\ outbox'[m][Len(outbox[m]) + 1] = e
        BY <1>2, <4>1, <4>2
      <4>. QED  BY <4>3 DEF Range
    <3>2. KnownOf(m, e.signer)' = KnownOf(m, e.signer)
      BY <1>5, <3>1 DEF KnownOf
    <3>3. noise' = [noise EXCEPT ![m][e.signer] = @ + 1]
      BY <1>1, <2>1, <2>4
    <3>4. noise'[m][e.signer] = noise[m][e.signer] + 1
      BY <1>2, <1>7, <3>3
    <3>. QED  BY <2>2, <3>2, <3>4 DEF Weight
  <2>. QED  BY <2>3, <2>4
<1>. QED  BY <1>2, <1>6, <1>8, <1>9

LEMMA ExcessHand ==
  ASSUME Traffic, Traffic', ExcessInv, NEW n \in Nodes, NEW m \in Nodes, Hand(n, m)
  PROVE  ExcessInv'
<1>7. PICK e : e = Upcoming(n, m)
  OBVIOUS
<1>1. /\ \/ Uncounted(m, e) /\ penalties' = penalties /\ counted' = counted
         \/ ~Uncounted(m, e) /\ GateAdmits(m, e.signer) /\ penalties' = penalties
         \/ ~Uncounted(m, e) /\ GateRejects(m, e.signer) /\ outbox' = outbox
  BY <1>7, HandCases
<1>2. /\ e \in Wire /\ e.signer \in Keys
      /\ \A l \in Nodes, k \in Keys :
           /\ noise[l][k] <= noise'[l][k]
           /\ Cardinality(KnownOf(l, k)) <= Cardinality(KnownOf(l, k))'
      /\ ~Uncounted(m, e) => Weight(m, e.signer)' = Weight(m, e.signer) + 1
  BY <1>7, HandWeighs
<1> SUFFICES ASSUME NEW l \in Nodes, NEW k \in Keys
             PROVE  WindowExplained(l, k)' /\ GuiltExplained(l, k)'
  BY DEF ExcessInv
<1>3. /\ WindowExplained(l, k) /\ GuiltExplained(l, k)
      /\ counted[l][k] \in Nat /\ Weight(l, k) \in Nat
      /\ counted \in [Nodes -> [Keys -> Nat]]
  BY WeightType DEF ExcessInv, Traffic, Windows
<1>4. CASE penalties' = penalties /\ counted' = counted
  BY <1>2, <1>3, <1>4, ExcessKept
<1>5. CASE GateAdmits(m, e.signer) /\ penalties' = penalties /\ ~Uncounted(m, e)
  <2>1. counted' = [counted EXCEPT ![m][e.signer] = @ + 1]
    BY <1>5 DEF GateAdmits
  <2>2. CASE <<l, k>> = <<m, e.signer>>
    <3>1. counted'[l][k] = counted[l][k] + 1 /\ Weight(l, k)' = Weight(l, k) + 1
      BY <1>2, <1>3, <1>5, <2>1, <2>2
    <3>2. WindowExplained(l, k)'
      BY <1>3, <3>1 DEF WindowExplained
    <3>3. GuiltExplained(l, k)'
      <4> SUFFICES ASSUME penalties'[l][k] > 0, <<l, k>> \notin Reported \cup Malformed
                   PROVE  k # l /\ \E budget \in Budgets : Weight(l, k)' > budget
        BY DEF GuiltExplained
      <4>1. k # l /\ \E budget \in Budgets : Weight(l, k) > budget
        BY <1>3, <1>5 DEF GuiltExplained
      <4>2. PICK budget \in Budgets : Weight(l, k) > budget
        BY <4>1
      <4>3. budget \in Nat
        BY TrustAssumption
      <4>4. Weight(l, k)' > budget
        BY <1>3, <3>1, <4>2, <4>3
      <4>. QED  BY <4>1, <4>4
    <3>. QED  BY <3>2, <3>3
  <2>3. CASE <<l, k>> # <<m, e.signer>>
    <3>1. counted'[l][k] = counted[l][k]
      BY <1>3, <2>1, <2>3
    <3>. QED  BY <1>2, <1>3, <1>5, <3>1, ExcessKept
  <2>. QED  BY <2>2, <2>3
<1>6. CASE GateRejects(m, e.signer) /\ ~Uncounted(m, e)
  <2>1. counted' = counted
    BY <1>6 DEF GateRejects
  <2>2. CASE penalties' = penalties
    BY <1>4, <2>1, <2>2
  <2>3. CASE penalties' # penalties
    <3>1. /\ penalties' = Penalised(m, e.signer, ExcessiveRate)
          /\ \E budget \in Budgets : counted[m][e.signer] >= budget
      BY <1>6, <2>3 DEF GateRejects
    <3>2. CASE <<l, k>> # <<m, e.signer>>
      <4>1. penalties'[l][k] = penalties[l][k]
        <5>1. ExcessiveRate \in Nat
          BY DEF ExcessiveRate
        <5>. QED  BY <1>2, <3>1, <3>2, <5>1, PenaltiesType
      <4>. QED  BY <1>2, <1>3, <2>1, <4>1, ExcessKept
    <3>3. CASE <<l, k>> = <<m, e.signer>>
      <4>1. PICK budget \in Budgets : counted[l][k] >= budget
        BY <3>1, <3>3
      <4>2. budget \in Nat /\ Weight(l, k)' = Weight(l, k) + 1
        BY <1>2, <1>6, <3>3, TrustAssumption
      <4>3. WindowExplained(l, k)'
        BY <1>3, <2>1, <4>2 DEF WindowExplained
      <4>4. k # l
        BY <1>6, <3>3 DEF Uncounted
      <4>5. <<l, k>> \notin Malformed => Weight(l, k)' > budget
        BY <1>3, <4>1, <4>2, <4>4 DEF WindowExplained
      <4>. QED  BY <4>3, <4>4, <4>5 DEF GuiltExplained
    <3>. QED  BY <3>2, <3>3
  <2>. QED  BY <2>2, <2>3
<1>. QED  BY <1>1, <1>4, <1>5, <1>6

LEMMA ExcessNext == TrafficInv /\ ExcessInv /\ [Next]_vars => ExcessInv'
<1> SUFFICES ASSUME TrafficInv, ExcessInv, [Next]_vars PROVE ExcessInv'
  OBVIOUS
<1>1. Traffic /\ Traffic'
  BY TrafficNext DEF TrafficInv
<1>2. ASSUME NEW n \in Nodes, NEW k \in Keys
      PROVE  /\ WindowExplained(n, k) /\ GuiltExplained(n, k)
             /\ counted[n][k] \in Nat /\ noise[n][k] \in Nat
             /\ Cardinality(KnownOf(n, k)) \in Nat
  BY <1>1, WeightType DEF ExcessInv, Traffic, Windows
<1>3. ASSUME NEW n \in Nodes, NEW k \in Keys,
             counted'[n][k] <= counted[n][k], penalties'[n][k] = penalties[n][k],
             noise'[n][k] = noise[n][k], outbox'[n] = outbox[n]
      PROVE  WindowExplained(n, k)' /\ GuiltExplained(n, k)'
  <2>1. KnownOf(n, k)' = KnownOf(n, k)
    BY <1>3 DEF KnownOf
  <2>. QED  BY <1>1, <1>2, <1>3, <2>1, ExcessKept
<1>4. ASSUME NEW n \in Nodes, NEW b \in Keys, Endorse(n, b) PROVE ExcessInv'
  <2> SUFFICES ASSUME NEW l \in Nodes, NEW k \in Keys
               PROVE  WindowExplained(l, k)' /\ GuiltExplained(l, k)'
    BY DEF ExcessInv
  <2> DEFINE e == Endorsement(n, b)
  <2>1. /\ counted' = counted /\ penalties' = penalties /\ noise' = noise
        /\ outbox' = [outbox EXCEPT ![n] = Append(@, e)]
    BY <1>4 DEF Endorse, guardVars
  <2>2. RequiredPow(n, n) \in Int
    BY <1>1, PowType, TrustAssumption
  <2>3. e \in Wire
    BY <1>1, <2>2 DEF Endorsement, Wire, Traffic
  <2> HIDE DEF e
  <2>4. CASE l # n
    <3>1. outbox'[l] = outbox[l]
      BY <1>1, <2>1, <2>4 DEF Traffic
    <3>. QED  BY <1>2, <1>3, <2>1, <3>1
  <2>5. CASE l = n
    <3>1. outbox'[n] = Append(outbox[n], e)
      BY <1>1, <2>1 DEF Traffic
    <3>2. Cardinality(KnownOf(n, k)) <= Cardinality(KnownOf(n, k))'
      <4>1. CASE k = e.signer
        BY <1>1, <1>2, <2>3, <3>1, <4>1, KnownAppended
      <4>2. CASE k # e.signer
        <5>1. KnownOf(n, k)' = KnownOf(n, k)
          BY <1>1, <2>3, <3>1, <4>2, KnownAppended
        <5>. QED  BY <1>2, <5>1
      <4>. QED  BY <4>1, <4>2
    <3>. QED  BY <1>1, <1>2, <2>1, <2>5, <3>2, ExcessKept
  <2>. QED  BY <2>4, <2>5
<1>5. ASSUME NEW n \in Nodes, NEW k \in Keys, <<n, k>> \in Reported \cup Malformed,
             noise' = noise, outbox' = outbox,
             \A l \in Nodes, j \in Keys : <<l, j>> # <<n, k>> =>
               penalties'[l][j] = penalties[l][j] /\ counted'[l][j] = counted[l][j],
             \/ <<n, k>> \in Malformed
             \/ counted'[n][k] = counted[n][k]
      PROVE  ExcessInv'
  <2> SUFFICES ASSUME NEW l \in Nodes, NEW j \in Keys
               PROVE  WindowExplained(l, j)' /\ GuiltExplained(l, j)'
    BY DEF ExcessInv
  <2>1. CASE <<l, j>> # <<n, k>>
    BY <1>2, <1>3, <1>5, <2>1
  <2>2. CASE <<l, j>> = <<n, k>>
    <3>1. GuiltExplained(l, j)'
      BY <1>5, <2>2 DEF GuiltExplained
    <3>2. KnownOf(l, j)' = KnownOf(l, j)
      BY <1>5 DEF KnownOf
    <3>3. WindowExplained(l, j)'
      BY <1>2, <1>5, <2>2, <3>2 DEF WindowExplained, Weight
    <3>. QED  BY <3>1, <3>3
  <2>. QED  BY <2>1, <2>2
<1>6. ASSUME NEW p \in Malformed, ReceiveMalformed(p[1], p[2]) PROVE ExcessInv'
  <2>1. PICK n \in Nodes, k \in Keys : p = <<n, k>> /\ p[1] = n /\ p[2] = k
    BY TrustAssumption
  <2>2. \A l \in Nodes, j \in Keys : <<l, j>> # <<n, k>> =>
          penalties'[l][j] = penalties[l][j] /\ counted'[l][j] = counted[l][j]
    <3>1. \/ penalties' = penalties \/ penalties' = Penalised(n, k, ExcessiveRate)
          \/ penalties' = Penalised(n, k, InvalidEvent)
      BY <1>6, <2>1 DEF ReceiveMalformed, GateRejects
    <3>2. counted' = counted \/ counted' = [counted EXCEPT ![n][k] = @ + 1]
      BY <1>6, <2>1 DEF ReceiveMalformed, GateRejects, GateAdmits
    <3>3. ExcessiveRate \in Nat /\ InvalidEvent \in Nat
      BY DEF ExcessiveRate, InvalidEvent
    <3>4. \A l \in Nodes, j \in Keys : <<l, j>> # <<n, k>> => penalties'[l][j] = penalties[l][j]
      BY <1>1, <3>1, <3>3, PenaltiesType
    <3>6. counted \in [Nodes -> [Keys -> Nat]]
      BY <1>1 DEF Traffic, Windows
    <3>5. \A l \in Nodes, j \in Keys : <<l, j>> # <<n, k>> => counted'[l][j] = counted[l][j]
      BY <3>2, <3>6
    <3>. QED  BY <3>4, <3>5
  <2>. QED  BY <1>5, <1>6, <2>1, <2>2 DEF ReceiveMalformed
<1>7. ASSUME NEW q \in Reported, Report(q[1], q[2]) PROVE ExcessInv'
  <2>1. PICK n \in Nodes, k \in Keys : q = <<n, k>> /\ q[1] = n /\ q[2] = k
    BY TrustAssumption
  <2>2. \A l \in Nodes, j \in Keys : <<l, j>> # <<n, k>> => penalties'[l][j] = penalties[l][j]
    <3>1. RemoteReport \in Nat
      BY DEF RemoteReport
    <3>2. penalties' = Penalised(n, k, RemoteReport)
      BY <1>7, <2>1 DEF Report
    <3>. QED  BY <1>1, <3>1, <3>2, PenaltiesType
  <2>. QED  BY <1>5, <1>7, <2>1, <2>2 DEF Report
<1>8. ASSUME NEW n \in Nodes, NEW k \in Keys, Lapse(n, k) PROVE ExcessInv'
  <2>1. \A l \in Nodes, j \in Keys : counted'[l][j] <= counted[l][j]
    <3>1. Shapes'
      BY TrafficNext DEF TrafficInv, TrustInv
    <3>. QED  BY <1>1, <1>8, <3>1, TrafficLapse
  <2>. QED  BY <1>3, <1>8, <2>1 DEF Lapse, ExcessInv
<1>9. ASSUME NEW n \in Nodes, Restart(n) PROVE ExcessInv'
  <2> SUFFICES ASSUME NEW l \in Nodes, NEW k \in Keys
               PROVE  WindowExplained(l, k)' /\ GuiltExplained(l, k)'
    BY DEF ExcessInv
  <2>1. CASE l # n
    <3>1. /\ counted'[l] = counted[l] /\ noise'[l] = noise[l]
          /\ penalties'[l] = penalties[l] /\ outbox'[l] = outbox[l]
      BY <1>1, <1>9, <2>1 DEF Restart, Traffic, Windows
    <3>. QED  BY <1>2, <1>3, <3>1
  <2>2. CASE l = n
    <3>1. counted'[l][k] = 0 /\ noise'[l][k] = 0 /\ penalties'[l][k] = 0 /\ outbox'[l] = <<>>
      BY <1>1, <1>9, <2>2 DEF Restart, Traffic, Windows
    <3>2. KnownOf(l, k)' = {}
      BY <3>1 DEF KnownOf
    <3>3. Weight(l, k)' = 0
      BY <3>1, <3>2, FS_EmptySet DEF Weight
    <3>. QED  BY <3>1, <3>3 DEF WindowExplained, GuiltExplained
  <2>. QED  BY <2>1, <2>2
<1>10. CASE UNCHANGED <<guardVars, outbox>>
  BY <1>2, <1>3, <1>10 DEF ExcessInv, guardVars
<1>11. ASSUME NEW l \in Links, Hand(l[1], l[2]) PROVE ExcessInv'
  BY <1>1, <1>11, ExcessHand, TrustAssumption
<1>. QED
  BY <1>4, <1>6, <1>7, <1>8, <1>9, <1>10, <1>11, TrustAssumption
  DEF Next, vars, EndorseUnpublished

\* A key that nobody reported and that signs no malformed payload is held guilty only
\* once more of its endorsements than the budget of a window were taken in or refused
\* here: the copies that peers relay of what the node knows weigh nothing.
THEOREM OnlyExcessPunished == Spec => []ExcessAlonePunished
<1>1. Init => ExcessInv
  <2>1. ASSUME Init, NEW n \in Nodes, NEW k \in Keys
        PROVE  WindowExplained(n, k) /\ GuiltExplained(n, k)
    <3>1. counted[n][k] = 0 /\ penalties[n][k] = 0 /\ noise[n][k] = 0 /\ outbox[n] = <<>>
      BY <2>1 DEF Init
    <3>2. KnownOf(n, k) = {}
      BY <3>1 DEF KnownOf
    <3>3. Weight(n, k) = 0
      BY <3>1, <3>2, FS_EmptySet DEF Weight
    <3>. QED  BY <3>1, <3>3 DEF WindowExplained, GuiltExplained
  <2>. QED  BY <2>1 DEF ExcessInv
<1>2. ExcessInv => ExcessAlonePunished
  BY DEF ExcessInv, GuiltExplained, Weight, ExcessAlonePunished
<1>. QED  BY <1>1, <1>2, ExcessNext, TrafficAlways, PTL DEF Spec
=============================================================================
