-------------------------- MODULE AdmissionProofs --------------------------
(***************************************************************************)
(* What Admission promises, for any number of authors and events, budget,  *)
(* window, grace and silence: authors do not flood the gossip beyond their *)
(* budgets, a report weighs once, and what enters the gossip enters it by  *)
(* the insertion of Gossip.                                                *)
(***************************************************************************)
EXTENDS Admission, GossipProofs

-----------------------------------------------------------------------------
(* The purge of a window *)

LEMMA LeastNatural ==
  ASSUME NEW T \in SUBSET Nat, T # {}
  PROVE  \E n \in T : \A m \in T : n <= m
<1> DEFINE R == {ss \in Nat \X Nat : ss[1] < ss[2]}
<1>1. IsWellFoundedOn(R, Nat)
  BY NatLessThanWellFounded, Zenon DEF OpToRel
<1>2. PICK n \in T : \A m \in T : ~ <<m, n>> \in R
  BY <1>1, WFMin
<1>3. \A m \in T : ~ (m < n)
  BY <1>2
<1>. QED  BY <1>2, <1>3

\* The purge stops somewhere: at the first time that is recent, or at the end.
LEMMA StaleProperties ==
  ASSUME NEW times, NEW len \in Nat, Len(times) = len,
         \A i \in 1 .. len : times[i] \in Nat,
         NEW horizon \in Int
  PROVE  /\ Stale(times, horizon) \in 0 .. len
         /\ \A i \in 1 .. Stale(times, horizon) : times[i] < horizon
         /\ Stale(times, horizon) < len => times[Stale(times, horizon) + 1] >= horizon
<1> DEFINE Stops(n) == /\ \A i \in 1 .. n : times[i] < horizon
                       /\ n < len => times[n + 1] >= horizon
           T == {n \in 1 .. len : times[n] >= horizon}
<1>1. \E n \in 0 .. len : Stops(n)
  <2>1. CASE T = {}
    <3>1. \A n \in 1 .. len : times[n] < horizon
      BY <2>1
    <3>2. Stops(len)
      BY <3>1
    <3>. QED  BY <3>2
  <2>2. CASE T # {}
    <3>0. T \in SUBSET Nat
      OBVIOUS
    <3>1. PICK m \in T : \A k \in T : m <= k
      <4> HIDE DEF T
      <4>. QED  BY <2>2, <3>0, LeastNatural
    <3>2. m \in 1 .. len /\ times[m] >= horizon
      BY <3>1
    <3>4. ASSUME NEW n \in 1 .. m - 1 PROVE times[n] < horizon
      <4>1. n \in 1 .. len /\ ~ (m <= n)
        BY <3>2
      <4>2. n \notin T /\ times[n] \in Nat
        BY <3>1, <4>1
      <4>. QED  BY <4>1, <4>2
    <3>5. m - 1 \in 0 .. len /\ (m - 1) + 1 = m
      BY <3>2
    <3>6. Stops(m - 1)
      BY <3>2, <3>4, <3>5
    <3> HIDE DEF Stops
    <3>. QED  BY <3>5, <3>6
  <2>. QED  BY <2>1, <2>2
<1>2. Stale(times, horizon) = CHOOSE n \in 0 .. len : Stops(n)
  BY DEF Stale
<1> HIDE DEF Stops
<1>3. Stale(times, horizon) \in 0 .. len /\ Stops(Stale(times, horizon))
  BY <1>1, <1>2
<1>. QED  BY <1>3 DEF Stops

-----------------------------------------------------------------------------
(* The invariant of one author *)

Entries == [at : Nat, grace : BOOLEAN]

\* The stamps S and the entries E of an author at time t.  Counted from the end,
\* each recent entry has its own stamp, no older; an ordinary entry was let in
\* when the one Budget places before it had left the window.
Ordered(S, E, t) ==
  /\ S \in Seq(Nat) /\ E \in Seq(Entries)
  /\ \A i \in 1 .. Len(S) : S[i] <= t
  /\ \A i, j \in 1 .. Len(S) : i <= j => S[i] <= S[j]
  /\ \A i \in 1 .. Len(E) : E[i].at <= t
  /\ \A i, j \in 1 .. Len(E) : i <= j => E[i].at <= E[j].at

Stamped(S, E, t) ==
  \A i \in 1 .. Len(E) : E[i].at >= t - Window =>
    Len(E) - i < Len(S) /\ S[Len(S) - (Len(E) - i)] >= E[i].at

Spread(E) ==
  \A i \in 1 .. Len(E) :
    ~E[i].grace /\ i > Budget => E[i - Budget].at < E[i].at - Window

Paced(S, E, t) ==
  Ordered(S, E, t) /\ Len(S) <= Budget * HealFactor /\ Stamped(S, E, t) /\ Spread(E)

LEMMA ConstantsTyped ==
  /\ Budget \in Nat /\ Budget >= 1 /\ HealFactor \in Nat /\ HealFactor >= 1
  /\ Budget * HealFactor \in Nat /\ Budget <= Budget * HealFactor
  /\ Window \in Nat /\ Grace \in Nat
<1>1. Budget \in Nat /\ Budget >= 1 /\ HealFactor \in Nat /\ HealFactor >= 1
  BY AdmissionAssumption
<1>2. \A b, h \in Nat : h >= 1 => b * h \in Nat /\ b <= b * h
  OBVIOUS
<1>. QED  BY <1>1, <1>2, AdmissionAssumption

LEMMA PacedTypes ==
  ASSUME NEW S, NEW E, NEW t \in Nat, Paced(S, E, t)
  PROVE  /\ Len(S) \in Nat /\ Len(E) \in Nat
         /\ DOMAIN S = 1 .. Len(S) /\ DOMAIN E = 1 .. Len(E)
         /\ \A i \in 1 .. Len(S) : S[i] \in Nat
         /\ \A i \in 1 .. Len(E) : E[i] \in Entries /\ E[i].at \in Nat /\ E[i].grace \in BOOLEAN
<1>1. S \in Seq(Nat) /\ E \in Seq(Entries)
  BY DEF Paced, Ordered
<1>2. \A i \in 1 .. Len(S) : S[i] \in Nat
  BY <1>1, ElementOfSeq
<1>3. \A i \in 1 .. Len(E) : E[i] \in Entries
  BY <1>1, ElementOfSeq
<1>. QED  BY <1>1, <1>2, <1>3 DEF Entries

LEMMA LaterPaced ==
  ASSUME NEW S, NEW E, NEW t \in Nat, Paced(S, E, t)
  PROVE  Paced(S, E, t + 1)
<1>1. Ordered(S, E, t + 1)
  BY PacedTypes DEF Paced, Ordered
<1>2. Stamped(S, E, t + 1)
  <2>1. \A i \in 1 .. Len(E) : E[i].at >= (t + 1) - Window => E[i].at >= t - Window
    BY PacedTypes, ConstantsTyped
  <2>. QED  BY <2>1 DEF Paced, Stamped
<1>. QED  BY <1>1, <1>2 DEF Paced

\* The purge of the stamps takes none that a recent entry needs.
LEMMA PurgePaced ==
  ASSUME NEW S, NEW E, NEW t \in Nat, Paced(S, E, t)
  PROVE  Paced(Purged(S, t - Window), E, t)
<1> DEFINE h == t - Window
           k == Stale(S, h)
           P == SubSeq(S, k + 1, Len(S))
<1>1. h \in Int
  BY ConstantsTyped
<1>2. k \in 0 .. Len(S) /\ \A i \in 1 .. k : S[i] < h
  BY <1>1, PacedTypes, StaleProperties
<1> HIDE DEF k
<1>3. /\ P \in Seq(Nat) /\ Len(P) = Len(S) - k
      /\ \A i \in 1 .. Len(P) : P[i] = S[k + i]
  <2>1. S \in Seq(Nat) /\ k + 1 \in 1 .. Len(S) + 1 /\ Len(S) \in Nat
    BY <1>2, PacedTypes DEF Paced, Ordered
  <2>2. \A i \in 1 .. Len(S) - k : k + 1 + i - 1 = k + i
    BY <1>2, <2>1
  <2>. QED  BY <1>2, <2>1, <2>2, SubSeqProperties
<1> HIDE DEF P
<1>4. Ordered(P, E, t)
  <2>1. ASSUME NEW i \in 1 .. Len(P), NEW j \in 1 .. Len(P), i <= j
        PROVE  P[i] <= P[j]
    <3>1. k + i \in 1 .. Len(S) /\ k + j \in 1 .. Len(S) /\ k + i <= k + j
      BY <1>2, <1>3, <2>1, PacedTypes
    <3>. QED  BY <1>3, <3>1 DEF Paced, Ordered
  <2>2. ASSUME NEW i \in 1 .. Len(P) PROVE P[i] <= t
    <3>1. k + i \in 1 .. Len(S)
      BY <1>2, <1>3, PacedTypes
    <3>. QED  BY <1>3, <3>1 DEF Paced, Ordered
  <2>. QED  BY <1>3, <2>1, <2>2 DEF Paced, Ordered
<1>5. ASSUME NEW i \in 1 .. Len(E), E[i].at >= h
      PROVE  Len(E) - i < Len(P) /\ P[Len(P) - (Len(E) - i)] >= E[i].at
  <2> DEFINE j == Len(E) - i
  <2>1. j \in Nat /\ j < Len(S) /\ S[Len(S) - j] >= E[i].at
    BY <1>5, PacedTypes DEF Paced, Stamped
  <2>2. Len(S) - j \in 1 .. Len(S) /\ S[Len(S) - j] \in Nat /\ E[i].at \in Nat
    BY <2>1, PacedTypes
  <2>3. ~ (Len(S) - j \in 1 .. k)
    BY <1>1, <1>2, <1>5, <2>1, <2>2
  <2>4. Len(S) - j > k /\ Len(S) \in Nat
    BY <1>2, <2>2, <2>3, PacedTypes
  <2>5. j < Len(P) /\ Len(P) - j \in 1 .. Len(P) /\ k + (Len(P) - j) = Len(S) - j
    BY <1>2, <1>3, <2>1, <2>4
  <2>. QED  BY <1>3, <2>1, <2>5
<1>6. Len(P) <= Budget * HealFactor
  BY <1>2, <1>3, PacedTypes, ConstantsTyped DEF Paced
<1>7. Paced(P, E, t)
  BY <1>4, <1>5, <1>6 DEF Paced, Stamped
<1>8. Purged(S, h) = P
  BY DEF Purged, P, k
<1>. QED  BY <1>7, <1>8

\* Forgetting the front of the history of entries.
LEMMA ForgetPaced ==
  ASSUME NEW S, NEW E, NEW t \in Nat, Paced(S, E, t), NEW k \in 0 .. Len(E)
  PROVE  Paced(S, SubSeq(E, k + 1, Len(E)), t)
<1> DEFINE F == SubSeq(E, k + 1, Len(E))
<1>1. /\ F \in Seq(Entries) /\ Len(F) = Len(E) - k
      /\ \A i \in 1 .. Len(F) : F[i] = E[k + i]
  <2>1. E \in Seq(Entries) /\ k + 1 \in 1 .. Len(E) + 1 /\ Len(E) \in Nat
    BY PacedTypes DEF Paced, Ordered
  <2>2. \A i \in 1 .. Len(E) - k : k + 1 + i - 1 = k + i
    BY <2>1
  <2>. QED  BY <2>1, <2>2, SubSeqProperties
<1> HIDE DEF F
<1>2. \A i \in 1 .. Len(F) : k + i \in 1 .. Len(E) /\ Len(E) - (k + i) = Len(F) - i
  BY <1>1, PacedTypes
<1>3. Ordered(S, F, t)
  <2>1. ASSUME NEW i \in 1 .. Len(F), NEW j \in 1 .. Len(F), i <= j
        PROVE  F[i].at <= F[j].at /\ F[i].at <= t
    <3>1. k + i \in 1 .. Len(E) /\ k + j \in 1 .. Len(E) /\ k + i <= k + j
      BY <1>2, <2>1, PacedTypes
    <3>. QED  BY <1>1, <3>1 DEF Paced, Ordered
  <2>2. \A i \in 1 .. Len(F) : F[i].at <= t
    BY <1>1, <2>1
  <2>. QED  BY <1>1, <2>1, <2>2 DEF Paced, Ordered
<1>4. Stamped(S, F, t)
  BY <1>1, <1>2, PacedTypes DEF Paced, Stamped
<1>5. ASSUME NEW i \in 1 .. Len(F), ~F[i].grace, i > Budget
      PROVE  F[i - Budget].at < F[i].at - Window
  <2>1. i - Budget \in 1 .. Len(F) /\ k + (i - Budget) = (k + i) - Budget /\ k + i > Budget
    BY <1>1, <1>5, PacedTypes, ConstantsTyped
  <2>2. E[(k + i) - Budget].at < E[k + i].at - Window
    BY <1>1, <1>2, <1>5, <2>1 DEF Paced, Spread
  <2>. QED  BY <1>1, <2>1, <2>2
<1>6. Paced(S, F, t)
  BY <1>3, <1>4, <1>5 DEF Paced, Spread
<1>. QED  BY <1>6 DEF F

\* An admission: its stamp is the newest.
LEMMA AppendTimes ==
  ASSUME NEW S \in Seq(Nat), NEW t \in Nat
  PROVE  /\ Append(S, t) \in Seq(Nat) /\ Len(Append(S, t)) = Len(S) + 1 /\ Len(S) \in Nat
         /\ Append(S, t)[Len(S) + 1] = t
         /\ \A i \in 1 .. Len(S) : Append(S, t)[i] = S[i] /\ S[i] \in Nat
<1>1. \A i \in 1 .. Len(S) : S[i] \in Nat
  BY ElementOfSeq
<1>. QED  BY <1>1, AppendProperties

LEMMA AdmitPaced ==
  ASSUME NEW S, NEW E, NEW t \in Nat, Paced(S, E, t), Len(S) < Budget * HealFactor
  PROVE  Paced(Append(S, t), E, t)
<1> DEFINE Q == Append(S, t)
           n == Len(S)
<1>1. /\ Q \in Seq(Nat) /\ Len(Q) = n + 1 /\ n \in Nat /\ Q[n + 1] = t
      /\ \A i \in 1 .. n : Q[i] = S[i] /\ S[i] \in Nat
  BY AppendTimes DEF Paced, Ordered
<1> HIDE DEF Q
<1>2. ASSUME NEW i \in 1 .. n + 1, NEW j \in 1 .. n + 1, i <= j
      PROVE  Q[i] <= Q[j] /\ Q[i] <= t
  <2>1. CASE j = n + 1
    BY <1>1, <1>2, <2>1 DEF Paced, Ordered
  <2>2. CASE j \in 1 .. n
    <3>1. i \in 1 .. n
      BY <1>1, <1>2, <2>2
    <3>2. S[i] <= S[j] /\ S[i] <= t
      BY <1>2, <2>2, <3>1 DEF Paced, Ordered
    <3>. QED  BY <1>1, <2>2, <3>1, <3>2
  <2>. QED  BY <1>1, <2>1, <2>2
<1>3. Ordered(Q, E, t)
  BY <1>1, <1>2 DEF Paced, Ordered
<1>4. ASSUME NEW i \in 1 .. Len(E), E[i].at >= t - Window
      PROVE  Len(E) - i < Len(Q) /\ Q[Len(Q) - (Len(E) - i)] >= E[i].at
  <2> DEFINE j == Len(E) - i
  <2>1. j \in Nat /\ j < n /\ S[n - j] >= E[i].at /\ E[i].at \in Nat /\ E[i].at <= t
    <3>1. Len(E) \in Nat /\ E[i].at \in Nat
      BY PacedTypes
    <3>2. E[i].at <= t
      BY DEF Paced, Ordered
    <3>3. j < n /\ S[n - j] >= E[i].at
      BY <1>4 DEF Paced, Stamped
    <3>. QED  BY <3>1, <3>2, <3>3
  <2> HIDE DEF j
  <2>2. n - j \in 1 .. n + 1 /\ n + 1 - j \in 1 .. n + 1 /\ n - j \in 1 .. n /\ n - j <= n + 1 - j
    BY <1>1, <2>1
  <2>3. Q[n - j] = S[n - j] /\ Q[n - j] <= Q[n + 1 - j]
    BY <1>1, <1>2, <2>2
  <2>4. Q[n + 1 - j] \in Nat /\ S[n - j] \in Nat
    BY <1>1, <2>2
  <2>5. Q[n + 1 - j] >= E[i].at
    BY <2>1, <2>3, <2>4
  <2>6. j < Len(Q) /\ Q[Len(Q) - j] >= E[i].at
    BY <1>1, <2>1, <2>5
  <2>. QED  BY <2>6 DEF j
<1>5. Len(Q) <= Budget * HealFactor
  BY <1>1, ConstantsTyped
<1>6. Paced(Q, E, t)
  BY <1>3, <1>4, <1>5 DEF Paced, Stamped
<1>. QED  BY <1>6 DEF Q

\* An admission whose event enters the gossip, within the ordinary budget unless
\* under grace.
LEMMA EnterPaced ==
  ASSUME NEW S, NEW E, NEW t \in Nat, Paced(S, E, t), Len(S) < Budget * HealFactor,
         NEW g \in BOOLEAN, ~g => Len(S) < Budget
  PROVE  Paced(Append(S, t), Append(E, [at |-> t, grace |-> g]), t)
<1> DEFINE Q == Append(S, t)
           n == Len(S)
           x == [at |-> t, grace |-> g]
           F == Append(E, x)
           m == Len(E)
<1>1. Paced(Q, E, t)
  BY AdmitPaced
<1>2. /\ Len(Q) = n + 1 /\ n \in Nat /\ Q[n + 1] = t
      /\ \A i \in 1 .. n : Q[i] = S[i] /\ S[i] \in Nat
  BY AppendTimes DEF Paced, Ordered
<1>3. /\ F \in Seq(Entries) /\ Len(F) = m + 1 /\ m \in Nat /\ F[m + 1].at = t /\ F[m + 1].grace = g
      /\ \A i \in 1 .. m : F[i] = E[i] /\ E[i].at \in Nat /\ E[i].at <= t
  <2>1. E \in Seq(Entries) /\ x \in Entries /\ x.at = t /\ x.grace = g
    BY DEF Paced, Ordered, Entries
  <2>2. m \in Nat /\ \A i \in 1 .. m : E[i].at \in Nat /\ E[i].at <= t
    BY PacedTypes DEF Paced, Ordered
  <2> HIDE DEF x
  <2>. QED  BY <2>1, <2>2, AppendProperties
<1> HIDE DEF Q, F
<1>4. ASSUME NEW i \in 1 .. m + 1, NEW j \in 1 .. m + 1, i <= j
      PROVE  F[i].at <= F[j].at /\ F[i].at <= t
  <2>1. CASE j = m + 1
    BY <1>3, <1>4, <2>1
  <2>2. CASE j \in 1 .. m
    <3>1. i \in 1 .. m
      BY <1>3, <1>4, <2>2
    <3>2. E[i].at <= E[j].at
      BY <1>4, <2>2, <3>1 DEF Paced, Ordered
    <3>. QED  BY <1>3, <2>2, <3>1, <3>2
  <2>. QED  BY <1>3, <2>1, <2>2
<1>5. Ordered(Q, F, t)
  BY <1>1, <1>3, <1>4 DEF Paced, Ordered
<1>6. ASSUME NEW i \in 1 .. m + 1, F[i].at >= t - Window
      PROVE  (m + 1) - i < n + 1 /\ Q[(n + 1) - ((m + 1) - i)] >= F[i].at
  <2>1. CASE i = m + 1
    BY <1>2, <1>3, <2>1
  <2>2. CASE i \in 1 .. m
    <3>1. m - i < n /\ S[n - (m - i)] >= E[i].at
      BY <1>3, <1>6, <2>2 DEF Paced, Stamped
    <3>2. /\ (m + 1) - i < n + 1 /\ (n + 1) - ((m + 1) - i) = n - (m - i)
          /\ n - (m - i) \in 1 .. n
      BY <1>2, <1>3, <2>2, <3>1
    <3>. QED  BY <1>2, <1>3, <2>2, <3>1, <3>2
  <2>. QED  BY <1>3, <2>1, <2>2
<1>7. ASSUME NEW i \in 1 .. m + 1, ~F[i].grace, i > Budget
      PROVE  F[i - Budget].at < F[i].at - Window
  <2>0. Budget \in Nat /\ Budget >= 1 /\ Window \in Nat
    BY ConstantsTyped
  <2>1. CASE i \in 1 .. m
    <3>1. i - Budget \in 1 .. m
      BY <1>3, <1>7, <2>0, <2>1
    <3>. QED  BY <1>3, <1>7, <2>1, <3>1 DEF Paced, Spread
  <2>2. CASE i = m + 1
    <3>1. (m + 1) - Budget \in 1 .. m /\ n < Budget /\ m - ((m + 1) - Budget) = Budget - 1
      BY <1>3, <1>7, <2>0, <2>2
    <3>2. ~ (E[(m + 1) - Budget].at >= t - Window)
      <4>1. SUFFICES ASSUME E[(m + 1) - Budget].at >= t - Window PROVE FALSE
        OBVIOUS
      <4>2. m - ((m + 1) - Budget) < n
        BY <3>1, <4>1 DEF Paced, Stamped
      <4>. QED  BY <1>2, <2>0, <3>1, <4>2
    <3>3. F[i].at = t /\ F[i - Budget] = E[(m + 1) - Budget] /\ E[(m + 1) - Budget].at \in Nat
      BY <1>3, <2>2, <3>1
    <3>. QED  BY <2>0, <3>2, <3>3
  <2>. QED  BY <1>3, <2>1, <2>2
<1>8. Paced(Q, F, t)
  BY <1>1, <1>2, <1>3, <1>5, <1>6, <1>7 DEF Paced, Stamped, Spread
<1>. QED  BY <1>8 DEF Q, F

-----------------------------------------------------------------------------
(* What the invariant bounds *)

\* The positions of recent entries, and of the ordinary ones among them.
RecentOf(E, t) == {i \in DOMAIN E : E[i].at >= t - Window}
OrdinaryOf(E, t) == {i \in RecentOf(E, t) : ~E[i].grace}

\* As many as there are places for.
LEMMA CountedBelow ==
  ASSUME NEW R, NEW n \in Nat, NEW f \in [R -> 1 .. n],
         \A i, j \in R : f[i] = f[j] => i = j
  PROVE  IsFiniteSet(R) /\ Cardinality(R) <= n
<1>1. IsFiniteSet(1 .. n) /\ Cardinality(1 .. n) = n
  BY FS_Interval
<1>2. f \in Injection(R, 1 .. n)
  BY DEF Injection, IsInjective
<1>. QED  BY <1>1, <1>2, FS_Injection

LEMMA RecentBound ==
  ASSUME NEW S, NEW E, NEW t \in Nat, Paced(S, E, t)
  PROVE  Cardinality(RecentOf(E, t)) <= Budget * HealFactor
<1> DEFINE R == RecentOf(E, t)
           f == [i \in R |-> Len(E) - i + 1]
<1>1. Len(S) \in Nat /\ Len(E) \in Nat /\ DOMAIN E = 1 .. Len(E)
  BY PacedTypes
<1>2. \A i \in R : i \in 1 .. Len(E) /\ Len(E) - i < Len(S)
  BY <1>1 DEF RecentOf, Paced, Stamped
<1>3. \A i \in R : Len(E) - i + 1 \in 1 .. Len(S)
  BY <1>1, <1>2
<1> HIDE DEF R
<1>4. f \in [R -> 1 .. Len(S)] /\ \A i, j \in R : f[i] = f[j] => i = j
  BY <1>1, <1>2, <1>3
<1> HIDE DEF f
<1>5. IsFiniteSet(R) /\ Cardinality(R) <= Len(S)
  BY <1>1, <1>4, CountedBelow
<1>6. Cardinality(R) \in Nat /\ Len(S) <= Budget * HealFactor
  BY <1>5, FS_CardinalityType DEF Paced
<1>. QED  BY <1>1, <1>5, <1>6, ConstantsTyped DEF R

LEMMA OrdinaryBound ==
  ASSUME NEW S, NEW E, NEW t \in Nat, Paced(S, E, t)
  PROVE  Cardinality(OrdinaryOf(E, t)) <= Budget
<1> DEFINE R == OrdinaryOf(E, t)
<1>1. /\ Len(E) \in Nat /\ DOMAIN E = 1 .. Len(E) /\ Budget \in Nat /\ Window \in Nat
      /\ \A i \in 1 .. Len(E) : E[i].at \in Nat
  BY PacedTypes, ConstantsTyped
<1>2. \A i \in R : i \in 1 .. Len(E) /\ E[i].at >= t - Window /\ ~E[i].grace
  BY <1>1 DEF OrdinaryOf, RecentOf
<1>. SUFFICES Cardinality(R) <= Budget
  OBVIOUS
<1> HIDE DEF R
<1>3. CASE R = {}
  BY <1>1, <1>3, FS_EmptySet
<1>4. CASE R # {}
  <2> DEFINE T == {Len(E) - i : i \in R}
  <2>1. T \in SUBSET Nat /\ T # {}
    BY <1>1, <1>2, <1>4
  <2>2. PICK k \in T : \A l \in T : k <= l
    <3> HIDE DEF T
    <3>. QED  BY <2>1, LeastNatural
  <2>3. PICK p \in R : k = Len(E) - p
    OBVIOUS
  <2>4. ASSUME NEW i \in R PROVE i <= p
    <3>1. Len(E) - p <= Len(E) - i
      BY <2>2, <2>3
    <3>. QED  BY <1>1, <1>2, <3>1
  <2> HIDE DEF T
  <2>5. ASSUME NEW i \in R PROVE i > p - Budget
    <3>1. SUFFICES ASSUME i <= p - Budget PROVE FALSE
      BY <1>1, <1>2
    <3>2. p - Budget \in 1 .. Len(E) /\ p > Budget /\ p \in 1 .. Len(E) /\ i \in 1 .. Len(E)
      BY <1>1, <1>2, <3>1
    <3>3. E[p - Budget].at < E[p].at - Window
      BY <1>2, <3>2 DEF Paced, Spread
    <3>4. E[i].at <= E[p - Budget].at
      BY <3>1, <3>2 DEF Paced, Ordered
    <3>5. E[p].at <= t /\ E[i].at >= t - Window
      BY <1>2, <3>2 DEF Paced, Ordered
    <3>. QED  BY <1>1, <3>2, <3>3, <3>4, <3>5
  <2> DEFINE f == [i \in R |-> p - i + 1]
  <2>6. \A i \in R : p - i + 1 \in 1 .. Budget
    BY <1>1, <1>2, <2>4, <2>5
  <2>7. f \in [R -> 1 .. Budget] /\ \A i, j \in R : f[i] = f[j] => i = j
    BY <1>1, <1>2, <2>6
  <2> HIDE DEF f
  <2>8. IsFiniteSet(R) /\ Cardinality(R) <= Budget
    BY <1>1, <2>7, CountedBelow
  <2>. QED  BY <2>8
<1>. QED  BY <1>3, <1>4

-----------------------------------------------------------------------------
(* The steps of the gate *)

EveryoneTracked == Cardinality(Authors) <= MaxTracked

FloodInv ==
  /\ now \in Nat /\ healUntil \in Nat
  /\ DOMAIN stamps = Authors /\ DOMAIN entered = Authors \cup {Me}
  /\ \A a \in Authors : Paced(stamps[a], entered[a], now)

LEMMA EmptyPaced == Paced(<<>>, <<>>, 0)
<1>1. <<>> \in Seq(Nat) /\ <<>> \in Seq(Entries) /\ Len(<<>>) = 0
  BY EmptySeq
<1>. QED  BY <1>1, ConstantsTyped DEF Paced, Ordered, Stamped, Spread

LEMMA FloodInit == AdmissionInit => FloodInv
  BY EmptyPaced DEF AdmissionInit, FloodInv

\* With room for every author, an admission forgets nobody.
LEMMA NobodyForgotten ==
  ASSUME EveryoneTracked, NEW a \in Authors
  PROVE  AfterAdmission(a) = {[stamps EXCEPT ![a] = Append(InWindow(a), now)]}
<1> DEFINE counted == [stamps EXCEPT ![a] = Append(InWindow(a), now)]
           tracked == {b \in Authors : counted[b] # <<>>}
<1>1. IsFiniteSet(Authors) /\ MaxTracked \in Nat
  BY AdmissionAssumption
<1>2. IsFiniteSet(tracked) /\ Cardinality(tracked) <= Cardinality(Authors)
  BY <1>1, FS_Subset
<1>3. Cardinality(tracked) \in Nat /\ Cardinality(Authors) \in Nat
  BY <1>1, <1>2, FS_CardinalityType
<1>4. ~ (Cardinality(tracked) > MaxTracked)
  BY <1>1, <1>2, <1>3 DEF EveryoneTracked
<1>. QED  BY <1>4 DEF AfterAdmission

\* The history keeps a suffix of itself.
LEMMA RecentIsSuffix ==
  ASSUME FloodInv, NEW a \in Authors
  PROVE  \E k \in 0 .. Len(entered[a]) :
           RecentEntries(a) = SubSeq(entered[a], k + 1, Len(entered[a]))
<1> DEFINE E == entered[a]
           times == [i \in 1 .. Len(E) |-> E[i].at]
           h == now - Window
<1>1. Len(E) \in Nat /\ (\A i \in 1 .. Len(E) : E[i].at \in Nat) /\ h \in Int
  BY PacedTypes, ConstantsTyped DEF FloodInv
<1>2. times \in Seq(Nat) /\ Len(times) = Len(E) /\ \A i \in 1 .. Len(E) : times[i] \in Nat
  BY <1>1, IsASeq, LenProperties
<1>3. RecentEntries(a) = SubSeq(E, Stale(times, h) + 1, Len(E))
  BY DEF RecentEntries
<1> HIDE DEF times
<1>4. Stale(times, h) \in 0 .. Len(E)
  BY <1>1, <1>2, StaleProperties
<1>. QED  BY <1>3, <1>4

\* An author's event is admitted, and may enter the gossip.
LEMMA ReceivePaced ==
  ASSUME FloodInv, EveryoneTracked, NEW e \in Events, Admits(e),
         Gossips(e) \/ UNCHANGED entered, UNCHANGED now, healUntil' \in Nat
  PROVE  FloodInv'
<1> DEFINE a == e.author
           P == InWindow(a)
<1>1. a \in Authors \cup {Me} /\ Me \notin Authors
  BY AdmissionAssumption
<1>2. now' \in Nat /\ healUntil' \in Nat
  BY DEF FloodInv
<1>3. CASE UNCHANGED <<stamps, entered>>
  BY <1>2, <1>3 DEF FloodInv
<1>4. CASE a = Me
  BY <1>1, <1>2, <1>4 DEF Admits, Uncounted, Gossips, FloodInv
<1>5. CASE a # Me /\ e \in known
  BY <1>1, <1>3, <1>5 DEF Admits, Uncounted, Gossips, Insert
<1>6. CASE a # Me /\ e \notin known
  <2>1. a \in Authors
    BY <1>1, <1>6
  <2>2. stamps' = [stamps EXCEPT ![a] = Append(P, now)] /\ Len(P) < CurrentBudget
    BY <1>6, <2>1, NobodyForgotten DEF Admits, Uncounted, WithinBudget
  <2>3. Paced(P, entered[a], now)
    BY <2>1, PurgePaced DEF InWindow, FloodInv
  <2>4. now \in Nat /\ Len(P) \in Nat /\ Len(P) < Budget * HealFactor
    <3>1. now \in Nat
      BY DEF FloodInv
    <3> HIDE DEF P
    <3>2. Len(P) \in Nat
      BY <2>3, <3>1, PacedTypes
    <3>3. CurrentBudget \in Nat /\ CurrentBudget <= Budget * HealFactor
      BY ConstantsTyped DEF CurrentBudget
    <3>. QED  BY <2>2, <3>1, <3>2, <3>3, ConstantsTyped
  <2>5. HealGraceActive \in BOOLEAN /\ (~HealGraceActive => Len(P) < Budget)
    BY <2>2 DEF HealGraceActive, CurrentBudget
  <2> DEFINE R == RecentEntries(a)
             x == [at |-> now, grace |-> HealGraceActive]
  <2>6. Paced(Append(P, now), entered[a], now)
    BY <2>3, <2>4, AdmitPaced
  <2>7. Paced(Append(P, now), Append(R, x), now)
    <3>1. Paced(P, R, now)
      BY <2>1, <2>3, <2>4, RecentIsSuffix, ForgetPaced
    <3> HIDE DEF P, R
    <3>. QED  BY <2>4, <2>5, <3>1, EnterPaced
  <2>8. entered' = entered \/ entered' = [entered EXCEPT ![a] = Append(R, x)]
    BY <1>6 DEF Gossips
  <2> HIDE DEF P, R, x, a
  <2>9. DOMAIN stamps' = Authors /\ DOMAIN entered' = Authors \cup {Me} /\ now' = now
    BY <2>2, <2>8 DEF FloodInv
  <2>10. \A b \in Authors : Paced(stamps'[b], entered'[b], now)
    BY <2>1, <2>2, <2>6, <2>7, <2>8 DEF FloodInv
  <2>. QED  BY <1>2, <2>9, <2>10 DEF FloodInv
<1>. QED  BY <1>1, <1>4, <1>5, <1>6

LEMMA GraceType ==
  ASSUME FloodInv, NEW e \in Events, NotesTraffic(e)
  PROVE  healUntil' \in Nat
  BY ConstantsTyped DEF NotesTraffic, FloodInv

LEMMA OverBudgetPaced ==
  ASSUME FloodInv, NEW e \in Events, ReceiveOverBudget(e)
  PROVE  FloodInv'
<1> DEFINE a == e.author
<1>1. a \in Authors
  BY AdmissionAssumption DEF ReceiveOverBudget, Uncounted
<1>2. stamps' = [stamps EXCEPT ![a] = InWindow(a)] /\ UNCHANGED <<now, healUntil, entered>>
  BY DEF ReceiveOverBudget
<1>3. Paced(InWindow(a), entered[a], now)
  BY <1>1, PurgePaced DEF InWindow, FloodInv
<1>. QED  BY <1>1, <1>2, <1>3 DEF FloodInv

LEMMA OwnReportPaced ==
  ASSUME FloodInv, NEW e \in Events, ReportAbuse(e)
  PROVE  FloodInv'
<1>1. e.author = Me /\ Me \notin Authors /\ UNCHANGED <<now, stamps, healUntil>>
  BY AdmissionAssumption DEF ReportAbuse
<1>2. DOMAIN entered' = Authors \cup {Me} /\ \A b \in Authors : entered'[b] = entered[b]
  BY <1>1 DEF ReportAbuse, Gossips, FloodInv
<1>. QED  BY <1>1, <1>2 DEF FloodInv

LEMMA TickPaced ==
  ASSUME FloodInv, Tick
  PROVE  FloodInv'
<1>1. now' = now + 1 /\ UNCHANGED <<stamps, entered, healUntil>>
  BY DEF Tick, guardVars
<1>2. \A b \in Authors : Paced(stamps[b], entered[b], now + 1)
  BY LaterPaced DEF FloodInv
<1>. QED  BY <1>1, <1>2 DEF FloodInv

LEMMA FloodNext == EveryoneTracked /\ FloodInv /\ [AdmissionNext]_admissionVars => FloodInv'
<1>. SUFFICES ASSUME EveryoneTracked, FloodInv, [AdmissionNext]_admissionVars PROVE FloodInv'
  OBVIOUS
<1>1. ASSUME NEW e \in Events, ReceiveContent(e) PROVE FloodInv'
  <2>1. Admits(e) /\ NotesTraffic(e) /\ (Gossips(e) \/ UNCHANGED entered) /\ UNCHANGED now
    BY <1>1 DEF ReceiveContent, Relays
  <2>. QED  BY <2>1, GraceType, ReceivePaced
<1>2. ASSUME NEW e \in Events, ReceiveReport(e) PROVE FloodInv'
  <2>1. Admits(e) /\ NotesTraffic(e) /\ (Gossips(e) \/ UNCHANGED entered) /\ UNCHANGED now
    BY <1>2 DEF ReceiveReport
  <2>. QED  BY <2>1, GraceType, ReceivePaced
<1>3. CASE UNCHANGED admissionVars
  BY <1>3 DEF admissionVars, guardVars, FloodInv
<1>. QED
  BY <1>1, <1>2, <1>3, OverBudgetPaced, OwnReportPaced, TickPaced DEF AdmissionNext, Receive

\* However events are replayed, forgotten and received again, an author puts no more
\* events in the gossip per window than its budget outside the grace, and than the
\* extended budget in all (admit_with_budget), while the guard has room for everyone.
THEOREM AuthorsStayInBudget == AdmissionSpec => []FloodBounded
<1>1. CASE EveryoneTracked
  <2>1. FloodInv => FloodBounded
    <3>1. SUFFICES ASSUME FloodInv, NEW a \in Authors
                   PROVE  /\ Cardinality(RecentOrdinary(a)) <= Budget
                          /\ Cardinality(Recent(a)) <= Budget * HealFactor
      BY DEF FloodBounded
    <3>2. Recent(a) = RecentOf(entered[a], now) /\ RecentOrdinary(a) = OrdinaryOf(entered[a], now)
      BY DEF Recent, RecentOrdinary, RecentOf, OrdinaryOf
    <3>. QED  BY <3>1, <3>2, RecentBound, OrdinaryBound DEF FloodInv
  <2>2. FloodInv /\ [AdmissionNext]_admissionVars => FloodInv'
    BY <1>1, FloodNext
  <2>. QED  BY <2>1, <2>2, FloodInit, PTL DEF AdmissionSpec
<1>2. CASE ~EveryoneTracked
  <2>1. FloodBounded
    BY <1>2 DEF FloodBounded, EveryoneTracked
  <2>. QED  BY <2>1, PTL
<1>. QED  BY <1>1, <1>2

-----------------------------------------------------------------------------
(* Reports *)

Keys == {ReportKey(e) : e \in Reported}
AllFit == Cardinality(Keys) <= MaxReports

KeysWeighed == DOMAIN weighed = Keys

\* While every key fits in memory, the keys remembered are those weighed, once each.
ReportsInv ==
  /\ weighed \in [Keys -> Nat] /\ reports \in Seq(Keys)
  /\ \A i, j \in DOMAIN reports : reports[i] = reports[j] => i = j
  /\ \A k \in Keys : weighed[k] = IF k \in Range(reports) THEN 1 ELSE 0

LEMMA KeysFinite == IsFiniteSet(Keys)
<1> DEFINE f == [e \in Reported |-> ReportKey(e)]
<1>1. IsFiniteSet(Reported)
  BY AdmissionAssumption, FS_Subset DEF Reported
<1>2. f \in Surjection(Reported, Keys)
  BY DEF Surjection, Keys
<1>. QED  BY <1>1, <1>2, FS_Surjection

\* A key not remembered yet leaves room for itself.
LEMMA RoomForNewKey ==
  ASSUME ReportsInv, NEW k \in Keys, k \notin Range(reports), AllFit
  PROVE  Remembered(k) = Append(reports, k)
<1>1. Len(reports) \in Nat /\ DOMAIN reports = 1 .. Len(reports)
      /\ \A i \in 1 .. Len(reports) : reports[i] \in Keys \ {k}
  BY ElementOfSeq DEF ReportsInv, Range
<1>2. IsFiniteSet(Keys \ {k}) /\ Cardinality(Keys \ {k}) = Cardinality(Keys) - 1
  BY KeysFinite, FS_RemoveElement
<1> DEFINE f == [i \in 1 .. Len(reports) |-> reports[i]]
<1>3. f \in Injection(1 .. Len(reports), Keys \ {k})
  BY <1>1 DEF ReportsInv, Injection, IsInjective
<1> HIDE DEF f
<1>4. Cardinality(1 .. Len(reports)) <= Cardinality(Keys \ {k})
  BY <1>2, <1>3, FS_Injection
<1>5. Cardinality(1 .. Len(reports)) = Len(reports) /\ Cardinality(Keys) \in Nat
  <2>1. 1 \in Int /\ Len(reports) \in Int
    BY <1>1
  <2>2. Cardinality(1 .. Len(reports)) = Len(reports)
    BY <1>1, <2>1, FS_Interval
  <2>. QED  BY <2>2, KeysFinite, FS_CardinalityType
<1>6. MaxReports \in Nat
  BY AdmissionAssumption
<1>7. Len(reports) <= Cardinality(Keys) - 1
  BY <1>2, <1>4, <1>5
<1>8. ~ (Len(reports) >= MaxReports)
  BY <1>1, <1>5, <1>6, <1>7 DEF AllFit
<1>. QED  BY <1>8 DEF Remembered

LEMMA ReportStep ==
  ASSUME ReportsInv, AllFit, NEW e \in Events, ReceiveReport(e)
  PROVE  ReportsInv'
<1> DEFINE k == ReportKey(e)
<1>1. k \in Keys
  BY DEF Keys, Reported, ReceiveReport
<1>2. CASE ~ReportAccepted(e)
  BY <1>2 DEF ReceiveReport, ReportsInv
<1>3. CASE ReportAccepted(e)
  <2>1. k \notin Range(reports) /\ weighed' = [weighed EXCEPT ![k] = @ + 1]
    BY <1>3 DEF ReportAccepted, ReportNew, ReceiveReport
  <2>2. reports' = Append(reports, k)
    BY <1>1, <1>3, <2>1, RoomForNewKey DEF ReceiveReport
  <2> HIDE DEF k
  <2>3. Len(reports) \in Nat /\ DOMAIN reports = 1 .. Len(reports)
    BY DEF ReportsInv
  <2>4. /\ reports' \in Seq(Keys) /\ Len(reports') = Len(reports) + 1
        /\ DOMAIN reports' = 1 .. Len(reports) + 1 /\ reports'[Len(reports) + 1] = k
        /\ \A i \in 1 .. Len(reports) : reports'[i] = reports[i]
    BY <1>1, <2>2, <2>3, AppendProperties DEF ReportsInv
  <2>5. Range(reports') = Range(reports) \cup {k}
    BY <2>3, <2>4 DEF Range
  <2>6. ASSUME NEW i \in DOMAIN reports', NEW j \in DOMAIN reports', reports'[i] = reports'[j]
        PROVE  i = j
    <3>1. \A l \in 1 .. Len(reports) : reports'[l] # k
      BY <2>1, <2>3, <2>4 DEF Range
    <3>2. CASE i \in 1 .. Len(reports) /\ j \in 1 .. Len(reports)
      BY <2>3, <2>4, <2>6, <3>2 DEF ReportsInv
    <3>3. CASE ~ (i \in 1 .. Len(reports)) \/ ~ (j \in 1 .. Len(reports))
      BY <2>3, <2>4, <2>6, <3>1, <3>3
    <3>. QED  BY <3>2, <3>3
  <2>7. weighed' \in [Keys -> Nat]
    BY <1>1, <2>1 DEF ReportsInv
  <2>8. \A l \in Keys : weighed'[l] = IF l \in Range(reports') THEN 1 ELSE 0
    BY <1>1, <2>1, <2>5 DEF ReportsInv
  <2>. QED  BY <2>4, <2>6, <2>7, <2>8 DEF ReportsInv
<1>. QED  BY <1>2, <1>3

LEMMA ReportsNext ==
  AllFit /\ ReportsInv /\ [AdmissionNext]_admissionVars => ReportsInv'
<1>. SUFFICES ASSUME AllFit, ReportsInv, [AdmissionNext]_admissionVars
              PROVE  ReportsInv'
  OBVIOUS
<1>1. CASE UNCHANGED <<reports, weighed>>
  BY <1>1 DEF ReportsInv
<1>2. Tick \/ UNCHANGED admissionVars => UNCHANGED <<reports, weighed>>
  BY DEF Tick, ledgerVars, admissionVars
<1>3. ASSUME NEW e \in Events, ReceiveOverBudget(e) \/ ReceiveContent(e) \/ ReportAbuse(e)
      PROVE  UNCHANGED <<reports, weighed>>
  BY <1>3 DEF ReceiveOverBudget, ReceiveContent, ReportAbuse
<1>. QED  BY <1>1, <1>2, <1>3, ReportStep DEF AdmissionNext, Receive

\* A report weighs once however often it is relayed, forgotten by the gossip and received
\* again (apply_remote_abuse_report), as long as the keys of all reports fit in memory.
THEOREM ReportsWeighOnce == AdmissionSpec => []ReportWeighsOnce
<1>1. AdmissionInit => weighed \in [Keys -> Nat] /\ ReportsInv
  <2>1. <<>> \in Seq(Keys) /\ Range(<<>>) = {}
    BY DEF Range
  <2>. QED  BY <2>1 DEF AdmissionInit, ReportsInv, Keys
<1>2. KeysWeighed /\ [AdmissionNext]_admissionVars => KeysWeighed'
  BY DEF KeysWeighed, AdmissionNext, Tick, Receive, ReceiveOverBudget, ReceiveContent, ReceiveReport,
         ReportAbuse, admissionVars, ledgerVars
<1>3. CASE AllFit
  <2>1. ReportsInv => ReportWeighsOnce
    BY DEF ReportsInv, ReportWeighsOnce
  <2>2. ReportsInv /\ [AdmissionNext]_admissionVars => ReportsInv'
    BY <1>3, ReportsNext
  <2>. QED  BY <1>1, <2>1, <2>2, PTL DEF AdmissionSpec
<1>4. CASE ~AllFit
  <2>1. KeysWeighed => ReportWeighsOnce
    BY <1>4 DEF ReportWeighsOnce, AllFit, KeysWeighed
  <2>2. AdmissionInit => KeysWeighed
    BY <1>1 DEF KeysWeighed
  <2>. QED  BY <1>2, <2>1, <2>2, PTL DEF AdmissionSpec
<1>. QED  BY <1>3, <1>4

-----------------------------------------------------------------------------
(* The gossip behind the gate *)

\* What a node receives enters its gossip by insert_new alone: admission implements
\* Gossip, whose theorems hold of it.
THEOREM AdmissionImplementsGossip == AdmissionSpec => GossipSpec
<1>1. AdmissionInit => GossipInit
  BY DEF AdmissionInit
<1>2. [AdmissionNext]_admissionVars => [GossipNext]_gossipVars
  <2>1. ASSUME NEW e \in Events, Gossips(e) PROVE [GossipNext]_gossipVars
    BY <2>1 DEF Gossips, GossipNext
  <2>. QED
    BY <2>1 DEF AdmissionNext, Tick, Receive, ReceiveOverBudget, ReceiveContent, Relays,
                ReceiveReport, ReportAbuse, admissionVars
<1>. QED  BY <1>1, <1>2, PTL DEF AdmissionSpec, GossipSpec

\* So the gossip keeps its caps, and its outbox stays known, whatever peers send.
THEOREM CapsBehindGate == AdmissionSpec => [](TypeOK /\ OutboxKnown)
  BY AdmissionImplementsGossip, TypeCorrect, OutboxAlwaysKnown, PTL
=============================================================================
