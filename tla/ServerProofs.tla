---------------------------- MODULE ServerProofs ----------------------------
(***************************************************************************)
(* What Server promises, for every number of clients and of slots: the     *)
(* count that several threads keep implements the pool of slots SlotPool,  *)
(* the answer of the health server depends on what it was sent and not on  *)
(* the pieces in which it came, and the frames of a client are received    *)
(* whole and in order however its stream is read.                          *)
(***************************************************************************)
EXTENDS Server, FiniteSetTheorems, SequenceTheorems, NaturalsInduction, TLAPS

\* The two state variables of the pool, as PoolSpec maps them.
Held == Holding \cup IF loop = "spawning" THEN {current} ELSE {}
TurnedAway == {c \in Clients : conn[c] = "refused"} \cup IF loop = "refusing" THEN {current} ELSE {}

ConnStates ==
  {"away", "backlog", "accepted", "serving", "polling", "leaving", "refused", "closed"}

\* The count says how many slots are held, plus one while the accepting thread has
\* taken a slot it is about to put back.
PoolInv ==
  /\ loop \in {"top", "accepting", "spawning", "refusing", "ended"}
  /\ conn \in [Clients -> ConnStates]
  /\ loop \in {"spawning", "refusing"} => current \in Clients /\ conn[current] = "accepted"
  /\ active = Cardinality(Held) + IF loop = "refusing" THEN 1 ELSE 0
  /\ Cardinality(Held) <= Slots

\* The instance has its own copy of the definition of Cardinality.
LEMMA SameCardinality ==
  ASSUME NEW S PROVE Pool!Cardinality(S) = Cardinality(S)
BY Zenon DEF Pool!Cardinality, Cardinality

LEMMA HeldFinite ==
  ASSUME PoolInv
  PROVE  Held \subseteq Clients /\ IsFiniteSet(Held) /\ Cardinality(Held) \in Nat
<1>1. Held \subseteq Clients
  BY DEF PoolInv, Held, Holding
<1>. QED  BY <1>1, FS_Subset, FS_CardinalityType, ServerAssumption

LEMMA PoolStart == Init => PoolInv /\ Pool!Init
<1> SUFFICES ASSUME Init PROVE PoolInv /\ Pool!Init
  OBVIOUS
<1>1. Held = {} /\ TurnedAway = {}
  BY DEF Init, Held, TurnedAway, Holding
<1>2. Cardinality(Held) = 0
  BY <1>1, FS_EmptySet
<1>3. PoolInv
  BY <1>2, ServerAssumption DEF Init, PoolInv, ConnStates
<1>. QED  BY <1>1, <1>3 DEF Pool!Init, Held, TurnedAway

-----------------------------------------------------------------------------
(* The steps of the pool *)

\* A step that neither the count nor the pool sees.
PoolStutters == Held' = Held /\ TurnedAway' = TurnedAway

LEMMA InvStutters ==
  ASSUME PoolInv, PoolStutters,
         loop' \in {"top", "accepting", "spawning", "refusing", "ended"},
         conn' \in [Clients -> ConnStates],
         loop' \in {"spawning", "refusing"} => current' \in Clients /\ conn'[current'] = "accepted",
         active' - (IF loop' = "refusing" THEN 1 ELSE 0)
           = active - (IF loop = "refusing" THEN 1 ELSE 0),
         active' \in Int
  PROVE  PoolInv'
<1>1. Cardinality(Held) \in Nat
  BY HeldFinite
<1>2. Cardinality(Held)' = Cardinality(Held)
  BY DEF PoolStutters
<1>3. active' = Cardinality(Held)' + IF loop' = "refusing" THEN 1 ELSE 0
  BY <1>1, <1>2 DEF PoolInv
<1>. QED  BY <1>2, <1>3 DEF PoolInv

\* Accept takes a slot, or turns the client away when none is left.
LEMMA AcceptStep ==
  ASSUME PoolInv, NEW c \in Clients, Accept(c)
  PROVE  PoolInv' /\ Pool!Next
<1>1. /\ loop = "accepting" /\ conn[c] = "backlog" /\ active = Cardinality(Held)
      /\ active' = active + 1 /\ current' = c
      /\ loop' = IF active >= Slots THEN "refusing" ELSE "spawning"
      /\ conn' = [conn EXCEPT ![c] = "accepted"]
      /\ conn \in [Clients -> ConnStates]
  <2>1. loop = "accepting" /\ active = Cardinality(Held) + 0
    BY DEF Accept, PoolInv
  <2>2. Cardinality(Held) \in Nat
    BY HeldFinite
  <2>. QED  BY <2>1, <2>2 DEF Accept, PoolInv
<1>2. conn' \in [Clients -> ConnStates] /\ conn'[c] = "accepted"
      /\ \A d \in Clients \ {c} : conn'[d] = conn[d]
  BY <1>1 DEF ConnStates
<1>3. Holding' = Holding /\ Held = Holding /\ c \notin Held
  BY <1>1, <1>2 DEF Holding, Held
<1>4. c \notin TurnedAway /\ TurnedAway = {d \in Clients : conn[d] = "refused"}
      /\ {d \in Clients : conn'[d] = "refused"} = {d \in Clients : conn[d] = "refused"}
  BY <1>1, <1>2 DEF TurnedAway
<1>5. /\ IsFiniteSet(Held) /\ Cardinality(Held) \in Nat /\ Cardinality(Held) <= Slots
      /\ Slots \in Nat
  BY HeldFinite, ServerAssumption DEF PoolInv
<1>6. CASE active >= Slots
  <2>1. Held' = Held /\ TurnedAway' = TurnedAway \cup {c} /\ Cardinality(Held) = Slots
    BY <1>1, <1>3, <1>4, <1>5, <1>6 DEF Held, TurnedAway
  <2>2. PoolInv'
    BY <2>1, <1>1, <1>2, <1>5, <1>6 DEF PoolInv
  <2>3. Pool!TurnAway(c)
    BY <2>1, <1>3, <1>4, SameCardinality DEF Pool!TurnAway, Held, TurnedAway
  <2>. QED  BY <2>2, <2>3 DEF Pool!Next
<1>7. CASE ~(active >= Slots)
  <2>1. Held' = Held \cup {c} /\ TurnedAway' = TurnedAway /\ Cardinality(Held) < Slots
    BY <1>1, <1>3, <1>4, <1>5, <1>7 DEF Held, TurnedAway
  <2>2. Cardinality(Held') = Cardinality(Held) + 1
    BY <2>1, <1>3, <1>5, FS_AddElement
  <2>3. PoolInv'
    BY <2>1, <2>2, <1>1, <1>2, <1>5, <1>7 DEF PoolInv
  <2>4. Pool!Take(c)
    BY <2>1, <1>3, <1>4, SameCardinality DEF Pool!Take, Held, TurnedAway
  <2>. QED  BY <2>3, <2>4 DEF Pool!Next
<1>. QED  BY <1>6, <1>7

\* A slot is given back by a thread that ends or that could not start.
LEMMA GiveBackStep ==
  ASSUME PoolInv, NEW c \in Clients, c \in Held, Held' = Held \ {c}, TurnedAway' = TurnedAway,
         active' = active - 1,
         loop' \in {"top", "accepting", "spawning", "refusing", "ended"},
         loop' = "refusing" <=> loop = "refusing",
         conn' \in [Clients -> ConnStates],
         loop' \in {"spawning", "refusing"} => current' \in Clients /\ conn'[current'] = "accepted"
  PROVE  PoolInv' /\ Pool!Next
<1>1. IsFiniteSet(Held) /\ Cardinality(Held) \in Nat /\ Slots \in Nat
  BY HeldFinite, ServerAssumption
<1>2. Cardinality(Held') = Cardinality(Held) - 1
  BY <1>1, FS_RemoveElement
<1>3. PoolInv'
  BY <1>1, <1>2 DEF PoolInv
<1>4. Pool!GiveBack(c)
  BY DEF Pool!GiveBack, Held, TurnedAway
<1>. QED  BY <1>3, <1>4 DEF Pool!Next

\* What a step of the server is to the pool.
PoolStep == PoolInv' /\ (Pool!Next \/ PoolStutters)

LEMMA StutterStep ==
  ASSUME PoolInv, PoolStutters, UNCHANGED active,
         loop' \in {"top", "accepting", "spawning", "ended"}, loop # "refusing",
         conn' \in [Clients -> ConnStates],
         loop' = "spawning" => current' \in Clients /\ conn'[current'] = "accepted"
  PROVE  PoolStep
<1>1. active \in Int
  BY HeldFinite DEF PoolInv
<1>. QED  BY <1>1, InvStutters DEF PoolStep

\* The listener closes when the loop ends: nothing that holds a slot is touched.
LEMMA EndLoopStep ==
  ASSUME PoolInv, EndLoop, UNCHANGED active, loop \in {"top", "accepting"}
  PROVE  PoolStep
<1>1. conn' = [c \in Clients |-> IF conn[c] = "backlog" THEN "closed" ELSE conn[c]] /\ loop' = "ended"
  BY DEF EndLoop
<1>2. conn \in [Clients -> ConnStates]
  BY DEF PoolInv
<1>3. conn' \in [Clients -> ConnStates]
  BY <1>1, <1>2 DEF ConnStates
<1>4. PoolStutters
  BY <1>1, <1>2 DEF PoolStutters, Held, TurnedAway, Holding
<1>. QED  BY <1>1, <1>3, <1>4, StutterStep

LEMMA RefuseStep == ASSUME PoolInv, Refuse PROVE PoolStep
<1>1. /\ loop = "refusing" /\ loop' = "top" /\ active' = active - 1
      /\ conn' = [conn EXCEPT ![current] = "refused"]
      /\ current \in Clients /\ conn[current] = "accepted" /\ conn \in [Clients -> ConnStates]
  BY DEF Refuse, PoolInv
<1>2. conn' \in [Clients -> ConnStates] /\ conn'[current] = "refused"
      /\ \A d \in Clients \ {current} : conn'[d] = conn[d]
  BY <1>1 DEF ConnStates
<1>3. PoolStutters
  BY <1>1, <1>2 DEF PoolStutters, Held, TurnedAway, Holding
<1>4. active \in Int
  BY HeldFinite DEF PoolInv
<1>. QED  BY <1>1, <1>2, <1>3, <1>4, InvStutters DEF PoolStep

LEMMA SpawnStep == ASSUME PoolInv, Spawn PROVE PoolStep
<1>1. /\ loop = "spawning" /\ loop' = "top" /\ active' = active
      /\ conn' = [conn EXCEPT ![current] = "serving"]
      /\ current \in Clients /\ conn[current] = "accepted" /\ conn \in [Clients -> ConnStates]
  BY DEF Spawn, PoolInv
<1>2. conn' \in [Clients -> ConnStates] /\ conn'[current] = "serving"
      /\ \A d \in Clients \ {current} : conn'[d] = conn[d]
  BY <1>1 DEF ConnStates
<1>3. Held' = Held /\ TurnedAway' = TurnedAway
  BY <1>1, <1>2 DEF Held, TurnedAway, Holding
<1>. QED  BY <1>1, <1>2, <1>3, StutterStep DEF PoolStutters

LEMMA SpawnFailsStep == ASSUME PoolInv, SpawnFails PROVE PoolStep
<1>1. /\ loop = "spawning" /\ loop' = "top" /\ active' = active - 1
      /\ conn' = [conn EXCEPT ![current] = "closed"]
      /\ current \in Clients /\ conn[current] = "accepted" /\ conn \in [Clients -> ConnStates]
  BY DEF SpawnFails, SpawnFailsWith, PoolInv
<1>2. conn' \in [Clients -> ConnStates] /\ conn'[current] = "closed"
      /\ \A d \in Clients \ {current} : conn'[d] = conn[d]
  BY <1>1 DEF ConnStates
<1>3. current \in Held /\ Held' = Held \ {current} /\ TurnedAway' = TurnedAway
  BY <1>1, <1>2 DEF Held, TurnedAway, Holding
<1>. QED  BY <1>1, <1>2, <1>3, GiveBackStep DEF PoolStep

LEMMA LeaveStep == ASSUME PoolInv, NEW c \in Clients, Leave(c) PROVE PoolStep
<1>1. /\ conn[c] = "leaving" /\ active' = active - 1 /\ loop' = loop /\ current' = current
      /\ conn' = [conn EXCEPT ![c] = "closed"] /\ conn \in [Clients -> ConnStates]
  BY DEF Leave, Goto, PoolInv
<1>2. conn' \in [Clients -> ConnStates] /\ conn'[c] = "closed"
      /\ \A d \in Clients \ {c} : conn'[d] = conn[d]
  BY <1>1 DEF ConnStates
<1>3. loop \in {"spawning", "refusing"} => current \in Clients \ {c} /\ conn[current] = "accepted"
  BY <1>1 DEF PoolInv
<1>4. c \in Held /\ Held' = Held \ {c} /\ TurnedAway' = TurnedAway
  BY <1>1, <1>2, <1>3 DEF Held, TurnedAway, Holding
<1>5. loop' \in {"spawning", "refusing"} => current' \in Clients /\ conn'[current'] = "accepted"
  BY <1>1, <1>2, <1>3
<1>. QED  BY <1>1, <1>2, <1>4, <1>5, GiveBackStep DEF PoolStep, PoolInv

\* A connection that changes its state without taking or giving back a slot.
LEMMA MoveStep ==
  ASSUME PoolInv, NEW c \in Clients, NEW from, NEW to,
         conn[c] = from, conn' = [conn EXCEPT ![c] = to],
         \/ from \in {"serving", "polling"} /\ to \in {"serving", "polling", "leaving"}
         \/ from = "away" /\ to = "backlog",
         UNCHANGED <<active, loop, current>>
  PROVE  PoolStep
<1>1. conn \in [Clients -> ConnStates]
  BY DEF PoolInv
<1>2. conn' \in [Clients -> ConnStates] /\ conn'[c] = to
      /\ \A d \in Clients \ {c} : conn'[d] = conn[d]
  BY <1>1 DEF ConnStates
<1>3. loop \in {"spawning", "refusing"} => current \in Clients \ {c} /\ conn[current] = "accepted"
  BY DEF PoolInv
<1>4. PoolStutters
  BY <1>1, <1>2, <1>3 DEF PoolStutters, Held, TurnedAway, Holding
<1>5. active \in Int
  BY HeldFinite DEF PoolInv
<1>6. loop' \in {"spawning", "refusing"} => current' \in Clients /\ conn'[current'] = "accepted"
  BY <1>2, <1>3
<1>. QED  BY <1>2, <1>4, <1>5, <1>6, InvStutters DEF PoolStep, PoolInv

-----------------------------------------------------------------------------
(* Every step *)

LEMMA AcceptingStep == ASSUME PoolInv, Accepting PROVE PoolStep
<1>1. CASE CheckStop
  <2>1. loop = "top" /\ UNCHANGED <<current, errors, active>>
    BY <1>1 DEF CheckStop
  <2>2. CASE EndLoop
    BY <2>1, <2>2, EndLoopStep
  <2>3. CASE loop' = "accepting" /\ UNCHANGED conn
    BY <2>1, <2>3, StutterStep DEF PoolInv, PoolStutters, Held, TurnedAway, Holding
  <2>. QED  BY <1>1, <2>2, <2>3 DEF CheckStop
<1>2. CASE NothingToAccept
  BY <1>2, StutterStep DEF NothingToAccept, PoolInv, PoolStutters, Held, TurnedAway, Holding
<1>3. CASE AcceptError
  <2>1. loop = "accepting" /\ UNCHANGED <<current, active>>
    BY <1>3 DEF AcceptError
  <2>2. CASE EndLoop
    BY <2>1, <2>2, EndLoopStep
  <2>3. CASE loop' = "top" /\ UNCHANGED conn
    BY <2>1, <2>3, StutterStep DEF PoolInv, PoolStutters, Held, TurnedAway, Holding
  <2>. QED  BY <1>3, <2>2, <2>3 DEF AcceptError
<1>4. ASSUME NEW c \in Clients, Accept(c) PROVE PoolStep
  BY <1>4, AcceptStep DEF PoolStep
<1>. QED
  BY <1>1, <1>2, <1>3, <1>4, RefuseStep, SpawnStep, SpawnFailsStep DEF Accepting

LEMMA ServingStep == ASSUME PoolInv, NEW c \in Clients, Serving(c) PROVE PoolStep
<1>1. CASE Leave(c)
  BY <1>1, LeaveStep
<1>2. CASE StartPoll(c)
  BY <1>2, MoveStep DEF StartPoll, ServeUnchanged, Goto
<1>3. CASE ReadHeader(c)
  BY <1>3, MoveStep DEF ReadHeader, ServeUnchanged, Goto
<1>4. CASE ReadBody(c)
  BY <1>4, MoveStep DEF ReadBody, ServeUnchanged, Goto
<1>5. CASE PollTimesOut(c)
  BY <1>5, MoveStep DEF PollTimesOut, PollTimesOutTo, ServeUnchanged, Goto
<1>6. CASE PollEnds(c)
  BY <1>6, MoveStep DEF PollEnds, ServeUnchanged, Goto
<1>7. CASE ReadRequest(c)
  BY <1>7, MoveStep DEF ReadRequest, ServeUnchanged, Goto
<1>8. CASE RequestDead(c)
  BY <1>8, MoveStep DEF RequestDead, ServeUnchanged, Goto
<1>. QED
  BY <1>1, <1>2, <1>3, <1>4, <1>5, <1>6, <1>7, <1>8 DEF Serving

LEMMA ServerStep == PoolInv /\ [Next]_vars => PoolStep
<1> SUFFICES ASSUME PoolInv, [Next]_vars PROVE PoolStep
  OBVIOUS
<1>1. ASSUME UNCHANGED <<acceptVars, conn>> PROVE PoolStep
  <2>1. active \in Int
    BY HeldFinite DEF PoolInv
  <2>. QED
    BY <1>1, <2>1, InvStutters
    DEF acceptVars, PoolInv, PoolStep, PoolStutters, Held, TurnedAway, Holding
<1>2. ASSUME NEW c \in Clients, Connect(c) PROVE PoolStep
  BY <1>2, MoveStep DEF Connect, Goto, ClientUnchanged, acceptVars
<1>3. ASSUME NEW c \in Clients, Send(c) \/ ClientEnds(c) PROVE PoolStep
  BY <1>1, <1>3 DEF Send, ClientEnds, ClientUnchanged
<1>4. CASE Stop \/ UNCHANGED vars
  BY <1>1, <1>4 DEF Stop, vars
<1>. QED  BY <1>2, <1>3, <1>4, AcceptingStep, ServingStep DEF Next

\* The count kept by fetch_add and fetch_sub of the accepting thread and of every
\* serving thread implements SlotPool: never more than the bound is served, a client
\* is refused only while every slot is held, and no slot is lost.
THEOREM CountImplementsPool == Spec => PoolSpec
<1>1. Init => PoolInv /\ Pool!Init
  BY PoolStart
<1>2. PoolInv /\ [Next]_vars => PoolInv'
  BY ServerStep DEF PoolStep
<1>3. PoolInv /\ [Next]_vars
      => [Pool!Next]_<<Held, TurnedAway>>
  BY ServerStep DEF PoolStep, PoolStutters
<1>. QED  BY <1>1, <1>2, <1>3, PTL DEF Spec, PoolSpec, Pool!Spec, Held, TurnedAway

-----------------------------------------------------------------------------
(* The head of a request *)

\* b starts with n empty lines; it does not go on with another.
Leads(b, n) == 2 * n <= Len(b) /\ \A i \in 1 .. n : b[2 * i - 1] = "CR" /\ b[2 * i] = "LF"
Ends(b, n) == ~ (2 * n + 2 <= Len(b) /\ b[2 * n + 1] = "CR" /\ b[2 * n + 2] = "LF")

\* A set of numbers has a least one.
LEMMA LeastNatural ==
  ASSUME NEW T \in SUBSET Nat, T # {}
  PROVE  \E n \in T : \A m \in T : n <= m
<1> DEFINE R == {ss \in Nat \X Nat : ss[1] < ss[2]}
<1>1. IsWellFoundedOn(R, Nat)
  BY NatLessThanWellFounded, Zenon DEF OpToRel
<1>2. PICK n \in T : \A m \in T : ~ <<m, n>> \in R
  BY <1>1, WFMin
<1>3. \A m \in T : ~ (m < n)
  BY <1>2
<1>. QED  BY <1>2, <1>3

\* The count of EmptyLines is the number of empty lines at the beginning.
LEMMA EmptyLinesCounted ==
  ASSUME NEW b \in Seq(STRING)
  PROVE  EmptyLines(b) \in Nat /\ Leads(b, EmptyLines(b)) /\ Ends(b, EmptyLines(b))
<1>1. Len(b) \in Nat
  OBVIOUS
<1>2. PICK T : T = {n \in 1 .. Len(b) \div 2 : \A i \in 1 .. n : b[2 * i - 1] = "CR" /\ b[2 * i] = "LF"}
  OBVIOUS
<1>3. \A n \in Nat \ {0} : n \in T <=> Leads(b, n)
  <2> SUFFICES ASSUME NEW n \in Nat \ {0}
               PROVE  n \in 1 .. Len(b) \div 2 <=> 2 * n <= Len(b)
    BY <1>2 DEF Leads
  <2>1. QED
    BY <1>1
<1>4. PICK k \in Nat : k + 1 \notin T /\ \A j \in Nat : j + 1 \notin T => k <= j
  <2>1. PICK M : M = {j \in Nat : j + 1 \notin T}
    OBVIOUS
  <2>2. Len(b) \in M
    <3>1. ~ Leads(b, Len(b) + 1)
      BY <1>1 DEF Leads
    <3>2. Len(b) + 1 \in Nat \ {0}
      BY <1>1
    <3>3. QED
      BY <1>1, <1>3, <2>1, <3>1, <3>2
  <2>3. M \in SUBSET Nat /\ M # {}
    BY <2>1, <2>2
  <2>4. \E n \in M : \A m \in M : n <= m
    BY <2>3, LeastNatural
  <2>5. QED
    BY <2>1, <2>4
<1>5. T = 1 .. k
  <2>1. ASSUME NEW n \in T PROVE n \in 1 .. k
    <3>1. n \in Nat \ {0}
      BY <1>1, <1>2
    <3>2. CASE n > k
      <4>1. Leads(b, n)
        BY <1>3, <3>1
      <4>2. Leads(b, k + 1)
        BY <1>1, <3>1, <3>2, <4>1 DEF Leads
      <4>3. k + 1 \in Nat \ {0}
        OBVIOUS
      <4>4. QED
        BY <1>3, <1>4, <4>2, <4>3
    <3>3. QED
      BY <3>1, <3>2
  <2>2. ASSUME NEW n \in 1 .. k PROVE n \in T
    <3>1. n - 1 \in Nat /\ (n - 1) + 1 = n /\ ~ (k <= n - 1)
      OBVIOUS
    <3>2. QED
      BY <1>4, <3>1
  <2>3. QED
    BY <2>1, <2>2
<1>6. EmptyLines(b) = k
  <2>1. Cardinality(1 .. k) = k
    <3>1. 1 \in Int /\ k \in Int
      OBVIOUS
    <3>2. Cardinality(1 .. k) = IF 1 > k THEN 0 ELSE k - 1 + 1
      BY <3>1, FS_Interval
    <3>3. QED
      BY <3>2
  <2>2. QED
    BY <1>2, <1>5, <2>1 DEF EmptyLines
<1>7. Leads(b, k)
  <2>1. CASE k = 0
    BY <1>1, <2>1 DEF Leads
  <2>2. CASE k # 0
    BY <1>3, <1>5, <2>2
  <2>3. QED
    BY <2>1, <2>2
<1>8. Ends(b, k)
  <2> SUFFICES ASSUME 2 * k + 2 <= Len(b), b[2 * k + 1] = "CR", b[2 * k + 2] = "LF" PROVE FALSE
    BY DEF Ends
  <2>1. Leads(b, k + 1)
    <3>1. 2 * (k + 1) <= Len(b)
      OBVIOUS
    <3>2. ASSUME NEW i \in 1 .. k + 1 PROVE b[2 * i - 1] = "CR" /\ b[2 * i] = "LF"
      <4>1. CASE i = k + 1
        BY <4>1
      <4>2. CASE i # k + 1
        BY <1>7, <4>2 DEF Leads
      <4>3. QED
        BY <4>1, <4>2
    <3>3. QED
      BY <3>1, <3>2 DEF Leads
  <2>2. k + 1 \in Nat \ {0}
    OBVIOUS
  <2>3. QED
    BY <1>3, <1>4, <2>1, <2>2
<1>9. QED
  BY <1>6, <1>7, <1>8

LEMMA EmptyLinesUnique ==
  ASSUME NEW b \in Seq(STRING), NEW n \in Nat, Leads(b, n), Ends(b, n)
  PROVE  n = EmptyLines(b)
<1>1. PICK m \in Nat : m = EmptyLines(b) /\ Leads(b, m) /\ Ends(b, m)
  BY EmptyLinesCounted
<1>2. Len(b) \in Nat
  OBVIOUS
<1>3. CASE m < n
  <2>1. 2 * m + 2 <= Len(b) /\ m + 1 \in 1 .. n /\ 2 * (m + 1) - 1 = 2 * m + 1 /\ 2 * (m + 1) = 2 * m + 2
    BY <1>2, <1>3 DEF Leads
  <2>2. b[2 * (m + 1) - 1] = "CR" /\ b[2 * (m + 1)] = "LF"
    <3>1. \A i \in 1 .. n : b[2 * i - 1] = "CR" /\ b[2 * i] = "LF"
      BY DEF Leads
    <3>2. QED
      BY <2>1, <3>1
  <2>3. QED
    BY <1>1, <2>1, <2>2 DEF Ends
<1>4. CASE n < m
  <2>1. 2 * n + 2 <= Len(b) /\ n + 1 \in 1 .. m /\ 2 * (n + 1) - 1 = 2 * n + 1 /\ 2 * (n + 1) = 2 * n + 2
    BY <1>1, <1>2, <1>4 DEF Leads
  <2>2. b[2 * n + 1] = "CR" /\ b[2 * n + 2] = "LF"
    BY <1>1, <2>1 DEF Leads
  <2>3. QED
    BY <2>1, <2>2 DEF Ends
<1>5. QED
  BY <1>1, <1>3, <1>4

\* A sequence without its first m elements.
LEMMA RestOf ==
  ASSUME NEW s \in Seq(STRING), NEW m \in 0 .. Len(s), NEW t, t = SubSeq(s, m + 1, Len(s))
  PROVE  /\ t \in Seq(STRING) /\ Len(t) = Len(s) - m
         /\ \A i \in 1 .. Len(t) : t[i] = s[m + i]
<1>1. Len(s) \in Nat /\ m \in Nat
  OBVIOUS
<1>2. m + 1 \in 1 .. Len(s) + 1 /\ Len(s) \in m .. Len(s)
  BY <1>1
<1>3. t \in Seq(STRING) /\ Len(t) = Len(s) - m
  BY <1>1, <1>2, SubSeqProperties
<1>4. \A i \in 1 .. Len(t) : t[i] = s[m + i]
  BY <1>1, <1>3, SubSeqProperties
<1>5. QED
  BY <1>3, <1>4

LEMMA Joined ==
  ASSUME NEW s \in Seq(STRING), NEW t \in Seq(STRING), NEW u, u = s \o t
  PROVE  /\ u \in Seq(STRING) /\ Len(u) = Len(s) + Len(t)
         /\ \A i \in 1 .. Len(s) : u[i] = s[i]
  OBVIOUS

\* What follows the first k lines of x is read as it would be without them.
LEMMA SkipAgain ==
  ASSUME NEW x \in Seq(STRING), NEW y \in Seq(STRING)
  PROVE  SkipEmptyLines(SkipEmptyLines(x) \o y) = SkipEmptyLines(x \o y)
<1>1. PICK k \in Nat : k = EmptyLines(x) /\ Leads(x, k) /\ Ends(x, k)
  BY EmptyLinesCounted
<1>2. PICK b : b = SkipEmptyLines(x)
  OBVIOUS
<1>3. /\ Len(x) \in Nat /\ Len(y) \in Nat /\ 2 * k <= Len(x)
      /\ \A i \in 1 .. k : x[2 * i - 1] = "CR" /\ x[2 * i] = "LF"
  BY <1>1 DEF Leads
<1>4. /\ b \in Seq(STRING) /\ Len(b) = Len(x) - 2 * k
      /\ \A i \in 1 .. Len(b) : b[i] = x[2 * k + i]
  <2>1. b = SubSeq(x, 2 * k + 1, Len(x))
    BY <1>1, <1>2 DEF SkipEmptyLines
  <2>2. 2 * k \in 0 .. Len(x)
    BY <1>3
  <2>3. QED
    BY <2>1, <2>2, RestOf
<1>5. PICK z, w : z = b \o y /\ w = x \o y
  OBVIOUS
<1>6. /\ z \in Seq(STRING) /\ Len(z) = Len(b) + Len(y) /\ w \in Seq(STRING) /\ Len(w) = Len(x) + Len(y)
      /\ \A i \in 1 .. Len(x) : w[i] = x[i]
      /\ \A i \in 1 .. Len(z) : z[i] = w[2 * k + i]
  <2>1. /\ z \in Seq(STRING) /\ Len(z) = Len(b) + Len(y) /\ w \in Seq(STRING) /\ Len(w) = Len(x) + Len(y)
        /\ \A i \in 1 .. Len(x) : w[i] = x[i]
    <3>1. z \in Seq(STRING) /\ Len(z) = Len(b) + Len(y)
      BY <1>4, <1>5, Joined
    <3>2. /\ w \in Seq(STRING) /\ Len(w) = Len(x) + Len(y)
          /\ \A i \in 1 .. Len(x) : w[i] = x[i]
      BY <1>5, Joined
    <3>3. QED
      BY <3>1, <3>2
  <2>2. ASSUME NEW i \in 1 .. Len(z) PROVE z[i] = w[2 * k + i]
    <3>1. CASE i <= Len(b)
      <4>1. z[i] = b[i] /\ 2 * k + i \in 1 .. Len(x)
        BY <1>3, <1>4, <1>5, <2>1, <3>1
      <4>2. QED
        BY <1>4, <2>1, <3>1, <4>1
    <3>2. CASE ~ (i <= Len(b))
      <4>1. z[i] = y[i - Len(b)] /\ 2 * k + i > Len(x) /\ 2 * k + i <= Len(w)
        BY <1>3, <1>4, <1>5, <2>1, <3>2
      <4>2. w[2 * k + i] = y[2 * k + i - Len(x)]
        BY <1>3, <1>5, <2>1, <4>1
      <4>3. 2 * k + i - Len(x) = i - Len(b)
        BY <1>3, <1>4
      <4>4. QED
        BY <4>1, <4>2, <4>3
    <3>3. QED
      BY <3>1, <3>2
  <2>3. QED
    BY <2>1, <2>2
<1>7. PICK j \in Nat : j = EmptyLines(z) /\ Leads(z, j) /\ Ends(z, j)
  BY <1>6, EmptyLinesCounted
<1>8. 2 * j <= Len(z) /\ \A i \in 1 .. j : z[2 * i - 1] = "CR" /\ z[2 * i] = "LF"
  BY <1>7 DEF Leads
<1>9. Leads(w, k + j)
  <2>1. 2 * (k + j) <= Len(w)
    BY <1>3, <1>4, <1>6, <1>8
  <2>2. ASSUME NEW i \in 1 .. k + j PROVE w[2 * i - 1] = "CR" /\ w[2 * i] = "LF"
    <3>1. CASE i <= k
      <4>1. i \in 1 .. k /\ 2 * i - 1 \in 1 .. Len(x) /\ 2 * i \in 1 .. Len(x)
        BY <1>3, <3>1
      <4>2. QED
        BY <1>3, <1>6, <4>1
    <3>2. CASE ~ (i <= k)
      <4>1. /\ i - k \in 1 .. j /\ 2 * (i - k) - 1 \in 1 .. Len(z) /\ 2 * (i - k) \in 1 .. Len(z)
            /\ 2 * k + (2 * (i - k) - 1) = 2 * i - 1 /\ 2 * k + 2 * (i - k) = 2 * i
        BY <1>6, <1>8, <3>2, <1>3, <1>4
      <4>2. z[2 * (i - k) - 1] = "CR" /\ z[2 * (i - k)] = "LF"
        BY <1>8, <4>1
      <4>3. z[2 * (i - k) - 1] = w[2 * i - 1] /\ z[2 * (i - k)] = w[2 * i]
        BY <1>6, <4>1
      <4>4. QED
        BY <4>2, <4>3
    <3>3. QED
      BY <3>1, <3>2
  <2>3. QED
    BY <2>1, <2>2 DEF Leads
<1>10. Ends(w, k + j)
  <2> SUFFICES ASSUME 2 * (k + j) + 2 <= Len(w), w[2 * (k + j) + 1] = "CR", w[2 * (k + j) + 2] = "LF"
               PROVE  FALSE
    BY DEF Ends
  <2>1. 2 * j + 2 <= Len(z) /\ 2 * j + 1 \in 1 .. Len(z) /\ 2 * j + 2 \in 1 .. Len(z)
    BY <1>3, <1>4, <1>6
  <2>2. 2 * k + (2 * j + 1) = 2 * (k + j) + 1 /\ 2 * k + (2 * j + 2) = 2 * (k + j) + 2
    OBVIOUS
  <2>3. z[2 * j + 1] = "CR" /\ z[2 * j + 2] = "LF"
    BY <1>6, <2>1, <2>2
  <2>4. QED
    BY <1>7, <2>1, <2>3 DEF Ends
<1>11. EmptyLines(w) = k + j
  <2>1. k + j \in Nat
    OBVIOUS
  <2>2. QED
    BY <1>6, <1>9, <1>10, <2>1, EmptyLinesUnique
<1>12. SubSeq(z, 2 * j + 1, Len(z)) = SubSeq(w, 2 * (k + j) + 1, Len(w))
  <2>1. PICK s, t : s = SubSeq(z, 2 * j + 1, Len(z)) /\ t = SubSeq(w, 2 * (k + j) + 1, Len(w))
    OBVIOUS
  <2>2. /\ s \in Seq(STRING) /\ Len(s) = Len(z) - 2 * j
        /\ \A i \in 1 .. Len(s) : s[i] = z[2 * j + i]
    <3>1. 2 * j \in 0 .. Len(z) /\ z \in Seq(STRING)
      BY <1>6, <1>8
    <3>2. s = SubSeq(z, 2 * j + 1, Len(z))
      BY <2>1
    <3>3. QED
      BY <3>1, <3>2, RestOf
  <2>3. /\ t \in Seq(STRING) /\ Len(t) = Len(w) - 2 * (k + j)
        /\ \A i \in 1 .. Len(t) : t[i] = w[2 * (k + j) + i]
    <3>1. 2 * (k + j) \in 0 .. Len(w) /\ w \in Seq(STRING)
      BY <1>6, <1>9 DEF Leads
    <3>2. t = SubSeq(w, 2 * (k + j) + 1, Len(w))
      BY <2>1
    <3>3. QED
      BY <3>1, <3>2, RestOf
  <2>4. Len(s) = Len(t)
    BY <1>3, <1>4, <1>6, <2>2, <2>3
  <2>5. ASSUME NEW i \in 1 .. Len(s) PROVE s[i] = t[i]
    <3>1. 2 * j + i \in 1 .. Len(z) /\ 2 * k + (2 * j + i) = 2 * (k + j) + i
      BY <1>6, <1>8, <2>2
    <3>2. z[2 * j + i] = w[2 * (k + j) + i]
      BY <1>6, <3>1
    <3>3. QED
      BY <2>2, <2>3, <2>4, <3>2
  <2>6. s = t
    BY <2>2, <2>3, <2>4, <2>5, SeqEqual
  <2>7. QED
    BY <2>1, <2>6
<1>13. QED
  BY <1>2, <1>5, <1>7, <1>11, <1>12 DEF SkipEmptyLines

\* Once a line has begun, nothing that follows is dropped.
LEMMA SkipFirst ==
  ASSUME NEW r \in Seq(STRING), NEW n \in 0 .. Len(r), NEW b,
         b = SkipEmptyLines(SubSeq(r, 1, n)), Len(b) >= 2
  PROVE  /\ SkipEmptyLines(r) \in Seq(STRING) /\ Len(SkipEmptyLines(r)) >= Len(b)
         /\ \A i \in 1 .. Len(b) : SkipEmptyLines(r)[i] = b[i]
<1>1. PICK x : x = SubSeq(r, 1, n)
  OBVIOUS
<1>2. Len(r) \in Nat /\ x \in Seq(STRING) /\ Len(x) = n /\ \A i \in 1 .. n : x[i] = r[i]
  BY <1>1
<1>3. PICK k \in Nat : k = EmptyLines(x) /\ Leads(x, k) /\ Ends(x, k)
  BY <1>2, EmptyLinesCounted
<1>4. 2 * k <= n /\ \A i \in 1 .. k : x[2 * i - 1] = "CR" /\ x[2 * i] = "LF"
  BY <1>2, <1>3 DEF Leads
<1>5. Len(b) = n - 2 * k /\ \A i \in 1 .. Len(b) : b[i] = r[2 * k + i]
  <2>1. b = SubSeq(x, 2 * k + 1, n)
    BY <1>1, <1>2, <1>3 DEF SkipEmptyLines
  <2>2. Len(b) = n - 2 * k /\ \A i \in 1 .. Len(b) : b[i] = x[2 * k + i]
    BY <1>2, <1>4, <2>1
  <2>3. QED
    BY <1>2, <2>2
<1>6. Leads(r, k)
  <2>1. ASSUME NEW i \in 1 .. k PROVE r[2 * i - 1] = "CR" /\ r[2 * i] = "LF"
    <3>1. 2 * i - 1 \in 1 .. n /\ 2 * i \in 1 .. n
      BY <1>2, <1>4
    <3>2. QED
      BY <1>2, <1>4, <3>1
  <2>2. QED
    BY <1>2, <1>4, <2>1 DEF Leads
<1>7. Ends(r, k)
  <2>1. 2 * k + 2 <= n
    BY <1>2, <1>5
  <2>2. x[2 * k + 1] = r[2 * k + 1] /\ x[2 * k + 2] = r[2 * k + 2]
    BY <1>2, <2>1
  <2>3. QED
    BY <1>2, <1>3, <2>1, <2>2 DEF Ends
<1>8. EmptyLines(r) = k
  BY <1>6, <1>7, EmptyLinesUnique
<1>9. SkipEmptyLines(r) = SubSeq(r, 2 * k + 1, Len(r))
  BY <1>8 DEF SkipEmptyLines
<1>10. QED
  BY <1>2, <1>4, <1>5, <1>9

\* The first end of line is the least.
LEMMA FirstEnd ==
  ASSUME NEW b \in Seq(STRING)
  PROVE  /\ FirstLineEnd(b) \in Nat
         /\ FirstLineEnd(b) = 0 => LineEnds(b) = {}
         /\ FirstLineEnd(b) > 0 =>
              FirstLineEnd(b) \in LineEnds(b) /\ \A j \in LineEnds(b) : FirstLineEnd(b) <= j
<1>1. LineEnds(b) \in SUBSET Nat /\ 0 \notin LineEnds(b)
  BY DEF LineEnds
<1>2. CASE LineEnds(b) = {}
  BY <1>2 DEF FirstLineEnd
<1>3. CASE LineEnds(b) # {}
  <2>1. \E n \in LineEnds(b) : \A m \in LineEnds(b) : n <= m
    BY <1>1, <1>3, LeastNatural
  <2>2. FirstLineEnd(b) \in LineEnds(b) /\ \A m \in LineEnds(b) : FirstLineEnd(b) <= m
    BY <1>3, <2>1, Zenon DEF FirstLineEnd
  <2>3. QED
    BY <1>1, <2>2
<1>4. QED
  BY <1>2, <1>3

\* It is where it is, whatever follows.
LEMMA FirstEndStays ==
  ASSUME NEW b \in Seq(STRING), NEW s \in Seq(STRING), Len(s) >= Len(b),
         \A i \in 1 .. Len(b) : s[i] = b[i]
  PROVE  /\ FirstLineEnd(b) > 0 =>
              /\ FirstLineEnd(s) = FirstLineEnd(b)
              /\ SubSeq(s, 1, FirstLineEnd(b) - 1) = SubSeq(b, 1, FirstLineEnd(b) - 1)
         /\ FirstLineEnd(b) = 0 /\ FirstLineEnd(s) > 0 => FirstLineEnd(s) >= Len(b)
<1>1. Len(b) \in Nat /\ Len(s) \in Nat
  OBVIOUS
<1>2. \A i \in 1 .. Len(b) : i < Len(b) => (i \in LineEnds(b) <=> i \in LineEnds(s))
  <2> SUFFICES ASSUME NEW i \in 1 .. Len(b), i < Len(b)
               PROVE  i \in LineEnds(b) <=> i \in LineEnds(s)
    OBVIOUS
  <2>1. /\ i \in 1 .. Len(s) /\ i < Len(s) /\ i + 1 \in 1 .. Len(b)
        /\ s[i] = b[i] /\ s[i + 1] = b[i + 1]
    BY <1>1
  <2>2. QED
    BY <2>1 DEF LineEnds
<1>3. ASSUME FirstLineEnd(b) > 0
      PROVE  /\ FirstLineEnd(s) = FirstLineEnd(b)
             /\ SubSeq(s, 1, FirstLineEnd(b) - 1) = SubSeq(b, 1, FirstLineEnd(b) - 1)
  <2>1. PICK f \in Nat : f = FirstLineEnd(b) /\ f \in LineEnds(b) /\ \A j \in LineEnds(b) : f <= j
    BY <1>3, FirstEnd
  <2>2. f \in 1 .. Len(b) /\ f < Len(b)
    BY <2>1 DEF LineEnds
  <2>3. f \in LineEnds(s)
    BY <1>2, <2>1, <2>2
  <2>4. PICK g \in Nat : /\ g = FirstLineEnd(s) /\ (g = 0 => LineEnds(s) = {})
                         /\ g > 0 => g \in LineEnds(s) /\ \A j \in LineEnds(s) : g <= j
    BY FirstEnd
  <2>5. g # 0 /\ g \in LineEnds(s) /\ g <= f
    BY <2>3, <2>4
  <2>6. g \in 1 .. Len(b) /\ g < Len(b)
    BY <1>1, <2>2, <2>5 DEF LineEnds
  <2>7. f <= g
    BY <1>2, <2>1, <2>5, <2>6
  <2>8. SubSeq(s, 1, f - 1) = SubSeq(b, 1, f - 1)
    <3>1. PICK t, u : t = SubSeq(s, 1, f - 1) /\ u = SubSeq(b, 1, f - 1)
      OBVIOUS
    <3>2. /\ t \in Seq(STRING) /\ Len(t) = f - 1 /\ \A i \in 1 .. f - 1 : t[i] = s[i]
          /\ u \in Seq(STRING) /\ Len(u) = f - 1 /\ \A i \in 1 .. f - 1 : u[i] = b[i]
      BY <1>1, <2>2, <3>1
    <3>3. \A i \in 1 .. Len(t) : t[i] = u[i]
      BY <2>2, <3>2
    <3>4. t = u
      BY <3>2, <3>3, SeqEqual
    <3>5. QED
      BY <3>1, <3>4
  <2>9. QED
    BY <2>1, <2>4, <2>5, <2>7, <2>8
<1>4. ASSUME FirstLineEnd(b) = 0, FirstLineEnd(s) > 0
      PROVE  FirstLineEnd(s) >= Len(b)
  <2>1. LineEnds(b) = {}
    BY <1>4, FirstEnd
  <2>2. FirstLineEnd(s) \in LineEnds(s) /\ FirstLineEnd(s) \in Nat
    BY <1>4, FirstEnd
  <2>3. QED
    BY <1>1, <1>2, <1>4, <2>1, <2>2
<1>5. QED
  BY <1>3, <1>4

-----------------------------------------------------------------------------
(* The answer *)

Fitting(c) ==
  LET b == SkipEmptyLines(Request[c])
      end == FirstLineEnd(b)
  IN  reply[c] \notin {"none", "503"} =>
        \/ end > 0 /\ reply[c] = Route(SubSeq(b, 1, end - 1))
        \/ reply[c] = "431" /\ Len(b) > MaxRequest /\ (end > 0 => end >= MaxRequest)

\* Until it is answered, a connection has in its buffer what it has read, without the
\* empty lines at the beginning.
Unanswered == {"away", "backlog", "accepted", "serving"}
Reading(c) ==
  conn[c] \in Unanswered =>
    /\ reply[c] = "none"
    /\ taken[c] <= arrived[c]
    /\ header[c] = SkipEmptyLines(SubSeq(Request[c], 1, taken[c]))

ReplyTypes ==
  /\ DOMAIN reply = Clients /\ DOMAIN header = Clients
  /\ taken \in [Clients -> Nat] /\ arrived \in [Clients -> Nat]
  /\ \A c \in Clients : arrived[c] <= Len(Request[c])

ReplyInv ==
  /\ PoolInv
  /\ kind \in {"frames", "health"}
  /\ kind = "frames" => \A c \in Clients : reply[c] = "none"
  /\ kind = "health" => ReplyTypes /\ \A c \in Clients : Reading(c) /\ Fitting(c)

LEMMA ReplyStart == Init => ReplyInv
<1> SUFFICES ASSUME Init PROVE ReplyInv
  OBVIOUS
<1>1. PoolInv
  BY PoolStart
<1>2. ReplyTypes
  <2>1. \A c \in Clients : Len(Request[c]) \in Nat
    BY ServerAssumption
  <2>2. QED
    BY <2>1 DEF Init, ReplyTypes
<1>3. ASSUME NEW c \in Clients PROVE reply[c] = "none" /\ Reading(c) /\ Fitting(c)
  <2>1. reply[c] = "none" /\ taken[c] = 0 /\ arrived[c] = 0 /\ header[c] = <<>>
    BY <1>3 DEF Init
  <2>2. SubSeq(Request[c], 1, 0) = <<>>
    BY SubSeqEmpty
  <2>3. SkipEmptyLines(<<>>) = <<>>
    <3>1. <<>> \in Seq(STRING) /\ Len(<<>>) = 0
      BY EmptySeq
    <3>2. EmptyLines(<<>>) = 0
      <4>1. Leads(<<>>, 0) /\ Ends(<<>>, 0)
        BY <3>1 DEF Leads, Ends
      <4>2. QED
        BY <3>1, <4>1, EmptyLinesUnique
    <3>3. QED
      BY <3>1, <3>2, SubSeqEmpty DEF SkipEmptyLines
  <2>4. header[c] = SkipEmptyLines(SubSeq(Request[c], 1, taken[c])) /\ taken[c] <= arrived[c]
    <3>1. SkipEmptyLines(SubSeq(Request[c], 1, 0)) = <<>>
      BY <2>2, <2>3, Zenon
    <3>2. SubSeq(Request[c], 1, taken[c]) = SubSeq(Request[c], 1, 0) /\ taken[c] <= arrived[c]
      BY <2>1
    <3>3. QED
      BY <2>1, <3>1, <3>2, Zenon
  <2>5. Reading(c)
    BY <2>1, <2>4 DEF Reading
  <2>6. Fitting(c)
    BY <2>1 DEF Fitting
  <2>7. QED
    BY <2>1, <2>5, <2>6
<1>4. QED
  BY <1>1, <1>2, <1>3 DEF Init, ReplyInv

\* A step that reads nothing and answers nothing but a refusal.
LEMMA NothingRead ==
  ASSUME ReplyInv, PoolInv', kind' = kind, UNCHANGED <<header, taken>>,
         kind = "health" => ReplyTypes',
         \A c \in Clients : \/ reply'[c] = reply[c]
                            \/ kind = "health" /\ reply'[c] = "503" /\ conn'[c] = "refused",
         \A c \in Clients : arrived[c] <= arrived'[c],
         \A c \in Clients : conn'[c] \in Unanswered => conn[c] \in Unanswered
  PROVE  ReplyInv'
<1>1. CASE kind = "frames"
  BY <1>1 DEF ReplyInv
<1>2. CASE kind = "health"
  <2>1. ASSUME NEW c \in Clients PROVE Fitting(c)'
    <3>1. CASE reply'[c] = reply[c]
      BY <1>2, <3>1 DEF ReplyInv, Fitting
    <3>2. CASE reply'[c] = "503"
      BY <3>2 DEF Fitting
    <3>3. QED
      BY <2>1, <3>1, <3>2
  <2>2. ASSUME NEW c \in Clients PROVE Reading(c)'
    <3> SUFFICES ASSUME conn'[c] \in Unanswered
                 PROVE  /\ reply'[c] = "none" /\ taken[c] <= arrived'[c]
                        /\ header[c] = SkipEmptyLines(SubSeq(Request[c], 1, taken[c]))
      BY DEF Reading
    <3>1. conn'[c] # "refused"
      BY DEF Unanswered
    <3>2. /\ reply[c] = "none" /\ taken[c] <= arrived[c]
          /\ header[c] = SkipEmptyLines(SubSeq(Request[c], 1, taken[c]))
      BY <1>2, <2>2 DEF ReplyInv, Reading
    <3>3. reply'[c] = "none"
      BY <2>2, <3>1, <3>2
    <3>4. taken[c] \in Nat /\ arrived[c] \in Nat /\ arrived'[c] \in Nat /\ arrived[c] <= arrived'[c]
      BY <1>2, <2>2 DEF ReplyInv, ReplyTypes
    <3>5. QED
      BY <3>2, <3>3, <3>4
  <2>3. QED
    BY <1>2, <2>1, <2>2 DEF ReplyInv
<1>3. QED
  BY <1>1, <1>2 DEF ReplyInv

\* One read of the health server.
LEMMA RequestRead ==
  ASSUME ReplyInv, PoolInv', NEW c \in Clients, ReadRequest(c)
  PROVE  ReplyInv'
<1>1. kind = "health" /\ conn[c] = "serving" /\ UNCHANGED <<kind, arrived>>
  BY DEF ReadRequest, ServeUnchanged
<1>2. ReplyTypes /\ Reading(c) /\ Fitting(c) /\ conn \in [Clients -> ConnStates]
  BY <1>1 DEF ReplyInv, PoolInv
<1>3. PICK bytes \in Readable(c, Len(Request[c])) :
        LET b == SkipEmptyLines(Buffered(c, bytes))
            answer == CASE FirstLineEnd(b) > 0 -> Route(SubSeq(b, 1, FirstLineEnd(b) - 1))
                        [] FirstLineEnd(b) = 0 /\ Len(b) > MaxRequest -> "431"
                        [] OTHER -> "none"
        IN /\ Take(c, bytes)
           /\ header' = [header EXCEPT ![c] = b]
           /\ reply' = [reply EXCEPT ![c] = answer]
           /\ Goto(c, IF answer = "none" THEN "serving" ELSE "leaving")
  BY DEF ReadRequest
<1>4. PICK r, n : r = Request[c] /\ n = taken[c]
  OBVIOUS
<1>5. /\ r \in Seq(STRING) /\ Len(r) \in Nat /\ n \in Nat /\ n <= arrived[c] /\ arrived[c] \in Nat
      /\ arrived[c] <= Len(r) /\ header[c] = SkipEmptyLines(SubSeq(r, 1, n))
  BY <1>1, <1>2, <1>4, ServerAssumption DEF ReplyTypes, Reading, Unanswered
<1>6. PICK k \in Nat : bytes = SubSeq(r, n + 1, n + k) /\ n + k <= arrived[c] /\ k > 0
  <2>1. Stream(c) = r
    BY <1>1, <1>4 DEF Stream
  <2>2. PICK m : m = IF Len(r) < arrived[c] - n THEN Len(r) ELSE arrived[c] - n
    OBVIOUS
  <2>3. m \in Int /\ m <= arrived[c] - n
    BY <1>5, <2>2
  <2>4. PICK k \in 1 .. m : bytes = SubSeq(r, n + 1, n + k)
    BY <1>3, <1>4, <2>1, <2>2 DEF Readable
  <2>5. k \in Nat /\ k > 0 /\ n + k <= arrived[c]
    BY <1>5, <2>3, <2>4
  <2>6. QED
    BY <2>4, <2>5
<1>7. PICK x, b : x = SubSeq(r, 1, n + k) /\ b = SkipEmptyLines(x)
  OBVIOUS
<1>8. PICK first : first = SubSeq(r, 1, n)
  OBVIOUS
<1>9. /\ first \in Seq(STRING) /\ bytes \in Seq(STRING) /\ x \in Seq(STRING)
      /\ Len(bytes) = k /\ x = first \o bytes
  <2>1. n + k <= Len(r) /\ n + k \in Nat
    BY <1>5, <1>6
  <2>2. /\ first \in Seq(STRING) /\ Len(first) = n /\ \A i \in 1 .. n : first[i] = r[i]
    BY <1>5, <1>8, <2>1
  <2>3. /\ bytes \in Seq(STRING) /\ Len(bytes) = k /\ \A i \in 1 .. k : bytes[i] = r[n + i]
    <3>1. \A i \in n + 1 .. n + k : r[i] \in STRING
      BY <1>5, <2>1
    <3>2. n + 1 \in Int /\ n + k \in Int
      BY <1>5
    <3>3. /\ bytes \in Seq(STRING) /\ Len(bytes) = k
          /\ \A i \in 1 .. n + k - (n + 1) + 1 : bytes[i] = r[n + 1 + i - 1]
      BY <1>5, <1>6, <3>1, <3>2, SubSeqProperties
    <3>4. QED
      BY <1>5, <3>3
  <2>4. /\ x \in Seq(STRING) /\ Len(x) = n + k /\ \A i \in 1 .. n + k : x[i] = r[i]
    BY <1>5, <1>7, <2>1
  <2>5. PICK y : y = first \o bytes
    OBVIOUS
  <2>6. /\ y \in Seq(STRING) /\ Len(y) = n + k
        /\ \A i \in 1 .. n + k : y[i] = IF i <= n THEN first[i] ELSE bytes[i - n]
    <3>1. /\ first \o bytes \in Seq(STRING)
          /\ Len(first \o bytes) = Len(first) + Len(bytes)
          /\ \A i \in 1 .. Len(first) + Len(bytes) :
               (first \o bytes)[i] = IF i <= Len(first) THEN first[i] ELSE bytes[i - Len(first)]
      BY <2>2, <2>3, ConcatProperties, Zenon
    <3>2. QED
      BY <2>2, <2>3, <2>5, <3>1
  <2>7. ASSUME NEW i \in 1 .. n + k PROVE y[i] = x[i]
    <3>1. CASE i <= n
      BY <1>5, <2>2, <2>4, <2>6, <3>1
    <3>2. CASE ~ (i <= n)
      <4>1. i - n \in 1 .. k /\ n + (i - n) = i
        BY <1>5, <3>2
      <4>2. bytes[i - n] = r[i]
        BY <2>3, <4>1
      <4>3. QED
        BY <2>4, <2>6, <3>2, <4>2
    <3>3. QED
      BY <3>1, <3>2
  <2>8. y = x
    BY <2>4, <2>6, <2>7, SeqEqual
  <2>9. QED
    BY <2>2, <2>3, <2>4, <2>5, <2>8
<1>10. SkipEmptyLines(Buffered(c, bytes)) = b
  <2>1. Buffered(c, bytes) = SkipEmptyLines(first) \o bytes
    BY <1>5, <1>8 DEF Buffered
  <2>2. QED
    BY <1>7, <1>9, <2>1, SkipAgain
<1>11. PICK answer : answer = (CASE FirstLineEnd(b) > 0 -> Route(SubSeq(b, 1, FirstLineEnd(b) - 1))
                                 [] FirstLineEnd(b) = 0 /\ Len(b) > MaxRequest -> "431"
                                 [] OTHER -> "none")
  OBVIOUS
<1>12. /\ taken' = [taken EXCEPT ![c] = @ + Len(bytes)]
       /\ header' = [header EXCEPT ![c] = b]
       /\ reply' = [reply EXCEPT ![c] = answer]
       /\ conn' = [conn EXCEPT ![c] = IF answer = "none" THEN "serving" ELSE "leaving"]
  BY <1>3, <1>10, <1>11, Zenon DEF Take, Goto
<1>13. /\ taken'[c] = n + k /\ header'[c] = b /\ reply'[c] = answer
       /\ \A d \in Clients \ {c} : /\ taken'[d] = taken[d] /\ header'[d] = header[d]
                                   /\ reply'[d] = reply[d] /\ conn'[d] = conn[d]
  BY <1>2, <1>4, <1>9, <1>12 DEF ReplyTypes
<1>14. ReplyTypes'
  <2>1. taken' \in [Clients -> Nat]
    BY <1>2, <1>4, <1>5, <1>9, <1>12 DEF ReplyTypes
  <2>2. QED
    BY <1>1, <1>2, <1>12, <2>1 DEF ReplyTypes
<1>15. b \in Seq(STRING) /\ FirstLineEnd(b) \in Nat /\ Len(b) \in Nat
  <2>1. EmptyLines(x) \in Nat /\ 2 * EmptyLines(x) \in 0 .. Len(x)
    <3>1. PICK m \in Nat : m = EmptyLines(x) /\ Leads(x, m)
      BY <1>9, EmptyLinesCounted
    <3>2. 2 * m <= Len(x) /\ Len(x) \in Nat
      BY <1>9, <3>1 DEF Leads
    <3>3. QED
      BY <3>1, <3>2
  <2>2. b \in Seq(STRING)
    BY <1>7, <1>9, <2>1, RestOf DEF SkipEmptyLines
  <2>3. QED
    BY <2>2, FirstEnd
<1>16. Reading(c)'
  <2> SUFFICES ASSUME conn'[c] \in Unanswered PROVE answer = "none" /\ n + k <= arrived[c]
    BY <1>1, <1>4, <1>7, <1>13 DEF Reading
  <2>1. conn'[c] = IF answer = "none" THEN "serving" ELSE "leaving"
    BY <1>2, <1>12
  <2>2. answer = "none"
    BY <2>1 DEF Unanswered
  <2>3. QED
    BY <1>6, <2>2
<1>17. Fitting(c)'
  <2>1. PICK s : s = SkipEmptyLines(r)
    OBVIOUS
  <2>2. MaxRequest \in Nat \ {0}
    BY ServerAssumption
  <2>3. ASSUME Len(b) >= 2
        PROVE  s \in Seq(STRING) /\ Len(s) >= Len(b) /\ \A i \in 1 .. Len(b) : s[i] = b[i]
    <3>1. n + k \in 0 .. Len(r)
      BY <1>5, <1>6
    <3>2. QED
      BY <1>5, <1>7, <2>1, <2>3, <3>1, SkipFirst
  <2>4. CASE FirstLineEnd(b) > 0
    <3>1. answer = Route(SubSeq(b, 1, FirstLineEnd(b) - 1))
      BY <1>11, <2>4
    <3>2. Len(b) >= 2
      <4>1. FirstLineEnd(b) \in 1 .. Len(b) /\ FirstLineEnd(b) < Len(b)
        BY <1>15, <2>4, FirstEnd DEF LineEnds
      <4>2. QED
        BY <1>15, <4>1
    <3>3. /\ FirstLineEnd(s) = FirstLineEnd(b)
          /\ SubSeq(s, 1, FirstLineEnd(b) - 1) = SubSeq(b, 1, FirstLineEnd(b) - 1)
      BY <1>15, <2>3, <2>4, <3>2, FirstEndStays
    <3>4. QED
      BY <1>4, <1>13, <2>1, <2>4, <3>1, <3>3 DEF Fitting
  <2>5. CASE FirstLineEnd(b) = 0 /\ Len(b) > MaxRequest
    <3>1. answer = "431"
      <4>1. ~ (FirstLineEnd(b) > 0)
        BY <2>5
      <4>2. QED
        BY <1>11, <2>5, <4>1, Zenon
    <3>2. Len(b) >= 2
      BY <1>15, <2>2, <2>5
    <3>3. /\ s \in Seq(STRING) /\ Len(s) >= Len(b)
          /\ FirstLineEnd(s) > 0 => FirstLineEnd(s) >= Len(b)
      BY <1>15, <2>3, <2>5, <3>2, FirstEndStays
    <3>4. Len(s) \in Nat /\ FirstLineEnd(s) \in Nat
      BY <3>3, FirstEnd
    <3>5. Len(s) > MaxRequest /\ (FirstLineEnd(s) > 0 => FirstLineEnd(s) >= MaxRequest)
      BY <1>15, <2>2, <2>5, <3>3, <3>4
    <3>6. QED
      BY <1>4, <1>13, <2>1, <3>1, <3>5 DEF Fitting
  <2>6. CASE ~ (FirstLineEnd(b) > 0) /\ ~ (FirstLineEnd(b) = 0 /\ Len(b) > MaxRequest)
    <3>1. answer = "none"
      BY <1>11, <2>6, Zenon
    <3>2. QED
      BY <1>13, <3>1 DEF Fitting
  <2>7. QED
    BY <2>4, <2>5, <2>6
<1>18. ASSUME NEW d \in Clients \ {c} PROVE Reading(d)' /\ Fitting(d)'
  BY <1>1, <1>13, <1>18 DEF ReplyInv, Reading, Fitting
<1>19. QED
  BY <1>1, <1>14, <1>16, <1>17, <1>18 DEF ReplyInv

LEMMA ReplyStep == ReplyInv /\ [Next]_vars => ReplyInv'
<1> SUFFICES ASSUME ReplyInv, [Next]_vars PROVE ReplyInv'
  OBVIOUS
<1>1. PoolInv /\ PoolInv' /\ conn \in [Clients -> ConnStates]
  BY ServerStep DEF PoolStep, ReplyInv, PoolInv
<1>2. kind = "health" => ReplyTypes
  BY DEF ReplyInv
<1>3. ASSUME UNCHANGED <<kind, header, taken, reply, arrived>>,
             \A c \in Clients : conn'[c] \in Unanswered => conn[c] \in Unanswered
      PROVE  ReplyInv'
  <2>1. kind = "health" => ReplyTypes'
    BY <1>2, <1>3 DEF ReplyTypes
  <2>2. kind = "health" => \A c \in Clients : arrived[c] <= arrived'[c]
    BY <1>2, <1>3 DEF ReplyTypes
  <2>3. CASE kind = "health"
    BY <1>1, <1>3, <2>1, <2>2, <2>3, NothingRead
  <2>4. CASE kind # "health"
    BY <1>1, <1>3, <2>4 DEF ReplyInv
  <2>5. QED
    BY <2>3, <2>4
<1>4. CASE Refuse
  <2>1. /\ UNCHANGED <<kind, header, taken, arrived>>
        /\ current \in Clients /\ conn' = [conn EXCEPT ![current] = "refused"]
        /\ reply' = IF kind = "health" THEN [reply EXCEPT ![current] = "503"] ELSE reply
    BY <1>1, <1>4 DEF Refuse, BusyReply, PoolInv
  <2>2. CASE kind = "health"
    <3>1. ReplyTypes' /\ \A c \in Clients : arrived[c] <= arrived'[c]
      BY <1>2, <2>1, <2>2 DEF ReplyTypes
    <3>2. ASSUME NEW c \in Clients
          PROVE  /\ reply'[c] = reply[c] \/ (reply'[c] = "503" /\ conn'[c] = "refused")
                 /\ conn'[c] \in Unanswered => conn[c] \in Unanswered
      <4>1. CASE c = current
        <5>1. reply'[c] = "503" /\ conn'[c] = "refused"
          BY <1>1, <1>2, <2>1, <2>2, <4>1 DEF ReplyTypes
        <5>2. QED
          BY <5>1 DEF Unanswered
      <4>2. CASE c # current
        BY <1>1, <1>2, <2>1, <2>2, <4>2 DEF ReplyTypes
      <4>3. QED
        BY <4>1, <4>2
    <3>3. QED
      BY <1>1, <2>1, <2>2, <3>1, <3>2, NothingRead
  <2>3. CASE kind # "health"
    BY <1>1, <2>1, <2>3 DEF ReplyInv
  <2>4. QED
    BY <2>2, <2>3
<1>5. CASE CheckStop \/ NothingToAccept \/ AcceptError \/ Spawn \/ SpawnFails \/ \E c \in Clients : Accept(c)
  <2>1. UNCHANGED <<kind, header, taken, reply, arrived>>
    BY <1>5 DEF CheckStop, NothingToAccept, AcceptError, Spawn, SpawnFails, SpawnFailsWith, Accept,
                LoopUnchanged, readVars
  <2>2. \A c \in Clients : conn'[c] \in Unanswered => conn[c] \in Unanswered
    <3>1. CASE CheckStop \/ NothingToAccept \/ AcceptError
      <4>1. conn' = conn \/ EndLoop
        BY <3>1, Zenon DEF CheckStop, NothingToAccept, AcceptError
      <4>2. CASE EndLoop
        BY <4>2 DEF EndLoop, Unanswered
      <4>3. QED
        BY <4>1, <4>2
    <3>2. CASE Spawn \/ SpawnFails
      BY <1>1, <3>2 DEF Spawn, SpawnFails, SpawnFailsWith, PoolInv, Unanswered
    <3>3. ASSUME NEW d \in Clients, Accept(d)
          PROVE  \A c \in Clients : conn'[c] \in Unanswered => conn[c] \in Unanswered
      BY <1>1, <3>3 DEF Accept, Unanswered
    <3>4. QED
      BY <1>5, <3>1, <3>2, <3>3
  <2>3. QED
    BY <1>3, <2>1, <2>2
<1>6. ASSUME NEW c \in Clients, ReadRequest(c) PROVE ReplyInv'
  BY <1>1, <1>6, RequestRead
<1>7. ASSUME NEW c \in Clients,
             StartPoll(c) \/ ReadHeader(c) \/ ReadBody(c) \/ PollTimesOut(c) \/ PollEnds(c)
      PROVE  ReplyInv'
  <2>1. kind = "frames" /\ kind' = kind /\ reply' = reply
    BY <1>7 DEF StartPoll, ReadHeader, ReadBody, PollTimesOut, PollTimesOutTo, PollEnds, ServeUnchanged,
                readVars
  <2>2. QED
    BY <1>1, <2>1 DEF ReplyInv
<1>8. ASSUME NEW c \in Clients, RequestDead(c) \/ Leave(c) \/ Connect(c) \/ ClientEnds(c)
      PROVE  ReplyInv'
  <2>1. UNCHANGED <<kind, header, taken, reply, arrived>>
    BY <1>8 DEF RequestDead, Leave, Connect, ClientEnds, ServeUnchanged, ClientUnchanged, readVars
  <2>2. \A d \in Clients : conn'[d] \in Unanswered => conn[d] \in Unanswered
    BY <1>1, <1>8 DEF RequestDead, Leave, Connect, ClientEnds, Goto, Unanswered
  <2>3. QED
    BY <1>3, <2>1, <2>2
<1>9. ASSUME NEW c \in Clients, Send(c) PROVE ReplyInv'
  <2>1. /\ UNCHANGED <<kind, header, taken, reply, conn>>
        /\ arrived' = [arrived EXCEPT ![c] = @ + 1] /\ arrived[c] < Len(Stream(c))
    BY <1>9 DEF Send, ClientUnchanged, readVars
  <2>2. CASE kind = "health"
    <3>1. arrived[c] < Len(Request[c]) /\ Len(Request[c]) \in Nat /\ arrived \in [Clients -> Nat]
      BY <1>2, <2>1, <2>2, ServerAssumption DEF Stream, ReplyTypes
    <3>2. ReplyTypes' /\ \A d \in Clients : arrived[d] <= arrived'[d]
      BY <1>2, <2>1, <2>2, <3>1 DEF ReplyTypes
    <3>3. QED
      BY <1>1, <2>1, <2>2, <3>2, NothingRead
  <2>3. CASE kind # "health"
    BY <1>1, <2>1, <2>3 DEF ReplyInv
  <2>4. QED
    BY <2>2, <2>3
<1>10. CASE Stop \/ UNCHANGED vars
  <2>1. UNCHANGED <<kind, header, taken, reply, arrived, conn>>
    BY <1>10 DEF Stop, vars, readVars
  <2>2. QED
    BY <1>3, <2>1
<1>11. QED
  BY <1>4, <1>5, <1>6, <1>7, <1>8, <1>9, <1>10 DEF Next, Accepting, Serving

\* The answer is the one its first line asks for, or that it is too long, for every
\* request, in however many pieces it comes and whatever else the server does.
THEOREM AnswersFit == Spec => []ReplyFitsRequest
<1>1. ReplyInv => ReplyFitsRequest
  <2> SUFFICES ASSUME ReplyInv, NEW c \in Clients PROVE Fitting(c)
    BY DEF ReplyFitsRequest, Fitting
  <2>1. CASE kind = "frames"
    BY <2>1 DEF ReplyInv, Fitting
  <2>2. CASE kind = "health"
    BY <2>2 DEF ReplyInv
  <2>3. QED
    BY <2>1, <2>2 DEF ReplyInv
<1>2. QED
  BY ReplyStart, ReplyStep, <1>1, PTL DEF Spec

-----------------------------------------------------------------------------
(* The frames of a client *)

\* A byte tells its frame and its place in it.
Bytes == Nat \X Nat

\* The first n of them, and where they end in its stream.
Sent(c, n) == FlattenSeq([f \in 1 .. n |-> FrameBytes(f, Declared[c][f])])
Edge(c, n) == Len(Sent(c, n))

\* The bytes of frame f after the first from, n of them.
Part(f, from, n) == [k \in 1 .. n |-> <<f, from + k>>]

\* A connection has read n frames, h bytes of the next header and b of the next body.
At(c, n, h, b) ==
  /\ taken[c] = Edge(c, n) + h + b
  /\ header[c] = Part(n + 1, 0, h) /\ body[c] = Part(n + 1, HeaderLen, b)
  /\ h > 0 => n < Len(Declared[c])
  /\ b > 0 => h = HeaderLen
  /\ h = HeaderLen => Declared[c][n + 1] \in 1 .. MaxPayload /\ b < Declared[c][n + 1]

Live == {"away", "backlog", "accepted", "serving", "polling"}

\* What FramesWhole asks of a violation, the number of frames received being n.
Justified(c, n) ==
  \/ peer[c] = "reset"
  \/ /\ taken[c] # Edge(c, n)
     /\ peer[c] = "closed" \/ ~ (n < Len(Declared[c]) /\ Declared[c][n + 1] \in 1 .. MaxPayload)

Framed(c) ==
  /\ arrived[c] \in Nat /\ arrived[c] <= Len(Stream(c))
  /\ \E n \in 0 .. Len(Declared[c]) :
       /\ frames[c] = [f \in 1 .. n |-> Payload(c, f)]
       /\ conn[c] \in Live => ~fatal[c] /\ \E h \in 0 .. HeaderLen, b \in Nat : At(c, n, h, b)
       /\ fatal[c] => Justified(c, n)

FrameInv ==
  /\ kind \in {"frames", "health"}
  /\ DOMAIN conn = Clients /\ DOMAIN peer = Clients /\ DOMAIN arrived = Clients
  /\ DOMAIN taken = Clients /\ DOMAIN header = Clients /\ DOMAIN body = Clients
  /\ DOMAIN frames = Clients /\ DOMAIN fatal = Clients
  /\ kind = "frames" => \A c \in Clients : Framed(c)
  /\ kind = "health" => \A c \in Clients : frames[c] = <<>> /\ ~fatal[c]

\* The function that joins the first sequences of s, by its recurrence.
Joins(s, n) == CHOOSE it : it = [i \in 1 .. n |-> IF i = 1 THEN s[i] ELSE it[i - 1] \o s[i]]

LEMMA FlatIsJoins ==
  ASSUME NEW s, NEW n \in Nat, n # 0, Len(s) = n
  PROVE  FlattenSeq(s) = Joins(s, n)[n]
BY DEF FlattenSeq, Joins

LEMMA JoinsDefined ==
  ASSUME NEW s, NEW n \in Nat
  PROVE  \A i \in 1 .. n : Joins(s, n)[i] = IF i = 1 THEN s[i] ELSE Joins(s, n)[i - 1] \o s[i]
<1> DEFINE Join(it, i) == IF i = 1 THEN s[i] ELSE it[i - 1] \o s[i]
           Solves(m, it) == it = [i \in 1 .. m |-> Join(it, i)]
           Bad == {m \in Nat : ~ \E it : Solves(m, it)}
<1>1. ASSUME Bad # {} PROVE FALSE
  <2>1. PICK m \in Bad : \A l \in Bad : m <= l
    <3>1. Bad \in SUBSET Nat
      OBVIOUS
    <3> HIDE DEF Bad
    <3>2. QED
      BY <1>1, <3>1, LeastNatural
  <2>2. m \in Nat /\ ~ \E it : Solves(m, it)
    OBVIOUS
  <2>3. CASE m = 0
    <3>1. 1 .. m = {}
      BY <2>3
    <3>2. PICK it : it = [i \in {} |-> 0]
      OBVIOUS
    <3>3. it = [i \in 1 .. m |-> Join(it, i)]
      <4> HIDE DEF Join
      <4> QED
        BY <3>1, <3>2
    <3>4. QED
      BY <2>2, <3>3
  <2>4. CASE m # 0
    <3>1. m - 1 \in Nat /\ m - 1 \notin Bad
      <4>1. m - 1 \in Nat /\ ~ (m <= m - 1)
        BY <2>2, <2>4
      <4> HIDE DEF Bad
      <4>2. QED
        BY <2>1, <4>1
    <3>2. PICK low : Solves(m - 1, low)
      BY <3>1
    <3>3. PICK it : it = [i \in 1 .. m |-> Join(low, i)]
      OBVIOUS
    <3>4. ASSUME NEW i \in 1 .. m PROVE Join(low, i) = Join(it, i)
      <4>1. CASE i = 1
        BY <4>1
      <4>2. CASE i # 1
        <5>1. PICK j : j = i - 1
          OBVIOUS
        <5>2. j \in 1 .. m /\ j \in 1 .. m - 1
          BY <2>2, <4>2, <5>1
        <5>3. low[j] = Join(low, j) /\ it[j] = Join(low, j)
          <6> HIDE DEF Join
          <6> QED
            BY <3>2, <3>3, <5>2
        <5>4. low[j] = it[j]
          BY <5>3, Zenon
        <5>5. QED
          BY <4>2, <5>1, <5>4
      <4>3. QED
        BY <4>1, <4>2
    <3>5. it = [i \in 1 .. m |-> Join(it, i)]
      <4> HIDE DEF Join
      <4> QED
        BY <3>3, <3>4
    <3>6. QED
      BY <2>2, <3>5
  <2>5. QED
    BY <2>3, <2>4
<1>2. \E it : it = [i \in 1 .. n |-> Join(it, i)]
  BY <1>1
<1>3. Joins(s, n) = CHOOSE it : it = [i \in 1 .. n |-> Join(it, i)]
  BY DEF Joins
<1>4. PICK g : g = Joins(s, n)
  OBVIOUS
<1>5. g = [i \in 1 .. n |-> Join(g, i)]
  <2> HIDE DEF Join
  <2> QED
    BY <1>2, <1>3, <1>4
<1>6. \A i \in 1 .. n : g[i] = Join(g, i)
  <2> HIDE DEF Join
  <2> QED
    BY <1>5
<1>7. QED
  BY <1>4, <1>6

\* It does not see what comes after.
LEMMA JoinsAgree ==
  ASSUME NEW s, NEW t, NEW n \in Nat, NEW m \in Nat, \A i \in 1 .. n : s[i] = t[i], n <= m
  PROVE  \A i \in 1 .. n : Joins(s, n)[i] = Joins(t, m)[i]
<1> DEFINE Bad == {i \in 1 .. n : Joins(s, n)[i] # Joins(t, m)[i]}
<1>1. ASSUME Bad # {} PROVE FALSE
  <2>1. PICK i \in Bad : \A j \in Bad : i <= j
    <3>1. Bad \in SUBSET Nat
      OBVIOUS
    <3> HIDE DEF Bad
    <3>2. QED
      BY <1>1, <3>1, LeastNatural
  <2>2. i \in 1 .. n /\ i \in 1 .. m /\ Joins(s, n)[i] # Joins(t, m)[i]
    OBVIOUS
  <2>3. /\ Joins(s, n)[i] = IF i = 1 THEN s[i] ELSE Joins(s, n)[i - 1] \o s[i]
        /\ Joins(t, m)[i] = IF i = 1 THEN t[i] ELSE Joins(t, m)[i - 1] \o t[i]
    BY <2>2, JoinsDefined
  <2>4. CASE i = 1
    BY <2>2, <2>3, <2>4
  <2>5. CASE i # 1
    <3>1. i - 1 \in 1 .. n /\ ~ (i <= i - 1)
      BY <2>2, <2>5
    <3>2. i - 1 \notin Bad
      <4> HIDE DEF Bad
      <4> QED
        BY <2>1, <3>1
    <3>3. Joins(s, n)[i - 1] = Joins(t, m)[i - 1]
      BY <3>1, <3>2
    <3>4. QED
      BY <2>2, <2>3, <2>5, <3>3
  <2>6. QED
    BY <2>4, <2>5
<1>2. QED
  BY <1>1

LEMMA FrameBytesType ==
  ASSUME NEW f \in Nat, NEW n \in Nat
  PROVE  /\ FrameBytes(f, n) \in Seq(Bytes) /\ Len(FrameBytes(f, n)) = HeaderLen + n
         /\ \A k \in 1 .. HeaderLen + n : FrameBytes(f, n)[k] = <<f, k>>
<1>1. HeaderLen + n \in Nat
  BY ServerAssumption
<1>2. FrameBytes(f, n) = [k \in 1 .. HeaderLen + n |-> <<f, k>>]
  BY DEF FrameBytes
<1>3. \A k \in 1 .. HeaderLen + n : <<f, k>> \in Bytes
  BY DEF Bytes
<1>4. FrameBytes(f, n) \in Seq(Bytes)
  BY <1>1, <1>2, <1>3, SeqDef
<1>5. QED
  BY <1>1, <1>2, <1>4

\* One more frame: the recurrence of the stream.
LEMMA OneMore ==
  ASSUME NEW c \in Clients, NEW n \in Nat, n < Len(Declared[c])
  PROVE  /\ Sent(c, 0) = <<>>
         /\ n = 0 => Sent(c, n + 1) = FrameBytes(n + 1, Declared[c][n + 1])
         /\ n # 0 => Sent(c, n + 1) = Sent(c, n) \o FrameBytes(n + 1, Declared[c][n + 1])
<1>1. PICK s, t : /\ s = [f \in 1 .. n |-> FrameBytes(f, Declared[c][f])]
                  /\ t = [f \in 1 .. n + 1 |-> FrameBytes(f, Declared[c][f])]
  OBVIOUS
<1>2. Len(s) = n /\ Len(t) = n + 1 /\ n + 1 \in Nat /\ n + 1 # 0
  BY <1>1
<1>3. \A i \in 1 .. n : s[i] = t[i]
  BY <1>1
<1>4. Sent(c, n + 1) = Joins(t, n + 1)[n + 1]
  BY <1>1, <1>2, FlatIsJoins DEF Sent
<1>5. Joins(t, n + 1)[n + 1] = IF n + 1 = 1 THEN t[n + 1] ELSE Joins(t, n + 1)[(n + 1) - 1] \o t[n + 1]
  <2>1. n + 1 \in 1 .. n + 1
    OBVIOUS
  <2>2. QED
    BY <1>2, <2>1, JoinsDefined
<1>6. t[n + 1] = FrameBytes(n + 1, Declared[c][n + 1])
  BY <1>1
<1>7. Sent(c, 0) = <<>>
  <2>1. [f \in 1 .. 0 |-> FrameBytes(f, Declared[c][f])] = <<>>
    OBVIOUS
  <2>2. FlattenSeq(<<>>) = <<>>
    BY EmptySeq DEF FlattenSeq
  <2>3. QED
    BY <2>1, <2>2 DEF Sent
<1>8. ASSUME n # 0 PROVE Joins(t, n + 1)[(n + 1) - 1] = Sent(c, n)
  <2>1. Sent(c, n) = Joins(s, n)[n]
    BY <1>1, <1>2, <1>8, FlatIsJoins DEF Sent
  <2>2. n \in 1 .. n /\ n <= n + 1 /\ (n + 1) - 1 = n
    BY <1>8
  <2>3. Joins(s, n)[n] = Joins(t, n + 1)[n]
    BY <1>2, <1>3, <2>2, JoinsAgree
  <2>4. QED
    BY <2>1, <2>2, <2>3
<1>9. CASE n = 0
  BY <1>4, <1>5, <1>6, <1>7, <1>9
<1>10. CASE n # 0
  <2>1. n + 1 # 1
    BY <1>10
  <2>2. QED
    BY <1>4, <1>5, <1>6, <1>7, <1>8, <1>10, <2>1
<1>11. QED
  BY <1>9, <1>10

\* Where the frames are in the stream.
Placed(c, n) ==
  /\ Sent(c, n) \in Seq(Bytes)
  /\ \A k \in Nat : k < n =>
       /\ Edge(c, k) \in Nat /\ Edge(c, k) + HeaderLen + Declared[c][k + 1] <= Edge(c, n)
       /\ \A i \in 1 .. HeaderLen + Declared[c][k + 1] : Sent(c, n)[Edge(c, k) + i] = <<k + 1, i>>

LEMMA FramesPlaced ==
  ASSUME NEW c \in Clients
  PROVE  \A n \in 0 .. Len(Declared[c]) : Placed(c, n)
<1>1. Declared[c] \in Seq(Nat) /\ Len(Declared[c]) \in Nat /\ HeaderLen \in Nat
  BY ServerAssumption
<1> DEFINE Bad == {n \in 0 .. Len(Declared[c]) : ~Placed(c, n)}
<1>2. ASSUME Bad # {} PROVE FALSE
  <2>1. PICK n \in Bad : \A j \in Bad : n <= j
    <3>1. Bad \in SUBSET Nat
      OBVIOUS
    <3> HIDE DEF Bad
    <3>2. QED
      BY <1>2, <3>1, LeastNatural
  <2>2. n \in 0 .. Len(Declared[c]) /\ ~Placed(c, n)
    OBVIOUS
  <2>3. CASE n = 0
    <3>1. Sent(c, 0) = <<>>
      <4>1. [f \in 1 .. 0 |-> FrameBytes(f, Declared[c][f])] = <<>>
        OBVIOUS
      <4>2. FlattenSeq(<<>>) = <<>>
        BY EmptySeq DEF FlattenSeq
      <4>3. QED
        BY <4>1, <4>2 DEF Sent
    <3>2. Placed(c, 0)
      <4>1. <<>> \in Seq(Bytes)
        OBVIOUS
      <4>2. \A k \in Nat : ~ (k < 0)
        OBVIOUS
      <4>3. QED
        BY <3>1, <4>1, <4>2, Zenon DEF Placed
    <3>3. QED
      BY <2>2, <2>3, <3>2
  <2>4. CASE n # 0
    <3>1. PICK m : m = n - 1
      OBVIOUS
    <3>2. m \in Nat /\ m < Len(Declared[c]) /\ n = m + 1 /\ m \in 0 .. Len(Declared[c]) /\ ~ (n <= m)
      BY <1>1, <2>2, <2>4, <3>1
    <3>3. Placed(c, m)
      <4>1. m \notin Bad
        <5> HIDE DEF Bad
        <5> QED
          BY <2>1, <3>2
      <4>2. QED
        BY <3>2, <4>1
    <3>4. PICK d \in Nat : d = Declared[c][n]
      BY <1>1, <3>2
    <3>5. PICK s, t, fb : s = Sent(c, m) /\ t = Sent(c, n) /\ fb = FrameBytes(n, d)
      OBVIOUS
    <3>6. /\ fb \in Seq(Bytes) /\ Len(fb) = HeaderLen + d /\ n \in Nat
          /\ \A k \in 1 .. HeaderLen + d : fb[k] = <<n, k>>
      <4>1. n \in Nat
        BY <3>2
      <4>2. QED
        BY <3>5, <4>1, FrameBytesType, Zenon
    <3>7. s \in Seq(Bytes) /\ Len(s) \in Nat /\ Edge(c, m) = Len(s) /\ Edge(c, n) = Len(t)
      BY <3>3, <3>5 DEF Placed, Edge
    <3>8. t = s \o fb
      <4>1. CASE m = 0
        <5>1. s = <<>> /\ t = fb
          BY <3>2, <3>4, <3>5, <4>1, OneMore
        <5>2. <<>> \o fb = fb
          BY <3>6, ConcatEmptySeq
        <5>3. QED
          BY <5>1, <5>2
      <4>2. CASE m # 0
        BY <3>2, <3>4, <3>5, <4>2, OneMore
      <4>3. QED
        BY <4>1, <4>2
    <3>9. /\ s \o fb \in Seq(Bytes) /\ Len(s \o fb) = Len(s) + Len(fb)
          /\ \A i \in 1 .. Len(s) + Len(fb) : (s \o fb)[i] = IF i <= Len(s) THEN s[i] ELSE fb[i - Len(s)]
      <4>1. s \in Seq(Bytes) /\ fb \in Seq(Bytes)
        BY <3>6, <3>7
      <4>2. QED
        BY <4>1, ConcatProperties, Zenon
    <3>10. /\ t \in Seq(Bytes) /\ Len(t) = Len(s) + (HeaderLen + d)
           /\ \A i \in 1 .. Len(s) + (HeaderLen + d) : t[i] = IF i <= Len(s) THEN s[i] ELSE fb[i - Len(s)]
      BY <3>6, <3>8, <3>9, Zenon
    <3>11. ASSUME NEW k \in Nat, k < n
           PROVE  /\ Edge(c, k) \in Nat /\ Edge(c, k) + HeaderLen + Declared[c][k + 1] <= Edge(c, n)
                  /\ \A i \in 1 .. HeaderLen + Declared[c][k + 1] : t[Edge(c, k) + i] = <<k + 1, i>>
      <4>1. CASE k = m
        <5>1. /\ Edge(c, k) = Len(s) /\ Declared[c][k + 1] = d /\ k + 1 = n
          BY <3>2, <3>4, <3>7, <4>1
        <5>2. ASSUME NEW i \in 1 .. HeaderLen + d PROVE t[Len(s) + i] = <<n, i>>
          <6>1. /\ Len(s) + i \in 1 .. Len(s) + (HeaderLen + d) /\ ~ (Len(s) + i <= Len(s))
                /\ (Len(s) + i) - Len(s) = i
            BY <1>1, <3>7
          <6>2. QED
            BY <3>6, <3>10, <6>1
        <5>3. Len(s) + HeaderLen + d <= Edge(c, n)
          BY <1>1, <3>7, <3>10
        <5>4. QED
          BY <3>7, <5>1, <5>2, <5>3
      <4>2. CASE k # m
        <5>1. k < m
          BY <3>2, <3>11, <4>2
        <5>2. PICK e \in Nat : e = Declared[c][k + 1]
          BY <1>1, <3>2, <3>11
        <5>3. /\ Edge(c, k) \in Nat /\ Edge(c, k) + HeaderLen + e <= Len(s)
              /\ \A i \in 1 .. HeaderLen + e : s[Edge(c, k) + i] = <<k + 1, i>>
          BY <3>3, <3>5, <3>7, <5>1, <5>2 DEF Placed
        <5>4. PICK g \in Nat : g = Edge(c, k)
          BY <5>3
        <5>5. ASSUME NEW i \in 1 .. HeaderLen + e PROVE t[g + i] = <<k + 1, i>>
          <6>1. g + i \in 1 .. Len(s) + (HeaderLen + d) /\ g + i <= Len(s)
            <7>1. PICK l \in Nat : l = Len(s)
              BY <3>7
            <7>2. g + HeaderLen + e <= l
              BY <5>3, <5>4, <7>1
            <7>3. g + i \in 1 .. l + (HeaderLen + d) /\ g + i <= l
              BY <1>1, <7>2
            <7>4. QED
              BY <7>1, <7>3
          <6>2. QED
            BY <3>10, <5>3, <5>4, <6>1
        <5>6. g + HeaderLen + e <= Edge(c, n)
          BY <1>1, <3>7, <3>10, <5>3, <5>4
        <5>7. QED
          BY <5>2, <5>4, <5>5, <5>6
      <4>3. QED
        BY <4>1, <4>2
    <3>12. Placed(c, n)
      BY <3>5, <3>10, <3>11 DEF Placed
    <3>13. QED
      BY <2>2, <3>12
  <2>5. QED
    BY <2>3, <2>4
<1>3. QED
  BY <1>2

LEMMA StreamPlaced ==
  ASSUME FrameInv, kind = "frames", NEW c \in Clients
  PROVE  /\ Stream(c) \in Seq(Bytes) /\ Len(Stream(c)) \in Nat
         /\ Edge(c, Len(Declared[c])) = Len(Stream(c)) /\ Edge(c, 0) = 0
         /\ \A n \in 0 .. Len(Declared[c]) : Edge(c, n) \in Nat
         /\ \A n \in 0 .. Len(Declared[c]) : n < Len(Declared[c]) =>
              /\ Edge(c, n + 1) = Edge(c, n) + HeaderLen + Declared[c][n + 1]
              /\ Edge(c, n + 1) <= Len(Stream(c))
              /\ \A i \in 1 .. HeaderLen + Declared[c][n + 1] :
                   Stream(c)[Edge(c, n) + i] = <<n + 1, i>>
<1>1. PICK l : l = Len(Declared[c])
  OBVIOUS
<1>2. Declared[c] \in Seq(Nat) /\ l \in Nat /\ HeaderLen \in Nat /\ DOMAIN Declared[c] = 1 .. l
  BY <1>1, ServerAssumption
<1>3. Stream(c) = Sent(c, l)
  BY <1>2 DEF Stream, Sent
<1>4. \A n \in 0 .. l : Placed(c, n)
  BY <1>1, FramesPlaced
<1>5. \A n \in 0 .. l : Sent(c, n) \in Seq(Bytes) /\ Edge(c, n) \in Nat
  BY <1>4 DEF Placed, Edge
<1>6. Stream(c) \in Seq(Bytes) /\ Len(Stream(c)) \in Nat /\ Edge(c, l) = Len(Stream(c))
  BY <1>2, <1>3, <1>5 DEF Edge
<1>7. Edge(c, 0) = 0
  <2>1. [f \in 1 .. 0 |-> FrameBytes(f, Declared[c][f])] = <<>>
    OBVIOUS
  <2>2. FlattenSeq(<<>>) = <<>>
    BY EmptySeq DEF FlattenSeq
  <2>3. QED
    BY <2>1, <2>2, EmptySeq DEF Sent, Edge
<1>8. ASSUME NEW n \in 0 .. l, n < l
      PROVE  /\ Edge(c, n + 1) = Edge(c, n) + HeaderLen + Declared[c][n + 1]
             /\ Edge(c, n + 1) <= Edge(c, l)
             /\ \A i \in 1 .. HeaderLen + Declared[c][n + 1] : Stream(c)[Edge(c, n) + i] = <<n + 1, i>>
  <2>1. n \in Nat /\ n + 1 \in 1 .. l /\ Declared[c][n + 1] \in Nat /\ l \in 0 .. l /\ n + 1 \in 0 .. l
    BY <1>2, <1>8
  <2>2. /\ FrameBytes(n + 1, Declared[c][n + 1]) \in Seq(Bytes)
        /\ Len(FrameBytes(n + 1, Declared[c][n + 1])) = HeaderLen + Declared[c][n + 1]
    <3>1. n + 1 \in Nat
      BY <2>1
    <3>2. QED
      BY <2>1, <3>1, FrameBytesType, Zenon
  <2>3. Edge(c, n + 1) = Edge(c, n) + (HeaderLen + Declared[c][n + 1])
    <3>1. PICK d : d = FrameBytes(n + 1, Declared[c][n + 1])
      OBVIOUS
    <3>2. n < Len(Declared[c])
      BY <1>1, <1>8
    <3>3. CASE n = 0
      <4>1. Sent(c, n + 1) = d
        BY <2>1, <3>1, <3>2, <3>3, OneMore
      <4>2. QED
        BY <1>2, <1>7, <2>1, <2>2, <3>1, <3>3, <4>1 DEF Edge
    <3>4. CASE n # 0
      <4>1. Sent(c, n + 1) = Sent(c, n) \o d
        BY <2>1, <3>1, <3>2, <3>4, OneMore
      <4>2. PICK s : s = Sent(c, n)
        OBVIOUS
      <4>3. s \in Seq(Bytes) /\ d \in Seq(Bytes)
        BY <1>5, <2>2, <3>1, <4>2
      <4>4. Len(s \o d) = Len(s) + Len(d)
        BY <4>3, ConcatProperties, Zenon
      <4>5. QED
        BY <2>2, <3>1, <4>1, <4>2, <4>4 DEF Edge
    <3>5. QED
      BY <3>3, <3>4
  <2>4. /\ Edge(c, n) + HeaderLen + Declared[c][n + 1] <= Edge(c, l)
        /\ \A i \in 1 .. HeaderLen + Declared[c][n + 1] : Sent(c, l)[Edge(c, n) + i] = <<n + 1, i>>
    BY <1>4, <1>8, <2>1 DEF Placed
  <2>5. PICK e \in Nat, d \in Nat : e = Edge(c, n) /\ d = Declared[c][n + 1]
    BY <1>5, <1>8, <2>1
  <2>6. Edge(c, n + 1) = e + HeaderLen + d /\ e + HeaderLen + d <= Edge(c, l)
    BY <1>2, <2>3, <2>4, <2>5
  <2>7. QED
    BY <1>3, <2>4, <2>5, <2>6
<1>9. QED
  BY <1>1, <1>5, <1>6, <1>7, <1>8

\* The m items of S after at are those of frame f after from + h.
Continues(S, at, m, f, from, h) ==
  at + m <= Len(S) /\ \A i \in 1 .. m : S[at + i] = <<f, from + h + i>>

Piece(S, at, m) == SubSeq(S, at + 1, at + m)

\* Reading them gives a longer part of that frame.
Reads(S, at, m, f, from, h) ==
  /\ Len(Piece(S, at, m)) = m
  /\ Part(f, from, h) \o Piece(S, at, m) = Part(f, from, h + m)

\* What is read of a frame goes on where the last read stopped.
LEMMA PartRead ==
  ASSUME NEW S \in Seq(Bytes), NEW f \in Nat, NEW from \in Nat, NEW h \in Nat,
         NEW at \in Nat, NEW m \in Nat \ {0}, Continues(S, at, m, f, from, h)
  PROVE  Reads(S, at, m, f, from, h)
<1>2. \A n \in Nat : /\ Part(f, from, n) \in Seq(Bytes) /\ Len(Part(f, from, n)) = n
                     /\ \A k \in 1 .. n : Part(f, from, n)[k] = <<f, from + k>>
  <2> SUFFICES ASSUME NEW n \in Nat
               PROVE  /\ Part(f, from, n) \in Seq(Bytes) /\ Len(Part(f, from, n)) = n
                      /\ \A k \in 1 .. n : Part(f, from, n)[k] = <<f, from + k>>
    OBVIOUS
  <2>1. \A k \in 1 .. n : <<f, from + k>> \in Bytes
    BY DEF Bytes
  <2>2. Part(f, from, n) = [k \in 1 .. n |-> <<f, from + k>>]
    BY DEF Part
  <2>3. PICK g : g = Part(f, from, n)
    OBVIOUS
  <2>4. g \in [1 .. n -> Bytes]
    BY <2>1, <2>2, <2>3
  <2>5. g \in Seq(Bytes)
    BY <2>4, SeqDef
  <2>6. Len(g) = n /\ \A k \in 1 .. n : g[k] = <<f, from + k>>
    <3>1. \A k \in 1 .. n : g[k] = <<f, from + k>>
      BY <2>2, <2>3
    <3>2. QED
      BY <2>4, <2>5, <3>1
  <2>7. QED
    BY <2>3, <2>5, <2>6
<1>3. PICK p, q, r : p = Part(f, from, h) /\ q = SubSeq(S, at + 1, at + m) /\ r = Part(f, from, h + m)
  OBVIOUS
<1>4. q \in Seq(Bytes) /\ Len(q) = m /\ \A i \in 1 .. m : q[i] = <<f, from + h + i>>
  <2>1. Len(S) \in Nat /\ S \in Seq(Bytes)
    OBVIOUS
  <2>2. at + 1 \in Nat /\ at + m \in Nat /\ 1 <= at + 1 /\ at + m <= Len(S)
    BY DEF Continues
  <2>3. /\ SubSeq(S, at + 1, at + m) \in Seq(Bytes) /\ Len(SubSeq(S, at + 1, at + m)) = m
        /\ \A i \in 1 .. m : SubSeq(S, at + 1, at + m)[i] = S[at + i]
    BY <2>1, <2>2
  <2>4. QED
    BY <1>3, <2>3 DEF Continues
<1>5. /\ h + m \in Nat /\ p \in Seq(Bytes) /\ Len(p) = h /\ r \in Seq(Bytes) /\ Len(r) = h + m
      /\ \A k \in 1 .. h : p[k] = <<f, from + k>>
      /\ \A k \in 1 .. h + m : r[k] = <<f, from + k>>
  <2>1. PICK g : g = h + m
    OBVIOUS
  <2>2. g \in Nat
    BY <2>1
  <2>3. r = Part(f, from, g)
    BY <1>3, <2>1
  <2>4. r \in Seq(Bytes) /\ Len(r) = g /\ \A k \in 1 .. g : r[k] = <<f, from + k>>
    BY <1>2, <2>2, <2>3, Zenon
  <2>5. p \in Seq(Bytes) /\ Len(p) = h /\ \A k \in 1 .. h : p[k] = <<f, from + k>>
    BY <1>2, <1>3, Zenon
  <2>6. QED
    BY <2>1, <2>2, <2>4, <2>5
<1>6. /\ p \o q \in Seq(Bytes) /\ Len(p \o q) = Len(p) + Len(q)
      /\ \A k \in 1 .. Len(p) + Len(q) : (p \o q)[k] = IF k <= Len(p) THEN p[k] ELSE q[k - Len(p)]
  BY <1>4, <1>5, ConcatProperties, Zenon
<1>7. PICK w : w = p \o q
  OBVIOUS
<1>8. /\ w \in Seq(Bytes) /\ Len(w) = h + m
      /\ \A k \in 1 .. h + m : w[k] = IF k <= h THEN p[k] ELSE q[k - h]
  BY <1>4, <1>5, <1>6, <1>7, Zenon
<1>9. ASSUME NEW k \in 1 .. h + m PROVE w[k] = r[k]
  <2>1. CASE k <= h
    <3>1. k \in 1 .. h
      BY <2>1
    <3>2. w[k] = p[k]
      BY <1>8, <2>1, Zenon
    <3>3. p[k] = <<f, from + k>> /\ r[k] = <<f, from + k>>
      BY <1>5, <3>1, Zenon
    <3>4. QED
      BY <3>2, <3>3, Zenon
  <2>2. CASE ~ (k <= h)
    <3>1. k - h \in 1 .. m /\ from + h + (k - h) = from + k
      BY <2>2
    <3>2. QED
      BY <1>4, <1>5, <1>8, <2>2, <3>1
  <2>3. QED
    BY <2>1, <2>2
<1>10. w = r
  BY <1>5, <1>8, <1>9, SeqEqual
<1>11. QED
  BY <1>3, <1>4, <1>7, <1>10 DEF Piece, Reads

\* A full header tells which frame it is of.
LEMMA HeaderKnown ==
  ASSUME NEW c \in Clients, NEW n \in Nat, n < Len(Declared[c])
  PROVE  LengthIn(c, Part(n + 1, 0, HeaderLen)) = Declared[c][n + 1]
<1>1. HeaderLen \in Nat /\ HeaderLen >= 1 /\ Len(Declared[c]) \in Nat /\ DOMAIN Declared[c] = 1 .. Len(Declared[c])
  BY ServerAssumption
<1>2. n + 1 \in DOMAIN Declared[c]
  BY <1>1
<1>3. \A f \in DOMAIN Declared[c] : Part(f, 0, HeaderLen) = FrameBytes(f, 0)
  BY <1>1 DEF Part, FrameBytes
<1>4. \A f \in DOMAIN Declared[c] : Part(f, 0, HeaderLen)[1] = <<f, 1>>
  BY <1>1 DEF Part
<1>5. \A f \in DOMAIN Declared[c] : Part(n + 1, 0, HeaderLen) = FrameBytes(f, 0) <=> f = n + 1
  BY <1>2, <1>3, <1>4
<1>6. QED
  BY <1>2, <1>5 DEF LengthIn

-----------------------------------------------------------------------------
(* The steps of the frames *)

LEMMA PartNone == ASSUME NEW f, NEW from PROVE Part(f, from, 0) = <<>>
BY DEF Part

LEMMA FrameStart == Init => FrameInv
<1> SUFFICES ASSUME Init PROVE FrameInv
  OBVIOUS
<1>1. /\ kind \in {"frames", "health"}
      /\ DOMAIN conn = Clients /\ DOMAIN peer = Clients /\ DOMAIN arrived = Clients
      /\ DOMAIN taken = Clients /\ DOMAIN header = Clients /\ DOMAIN body = Clients
      /\ DOMAIN frames = Clients /\ DOMAIN fatal = Clients
      /\ \A c \in Clients : /\ conn[c] = "away" /\ arrived[c] = 0 /\ taken[c] = 0
                            /\ header[c] = <<>> /\ body[c] = <<>> /\ frames[c] = <<>> /\ ~fatal[c]
  BY DEF Init
<1>2. ASSUME NEW c \in Clients, kind = "frames" PROVE Framed(c)
  <2>1. PICK l : l = Len(Declared[c])
    OBVIOUS
  <2>2. l \in Nat /\ HeaderLen \in Nat /\ HeaderLen # 0 /\ 0 \in 0 .. l /\ 0 \in 0 .. HeaderLen
        /\ DOMAIN Declared[c] = 1 .. l
    BY <2>1, ServerAssumption
  <2>3. Edge(c, 0) = 0
    <3>1. [f \in 1 .. 0 |-> FrameBytes(f, Declared[c][f])] = <<>>
      OBVIOUS
    <3>2. FlattenSeq(<<>>) = <<>>
      BY EmptySeq DEF FlattenSeq
    <3>3. QED
      BY <3>1, <3>2, EmptySeq DEF Sent, Edge
  <2>4. At(c, 0, 0, 0)
    BY <1>1, <2>2, <2>3, PartNone DEF At
  <2>5. 0 <= Len(Stream(c))
    <3>1. Stream(c) = Sent(c, l)
      BY <1>2, <2>2 DEF Stream, Sent
    <3>2. Placed(c, l)
      BY <2>1, <2>2, FramesPlaced
    <3>3. QED
      BY <3>1, <3>2 DEF Placed
  <2>6. frames[c] = [f \in 1 .. 0 |-> Payload(c, f)]
    BY <1>1
  <2>7. \E h \in 0 .. HeaderLen, b \in Nat : At(c, 0, h, b)
    BY <2>2, <2>4
  <2>8. QED
    BY <1>1, <2>1, <2>2, <2>5, <2>6, <2>7 DEF Framed
<1>3. QED
  BY <1>1, <1>2 DEF FrameInv

SameReader(x) ==
  /\ taken'[x] = taken[x] /\ header'[x] = header[x] /\ body'[x] = body[x]
  /\ frames'[x] = frames[x] /\ fatal'[x] = fatal[x]

Domains ==
  /\ DOMAIN conn = Clients /\ DOMAIN peer = Clients /\ DOMAIN arrived = Clients
  /\ DOMAIN taken = Clients /\ DOMAIN header = Clients /\ DOMAIN body = Clients
  /\ DOMAIN frames = Clients /\ DOMAIN fatal = Clients

\* A connection that reads nothing.
LEMMA QuietFramed ==
  ASSUME FrameInv, kind = "frames", kind' = kind, NEW c \in Clients, SameReader(c),
         arrived'[c] \in Nat, arrived'[c] <= Len(Stream(c)),
         conn'[c] \in Live => conn[c] \in Live, peer'[c] = peer[c] \/ conn[c] \in Live
  PROVE  Framed(c)'
<1>1. PICK n \in 0 .. Len(Declared[c]) :
        /\ frames[c] = [f \in 1 .. n |-> Payload(c, f)]
        /\ conn[c] \in Live => ~fatal[c] /\ \E h \in 0 .. HeaderLen, b \in Nat : At(c, n, h, b)
        /\ fatal[c] => Justified(c, n)
  BY DEF FrameInv, Framed
<1>2. \A h, b : At(c, n, h, b) => At(c, n, h, b)'
  BY DEF At, SameReader, Part, Edge, Sent, FrameBytes
<1>3. conn'[c] \in Live => ~fatal'[c] /\ \E h \in 0 .. HeaderLen, b \in Nat : At(c, n, h, b)'
  BY <1>1, <1>2 DEF SameReader
<1>4. fatal'[c] => Justified(c, n)'
  BY <1>1 DEF SameReader, Justified
<1>5. Stream(c)' = Stream(c)
  BY DEF Stream
<1>6. frames'[c] = [f \in 1 .. n |-> Payload(c, f)]
  BY <1>1 DEF SameReader
<1>7. QED
  BY <1>3, <1>4, <1>5, <1>6 DEF Framed, Payload

LEMMA QuietStep ==
  ASSUME FrameInv, kind' = kind, Domains', \A c \in Clients : SameReader(c),
         \A c \in Clients : conn'[c] \in Live => conn[c] \in Live,
         \A c \in Clients : peer'[c] = peer[c] \/ conn[c] \in Live,
         \A c \in Clients : arrived'[c] = arrived[c]
                            \/ (arrived'[c] = arrived[c] + 1 /\ arrived[c] < Len(Stream(c)))
  PROVE  FrameInv'
<1>1. ASSUME kind = "frames", NEW c \in Clients PROVE Framed(c)'
  <2>1. SameReader(c)
    OBVIOUS
  <2>2. arrived'[c] \in Nat /\ arrived'[c] <= Len(Stream(c))
    <3>1. arrived[c] \in Nat /\ arrived[c] <= Len(Stream(c)) /\ Len(Stream(c)) \in Nat
      BY <1>1, StreamPlaced DEF FrameInv, Framed
    <3>2. QED
      BY <1>1, <3>1
  <2>3. QED
    BY <1>1, <2>1, <2>2, QuietFramed
<1>2. QED
  BY <1>1 DEF FrameInv, Domains, SameReader

\* The health server knows no frames.
LEMMA HealthStep ==
  ASSUME FrameInv, kind = "health", kind' = kind, Domains', UNCHANGED <<frames, fatal>>
  PROVE  FrameInv'
BY DEF FrameInv, Domains

\* One connection reads.
LEMMA OneFramed ==
  ASSUME FrameInv, kind = "frames", kind' = kind, NEW c \in Clients, Domains', Framed(c)',
         UNCHANGED <<peer, arrived>>,
         \A x \in Clients \ {c} : SameReader(x) /\ conn'[x] = conn[x]
  PROVE  FrameInv'
<1>1. ASSUME NEW x \in Clients \ {c} PROVE Framed(x)'
  BY <1>1, QuietFramed DEF FrameInv, Framed
<1>2. QED
  BY <1>1 DEF FrameInv, Domains

\* What a connection may read of its next frame: there is one, and it is where the
\* stream goes on.
LEMMA NextBytes ==
  ASSUME FrameInv, kind = "frames", NEW c \in Clients, NEW n \in 0 .. Len(Declared[c]),
         NEW h \in 0 .. HeaderLen, NEW b \in Nat, At(c, n, h, b), NEW room \in Int,
         NEW bytes \in Readable(c, room)
  PROVE  /\ n < Len(Declared[c]) /\ Declared[c][n + 1] \in Nat
         /\ \E m \in Nat \ {0} :
              /\ m <= room /\ bytes = SubSeq(Stream(c), taken[c] + 1, taken[c] + m)
              /\ taken[c] + m <= Len(Stream(c))
<1>1. PICK l : l = Len(Declared[c])
  OBVIOUS
<1>2. l \in Nat /\ n \in Nat /\ HeaderLen \in Nat /\ h \in Nat /\ Declared[c] \in Seq(Nat)
  BY <1>1, ServerAssumption
<1>3. /\ Stream(c) \in Seq(Bytes) /\ Len(Stream(c)) \in Nat /\ Edge(c, l) = Len(Stream(c))
      /\ Edge(c, n) \in Nat /\ arrived[c] \in Nat /\ arrived[c] <= Len(Stream(c))
  BY <1>1, StreamPlaced DEF FrameInv, Framed
<1>4. taken[c] = Edge(c, n) + h + b /\ taken[c] \in Nat
  BY <1>2, <1>3 DEF At
<1>5. PICK m \in 1 .. (IF room < arrived[c] - taken[c] THEN room ELSE arrived[c] - taken[c]) :
        bytes = SubSeq(Stream(c), taken[c] + 1, taken[c] + m)
  BY DEF Readable
<1>6. m \in Nat \ {0} /\ m <= room /\ m <= arrived[c] - taken[c]
  <2>1. PICK a \in Int : a = arrived[c] - taken[c]
    BY <1>3, <1>4
  <2>2. m \in 1 .. (IF room < a THEN room ELSE a)
    BY <1>5, <2>1
  <2>3. QED
    BY <2>1, <2>2
<1>7. taken[c] + m <= Len(Stream(c))
  BY <1>3, <1>4, <1>6
<1>8. n < l
  <2>1. ASSUME n = l PROVE FALSE
    <3>1. taken[c] >= Len(Stream(c))
      BY <1>2, <1>3, <1>4, <2>1
    <3>2. QED
      BY <1>3, <1>4, <1>6, <1>7, <3>1
  <2>2. QED
    BY <1>1, <1>2, <2>1
<1>9. Declared[c][n + 1] \in Nat
  BY <1>1, <1>2, <1>8
<1>10. QED
  BY <1>1, <1>5, <1>6, <1>7, <1>8, <1>9

\* Where a live connection is.
LEMMA LiveAt ==
  ASSUME FrameInv, kind = "frames", NEW c \in Clients, conn[c] \in Live
  PROVE  \E n \in 0 .. Len(Declared[c]), h \in 0 .. HeaderLen, b \in Nat :
           /\ frames[c] = [f \in 1 .. n |-> Payload(c, f)] /\ ~fatal[c] /\ At(c, n, h, b)
<1>1. PICK n \in 0 .. Len(Declared[c]) :
        /\ frames[c] = [f \in 1 .. n |-> Payload(c, f)]
        /\ ~fatal[c] /\ \E h \in 0 .. HeaderLen, b \in Nat : At(c, n, h, b)
  BY DEF FrameInv, Framed
<1>2. QED
  BY <1>1

LEMMA PartLength ==
  ASSUME NEW f \in Nat, NEW from \in Nat, NEW n \in Nat
  PROVE  Len(Part(f, from, n)) = n
<1>1. PICK g : g = Part(f, from, n)
  OBVIOUS
<1>2. g = [k \in 1 .. n |-> <<f, from + k>>]
  BY <1>1 DEF Part
<1>3. g \in Seq(Bytes)
  <2>1. \A k \in 1 .. n : <<f, from + k>> \in Bytes
    BY DEF Bytes
  <2>2. g \in [1 .. n -> Bytes]
    BY <1>2, <2>1
  <2>3. QED
    BY <2>2, SeqDef
<1>4. QED
  BY <1>1, <1>2, <1>3

LEMMA DeclaredType ==
  ASSUME NEW c \in Clients, NEW n \in Nat, n < Len(Declared[c])
  PROVE  Declared[c][n + 1] \in Nat
<1>1. Declared[c] \in Seq(Nat) /\ n + 1 \in 1 .. Len(Declared[c])
  BY ServerAssumption
<1>2. QED
  BY <1>1

LEMMA WithinFrame ==
  ASSUME NEW e \in Nat, NEW from \in Nat, NEW h \in Nat, NEW m \in Nat, NEW size \in Nat,
         from + h + m <= size, NEW i \in 1 .. m
  PROVE  from + h + i \in 1 .. size /\ (e + from + h) + i = e + (from + h + i)
OBVIOUS

\* A read takes from the stream the next bytes of the frame it is in.
LEMMA NextPiece ==
  ASSUME FrameInv, kind = "frames", NEW c \in Clients, NEW n \in 0 .. Len(Declared[c]),
         n < Len(Declared[c]), NEW from \in Nat, NEW h \in Nat, NEW m \in Nat \ {0},
         NEW at \in Nat, at = Edge(c, n) + from + h, at + m <= Len(Stream(c)),
         from + h + m <= HeaderLen + Declared[c][n + 1]
  PROVE  Reads(Stream(c), at, m, n + 1, from, h)
<1>1. PICK l : l = Len(Declared[c])
  OBVIOUS
<1>2. /\ l \in Nat /\ n \in Nat /\ n + 1 \in Nat /\ HeaderLen \in Nat /\ n < l
      /\ Declared[c] \in Seq(Nat)
  BY <1>1, ServerAssumption
<1>3. PICK d \in Nat : d = Declared[c][n + 1]
  BY <1>2, DeclaredType
<1>4. PICK e \in Nat, S \in Seq(Bytes) : e = Edge(c, n) /\ S = Stream(c)
  BY StreamPlaced
<1>5. \A i \in 1 .. HeaderLen + d : S[e + i] = <<n + 1, i>>
  BY <1>3, <1>4, StreamPlaced
<1>6. ASSUME NEW i \in 1 .. m PROVE S[at + i] = <<n + 1, from + h + i>>
  <2>1. PICK size \in Nat : size = HeaderLen + d
    BY <1>2
  <2>2. from + h + i \in 1 .. size /\ (e + from + h) + i = e + (from + h + i)
    <3>1. m \in Nat /\ from + h + m <= size
      BY <1>3, <2>1
    <3>2. QED
      BY <3>1, WithinFrame
  <2>3. QED
    BY <1>4, <1>5, <2>1, <2>2
<1>7. Continues(S, at, m, n + 1, from, h)
  BY <1>4, <1>6 DEF Continues
<1>8. PICK f \in Nat : f = n + 1
  BY <1>2
<1>9. Continues(S, at, m, f, from, h)
  BY <1>7, <1>8
<1>10. Reads(S, at, m, f, from, h)
  BY <1>9, PartRead, Zenon
<1>11. QED
  BY <1>4, <1>8, <1>10

LEMMA HeaderStep ==
  ASSUME FrameInv, NEW c \in Clients, ReadHeader(c)
  PROVE  FrameInv'
<1>1. /\ kind = "frames" /\ kind' = kind /\ conn[c] = "polling" /\ conn[c] \in Live
      /\ UNCHANGED <<peer, arrived, body, frames>>
  BY DEF ReadHeader, ServeUnchanged, Live
<1>2. PICK n \in 0 .. Len(Declared[c]), h \in 0 .. HeaderLen, b \in Nat :
        frames[c] = [f \in 1 .. n |-> Payload(c, f)] /\ ~fatal[c] /\ At(c, n, h, b)
  BY <1>1, LiveAt
<1>3. PICK l : l = Len(Declared[c])
  OBVIOUS
<1>4. l \in Nat /\ n \in Nat /\ n + 1 \in Nat /\ HeaderLen \in Nat /\ h \in Nat /\ h <= HeaderLen
  BY <1>3, ServerAssumption
<1>5. header[c] = Part(n + 1, 0, h) /\ Len(header[c]) = h
  <2>1. header[c] = Part(n + 1, 0, h)
    BY <1>2 DEF At
  <2>2. 0 \in Nat
    OBVIOUS
  <2>3. QED
    BY <1>4, <2>1, <2>2, PartLength
<1>6. h < HeaderLen /\ b = 0 /\ body[c] = Part(n + 1, HeaderLen, 0) /\ taken[c] = Edge(c, n) + h
  <2>1. h < HeaderLen
    BY <1>5 DEF ReadHeader
  <2>2. b = 0
    BY <1>2, <1>4, <2>1 DEF At
  <2>3. Edge(c, n) \in Nat
    BY <1>1, StreamPlaced
  <2>4. QED
    BY <1>2, <1>4, <2>1, <2>2, <2>3 DEF At
<1>7. PICK bytes \in Readable(c, HeaderLen - h) :
        LET w == header[c] \o bytes
            refused == Len(w) = HeaderLen /\ LengthIn(c, w) \notin 1 .. MaxPayload
        IN /\ taken' = [taken EXCEPT ![c] = @ + Len(bytes)]
           /\ header' = [header EXCEPT ![c] = IF refused THEN <<>> ELSE w]
           /\ fatal' = [fatal EXCEPT ![c] = refused]
           /\ conn' = [conn EXCEPT ![c] = IF refused THEN "leaving" ELSE "polling"]
  BY <1>5 DEF ReadHeader, Take, Goto
<1>8. PICK d \in Nat : d = Declared[c][n + 1] /\ n < l
  <2>1. HeaderLen - h \in Int
    BY <1>4
  <2>2. QED
    BY <1>1, <1>2, <1>3, <2>1, NextBytes
<1>9. PICK m \in Nat \ {0} :
        /\ m <= HeaderLen - h /\ bytes = SubSeq(Stream(c), taken[c] + 1, taken[c] + m)
        /\ taken[c] + m <= Len(Stream(c))
  <2>1. HeaderLen - h \in Int
    BY <1>4
  <2>2. QED
    BY <1>1, <1>2, <2>1, NextBytes
<1>10. /\ Edge(c, n) \in Nat /\ Stream(c) \in Seq(Bytes)
       /\ \A i \in 1 .. HeaderLen + d : Stream(c)[Edge(c, n) + i] = <<n + 1, i>>
  BY <1>1, <1>3, <1>8, StreamPlaced
<1>11. PICK w, k : w = header[c] \o bytes /\ k = h + m
  OBVIOUS
<1>12. k \in 1 .. HeaderLen /\ k \in 0 .. HeaderLen
  BY <1>4, <1>9, <1>11
<1>13. Len(bytes) = m /\ w = Part(n + 1, 0, k)
  <2>1. PICK at \in Nat : at = taken[c]
    BY <1>4, <1>6, <1>10
  <2>2. at + m <= Len(Stream(c)) /\ at = Edge(c, n) + 0 + h /\ 0 \in Nat /\ n < Len(Declared[c])
    BY <1>3, <1>4, <1>6, <1>8, <1>9, <1>10, <2>1
  <2>3. 0 + h + m <= HeaderLen + d
    BY <1>4, <1>9
  <2>4. Reads(Stream(c), at, m, n + 1, 0, h)
    BY <1>1, <1>4, <1>8, <2>2, <2>3, NextPiece
  <2>5. QED
    BY <1>5, <1>9, <1>11, <2>1, <2>4 DEF Piece, Reads
<1>14. Len(w) = k
  <2>1. k \in Nat /\ 0 \in Nat
    BY <1>12
  <2>2. QED
    BY <1>4, <1>13, <2>1, PartLength
<1>15. k = HeaderLen => LengthIn(c, w) = d
  BY <1>3, <1>4, <1>8, <1>13, HeaderKnown
<1>16. PICK refused \in BOOLEAN : refused <=> k = HeaderLen /\ d \notin 1 .. MaxPayload
  OBVIOUS
<1>17. (Len(w) = HeaderLen /\ LengthIn(c, w) \notin 1 .. MaxPayload) <=> refused
  BY <1>14, <1>15, <1>16
<1>18. /\ taken' = [taken EXCEPT ![c] = @ + m]
       /\ header' = [header EXCEPT ![c] = IF refused THEN <<>> ELSE w]
       /\ fatal' = [fatal EXCEPT ![c] = refused]
       /\ conn' = [conn EXCEPT ![c] = IF refused THEN "leaving" ELSE "polling"]
  <2>1. PICK whole : whole = (Len(w) = HeaderLen /\ LengthIn(c, w) \notin 1 .. MaxPayload)
    OBVIOUS
  <2>2. whole = refused
    BY <1>16, <1>17, <2>1
  <2>3. /\ taken' = [taken EXCEPT ![c] = @ + Len(bytes)]
        /\ header' = [header EXCEPT ![c] = IF whole THEN <<>> ELSE w]
        /\ fatal' = [fatal EXCEPT ![c] = whole]
        /\ conn' = [conn EXCEPT ![c] = IF whole THEN "leaving" ELSE "polling"]
    BY <1>7, <1>11, <2>1
  <2>4. QED
    BY <1>13, <2>2, <2>3
<1>19. Domains' /\ \A x \in Clients \ {c} : SameReader(x) /\ conn'[x] = conn[x]
  BY <1>1, <1>18 DEF FrameInv, Domains, SameReader
<1>20. /\ taken'[c] = Edge(c, n) + k + 0 /\ fatal'[c] = refused
       /\ header'[c] = IF refused THEN <<>> ELSE w
       /\ conn'[c] = IF refused THEN "leaving" ELSE "polling"
       /\ body'[c] = Part(n + 1, HeaderLen, 0)
  <2>1. taken'[c] = taken[c] + m
    BY <1>18 DEF FrameInv
  <2>2. taken'[c] = Edge(c, n) + k + 0
    BY <1>4, <1>6, <1>9, <1>10, <1>11, <2>1
  <2>3. QED
    BY <1>1, <1>6, <1>18, <2>2 DEF FrameInv
<1>21. Edge(c, n)' = Edge(c, n) /\ Stream(c)' = Stream(c)
  BY <1>1 DEF Edge, Sent, FrameBytes, Stream
<1>22. CASE refused
  <2>1. conn'[c] \notin Live
    BY <1>20, <1>22 DEF Live
  <2>2. taken'[c] # Edge(c, n)
    BY <1>10, <1>12, <1>20
  <2>3. Justified(c, n)'
    BY <1>8, <1>16, <1>21, <1>22, <2>2 DEF Justified
  <2>4. Framed(c)'
    BY <1>1, <1>2, <1>21, <2>1, <2>3 DEF Framed, FrameInv, Payload
  <2>5. QED
    BY <1>1, <1>19, <2>4, OneFramed
<1>23. CASE ~refused
  <2>1. At(c, n, k, 0)'
    <3>1. k = HeaderLen => d \in 1 .. MaxPayload /\ 0 < d
      BY <1>8, <1>16, <1>23
    <3>2. header'[c] = Part(n + 1, 0, k)
      BY <1>13, <1>20, <1>23
    <3>3. header'[c] = Part(n + 1, 0, k)' /\ body'[c] = Part(n + 1, HeaderLen, 0)'
      BY <1>20, <3>2 DEF Part
    <3>4. taken'[c] = Edge(c, n)' + k + 0
      BY <1>20, <1>21
    <3>5. k = HeaderLen => Declared[c][n + 1] \in 1 .. MaxPayload /\ 0 < Declared[c][n + 1]
      BY <1>8, <3>1
    <3>6. QED
      BY <1>3, <1>8, <3>3, <3>4, <3>5 DEF At
  <2>2. ~fatal'[c] /\ \E i \in 0 .. HeaderLen, j \in Nat : At(c, n, i, j)'
    <3>1. 0 \in Nat
      OBVIOUS
    <3>2. QED
      BY <1>12, <1>20, <1>23, <2>1, <3>1
  <2>3. Framed(c)'
    BY <1>1, <1>2, <1>21, <2>2 DEF Framed, FrameInv, Payload
  <2>4. QED
    BY <1>1, <1>19, <2>3, OneFramed
<1>24. QED
  BY <1>22, <1>23

LEMMA AppendPayload ==
  ASSUME NEW c, NEW n \in Nat, NEW s, s = [f \in 1 .. n |-> Payload(c, f)]
  PROVE  Append(s, Payload(c, n + 1)) = [f \in 1 .. n + 1 |-> Payload(c, f)]
<1>1. PICK P : P = {Payload(c, f) : f \in 1 .. n + 1}
  OBVIOUS
<1>2. PICK r, p : r = [f \in 1 .. n + 1 |-> Payload(c, f)] /\ p = Payload(c, n + 1)
  OBVIOUS
<1>3. s \in Seq(P) /\ Len(s) = n /\ \A f \in 1 .. n : s[f] = Payload(c, f)
  <2>1. \A f \in 1 .. n : Payload(c, f) \in P
    BY <1>1
  <2>2. s \in [1 .. n -> P]
    BY <2>1
  <2>3. s \in Seq(P)
    BY <2>2, SeqDef
  <2>4. QED
    BY <2>2, <2>3
<1>4. r \in Seq(P) /\ Len(r) = n + 1 /\ \A f \in 1 .. n + 1 : r[f] = Payload(c, f)
  <2>1. \A f \in 1 .. n + 1 : Payload(c, f) \in P
    BY <1>1
  <2>2. r \in [1 .. n + 1 -> P]
    BY <1>2, <2>1
  <2>3. r \in Seq(P)
    BY <2>2, SeqDef
  <2>4. QED
    BY <1>2, <2>2, <2>3
<1>5. p \in P
  BY <1>1, <1>2
<1>6. /\ Append(s, p) \in Seq(P) /\ Len(Append(s, p)) = n + 1
      /\ \A f \in 1 .. n : Append(s, p)[f] = s[f]
      /\ Append(s, p)[n + 1] = p
  BY <1>3, <1>5
<1>7. \A f \in 1 .. n + 1 : Append(s, p)[f] = r[f]
  BY <1>2, <1>3, <1>4, <1>6
<1>8. Append(s, p) = r
  BY <1>4, <1>6, <1>7, SeqEqual
<1>9. QED
  BY <1>2, <1>8

LEMMA BodyStep ==
  ASSUME FrameInv, NEW c \in Clients, ReadBody(c)
  PROVE  FrameInv'
<1>1. /\ kind = "frames" /\ kind' = kind /\ conn[c] = "polling" /\ conn[c] \in Live
      /\ UNCHANGED <<peer, arrived, fatal>>
  BY DEF ReadBody, ServeUnchanged, Live
<1>2. PICK n \in 0 .. Len(Declared[c]), h \in 0 .. HeaderLen, b \in Nat :
        frames[c] = [f \in 1 .. n |-> Payload(c, f)] /\ ~fatal[c] /\ At(c, n, h, b)
  BY <1>1, LiveAt
<1>3. PICK l : l = Len(Declared[c])
  OBVIOUS
<1>4. l \in Nat /\ n \in Nat /\ n + 1 \in Nat /\ HeaderLen \in Nat /\ HeaderLen > 0 /\ h \in Nat
  BY <1>3, ServerAssumption
<1>5. h = HeaderLen
  <2>1. header[c] = Part(n + 1, 0, h) /\ 0 \in Nat
    BY <1>2 DEF At
  <2>2. Len(header[c]) = h
    BY <1>4, <2>1, PartLength
  <2>3. QED
    BY <2>2 DEF ReadBody
<1>6. PICK d \in Nat : d = Declared[c][n + 1] /\ d \in 1 .. MaxPayload /\ b < d /\ n < l
  <2>1. n < l /\ Declared[c][n + 1] \in 1 .. MaxPayload /\ b < Declared[c][n + 1]
    BY <1>2, <1>3, <1>4, <1>5 DEF At
  <2>2. Declared[c][n + 1] \in Nat
    BY <1>3, <1>4, <2>1, DeclaredType
  <2>3. QED
    BY <2>1, <2>2
<1>7. /\ header[c] = Part(n + 1, 0, HeaderLen) /\ body[c] = Part(n + 1, HeaderLen, b)
      /\ taken[c] = Edge(c, n) + HeaderLen + b
  BY <1>2, <1>5 DEF At
<1>8. LengthIn(c, header[c]) = d /\ Len(body[c]) = b
  <2>1. LengthIn(c, Part(n + 1, 0, HeaderLen)) = d
    BY <1>3, <1>4, <1>6, HeaderKnown
  <2>2. QED
    BY <1>4, <1>7, <2>1, PartLength
<1>9. PICK bytes \in Readable(c, d - b) :
        LET w == body[c] \o bytes
            whole == Len(w) = d
        IN /\ taken' = [taken EXCEPT ![c] = @ + Len(bytes)]
           /\ body' = [body EXCEPT ![c] = IF whole THEN <<>> ELSE w]
           /\ header' = [header EXCEPT ![c] = IF whole THEN <<>> ELSE @]
           /\ frames' = [frames EXCEPT ![c] = IF whole THEN Append(@, w) ELSE @]
           /\ conn' = [conn EXCEPT ![c] = IF whole THEN "serving" ELSE "polling"]
  BY <1>8 DEF ReadBody, Take, Goto
<1>10. PICK m \in Nat \ {0} :
         /\ m <= d - b /\ bytes = SubSeq(Stream(c), taken[c] + 1, taken[c] + m)
         /\ taken[c] + m <= Len(Stream(c))
  <2>1. d - b \in Int
    BY <1>6
  <2>2. QED
    BY <1>1, <1>2, <2>1, NextBytes
<1>11. PICK e \in Nat : e = Edge(c, n)
  BY <1>1, StreamPlaced
<1>12. PICK w, k : w = body[c] \o bytes /\ k = b + m
  OBVIOUS
<1>13. k \in Nat /\ k \in 1 .. d
  <2>1. m <= d - b
    BY <1>10
  <2>2. QED
    BY <1>12, <2>1
<1>14. Len(bytes) = m /\ w = Part(n + 1, HeaderLen, k)
  <2>1. PICK at \in Nat : at = taken[c]
    BY <1>4, <1>7, <1>11
  <2>2. at + m <= Len(Stream(c)) /\ at = Edge(c, n) + HeaderLen + b /\ n < Len(Declared[c])
    BY <1>3, <1>6, <1>7, <1>10, <2>1
  <2>3. HeaderLen + b + m <= HeaderLen + Declared[c][n + 1]
    <3>1. HeaderLen + b + m <= HeaderLen + d
      BY <1>4, <1>10
    <3>2. QED
      BY <1>6, <3>1
  <2>4. Reads(Stream(c), at, m, n + 1, HeaderLen, b)
    BY <1>1, <1>4, <2>2, <2>3, NextPiece
  <2>5. QED
    BY <1>7, <1>10, <1>12, <2>1, <2>4 DEF Piece, Reads
<1>15. Len(w) = k
  BY <1>4, <1>13, <1>14, PartLength
<1>16. PICK whole \in BOOLEAN : whole <=> k = d
  OBVIOUS
<1>17. /\ taken' = [taken EXCEPT ![c] = @ + m]
       /\ body' = [body EXCEPT ![c] = IF whole THEN <<>> ELSE w]
       /\ header' = [header EXCEPT ![c] = IF whole THEN <<>> ELSE @]
       /\ frames' = [frames EXCEPT ![c] = IF whole THEN Append(@, w) ELSE @]
       /\ conn' = [conn EXCEPT ![c] = IF whole THEN "serving" ELSE "polling"]
  <2>1. PICK full : full = (Len(w) = d)
    OBVIOUS
  <2>2. full = whole
    BY <1>15, <1>16, <2>1
  <2>3. /\ taken' = [taken EXCEPT ![c] = @ + Len(bytes)]
        /\ body' = [body EXCEPT ![c] = IF full THEN <<>> ELSE w]
        /\ header' = [header EXCEPT ![c] = IF full THEN <<>> ELSE @]
        /\ frames' = [frames EXCEPT ![c] = IF full THEN Append(@, w) ELSE @]
        /\ conn' = [conn EXCEPT ![c] = IF full THEN "serving" ELSE "polling"]
    BY <1>9, <1>12, <2>1
  <2>4. QED
    BY <1>14, <2>2, <2>3
<1>18. Domains' /\ \A x \in Clients \ {c} : SameReader(x) /\ conn'[x] = conn[x]
  BY <1>1, <1>17 DEF FrameInv, Domains, SameReader
<1>19. /\ taken'[c] = e + HeaderLen + k /\ ~fatal'[c]
       /\ header'[c] = IF whole THEN <<>> ELSE header[c]
       /\ body'[c] = IF whole THEN <<>> ELSE w
       /\ frames'[c] = IF whole THEN Append(frames[c], w) ELSE frames[c]
       /\ conn'[c] \in Live
  <2>1. taken'[c] = taken[c] + m
    BY <1>17 DEF FrameInv
  <2>2. taken'[c] = e + HeaderLen + k
    BY <1>4, <1>7, <1>10, <1>11, <1>12, <2>1
  <2>3. conn'[c] \in Live
    BY <1>17 DEF FrameInv, Live
  <2>4. QED
    BY <1>1, <1>2, <1>17, <2>2, <2>3 DEF FrameInv
<1>20. /\ \A j : Edge(c, j)' = Edge(c, j)
       /\ \A f : Payload(c, f)' = Payload(c, f)
       /\ Stream(c)' = Stream(c) /\ arrived'[c] \in Nat /\ arrived'[c] <= Len(Stream(c))
  BY <1>1 DEF Edge, Sent, FrameBytes, Stream, Payload, FrameInv, Framed
<1>21. CASE whole
  <2>1. w = Payload(c, n + 1)
    BY <1>6, <1>14, <1>16, <1>21 DEF Part, Payload
  <2>2. frames'[c] = [f \in 1 .. n + 1 |-> Payload(c, f)]
    BY <1>2, <1>4, <1>19, <1>21, <2>1, AppendPayload
  <2>3. taken'[c] = Edge(c, n + 1) + 0 + 0 /\ n + 1 \in 0 .. Len(Declared[c])
    <3>1. Edge(c, n + 1) = e + HeaderLen + d
      BY <1>1, <1>3, <1>6, <1>11, StreamPlaced
    <3>2. QED
      BY <1>3, <1>4, <1>6, <1>16, <1>19, <1>21, <3>1
  <2>4. At(c, n + 1, 0, 0)'
    <3>1. header'[c] = Part(n + 1 + 1, 0, 0)' /\ body'[c] = Part(n + 1 + 1, HeaderLen, 0)'
      BY <1>19, <1>21, PartNone DEF Part
    <3>2. QED
      BY <1>4, <1>20, <2>3, <3>1 DEF At
  <2>5. \E i \in 0 .. HeaderLen, j \in Nat : At(c, n + 1, i, j)'
    <3>1. 0 \in 0 .. HeaderLen /\ 0 \in Nat
      BY <1>4
    <3>2. QED
      BY <2>4, <3>1
  <2>6. Framed(c)'
    BY <1>19, <1>20, <2>2, <2>3, <2>5 DEF Framed
  <2>7. QED
    BY <1>1, <1>18, <2>6, OneFramed
<1>22. CASE ~whole
  <2>1. At(c, n, HeaderLen, k)'
    <3>1. k < d
      BY <1>6, <1>13, <1>16, <1>22
    <3>2. /\ header'[c] = Part(n + 1, 0, HeaderLen)' /\ body'[c] = Part(n + 1, HeaderLen, k)'
          /\ taken'[c] = Edge(c, n)' + HeaderLen + k
      BY <1>7, <1>11, <1>14, <1>19, <1>20, <1>22 DEF Part
    <3>3. QED
      BY <1>3, <1>6, <3>1, <3>2 DEF At
  <2>2. \E i \in 0 .. HeaderLen, j \in Nat : At(c, n, i, j)'
    <3>1. HeaderLen \in 0 .. HeaderLen
      BY <1>4
    <3>2. QED
      BY <1>13, <2>1, <3>1
  <2>3. frames'[c] = [f \in 1 .. n |-> Payload(c, f)]
    BY <1>2, <1>19, <1>22
  <2>4. Framed(c)'
    BY <1>19, <1>20, <2>2, <2>3 DEF Framed
  <2>5. QED
    BY <1>1, <1>18, <2>4, OneFramed
<1>23. QED
  BY <1>21, <1>22

LEMMA EndStep ==
  ASSUME FrameInv, NEW c \in Clients, PollEnds(c)
  PROVE  FrameInv'
<1>1. /\ kind = "frames" /\ kind' = kind /\ conn[c] = "polling" /\ conn[c] \in Live
      /\ UNCHANGED <<peer, arrived, taken, header, body, frames>>
  BY DEF PollEnds, ServeUnchanged, Live
<1>2. PICK n \in 0 .. Len(Declared[c]), h \in 0 .. HeaderLen, b \in Nat :
        frames[c] = [f \in 1 .. n |-> Payload(c, f)] /\ ~fatal[c] /\ At(c, n, h, b)
  BY <1>1, LiveAt
<1>3. PICK cut \in BOOLEAN : cut <=> peer[c] = "reset" \/ header[c] # <<>>
  OBVIOUS
<1>4. /\ fatal' = [fatal EXCEPT ![c] = cut] /\ conn' = [conn EXCEPT ![c] = "leaving"]
  <2>1. PICK bad : bad = (peer[c] = "reset" \/ header[c] # <<>>)
    OBVIOUS
  <2>2. bad = cut
    BY <1>3, <2>1
  <2>3. fatal' = [fatal EXCEPT ![c] = bad] /\ conn' = [conn EXCEPT ![c] = "leaving"]
    BY <2>1 DEF PollEnds, Goto
  <2>4. QED
    BY <2>2, <2>3
<1>5. fatal'[c] = cut /\ conn'[c] \notin Live
  BY <1>4 DEF FrameInv, Live
<1>6. Domains' /\ \A x \in Clients \ {c} : SameReader(x) /\ conn'[x] = conn[x]
  BY <1>1, <1>4 DEF FrameInv, Domains, SameReader
<1>7. PICK e \in Nat : e = Edge(c, n)
  BY <1>1, StreamPlaced
<1>8. cut => Justified(c, n)
  <2>1. ASSUME cut, peer[c] # "reset" PROVE Justified(c, n)
    <3>1. header[c] # <<>> /\ peer[c] = "closed"
      BY <1>3, <2>1 DEF PollEnds, EndOfStream
    <3>2. h # 0
      BY <1>2, <3>1, PartNone DEF At
    <3>3. taken[c] = e + h + b /\ h \in Nat /\ b \in Nat
      BY <1>2, <1>7, ServerAssumption DEF At
    <3>4. taken[c] # Edge(c, n)
      BY <1>7, <3>2, <3>3
    <3>5. QED
      BY <3>1, <3>4 DEF Justified
  <2>2. QED
    BY <2>1 DEF Justified
<1>9. /\ Edge(c, n)' = Edge(c, n) /\ Stream(c)' = Stream(c)
      /\ frames'[c] = [f \in 1 .. n |-> Payload(c, f)]
      /\ arrived'[c] \in Nat /\ arrived'[c] <= Len(Stream(c))
  BY <1>1, <1>2 DEF Edge, Sent, FrameBytes, Stream, FrameInv, Framed
<1>10. fatal'[c] => Justified(c, n)'
  BY <1>1, <1>5, <1>8, <1>9 DEF Justified
<1>11. Framed(c)'
  BY <1>5, <1>9, <1>10 DEF Framed, Payload
<1>12. QED
  BY <1>1, <1>6, <1>11, OneFramed

\* A step of the accepting thread moves no connection back to life.
LEMMA LoopFrames ==
  ASSUME FrameInv, PoolInv, Accepting
  PROVE  FrameInv'
<1>1. UNCHANGED <<kind, peer, arrived, taken, header, body, frames, fatal>>
  BY DEF Accepting, CheckStop, Refuse, Spawn, SpawnFails, SpawnFailsWith, NothingToAccept,
         AcceptError, Accept, LoopUnchanged, readVars
<1>2. DOMAIN conn' = Clients
  BY DEF FrameInv, Accepting, CheckStop, Refuse, Spawn, SpawnFails, SpawnFailsWith,
         NothingToAccept, AcceptError, Accept, EndLoop
<1>3. ASSUME NEW x \in Clients, conn'[x] \in Live PROVE conn[x] \in Live
  <2>1. CASE \E c \in Clients : Accept(c)
    BY <1>3, <2>1 DEF Accept, FrameInv, Live
  <2>2. CASE CheckStop \/ NothingToAccept \/ AcceptError
    BY <1>3, <2>2 DEF CheckStop, NothingToAccept, AcceptError, EndLoop, Live
  <2>3. CASE Refuse \/ SpawnFails
    BY <1>3, <2>3 DEF Refuse, SpawnFails, SpawnFailsWith, FrameInv, Live
  <2>4. CASE Spawn
    <3>1. loop = "spawning" /\ conn' = [conn EXCEPT ![current] = "serving"]
      BY <2>4 DEF Spawn
    <3>2. conn[current] \in Live
      BY <3>1 DEF PoolInv, Live
    <3>3. QED
      BY <1>3, <3>1, <3>2 DEF FrameInv
  <2>5. QED
    BY <2>1, <2>2, <2>3, <2>4 DEF Accepting
<1>4. Domains'
  BY <1>1, <1>2 DEF FrameInv, Domains
<1>5. QED
  BY <1>1, <1>3, <1>4, QuietStep DEF SameReader

LEMMA FrameStep == FrameInv /\ PoolInv /\ [Next]_vars => FrameInv'
<1> SUFFICES ASSUME FrameInv, PoolInv, [Next]_vars PROVE FrameInv'
  OBVIOUS
<1>1. CASE Accepting
  BY <1>1, LoopFrames
<1>2. CASE Stop \/ UNCHANGED vars
  <2>1. UNCHANGED <<kind, conn, peer, arrived, taken, header, body, frames, fatal>>
    BY <1>2 DEF Stop, vars, readVars
  <2>2. Domains'
    BY <2>1 DEF FrameInv, Domains
  <2>3. QED
    BY <2>1, <2>2, QuietStep DEF SameReader
<1>3. ASSUME NEW c \in Clients, Serving(c) PROVE FrameInv'
  <2>1. CASE ReadHeader(c)
    BY <2>1, HeaderStep
  <2>2. CASE ReadBody(c)
    BY <2>2, BodyStep
  <2>3. CASE PollEnds(c)
    BY <2>3, EndStep
  <2>4. CASE StartPoll(c) \/ RequestDead(c) \/ Leave(c)
    <3>1. /\ UNCHANGED <<kind, peer, arrived, taken, header, body, frames, fatal>>
          /\ conn[c] = "serving" \/ conn[c] = "leaving"
          /\ \E s \in {"leaving", "polling", "closed"} :
               /\ conn' = [conn EXCEPT ![c] = s]
               /\ s = "polling" => conn[c] = "serving"
      BY <2>4 DEF StartPoll, RequestDead, Leave, ServeUnchanged, readVars, Goto
    <3>2. Domains' /\ \A x \in Clients : conn'[x] \in Live => conn[x] \in Live
      BY <3>1 DEF FrameInv, Domains, Live
    <3>3. QED
      BY <3>1, <3>2, QuietStep DEF SameReader
  <2>5. CASE PollTimesOut(c)
    <3>1. /\ UNCHANGED <<kind, peer, arrived, taken, body, frames, fatal>>
          /\ conn[c] = "polling" /\ conn' = [conn EXCEPT ![c] = "serving"]
          /\ header' = [header EXCEPT ![c] = header[c]]
      BY <2>5 DEF PollTimesOut, PollTimesOutTo, ServeUnchanged, Goto
    <3>2. \A x \in Clients : SameReader(x)
      BY <3>1 DEF FrameInv, SameReader
    <3>3. Domains' /\ \A x \in Clients : conn'[x] \in Live => conn[x] \in Live
      BY <3>1 DEF FrameInv, Domains, Live
    <3>4. QED
      BY <3>1, <3>2, <3>3, QuietStep
  <2>6. CASE ReadRequest(c)
    <3>1. /\ UNCHANGED <<kind, peer, arrived, body, frames, fatal>> /\ kind = "health"
          /\ DOMAIN taken' = DOMAIN taken /\ DOMAIN header' = DOMAIN header
          /\ DOMAIN conn' = DOMAIN conn
      BY <2>6 DEF ReadRequest, ServeUnchanged, Take, Goto
    <3>2. Domains'
      BY <3>1 DEF FrameInv, Domains
    <3>3. QED
      BY <3>1, <3>2, HealthStep
  <2>7. QED
    BY <1>3, <2>1, <2>2, <2>3, <2>4, <2>5, <2>6 DEF Serving
<1>4. ASSUME NEW c \in Clients, Connect(c) \/ Send(c) \/ ClientEnds(c) PROVE FrameInv'
  <2>1. UNCHANGED <<kind, taken, header, body, frames, fatal>>
    BY <1>4 DEF Connect, Send, ClientEnds, ClientUnchanged, readVars
  <2>2. /\ DOMAIN conn' = Clients /\ DOMAIN peer' = Clients /\ DOMAIN arrived' = Clients
        /\ \A x \in Clients : conn'[x] \in Live => conn[x] \in Live
    BY <1>4 DEF Connect, Send, ClientEnds, Goto, FrameInv, Live
  <2>3. \A x \in Clients : peer'[x] = peer[x] \/ conn[x] \in Live
    BY <1>4 DEF Connect, Send, ClientEnds, FrameInv, Live
  <2>4. \A x \in Clients : arrived'[x] = arrived[x]
                           \/ (arrived'[x] = arrived[x] + 1 /\ arrived[x] < Len(Stream(x)))
    BY <1>4 DEF Connect, Send, ClientEnds, FrameInv
  <2>5. Domains'
    BY <2>1, <2>2 DEF FrameInv, Domains
  <2>6. QED
    BY <2>1, <2>2, <2>3, <2>4, <2>5, QuietStep DEF SameReader
<1>5. QED
  BY <1>1, <1>2, <1>3, <1>4 DEF Next

\* What the bookkeeping of a reader says of the frames it has handed over.
LEMMA FramesFollow == FrameInv => FramesWhole
<1> SUFFICES ASSUME FrameInv, NEW c \in Clients
             PROVE  /\ \A f \in DOMAIN frames[c] :
                         f \in DOMAIN Declared[c] /\ frames[c][f] = Payload(c, f)
                    /\ fatal[c] => \/ peer[c] = "reset"
                                   \/ /\ ~AtBoundary(c)
                                      /\ peer[c] = "closed" \/ ~NextLengthSound(c)
  BY DEF FramesWhole
<1>1. CASE kind = "health"
  BY <1>1 DEF FrameInv
<1>2. CASE kind = "frames"
  <2>1. PICK n \in 0 .. Len(Declared[c]) :
          frames[c] = [f \in 1 .. n |-> Payload(c, f)] /\ (fatal[c] => Justified(c, n))
    BY <1>2 DEF FrameInv, Framed
  <2>2. /\ n \in Nat /\ Len(Declared[c]) \in Nat /\ DOMAIN Declared[c] = 1 .. Len(Declared[c])
    BY ServerAssumption
  <2>3. DOMAIN frames[c] = 1 .. n /\ \A f \in 1 .. n : frames[c][f] = Payload(c, f)
    BY <2>1
  <2>4. AtBoundary(c) <=> taken[c] = Edge(c, n)
    BY <2>3 DEF AtBoundary, Edge, Sent
  <2>5. Len(frames[c]) = n
    <3>1. PICK P : P = {Payload(c, f) : f \in 1 .. n}
      OBVIOUS
    <3>2. frames[c] \in [1 .. n -> P]
      BY <2>1, <3>1
    <3>3. frames[c] \in Seq(P)
      BY <2>2, <3>2, SeqDef
    <3>4. QED
      BY <2>2, <2>3, <3>3
  <2>6. NextLengthSound(c) <=> n < Len(Declared[c]) /\ Declared[c][n + 1] \in 1 .. MaxPayload
    BY <2>2, <2>5 DEF NextLengthSound
  <2>7. QED
    BY <2>1, <2>2, <2>3, <2>4, <2>6 DEF Justified
<1>3. QED
  BY <1>1, <1>2 DEF FrameInv

\* However the reads of a connection split its stream, and wherever they time out
\* (FrameReader::poll), the inbound queue receives the client's frames whole and in
\* order; a violation is counted only for a length out of bounds, a stream cut inside a
\* frame or a failed read.
THEOREM FramesArriveWhole == Spec => []FramesWhole
<1>1. PoolInv /\ FrameInv /\ [Next]_vars => PoolInv' /\ FrameInv'
  BY ServerStep, FrameStep DEF PoolStep
<1>2. QED
  BY <1>1, PoolStart, FrameStart, FramesFollow, PTL DEF Spec
=============================================================================
