----------------------------- MODULE Admission -----------------------------
(***************************************************************************)
(* What a node does with an event received from a peer (receive_peer_event,*)
(* node/mod.rs): the admission gate (sliding window per author, ignored    *)
(* authors, grace after a partition), the presence book, then the handler  *)
(* of the kind, which may penalise the signer and feeds the gossip.        *)
(*                                                                         *)
(* An event is a record: author, the proof of work it carries, whether its *)
(* payload is sound, its kind, and for an abuse report the offender, the   *)
(* reason and the reporter's timestamp.  Alerts and social events are both *)
(* "content": the dispatcher classifies their errors alike.  An event with *)
(* an invalid signature changes nothing and is left out; so are            *)
(* endorsements, the trust in each author being a constant.                *)
(* Levels of abuse are in hundredths.                                      *)
(***************************************************************************)
EXTENDS Gossip, Integers

CONSTANTS
  Me,          \* this node's public key
  Authors,     \* the other authors
  Window,      \* SPAM_WINDOW_SECS
  Budget,      \* SPAM_BUDGET_PER_WINDOW
  HealFactor,  \* HEAL_WINDOW_BUDGET_FACTOR
  Silence,     \* PARTITION_SILENCE_THRESHOLD_SECS
  Grace,       \* HEAL_GRACE_SECS
  Hour,        \* SECS_PER_HOUR
  MaxTracked,  \* MAX_TRACKED_AUTHORS
  MaxReports,  \* MAX_ABUSE_REPORTS_TRACKED
  BasePow,     \* proof of work asked of each author for its trust score
  MaxTime      \* bound on the clock

ASSUME AdmissionAssumption ==
  /\ Me \notin Authors /\ IsFiniteSet(Authors) /\ IsFiniteSet(Events)
  /\ Budget \in Nat \ {0} /\ HealFactor \in Nat \ {0}
  /\ Window \in Nat /\ Silence \in Nat /\ Grace \in Nat /\ Hour \in Nat \ {0}
  /\ MaxTracked \in Nat \ {0} /\ MaxReports \in Nat \ {0}
  /\ BasePow \in [Authors \cup {Me} -> 0 .. 4]
  /\ \A e \in Events : e.author \in Authors \cup {Me}

VARIABLES
  now,        \* unix time given to the gate
  stamps,     \* spam_guard: times of the admissions counted for each author
  abuse,      \* reputation.abuse: level and date of each author's record
  reports,    \* (reporter, offender, reason) already weighed, oldest first
  lastSeen,   \* peer_last_seen: time of the last admitted event, -1 if none
  healUntil,  \* heal_grace_until
  entered,    \* history: recent entries of each author's events in the gossip
  weighed     \* history: how often each report was weighed

guardVars == <<stamps, lastSeen, healUntil>>
ledgerVars == <<abuse, reports, weighed>>
admissionVars == <<gossipVars, now, guardVars, ledgerVars, entered>>

-----------------------------------------------------------------------------
(* The abuse ledger *)

\* Penalties and thresholds of reputation/spam.rs, in hundredths.
ExcessiveRate == 30
InvalidEvent == 10
InsufficientPow == 20
RemoteReport == 10
ThrottleThreshold == 15
IgnoreThreshold == 80

\* decayed_abuse: one hundredth per full hour; a record dated later than t has
\* not decayed.
LevelOf(record, t) ==
  LET hours == IF t > record.at THEN (t - record.at) \div Hour ELSE 0
  IN  IF record.score > hours THEN record.score - hours ELSE 0
Level(a) == LevelOf(abuse[a], now)

\* AbuseRecord::record: decay is folded at t, which becomes the record's date.
Recorded(a, amount, t) ==
  [abuse EXCEPT ![a] =
     LET level == LevelOf(@, t) + amount
     IN  [score |-> IF level > 100 THEN 100 ELSE level, at |-> t]]

\* required_pow_difficulty: from the stored level, decay not folded.
RequiredPow(a) == IF abuse[a].score >= ThrottleThreshold THEN 4 ELSE BasePow[a]

\* A trust score of at least 0.7 asks no work and qualifies a reporter.
Trusted(a) == BasePow[a] = 0

-----------------------------------------------------------------------------
(* The gate *)

HealGraceActive == now < healUntil

\* partition_suspected: some peer is known and all have been silent.
PartitionSuspected ==
  /\ \E a \in Authors : lastSeen[a] >= 0
  /\ \A a \in Authors : lastSeen[a] >= 0 => now - lastSeen[a] >= Silence

CurrentBudget == IF HealGraceActive THEN Budget * HealFactor ELSE Budget

\* The purge pops the front of the window while it is older than the horizon:
\* how many of a sequence of times leave it.
Stale(times, horizon) ==
  CHOOSE n \in 0 .. Len(times) :
    /\ \A i \in 1 .. n : times[i] < horizon
    /\ n < Len(times) => times[n + 1] >= horizon

Purged(times, horizon) == SubSeq(times, Stale(times, horizon) + 1, Len(times))

\* Slip: an admission exactly Window old is forgotten.
InWindowOpen(a) == Purged(stamps[a], now - Window + 1)

\* Admissions still in the window.
InWindow(a) == Purged(stamps[a], now - Window)

\* admit_with_budget accepts: the time is recorded and, past the cap on tracked
\* authors, the one whose last admission is oldest is forgotten.
AfterAdmission(a) ==
  LET counted == [stamps EXCEPT ![a] = Append(InWindow(a), now)]
      tracked == {b \in Authors : counted[b] # <<>>}
      last(b) == counted[b][Len(counted[b])]
      oldest  == {b \in tracked : \A c \in tracked : last(b) <= last(c)}
  IN  IF Cardinality(tracked) > MaxTracked
      THEN {[counted EXCEPT ![b] = <<>>] : b \in oldest}
      ELSE {counted}

\* admit_peer_event, in the order of its filters: our own events and known ones
\* pass uncounted, ignored authors do not pass, the others pass within budget.
Uncounted(e) == e.author = Me \/ e \in known
Listened(e) == Level(e.author) < IgnoreThreshold
WithinBudget(e) == Len(InWindow(e.author)) < CurrentBudget

Admits(e) ==
  \/ Uncounted(e) /\ UNCHANGED stamps
  \/ /\ ~Uncounted(e) /\ Listened(e) /\ WithinBudget(e)
     /\ stamps' \in AfterAdmission(e.author)

\* note_peer_traffic: the author of an admitted event is alive; a contact after
\* a general silence opens the grace.
NotesTraffic(e) ==
  IF e.author = Me
  THEN UNCHANGED <<lastSeen, healUntil>>
  ELSE /\ lastSeen' = [lastSeen EXCEPT ![e.author] = now]
       /\ healUntil' = IF PartitionSuspected THEN now + Grace ELSE healUntil

-----------------------------------------------------------------------------
(* The handlers *)

\* The history of an author's entries, without those that left the window.
RecentEntries(a) ==
  SubSeq(entered[a],
         Stale([i \in 1 .. Len(entered[a]) |-> entered[a][i].at], now - Window) + 1,
         Len(entered[a]))

\* add_event_with_reputation on a valid event, with the history of entries.
Gossips(e) ==
  \/ /\ Insert(e)
     /\ entered' = [entered EXCEPT ![e.author] =
          Append(RecentEntries(e.author), [at |-> now, grace |-> HealGraceActive])]
  \/ e \in known /\ UNCHANGED <<gossipVars, entered>>

Valid(e) == e.sound /\ e.pow >= RequiredPow(e.author)

\* The sender's budget is spent: the signer is penalised.
ReceiveOverBudget(e) ==
  /\ ~Uncounted(e) /\ Listened(e) /\ ~WithinBudget(e)
  /\ stamps' = [stamps EXCEPT ![e.author] = InWindow(e.author)]
  /\ abuse' = Recorded(e.author, ExcessiveRate, now)
  /\ UNCHANGED <<gossipVars, now, lastSeen, healUntil, reports, weighed, entered>>

\* handle_incoming_alert, handle_incoming_social: content is validated whether
\* known or not, then relayed; the local caches it is written to decide nothing.
Relays(e) == Valid(e) /\ Gossips(e)

\* receive_peer_event: a signed event that its handler refuses is held against
\* its author.
ReceiveContent(e) ==
  /\ e.kind = "content"
  /\ Admits(e) /\ NotesTraffic(e)
  /\ \/ Relays(e) /\ UNCHANGED abuse
     \/ /\ ~Valid(e)
        /\ abuse' = Recorded(e.author, IF e.sound THEN InsufficientPow ELSE InvalidEvent, now)
        /\ UNCHANGED <<gossipVars, entered>>
  /\ UNCHANGED <<now, reports, weighed>>

ReportKey(e) == <<e.author, e.offender, e.reason>>

\* The report of a trusted author about another one, not weighed yet.
ReportNew(e) == ReportKey(e) \notin Range(reports)

ReportAccepted(e) ==
  /\ e.sound /\ e.author # e.offender /\ Trusted(e.author) /\ ReportNew(e)

\* Slip: a report is not remembered.
RememberedNever(key) == reports

\* The oldest key is forgotten past the cap.
Remembered(key) ==
  Append(IF Len(reports) >= MaxReports THEN Tail(reports) ELSE reports, key)

\* handle_incoming_abuse_report: weighed at the reporter's date, then relayed if
\* it passes validation.  A refused report penalises nobody.
ReceiveReport(e) ==
  /\ e.kind = "report"
  /\ Admits(e) /\ NotesTraffic(e)
  /\ IF ReportAccepted(e)
     THEN /\ abuse' = Recorded(e.offender, RemoteReport, e.at)
          /\ reports' = Remembered(ReportKey(e))
          /\ weighed' = [weighed EXCEPT ![ReportKey(e)] = @ + 1]
          /\ IF Valid(e) THEN Gossips(e) ELSE UNCHANGED <<gossipVars, entered>>
     ELSE UNCHANGED <<gossipVars, abuse, reports, weighed, entered>>
  /\ UNCHANGED now

\* report_abuse: our own report is published; it weighs here too, once a peer sends
\* it back.
ReportAbuse(e) ==
  /\ e.kind = "report" /\ e.author = Me /\ e.offender # Me
  /\ Valid(e) /\ Gossips(e)
  /\ UNCHANGED <<now, stamps, abuse, reports, weighed, lastSeen, healUntil>>

\* Time passes between two calls.
Tick == /\ now < MaxTime
        /\ now' = now + 1
        /\ UNCHANGED <<gossipVars, guardVars, ledgerVars, entered>>

-----------------------------------------------------------------------------
Reported == {e \in Events : e.kind = "report"}

AdmissionInit ==
  /\ GossipInit
  /\ now = 0
  /\ stamps = [a \in Authors |-> <<>>]
  /\ abuse = [a \in Authors \cup {Me} |-> [score |-> 0, at |-> 0]]
  /\ reports = <<>>
  /\ lastSeen = [a \in Authors |-> -1]
  /\ healUntil = 0
  /\ entered = [a \in Authors \cup {Me} |-> <<>>]
  /\ weighed = [k \in {ReportKey(e) : e \in Reported} |-> 0]

Receive(e) == ReceiveOverBudget(e) \/ ReceiveContent(e) \/ ReceiveReport(e)

AdmissionNext == Tick \/ \E e \in Events : Receive(e) \/ ReportAbuse(e)

AdmissionSpec == AdmissionInit /\ [][AdmissionNext]_admissionVars

-----------------------------------------------------------------------------
(* Properties *)

\* Entries of author a in the gossip during the window that ends now.
Recent(a) == {i \in DOMAIN entered[a] : entered[a][i].at >= now - Window}
RecentOrdinary(a) == {i \in Recent(a) : ~entered[a][i].grace}

\* However events are replayed, forgotten and received again, an author puts at
\* most Budget events in the gossip per window outside the grace, and at most
\* HealFactor times as many in all, as long as the guard tracks every author.
FloodBounded ==
  Cardinality(Authors) <= MaxTracked =>
    \A a \in Authors :
      /\ Cardinality(RecentOrdinary(a)) <= Budget
      /\ Cardinality(Recent(a)) <= Budget * HealFactor

\* A report weighs once however often it is relayed, as long as the keys of all
\* reports fit in memory (reputation/mod.rs 337-338).
ReportWeighsOnce ==
  Cardinality(DOMAIN weighed) <= MaxReports => \A k \in DOMAIN weighed : weighed[k] <= 1

-----------------------------------------------------------------------------
(* What comments of the source say, and the code does not do *)

\* An author all of whose events are valid whatever is asked of him.
Honest(a) == \A e \in Events : e.author = a => e.kind = "content" /\ e.sound /\ e.pow = 4

\* node/mod.rs 1478-1483: honest authors are not penalised for the traffic of a
\* heal.  Once the grace is over, one is penalised for its rate only when it has
\* spent the normal budget outside the grace.
HealTrafficNotPenalised ==
  [][\A e \in Events : Honest(e.author) /\ ~HealGraceActive /\ ReceiveOverBudget(e)
       => Cardinality(RecentOrdinary(e.author)) >= Budget]_admissionVars
=============================================================================
