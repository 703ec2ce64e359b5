---------------------------- MODULE MCAdmission ----------------------------
(* Instances of Admission: the events of each run. *)
EXTENDS Admission

CONSTANTS me, a, b

Content(author, pow, sound, n) ==
  [kind |-> "content", author |-> author, pow |-> pow, sound |-> sound, n |-> n]
Report(author, offender, reason, at) ==
  [kind |-> "report", author |-> author, pow |-> 0, sound |-> TRUE,
   offender |-> offender, reason |-> reason, at |-> at]

BothTrusted == [x \in {a, b, me} |-> 0]

\* Author a sends content that is cheap and unsound, or fully worked; the trusted b
\* reports it, and so do we, with echoes of our report.  What is forgotten comes again.
MixedEvents ==
  {Content(a, 0, FALSE, 1), Content(a, 4, TRUE, 3), Report(b, a, 1, 1), Report(me, a, 2, 0)}

\* Only valid content, from two authors.
HonestEvents == {Content(a, 4, TRUE, n) : n \in 1 .. 4} \cup {Content(b, 4, TRUE, 5)}
=============================================================================
