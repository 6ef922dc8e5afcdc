---------------------------- MODULE LatestAnswer ----------------------------
(***************************************************************************)
(* What the parts of a page that ask a server promise to the user,         *)
(* whatever requests they make and in whatever order these are answered: a *)
(* part shows nothing, or the answer to the question it asked last.        *)
(***************************************************************************)
CONSTANTS
  Parts,
  Answer,      \* the answer to each question
  NoQuestion,
  Nothing      \* what is shown before there is an answer

VARIABLES asked, shown

Init ==
  /\ asked = [p \in Parts |-> NoQuestion]
  /\ shown = [p \in Parts |-> Nothing]

\* A new question takes the old answer off the page; the new answer may be
\* known already.
Ask(p, q) ==
  /\ asked' = [asked EXCEPT ![p] = q]
  /\ \E known \in {Nothing, Answer[q]} : shown' = [shown EXCEPT ![p] = known]

Show(p) ==
  /\ asked[p] # NoQuestion
  /\ shown' = [shown EXCEPT ![p] = Answer[asked[p]]]
  /\ UNCHANGED asked

Withdraw(p) ==
  /\ asked' = [asked EXCEPT ![p] = NoQuestion]
  /\ shown' = [shown EXCEPT ![p] = Nothing]

Next ==
  \E p \in Parts :
    (\E q \in DOMAIN Answer : Ask(p, q)) \/ Show(p) \/ Withdraw(p)

Spec == Init /\ [][Next]_<<asked, shown>>
=============================================================================
