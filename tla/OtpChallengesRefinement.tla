----------------------- MODULE OtpChallengesRefinement -----------------------
(***************************************************************************)
(* The refinement mapping from the rows of otp_challenges and the sessions *)
(* they opened to OneTimeCodes.                                            *)
(***************************************************************************)
EXTENDS OtpChallenges

Life == [absent |-> "unissued", pending |-> "open", consumed |-> "used",
         invalidated |-> "dead", delivery_failed |-> "dead"]

lifeBar == [ch \in Challenges |-> Life[status[ch]]]

leftBar == [ch \in Challenges |-> IF status[ch] = "pending" THEN MaxAttempts - tries[ch] ELSE 0]

Codes == INSTANCE OneTimeCodes WITH life <- lifeBar, left <- leftBar, sessions <- logins

\* However requests, attempts and late delivery failures overlap, every commit is one of the
\* four changes a challenge promises: each guess counts as if it were alone, a login or a
\* failure takes the code away for good, a new challenge replaces only open ones.
ImplementsOneTimeCodes == Codes!CodesSpec
=============================================================================
