----------------------------- MODULE OneTimeCodes -----------------------------
(***************************************************************************)
(* What a challenge promises, without rows, locks, Redis or the clock: a   *)
(* code is issued once, may be guessed at MaxAttempts times, one guess at  *)
(* a time, opens one session, and is dead for good once it is used up,     *)
(* used, withdrawn or replaced.                                            *)
(***************************************************************************)
EXTENDS Naturals

CONSTANTS Challenges, MaxAttempts

VARIABLES
  life,      \* "unissued", "open", "used" or "dead"
  left,      \* wrong guesses an open code can still take
  sessions   \* how many sessions it has opened

cvars == <<life, left, sessions>>

CodesInit ==
  /\ life = [ch \in Challenges |-> "unissued"]
  /\ left = [ch \in Challenges |-> 0]
  /\ sessions = [ch \in Challenges |-> 0]

Open == {ch \in Challenges : life[ch] = "open"}

Issue(ch) ==
  /\ life[ch] = "unissued"
  /\ \E replaced \in SUBSET Open :
       /\ life' = [c \in Challenges |-> IF c = ch THEN "open"
                                        ELSE IF c \in replaced THEN "dead" ELSE life[c]]
       /\ left' = [c \in Challenges |-> IF c = ch THEN MaxAttempts
                                        ELSE IF c \in replaced THEN 0 ELSE left[c]]
  /\ UNCHANGED sessions

GuessRight(ch) ==
  /\ life[ch] = "open"
  /\ life' = [life EXCEPT ![ch] = "used"]
  /\ left' = [left EXCEPT ![ch] = 0]
  /\ sessions' = [sessions EXCEPT ![ch] = @ + 1]

GuessWrong(ch) ==
  /\ life[ch] = "open" /\ left[ch] > 0
  /\ life' = [life EXCEPT ![ch] = IF left[ch] = 1 THEN "dead" ELSE @]
  /\ left' = [left EXCEPT ![ch] = @ - 1]
  /\ UNCHANGED sessions

Withdraw(ch) ==
  /\ life[ch] = "open"
  /\ life' = [life EXCEPT ![ch] = "dead"]
  /\ left' = [left EXCEPT ![ch] = 0]
  /\ UNCHANGED sessions

CodesNext ==
  \E ch \in Challenges : Issue(ch) \/ GuessRight(ch) \/ GuessWrong(ch) \/ Withdraw(ch)

CodesSpec == CodesInit /\ [][CodesNext]_cvars
=============================================================================
