----------------------------- MODULE TokenFamily -----------------------------
(***************************************************************************)
(* What the sessions promise, without rows, locks or requests: a session   *)
(* is opened once, has one current token, which a refresh replaces by a    *)
(* token never issued before, and is killed for good.                      *)
(***************************************************************************)
CONSTANTS Sessions, Tokens, NoToken

VARIABLES
  phase,    \* "absent", "live" or "dead"
  current,  \* the token a refresh will accept
  spent     \* every token ever handed out

fvars == <<phase, current, spent>>

FamilyInit ==
  /\ phase = [s \in Sessions |-> "absent"]
  /\ current = [s \in Sessions |-> NoToken]
  /\ spent = {}

Open(s, t) ==
  /\ phase[s] = "absent" /\ t \notin spent
  /\ phase' = [phase EXCEPT ![s] = "live"]
  /\ current' = [current EXCEPT ![s] = t]
  /\ spent' = spent \union {t}

Refresh(s, t) ==
  /\ phase[s] = "live" /\ t \notin spent
  /\ current' = [current EXCEPT ![s] = t]
  /\ spent' = spent \union {t}
  /\ UNCHANGED phase

Kill(s) ==
  /\ phase[s] = "live"
  /\ phase' = [phase EXCEPT ![s] = "dead"]
  /\ current' = [current EXCEPT ![s] = NoToken]
  /\ UNCHANGED spent

FamilyNext ==
  \E s \in Sessions :
    \/ \E t \in Tokens : Open(s, t) \/ Refresh(s, t)
    \/ Kill(s)

FamilySpec == FamilyInit /\ [][FamilyNext]_fvars
=============================================================================
