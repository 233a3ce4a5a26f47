----------------------- MODULE AuthSessionsRefinement -----------------------
(***************************************************************************)
(* The refinement mapping from the rows of authentication_sessions and     *)
(* refresh_tokens to TokenFamily.                                          *)
(***************************************************************************)
EXTENDS AuthSessions

phaseBar ==
  [s \in Sessions |-> CASE sessStatus[s] = "absent" -> "absent"
                        [] sessStatus[s] = "active" -> "live"
                        [] OTHER -> "dead"]

\* The one active token of a live session; a token left active by an interrupted
\* revocation is current in no family.
CurrentOf(s) ==
  IF sessStatus[s] = "active" /\ ActiveTokensOf(s) # {}
    THEN CHOOSE t \in ActiveTokensOf(s) : TRUE
    ELSE NoToken

currentBar == [s \in Sessions |-> CurrentOf(s)]

spentBar == {t \in Tokens : Issued(t)}

Family == INSTANCE TokenFamily
            WITH phase <- phaseBar, current <- currentBar, spent <- spentBar

\* The rows, as the requests change them, implement the token family.
ImplementsTokenFamily == Family!FamilySpec
=============================================================================
