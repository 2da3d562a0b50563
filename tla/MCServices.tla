----------------------------- MODULE MCServices -----------------------------
(***************************************************************************)
(* Conversations with the batches they start, the promotion of a package,   *)
(* and logins, for TLC.  They share no state, so that a behaviour explores  *)
(* one of them.                                                             *)
(***************************************************************************)
EXTENDS BatchStart, Promotion, Login, TLC

VARIABLE side          \* the service that moves

servicesVars == << startVars, promotionVars, loginVars, side >>

Ask(o, payload, count) == [ op |-> o, payload |-> payload, count |-> count ]

\* a request, its repetition and another one under its operation id; or the
\* same request twice without one
SomeRequests ==
    { ("k1" :> Ask("o", "x", 2) @@ "k2" :> Ask("o", "x", 2) @@ "k3" :> Ask("o", "y", 1)),
      ("k1" :> Ask("o", "x", 2) @@ "k2" :> Ask(NoOp, "y", 1) @@ "k3" :> Ask(NoOp, "y", 1)) }

\* two requests with one password and one with another
SomeGiven == "a1" :> "p" @@ "a2" :> "p" @@ "a3" :> "q"

ServicesInit ==
    /\ StartInit /\ PromotionInit /\ LoginInit /\ password = "p"
    /\ \/ side = "conversation"
       \/ /\ side \in {"promotion", "login"}
          /\ request = CHOOSE ask \in SomeRequests : TRUE

ConversationMoves == /\ side = "conversation" /\ StartNext
                     /\ UNCHANGED << promotionVars, loginVars, side >>
PromotionMoves == /\ side = "promotion" /\ PromotionNext
                  /\ UNCHANGED << startVars, loginVars, side >>
LoginMoves == /\ side = "login" /\ LoginNext
              /\ UNCHANGED << startVars, promotionVars, side >>

ServicesNext == ConversationMoves \/ PromotionMoves \/ LoginMoves

ServicesSpec == ServicesInit /\ [][ServicesNext]_servicesVars

\* Every variable of the three services keeps its range.
ServicesTypeOK == StartTypeOK /\ PromotionTypeOK /\ LoginTypeOK
=============================================================================
