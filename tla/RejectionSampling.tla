-------------------------- MODULE RejectionSampling --------------------------
(***************************************************************************)
(* With which probability a speculative step produces a token              *)
(* (speculative.rs and eagle3_speculative.rs of backend_common): the draft *)
(* proposes one, which is accepted with probability min(1, p/q); otherwise *)
(* one is drawn from the residual max(0, p - q).  Speculation, which lets  *)
(* tokens be any, with two models that have probabilities.                 *)
(*                                                                         *)
(* A probability is a weight out of Certain, so that every comparison is   *)
(* exact: the rounding of f32 is left out.  It is the same for every text. *)
(***************************************************************************)
EXTENDS Speculation, FiniteSetsExt, Functions

CONSTANT Certain    \* the weight of probability 1

\* A setup's odds: the distributions p of the target and q of the draft, over the
\* tokens it knows, or left open.
Open == <<>>
odds == setup.odds

ASSUME OddsAssumption ==
    /\ Certain \in Nat \ {0}
    /\ \A u \in Setups : u.odds # Open =>
           /\ DOMAIN u.odds.p \cup DOMAIN u.odds.q \subseteq Tokens
           /\ SumFunction(u.odds.p) = Certain /\ SumFunction(u.odds.q) = Certain
           /\ u.mode = "eagle3" => DOMAIN u.odds.q \subseteq DOMAIN u.odds.p

At(f, t) == IF t \in DOMAIN f THEN f[t] ELSE 0

\* The most likely token of the draft: of several the last with a draft model
\* (max_by), the first with a head.
Argmax == LET q == odds.q
              best == {t \in DOMAIN q : \A u \in DOMAIN q : q[u] <= q[t]}
          IN IF setup.mode = "draft" THEN Max(best) ELSE Min(best)

\* min(1, p/q), times q.
AcceptWeight(x) == Min({At(odds.p, x), odds.q[x]})

\* A head's probabilities are first mapped to the target's vocabulary; of two
\* models' the residual takes the tokens that both know.
Judged == IF setup.mode = "eagle3" THEN DOMAIN odds.p ELSE DOMAIN odds.p \cap DOMAIN odds.q

\* MUTANT: the difference is taken without its sign.
Residual_Abs == [t \in Judged |-> Max({odds.p[t] - At(odds.q, t), At(odds.q, t) - odds.p[t]})]
Residual == [t \in Judged |-> Max({0, odds.p[t] - At(odds.q, t)})]

\* Nothing is left where p exceeds q: the target's distribution is used.
Redrawn == IF SumFunction(Residual) = 0 THEN odds.p ELSE Residual

---------------------------------------------------------------------------
(* The steps of Speculation that choose a token *)

\* The last token of a sequence is one that f gives.
Drawn(f, toks) == At(f, Last(toks).tok) > 0

SampledInit == Init /\ (odds # Open => Drawn(odds.p, output))
SampledDecode == Decode /\ (odds # Open /\ phase' = "print" => Drawn(odds.p, final'))
Propose == Draft /\ (odds # Open /\ drafts' # drafts => Last(drafts') = Argmax)
AcceptDraft == Accept /\ (odds # Open => AcceptWeight(drafts[accepted + 1]) > 0)
Resample == Reject /\ (odds # Open => /\ LET x == drafts[accepted + 1] IN AcceptWeight(x) < odds.q[x]
                                      /\ Drawn(Redrawn, final'))
SampleBonus == Bonus /\ (odds # Open => Drawn(odds.p, final'))

SampledNext == \/ EndLoop \/ SampledDecode
               \/ BeginDraft \/ BeginEagle \/ Propose \/ Verify
               \/ AcceptDraft \/ Resample \/ SampleBonus \/ Rollback
               \/ Emit

SampledSpec == SampledInit /\ [][SampledNext]_vars

---------------------------------------------------------------------------
(* Properties *)

\* The probability that t is produced when x was proposed, times q[x] * Whole.
Whole == SumFunction(Redrawn)
Mass(x, t) == (IF t = x THEN AcceptWeight(x) * Whole ELSE 0)
                  + (odds.q[x] - AcceptWeight(x)) * At(Redrawn, t)

\* Summed over what q may propose, a token is produced with the probability that
\* the target gives it.
ExactIfSampled ==
    \A t \in DOMAIN odds.p :
        MapThenSumSet(LAMBDA x : Mass(x, t), DOMAIN odds.q) = odds.p[t] * Whole

\* No token is printed that the target would never give.
PossibleOnly ==
    \A i \in Len(Prompt) + 1 .. Len(output) : At(odds.p, output[i].tok) > 0

\* Accepting and redrawing are exact for a proposal that is drawn from q, whatever
\* the head's vocabulary, and for two models if the draft knows all of the target's
\* tokens; and whatever was proposed, accepted and drawn again, step after step, the
\* target could have given it.
TargetsTokens ==
    odds # Open => /\ phase = "judge" /\ DOMAIN odds.p = Judged => ExactIfSampled
                   /\ PossibleOnly

\* "The output distribution is mathematically identical to target-only generation
\* (lossless)" (speculative.rs, eagle3_speculative.rs).  Violated: what is proposed
\* is not drawn from q, it is always the draft's most likely token.
Lossless ==
    odds # Open /\ phase = "judge" /\ accepted < setup.draft_k =>
        LET x == drafts[accepted + 1]
        IN \A t \in DOMAIN odds.p : Mass(x, t) * Certain = odds.p[t] * odds.q[x] * Whole
=============================================================================
