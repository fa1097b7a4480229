-------------------------------- MODULE AIRunner --------------------------------
(***************************************************************************)
(* StructuredAIRunner.run (services/ai/client.py): one structured output   *)
(* from an unreliable language model.  A first generation and, when its    *)
(* text does not conform to the schema, one repair; each of the two may be *)
(* repeated once, when the provider was unavailable.                       *)
(*                                                                         *)
(* A reply is what generate_raw makes of the provider's answer:            *)
(*   valid, invalid   text that conforms to the schema, or does not        *)
(*   empty            no text; raised as AIInvalidOutputError at once      *)
(*   unavailable      5xx, transport failure or timeout                    *)
(*   rate_limited     429                                                  *)
(*   rejected         any other 4xx                                        *)
(***************************************************************************)
EXTENDS Naturals, Sequences, FiniteSets

CONSTANTS Callers,          \* tasks that run the model
          KeyConfigured     \* whether OPENAI_API_KEY is set

ASSUME RunnerAssumption == KeyConfigured \in BOOLEAN

VARIABLE run    \* Callers -> the point its run has reached, the replies so far

Replies == {"valid", "invalid", "empty", "unavailable", "rate_limited", "rejected"}

\* Points at which a provider call is awaited.
Generating == {"generating", "generating again"}
Repairing == {"repairing", "repairing again"}

\* What a finished run returned or raised.
Outcomes == {"Output", "AIConfigurationError", "AIProviderUnavailableError",
             "AIRateLimitedError", "AIInvalidOutputError"}

NoRun == [at |-> "none", replies |-> <<>>]

RunnerInit == run = [c \in Callers |-> NoRun]

Running(c) == run[c].at \in Generating \union Repairing

StartRun(c) ==
    run' = [run EXCEPT ![c] =
               [at |-> IF KeyConfigured THEN "generating" ELSE "AIConfigurationError",
                replies |-> <<>>]]

\* After a provider that was unavailable: at most one more call of the kind.
AfterUnavailable(at) ==
    CASE at = "generating" -> "generating again"
      [] at = "repairing" -> "repairing again"
      [] OTHER -> "AIProviderUnavailableError"

\* Mutated form: a rate-limited provider is asked again.
NextPointRetryingLimits(at, reply) ==
    CASE reply \in {"unavailable", "rate_limited"} -> AfterUnavailable(at)
      [] reply = "rejected" -> "AIConfigurationError"
      [] reply = "empty" -> "AIInvalidOutputError"
      [] reply = "invalid" -> IF at \in Generating THEN "repairing" ELSE "AIInvalidOutputError"
      [] OTHER -> "Output"

\* What a reply leads to at a point.
NextPoint(at, reply) ==
    CASE reply = "unavailable" -> AfterUnavailable(at)
      [] reply = "rate_limited" -> "AIRateLimitedError"
      [] reply = "rejected" -> "AIConfigurationError"
      [] reply = "empty" -> "AIInvalidOutputError"
      [] reply = "invalid" -> IF at \in Generating THEN "repairing" ELSE "AIInvalidOutputError"
      [] OTHER -> "Output"

\* The replies are remembered while the run goes on.
Reply(c, reply) ==
    /\ Running(c)
    /\ LET next == NextPoint(run[c].at, reply)
       IN  run' = [run EXCEPT ![c] =
                      [at |-> next,
                       replies |-> IF next \in Outcomes THEN <<>> ELSE Append(@.replies, reply)]]

\* Mutated form: a result is kept for the caller's next request.
DropRunForgotten(c) == UNCHANGED run

\* The caller is cancelled or has used the result.
DropRun(c) == run' = [run EXCEPT ![c] = NoRun]

RunnerNext == \E c \in Callers : \/ ~Running(c) /\ StartRun(c)
                                 \/ \E reply \in Replies : Reply(c, reply)
                                 \/ DropRun(c)

RunnerSpec == RunnerInit /\ [][RunnerNext]_run

-----------------------------------------------------------------------------
Points == {"none"} \union Generating \union Repairing \union Outcomes

RunnerTypeOK == run \in [Callers -> [at : Points, replies : Seq(Replies)]]

Count(replies, reply) == Cardinality({i \in DOMAIN replies : replies[i] = reply})

\* "Structurally impossible to retry forever": the call that is awaited is at
\* most the fourth; every call before it failed for a reason that justifies
\* another (provider unavailable, text that does not conform), at most one of
\* them was repaired, and the generation and the repair were each repeated at
\* most once.
CallsJustified ==
    \A c \in Callers : Running(c) =>
        LET replies == run[c].replies
        IN  /\ Len(replies) <= 3
            /\ \A i \in DOMAIN replies : replies[i] \in {"unavailable", "invalid"}
            /\ Count(replies, "invalid") = IF run[c].at \in Repairing THEN 1 ELSE 0
            /\ Count(replies, "unavailable") <= Count(replies, "invalid") + 1
=================================================================================
