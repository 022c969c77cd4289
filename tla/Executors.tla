------------------------------- MODULE Executors -------------------------------
(***************************************************************************)
(* What one external request comes back as: the single HTTP request of the *)
(* credential child (orchestration/gateway_transport.py), the provider's   *)
(* classification (orchestration/provider_adapters) and the result the     *)
(* executors of the worker loop build from both (swarm/evomap_executor.py, *)
(* swarm/code_executor.py). Pure: no state, one reply in, one answer out.  *)
(***************************************************************************)
EXTENDS Naturals

\* fixed_sample_patch: code_executor; bounded_json: evomap_executor.
TaskKind == {"bounded_json", "fixed_sample_patch"}

\* The classes of failure; "none" is a reply that is no provider failure.
Class == {"none", "confirmed_rejection", "unknown_effect", "budget_exhausted",
          "capability_mismatch"}

\* What the child process may see. error: what the body of an error says;
\* content: whether the completion holds a proposal that passes all checks.
Reply == [child : {"returned", "failed"}, transport : {"complete", "broken"},
          status : {0, 200, 204, 400, 429, 500},
          error : {"rejection", "budget", "capability"},
          usage : BOOLEAN, echo : BOOLEAN, late : BOOLEAN,
          content : {"proposal", "invalid"}]

\* interpret(): server errors prove nothing about the effect; a client error is
\* a rejection unless its body names money or a missing capability.
Classification(r) ==
    CASE r.status = 0 \/ r.status >= 500 -> "unknown_effect"
      [] r.status = 429 -> "confirmed_rejection"
      [] r.status >= 400 /\ r.status < 500 ->
             (CASE r.error = "budget" -> "budget_exhausted"
                [] r.error = "capability" -> "capability_mismatch"
                [] OTHER -> "confirmed_rejection")
      [] r.status = 200 -> "none"
      [] OTHER -> "unknown_effect"

\* ExecutionResult, as far as the worker loop tells results apart: uncertain,
\* whether usage is reported, whether there is a candidate, and whether the
\* fixed-model protocol saw an HTTP error.
Answer == [class : Class, uncertain : BOOLEAN, metered : BOOLEAN,
           candidate : BOOLEAN, httpError : BOOLEAN]

Uncertain(kind, class, status) ==
    [class |-> class, uncertain |-> TRUE, metered |-> FALSE, candidate |-> FALSE,
     httpError |-> kind = "fixed_sample_patch" /\ status >= 400]

\* _request(), _send() and execute(): the earliest trouble decides.
AnswerTo(kind, r) ==
    IF r.child = "failed" THEN Uncertain(kind, "none", 0)
    ELSE IF r.transport = "broken" THEN Uncertain(kind, "unknown_effect", r.status)
    ELSE IF r.echo THEN Uncertain(kind, Classification(r), r.status)
    ELSE [class |-> Classification(r),
          uncertain |-> ~r.usage \/ (r.status = 200 /\ r.late),
          metered |-> r.usage,
          candidate |-> r.status = 200 /\ r.usage /\ ~r.late /\ r.content = "proposal",
          httpError |-> kind = "fixed_sample_patch" /\ r.status >= 400]

\* A reply without a status comes only from a broken transport.
Answers == [kind \in TaskKind |->
    {AnswerTo(kind, r) : r \in {s \in Reply : s.status = 0 => s.transport = "broken"}}]

\* decide(): what the chain of candidates does after a classified failure.
Decision(class, later) ==
    CASE class = "confirmed_rejection" -> IF later THEN "switch" ELSE "reject"
      [] class \in {"unknown_effect", "budget_exhausted"} -> "stop"
      [] OTHER -> "reject"
=============================================================================
