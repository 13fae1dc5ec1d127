----------------------------- MODULE MCTelemetry -----------------------------
(* Instance of Telemetry for TLC: spans of every type, with names enough   *)
(* to pass a cap, clocks apart, values that make a step raise, and traces  *)
(* whose ids differ in their first digits only, or beyond the 32nd.        *)
EXTENDS Telemetry
CONSTANTS gpt, claude, planner, search, head1, head2, digits

Hex(head, more) == [head |-> head, tail |-> digits, more |-> more]
trace1 == Hex(head1, Blank)
trace2 == Hex(head2, Blank)
longer == Hex(head1, digits)

Timed(type, model, agent, trace, start, end, duration, bad) ==
    [type |-> type, model |-> model, agent |-> agent, name |-> search,
     trace |-> trace, hex |-> TRUE, start |-> start, end |-> end,
     duration |-> duration, error |-> Blank, bad |-> bad,
     profile |-> Blank, guardrail |-> Blank, intervened |-> FALSE]

Wary(agent, trace, hex, error, guardrail, intervened, bad) ==
    [type |-> "llm", model |-> gpt, agent |-> agent, name |-> Blank,
     trace |-> trace, hex |-> hex, start |-> 1, end |-> 2,
     duration |-> 1, error |-> error, bad |-> bad,
     profile |-> gpt, guardrail |-> guardrail, intervened |-> intervened]

MCSpans ==
    { Timed("llm", gpt, planner, trace1, 1, 2, 1, "none"),
      Timed("llm", claude, Blank, trace1, 2, 3, 1, "none"),
      Timed("llm", claude, planner, trace2, 3, 1, 1, "duration"),
      Timed("tool", Blank, planner, trace1, 3, 1, 1, "none"),
      Timed("tool", gpt, Blank, trace2, 3, 1, 0, "none"),
      Timed("retrieval", claude, UnknownName, longer, 2, NoTime, NoTime, "none"),
      Timed("evaluation", gpt, Blank, trace2, NoTime, NoTime, 1, "none"),
      Timed("agent", Blank, planner, Blank, 1, 3, 2, "none"),
      Wary(planner, trace2, TRUE, search, planner, TRUE, "tokens"),
      Wary(Blank, longer, TRUE, UnknownName, Blank, TRUE, "none"),
      Wary(planner, trace1, FALSE, search, planner, FALSE, "ttft") }

(* One slot where two values compete, two where three do. *)
MCCap == [d \in Dimensions |-> IF d = "agent" THEN 2 ELSE 1]
=============================================================================
