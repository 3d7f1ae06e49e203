----------------------------- MODULE MCPrompt -----------------------------
(* Scenarios for PromptLog: which tools run, and which events happen. *)
EXTENDS PromptLog

None == [e \in {"ask", "queue", "prompt", "compact", "again", "autoload", "die", "linger",
                "write", "stage", "commit", "refuse", "kill"} |-> 0]
Events(es) == [e \in DOMAIN None |-> IF e \in DOMAIN es THEN es[e] ELSE 0]
Scene(second, es) == [tool |-> [s \in Sessions |-> IF s = 1 THEN "claude" ELSE second],
                      left |-> Events(es)]

MCScenarios ==
    {Scene("claude", [ask |-> 2, die |-> 1]),
     Scene("claude", [ask |-> 1, linger |-> 1]),
     Scene("claude", [ask |-> 1, prompt |-> 1]),
     Scene("none",   [ask |-> 1, prompt |-> 2, queue |-> 2]),
     Scene("codex",  [prompt |-> 1, queue |-> 2]),
     Scene("claude", [compact |-> 1, again |-> 1, autoload |-> 1]),
     Scene("none",   [compact |-> 2, again |-> 1, autoload |-> 1]),
     Scene("claude", [ask |-> 1, autoload |-> 1, refuse |-> 1]),
     Scene("none",   [prompt |-> 1, write |-> 1, stage |-> 1, commit |-> 1]),
     Scene("codex",  [ask |-> 1, die |-> 1, kill |-> 1]),
     Scene("codex",  [prompt |-> 1, queue |-> 1, kill |-> 1])}
====
