----------------------------- MODULE MCWorkflow -----------------------------
EXTENDS Workflow

\* An agent drafts, a gate reads its attempt, the user sends it back once,
\* and then the change is opened and its merge awaited.
MCSteps == {"draft", "check", "review", "open", "merged"}
MCKind  == [draft |-> "agent", check |-> "gate", review |-> "human",
            open |-> "git-op", merged |-> "watch"]

Edge(from, on, to) == [from |-> from, on |-> on, to |-> to, rounds |-> 0, else |-> "failed"]
MCEdges == {
    Edge("draft", "success", "check"),   Edge("draft", "failure", "failed"),
    Edge("check", "pass", "review"),     Edge("check", "fail", "failed"),
    [from |-> "review", on |-> "revise", to |-> "draft", rounds |-> 1, else |-> "open"],
    Edge("review", "cancel", "cancelled"),
    Edge("open", "success", "merged"),   Edge("open", "failure", "failed"),
    Edge("merged", "pass", "completed"), Edge("merged", "fail", "failed") }
MCSource    == [s \in MCSteps |-> "draft"]
MCPredicate == [s \in MCSteps |-> "attempt.completed"]
MCVerdicts  == [s \in MCSteps |-> {}]
=============================================================================
