------------------------------- MODULE MCMcp -------------------------------
EXTENDS Mcp

Other_(kind) == [kind |-> kind, method |-> "none", request |-> FALSE, tool |-> "none", bad |-> FALSE,
                 overwrite |-> FALSE, signal |-> FALSE, run |-> 1]
Req(method) == [Other_("call") EXCEPT !.method = method, !.request = TRUE]
Call(tool, r) == [Req("tools/call") EXCEPT !.tool = tool, !.run = r]
\* A line of each kind that the server tells apart, and a call of each tool.
Lines == {Other_("oversized"), Req("other"),
    [Req("notifications/cancelled") EXCEPT !.request = FALSE],
    [Call("run_workbook", 1) EXCEPT !.request = FALSE], [Call("run_workbook", 1) EXCEPT !.bad = TRUE],
    Call("list_pending", 1), Call("inspect_workbook", 1), Call("validate_workbook", 1),
    Call("author_workbook", 1)}
    \union {Call(tool, r) : tool \in {"run_workbook", "get_run_events"}, r \in {1}}
    \union {[Call("resume_workbook", 1) EXCEPT !.signal = TRUE]}
=============================================================================
