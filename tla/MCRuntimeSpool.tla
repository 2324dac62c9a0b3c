--------------------------- MODULE MCRuntimeSpool ---------------------------
(* Instances of RuntimeSpool for TLC. *)
EXTENDS RuntimeSpool, TLC

CONSTANTS s1, m1, m2, w1, w2, u1, u2

Seen(id, agent, obs, model, workspace, tool, mcp) ==
    [id |-> id, agent |-> agent, obs |-> obs, model |-> model, workspace |-> workspace,
     tool |-> tool, mcp |-> mcp]

\* One session that begins, uses a tool without naming a model, and ends.
OneSession ==
    {Seen(1, s1, 1, m1, w1, 0, 0), Seen(2, s1, 2, None, None, 1, 1), Seen(3, s1, 3, m2, None, 0, 0)}
Uploaders == Permutations(Uploader)

=============================================================================
