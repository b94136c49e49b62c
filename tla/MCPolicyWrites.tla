--------------------------- MODULE MCPolicyWrites ---------------------------
EXTENDS PolicyWrites, TLC

CONSTANTS u, v

\* Against a probe an item like it scores 1, any other 0.
MCScore == [p \in Values |-> [x \in Values |-> IF p = x THEN 1 ELSE 0]]

\* v is dated in the future, which Add accepts from its caller.
MCCreated == [x \in Values |-> IF x = v THEN 5 ELSE 1]

Says(verdict, k, x) == [verdict |-> verdict, kind |-> k, item |-> x]

\* What a user saves goes to the episodic tier, without v.  The agent's writes
\* to the working tier are redacted; its v for the episodic tier is rejected and
\* its u sent to a kind no Manager knows.  The system's decisions are for the
\* adapters: u may stay, v is redacted in the working tier and sent there from
\* the episodic one.
MCPolicy == [in \in Sources \X Kinds \X Values |->
    CASE in[1] = "user"                                      -> Says("accept", "episodic", u)
      [] in[1] # "user" /\ in[2] = "working"                 -> Says("redact", "working", u)
      [] in[1] = "agent" /\ in[2] = "episodic" /\ in[3] = v  -> Says("reject", "episodic", v)
      [] in[1] = "agent" /\ in[2] = "episodic" /\ in[3] = u  -> Says("accept", "other", u)
      [] in[1] = "system" /\ in[2] = "episodic" /\ in[3] = u -> Says("accept", "episodic", u)
      [] in[1] = "system" /\ in[2] = "episodic" /\ in[3] = v -> Says("accept", "working", u)
      [] OTHER                                               -> Says("unknown", in[2], in[3])]

\* The working tier redacts, and has a second stage that keeps everything.
MCChain == [k \in Wired |->
    IF k = "working" THEN <<Adapter(k), [x \in Values |-> x]>> ELSE <<Adapter(k)>>]

MCClean == [k \in Kinds |-> {u}]

\* The probe and the victim of a call that no longer reads them do not matter,
\* and nothing reads which decisions went unheard.
View ==
    LET live(a) == [probe  |-> IF pc[a] \in {"check", "embed", "scan"} THEN probe[a] ELSE Nil,
                    victim |-> IF pc[a] = "remove" THEN victim[a] ELSE Nil]
    IN <<items, pc, [a \in Adders |-> live(a)], calls, overrun,
         write, filed, bypassed, balance>>

Symmetry == Permutations(Adders) \cup Permutations(Ids)

============================================================================
