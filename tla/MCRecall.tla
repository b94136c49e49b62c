------------------------------ MODULE MCRecall ------------------------------
EXTENDS Recall

\* Two IDs, one of them with two contents, the other enabled or disabled.
Item(id, content, s, t, off) ==
    [id |-> id, content |-> content, scope |-> s, tags |-> t, off |-> off]

One    == Item(1, "a", "session", {"t"}, FALSE)
OneToo == Item(1, "b", "none", {}, FALSE)
Two    == Item(2, "a", "user", {}, FALSE)
TwoOff == Item(2, "a", "user", {"t"}, TRUE)

MCHits == {[item |-> One, score |-> 1], [item |-> OneToo, score |-> 2],
           [item |-> Two, score |-> 1], [item |-> Two, score |-> 2],
           [item |-> TwoOff, score |-> 2]}

\* A user, one of its sessions, and no scope, which covers all.
MCScopes == {"none", "user", "session"}
MCCovers == ({"none"} \X MCScopes) \cup ({"user"} \X {"user", "session"})
                \cup {<<"session", "session">>}

MCQueryTags == {{}, {"t"}}

============================================================================
