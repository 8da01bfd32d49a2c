------------------------------ MODULE MCRequests -------------------------------
(* WebRequests on small sets: two requests at a time in every part. *)
EXTENDS WebRequests, TLC

CONSTANTS
  outsider, holder, boss,             \* users of the contest
  u1, s1, m1, v1, p1, p2, l1, l2,     \* the desk
  t1, t2                              \* requests

MCTasks == {t1, t2}

\* A private contest with a code, or the contest of an organization: an outsider to
\* the first, a user who has its code, an organizer.
Row(vis, code) == [start |-> 0, end |-> 2, vis |-> vis, code |-> code, shown |-> TRUE]
MCRows == {Row("private", TRUE), Row("organization", FALSE)}
MCEdits == {[start |-> 1], [end |-> 1]}
MCWants == {<<outsider, "join">>, <<holder, "join">>, <<holder, "virtual">>,
            <<holder, "submit">>, <<boss, "edit">>}

\* A user who submits in a contest, a member of the staff, a maintainer and a
\* visitor, with one row of each mode allowed in a window.
MCMaintainers == {<<m1, p1>>}
MCAccessible == {<<u1, p2>>}
MCContending == {<<u1, p1>>}
MCLanguagesOf == (p1 :> {}) @@ (p2 :> {l2})
MCRowLimit == [submit |-> 1, run |-> 1]

\* Two connections of one judge, one of a judge that has not the runtime.
MCNameOf == [c \in Connections |-> IF c = "c3" THEN "k" ELSE "j"]

Symmetry == Permutations(MCTasks)

=============================================================================
