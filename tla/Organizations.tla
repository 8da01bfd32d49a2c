----------------------------- MODULE Organizations -----------------------------
(***************************************************************************)
(* Membership of one organization (organizations/services/org_service.py,  *)
(* organizations/api/router.py): staff create it, users ask to join, and   *)
(* administrators approve or reject.  No request runs in a transaction, so *)
(* each write stands alone: other requests, and the end of the process,    *)
(* come between them.                                                      *)
(***************************************************************************)
EXTENDS Integers, Sequences

CONSTANTS
  OrgUsers, OrgStaff,  \* OrgStaff are administrators everywhere
  OrgRequests,         \* requests that can be under way together
  MaxJoins             \* bound: join requests on record

VARIABLES
  exists,              \* the organization is there
  members, admins,     \* User.organizations, Organization.admins
  joins,               \* rows of organizations_request
  writes,              \* what each request has yet to write, in order
  muddled              \* rows two reviews wrote, or one left half written (for the properties)

orgVars == <<exists, members, admins, joins, writes, muddled>>

OInit ==
  /\ exists = FALSE
  /\ members = {} /\ admins = {}
  /\ joins = << >>
  /\ writes = [t \in OrgRequests |-> << >>]
  /\ muddled = {}

Pending(u) == \E r \in DOMAIN joins : joins[r].user = u /\ joins[r].status = "pending"

-----------------------------------------------------------------------------
(* What a request checks before it writes anything.  A name that is taken  *)
(* ends a creation; members, and users who wait already, cannot ask to     *)
(* join; only a pending row, as it is read, can be approved or rejected.   *)

\* Mutant: an approval is noted first and the member added after it.
ReviewNotedFirst(r, verdict, by) ==
  IF verdict = "approved" THEN <<<<"note", r, verdict, by>>, <<"admit", r>>>> ELSE <<<<"note", r, verdict, by>>>>

Review(r, verdict, by) ==
  IF verdict = "approved" THEN <<<<"admit", r>>, <<"note", r, verdict, by>>>> ELSE <<<<"note", r, verdict, by>>>>

Plans ==
  {<<<<"create">>, <<"enter", u>>, <<"promote", u>>>> : u \in IF exists THEN {} ELSE OrgStaff}
    \cup {<<<<"ask", u>>>> : u \in IF exists THEN {u \in OrgUsers \ members : ~Pending(u)} ELSE {}}
    \cup {Review(r, v, a) : r \in {r \in DOMAIN joins : joins[r].status = "pending"},
                            v \in {"approved", "rejected"}, a \in OrgStaff \cup admins}

CheckRequest(t) ==
  /\ writes[t] = << >>
  /\ \E plan \in Plans : writes' = [writes EXCEPT ![t] = plan]
  /\ UNCHANGED <<exists, members, admins, joins, muddled>>

\* The next write of t is of that kind; once it is made, the others follow.
Writes(t, kind) == writes[t] # << >> /\ Head(writes[t])[1] = kind
Written(t) == writes' = [writes EXCEPT ![t] = Tail(@)]

-----------------------------------------------------------------------------
(* The writes.  The table refuses a second organization of a name and a    *)
(* second pending row of a user, and the request ends there.               *)

CreateOrganization(t) ==
  /\ Writes(t, "create")
  /\ exists' = TRUE
  /\ IF exists THEN writes' = [writes EXCEPT ![t] = << >>] ELSE Written(t)
  /\ UNCHANGED <<members, admins, joins, muddled>>

Enter(t) ==
  /\ Writes(t, "enter")
  /\ members' = members \cup {Head(writes[t])[2]}
  /\ Written(t)
  /\ UNCHANGED <<exists, admins, joins, muddled>>

Promote(t) ==
  /\ Writes(t, "promote")
  /\ admins' = admins \cup {Head(writes[t])[2]}
  /\ Written(t)
  /\ UNCHANGED <<exists, members, joins, muddled>>

RequestMembership(t) ==
  /\ Writes(t, "ask") /\ Len(joins) < MaxJoins
  /\ LET u == Head(writes[t])[2] IN
     joins' = IF Pending(u) THEN joins ELSE Append(joins, [user |-> u, status |-> "pending", by |-> u])
  /\ Written(t)
  /\ UNCHANGED <<exists, members, admins, muddled>>

Admit(t) ==
  /\ Writes(t, "admit")
  /\ members' = members \cup {joins[Head(writes[t])[2]].user}
  /\ Written(t)
  /\ UNCHANGED <<exists, admins, joins, muddled>>

Note(t) ==
  /\ Writes(t, "note")
  /\ LET r == Head(writes[t])[2] IN
     /\ muddled' = IF joins[r].status = "pending" THEN muddled ELSE muddled \cup {r}
     /\ joins' = [joins EXCEPT ![r].status = Head(writes[t])[3], ![r].by = Head(writes[t])[4]]
  /\ Written(t)
  /\ UNCHANGED <<exists, members, admins>>

\* Request t has added the member of row r and has yet to say so in it.
Approving(t, r) ==
  Writes(t, "note") /\ Head(writes[t])[2] = r /\ Head(writes[t])[3] = "approved"

\* The process ends between two writes.
Cut(t) ==
  /\ writes[t] # << >>
  /\ muddled' = muddled \cup {r \in DOMAIN joins : Approving(t, r)}
  /\ writes' = [writes EXCEPT ![t] = << >>]
  /\ UNCHANGED <<exists, members, admins, joins>>

ONext == \E t \in OrgRequests :
  \/ CheckRequest(t)
  \/ CreateOrganization(t) \/ Enter(t) \/ Promote(t)
  \/ RequestMembership(t) \/ Admit(t) \/ Note(t)
  \/ Cut(t)

OSpec == OInit /\ [][ONext]_orgVars

-----------------------------------------------------------------------------
(* Properties *)

\* Whom the organization admits is on record, however requests overlap and
\* whichever write is the last of a process: a user waits at most once, an
\* approved user is a member, and a member who is no administrator was approved,
\* is about to be noted so, or is one of those two reviews disagreed on.
Membership ==
  /\ \A r, s \in DOMAIN joins :
       joins[r].user = joins[s].user /\ joins[r].status = "pending" /\ joins[s].status = "pending" => r = s
  /\ \A r \in DOMAIN joins : joins[r].status = "approved" => joins[r].user \in members
  /\ \A u \in members \ OrgStaff : \E r \in DOMAIN joins :
       /\ joins[r].user = u
       /\ joins[r].status = "approved" \/ r \in muddled \/ \E t \in OrgRequests : Approving(t, r)

=============================================================================
