------------------------------ MODULE WebRequests ------------------------------
(***************************************************************************)
(* The requests of the web API side by side: the participations of a       *)
(* contest, the submission desk, one user's tokens and feeds, the comments *)
(* of a post, the packages of a problem, the members of an organization,   *)
(* the pages of posts, problems and tickets, the legacy bridge and the     *)
(* rate limit.  They share no rows, so a behaviour works on one of them,   *)
(* its part, and leaves the others in their first state.                   *)
(***************************************************************************)
EXTENDS Contests, SubmissionDesk, Accounts, Community, PackageRegistry,
        Organizations, Pages, LegacyBridge, RateLimit

VARIABLE part

olderVars == <<vars, svars, avars, cvars, rvars>>
newerVars == <<orgVars, pageVars, bridgeVars, limitVars>>
requestVars == <<part, olderVars, newerVars>>

PartsInit ==
  /\ part \in {"contest", "desk", "account", "post", "registry",
               "organization", "posts", "tickets", "bridge", "limiter"}
  /\ Init /\ (part # "contest" => contest = CHOOSE row \in FirstRows : TRUE)
  /\ SInit /\ AInit /\ CInit /\ RInit /\ OInit /\ BInit /\ LInit
  /\ PInit /\ (part # "tickets" => problem = Nothing)

PartsNext ==
  \/ /\ part = "contest" /\ Next
     /\ UNCHANGED <<part, svars, avars, cvars, rvars, newerVars>>
  \/ /\ part = "desk" /\ SNext
     /\ UNCHANGED <<part, vars, avars, cvars, rvars, newerVars>>
  \/ /\ part = "account" /\ ANext
     /\ UNCHANGED <<part, vars, svars, cvars, rvars, newerVars>>
  \/ /\ part = "post" /\ CNext
     /\ UNCHANGED <<part, vars, svars, avars, rvars, newerVars>>
  \/ /\ part = "registry" /\ RNext
     /\ UNCHANGED <<part, vars, svars, avars, cvars, newerVars>>
  \/ /\ part = "organization" /\ ONext
     /\ UNCHANGED <<part, olderVars, pageVars, bridgeVars, limitVars>>
  \/ /\ part = "posts" /\ PostNext
     /\ UNCHANGED <<part, olderVars, orgVars, bridgeVars, limitVars>>
  \/ /\ part = "tickets" /\ TicketNext
     /\ UNCHANGED <<part, olderVars, orgVars, bridgeVars, limitVars>>
  \/ /\ part = "bridge" /\ BNext
     /\ UNCHANGED <<part, olderVars, orgVars, pageVars, limitVars>>
  \/ /\ part = "limiter" /\ LNext
     /\ UNCHANGED <<part, olderVars, orgVars, pageVars, bridgeVars>>

RequestsSpec == PartsInit /\ [][PartsNext]_requestVars

-----------------------------------------------------------------------------
(* Properties *)

\* The two limits on requests hold, whatever overlaps: that of the submissions API
\* up to the requests that passed its check together, and that of the middleware.
RateBounded == RowsBounded /\ WindowBounded

\* Where a rule of visibility is written more than once, the versions agree: the
\* endpoints of a submission, the lists and the pages of problems, posts and tickets.
ViewsAgree == DetailsAgree /\ ListsAgree

=============================================================================
