--------------------------------- MODULE Pages ---------------------------------
(***************************************************************************)
(* Who may list and who may open a problem, a blog post and a ticket       *)
(* (problems/services/problem_service.py, problems/models/problem.py,      *)
(* content/services/post_service.py, tickets/services/ticket_service.py    *)
(* and their routers), as editors change them and users become members of  *)
(* the organization.  Lists are database queries, pages ask the object.    *)
(***************************************************************************)
EXTENDS Integers

CONSTANTS
  Readers, Guest,               \* Guest \in Readers is not authenticated
  PageStaff, Author, Testers,   \* Author of problem, ticket and, as staff then, of the post
  Nothing                       \* no post, no ticket, nobody

\* What a request may have to write after the row of a post.
Remainders == [only : BOOLEAN, ours : BOOLEAN, next : {"fields", "organizations"}]

ASSUME PagesAssumption ==
  /\ Guest \notin PageStaff \cup Testers \cup {Author}
  /\ Nothing \notin Remainders

VARIABLES
  insiders,                 \* members of the organization (Organizations)
  problem,                  \* visibility; only for its organization
  post,                     \* visibility; publish_date set; only for its organizations; in ours
  posting,                  \* what the request that saves the post has yet to write
  wish,                     \* the post is still as private as its creator asked (for the properties)
  ticket                    \* public; status; linked to the problem; assignee; last writer

problemVars == <<insiders, problem>>
postVars == <<post, posting, wish>>
pageVars == <<insiders, problem, post, posting, wish, ticket>>

Visibilities == {"private", "unlisted", "public", "contest_only"}
Published == {"draft", "published", "archived"}

PInit ==
  /\ insiders = {}
  /\ problem \in {Nothing, [visibility |-> "private", only |-> TRUE]}
  /\ post = Nothing /\ posting = Nothing /\ wish = FALSE
  /\ ticket = Nothing

\* A user becomes a member (Organizations!Admit).
Admitted(u) ==
  /\ u \notin insiders \cup {Guest}
  /\ insiders' = insiders \cup {u}
  /\ UNCHANGED <<problem, postVars, ticket>>

-----------------------------------------------------------------------------
(* Problems: get_visible_problems for the list, is_accessible_by for the   *)
(* page, can_edit_problem for a change.  Any user may create one; only the *)
(* admin site makes one private to organizations.                          *)

Helpers == {Author} \cup Testers
Editors == PageStaff \cup {Author}

CreateProblem ==
  /\ problem = Nothing
  /\ \E v \in Visibilities : problem' = [visibility |-> v, only |-> FALSE]
  /\ UNCHANGED <<insiders, postVars, ticket>>

Open == problem.visibility \in {"public", "unlisted"}

ListsProblem(u) ==
  /\ problem # Nothing
  /\ IF u = Guest THEN Open /\ ~problem.only
     ELSE u \in PageStaff \cup Helpers \/ (Open /\ (problem.only => u \in insiders))

OpensProblem(u) ==
  /\ problem # Nothing
  /\ IF Open THEN problem.only => u # Guest /\ (u \in PageStaff \/ u \in Helpers \/ u \in insiders)
     ELSE u # Guest /\ (u \in PageStaff \/ u \in Helpers)

PatchProblem(u) ==
  /\ problem # Nothing /\ u \in Editors
  /\ \E v \in Visibilities : problem' = [problem EXCEPT !.visibility = v]
  /\ UNCHANGED <<insiders, postVars, ticket>>

-----------------------------------------------------------------------------
(* Posts: the list and the page use one query, the list for published      *)
(* posts only.                                                             *)

SeesPost(u) ==
  /\ post # Nothing
  /\ \/ u \in PageStaff
     \/ /\ post.visibility = "published" /\ post.stamped
        /\ post.only => u # Guest /\ post.ours /\ u \in insiders

ListsPost(u) == SeesPost(u) /\ post.visibility = "published"

\* Mutant: a post created as published gets its date with the row.
CreatePostDated ==
  /\ post = Nothing
  /\ \E v \in Published, only, ours \in BOOLEAN :
       /\ post' = [visibility |-> v, stamped |-> v = "published", only |-> FALSE, ours |-> FALSE]
       /\ posting' = [only |-> only, ours |-> ours, next |-> "fields"]
       /\ wish' = only
  /\ UNCHANGED <<problemVars, ticket>>

\* create_post inserts the row; the router then saves the privacy flag and the
\* organizations, each on its own.
CreatePost ==
  /\ post = Nothing
  /\ \E v \in Published, only, ours \in BOOLEAN :
       /\ post' = [visibility |-> v, stamped |-> FALSE, only |-> FALSE, ours |-> FALSE]
       /\ posting' = [only |-> only, ours |-> ours, next |-> "fields"]
       /\ wish' = only
  /\ UNCHANGED <<problemVars, ticket>>

MayEdit(u) == post # Nothing /\ u \in Editors

\* A PATCH names some of the fields; the organizations are set after the save.
PatchPost(u) ==
  /\ MayEdit(u)
  /\ \E v \in Published, only, ours \in BOOLEAN :
       /\ post' = [post EXCEPT !.visibility = v, !.only = only]
       /\ wish' = (wish /\ (only \/ ~post.only))
       /\ \/ posting' = posting
          \/ posting = Nothing /\ posting' = [only |-> only, ours |-> ours, next |-> "organizations"]
  /\ UNCHANGED <<problemVars, ticket>>

WriteFields ==
  /\ posting # Nothing /\ posting.next = "fields"
  /\ post' = [post EXCEPT !.only = posting.only]
  /\ posting' = IF posting.ours THEN [posting EXCEPT !.next = "organizations"] ELSE Nothing
  /\ UNCHANGED <<problemVars, wish, ticket>>

WriteOrganizations ==
  /\ posting # Nothing /\ posting.next = "organizations"
  /\ post' = [post EXCEPT !.ours = posting.ours]
  /\ posting' = Nothing
  /\ UNCHANGED <<problemVars, wish, ticket>>

\* publish_post, which nothing keeps from a post that is not complete.
PublishPost(u) ==
  /\ MayEdit(u)
  /\ post' = [post EXCEPT !.visibility = "published", !.stamped = TRUE]
  /\ wish' = (wish /\ (posting # Nothing => posting.next # "fields"))
  /\ UNCHANGED <<problemVars, posting, ticket>>

\* The process that saves the post ends.
CutPost ==
  /\ posting # Nothing
  /\ posting' = Nothing
  /\ wish' = (wish /\ posting.next # "fields")
  /\ UNCHANGED <<problemVars, post, ticket>>

-----------------------------------------------------------------------------
(* Tickets: get_user_tickets for the list, _can_access_ticket for the page *)
(* and for a message.                                                      *)

ListsTicket(u) ==
  /\ ticket # Nothing
  /\ u \in PageStaff \/ (IF u = Guest THEN ticket.public ELSE ticket.public \/ u = Author)

OpensTicket(u) == ticket # Nothing /\ (u \in PageStaff \/ ticket.public \/ (u # Guest /\ u = Author))

\* A ticket may only be linked to a problem its author can open.
CreateTicket ==
  /\ ticket = Nothing
  /\ \E public, link \in BOOLEAN :
       /\ link => OpensProblem(Author)
       /\ ticket' = [public |-> public, status |-> "open", link |-> link,
                     assignee |-> Nothing, writer |-> Nothing]
  /\ UNCHANGED <<problemVars, postVars>>

\* PATCH, close and reopen; a link in a PATCH is checked and then left out,
\* since linked_problem_id is not one of the fields update_ticket saves.
UpdateTicket(u) ==
  /\ ticket # Nothing /\ u \in Editors
  /\ \E public \in BOOLEAN, status \in {"open", "closed"} :
       ticket' = [ticket EXCEPT !.public = public, !.status = status]
  /\ UNCHANGED <<problemVars, postVars>>

\* Staff assign it to any user, whether or not that user can open it.
AssignTicket(u) ==
  /\ ticket # Nothing /\ u # Guest
  /\ ticket' = [ticket EXCEPT !.assignee = u]
  /\ UNCHANGED <<problemVars, postVars>>

AddMessage(u) ==
  /\ u # Guest /\ OpensTicket(u)
  /\ ticket' = [ticket EXCEPT !.writer = u]
  /\ UNCHANGED <<problemVars, postVars>>

-----------------------------------------------------------------------------

PostNext ==
  \/ \E u \in Readers : Admitted(u) \/ PatchPost(u) \/ PublishPost(u)
  \/ CreatePost \/ WriteFields \/ WriteOrganizations \/ CutPost

TicketNext ==
  \/ \E u \in Readers : Admitted(u) \/ PatchProblem(u) \/ UpdateTicket(u) \/ AssignTicket(u)
                         \/ AddMessage(u)
  \/ CreateProblem \/ CreateTicket

PNext == PostNext \/ TicketNext
PSpec == PInit /\ [][PNext]_pageVars

-----------------------------------------------------------------------------
(* Properties *)

\* Each rule of visibility is written twice, as a query and on the object, and
\* the two agree for everybody: what a list shows can be opened, and what can be
\* opened is listed (of the posts, the published ones).  Who may change a problem
\* or a ticket, which is checked on its own, may open it too.
ListsAgree ==
  \A u \in Readers :
    /\ ListsProblem(u) <=> OpensProblem(u)
    /\ ListsTicket(u) <=> OpensTicket(u)
    /\ ListsPost(u) <=> SeesPost(u) /\ post.visibility = "published"
    /\ u \in Editors => (problem # Nothing => OpensProblem(u)) /\ (ticket # Nothing => OpensTicket(u))

\* A post its creator wants for the organization alone is at no time open to
\* others, although its row is there before its privacy is: as long as no PATCH
\* makes it public and it is not published before it is complete.
NoPreview ==
  wish => \A u \in Readers \ (insiders \cup PageStaff) : ~SeesPost(u)

=============================================================================
