------------------------------- MODULE Accounts -------------------------------
(***************************************************************************)
(* The access tokens and live feeds of one user: login, refresh, logout,   *)
(* password change, ban and unban.                                         *)
(*                                                                         *)
(* A request is a task of the web server, and nothing locks the user's     *)
(* row: it is read in one step, and written, or used to sign a token, in a *)
(* later one.  A feed is a WebSocket consumer: it checks its user, and     *)
(* joins the user's group later.  A session is a login and all the tokens  *)
(* refreshed from it.  The form of the admin site, which changes passwords *)
(* and bans without a new version or an announcement, is left out.         *)
(***************************************************************************)
EXTENDS Integers

CONSTANTS
  AccountTasks, Feeds,
  AccessTicks, RefreshTicks, \* lifetime of a token; age up to which a session can be refreshed
  MaxLogins, MaxChanges      \* bounds: sessions, revocations and bans and unbans begun

ASSUME AccountAssumption == AccessTicks \in Nat

Sessions == 1..MaxLogins

VARIABLES
  user,    \* the row: token_version, is_banned
  jobs,    \* task -> its request, with the copy of the row it read
  tokens,  \* the tokens that have not expired: session, version, auth_time as an
           \* age, ticks left
  logins,  \* sessions so far
  feeds,   \* feed -> "off", "checked" or "open"
  missed,  \* feeds that were between their check and their group when a disconnect was sent
  ended,   \* sessions that a finished revocation, password change or ban put an end to
  overtaken,
           \* two changes of the version overlapped
  changes  \* changes begun

avars == <<user, jobs, tokens, logins, feeds, missed, ended, overtaken, changes>>

NoJob == [stage |-> "free", change |-> "none", version |-> 0, session |-> 0, auth |-> 0]

AInit ==
  /\ user = [version |-> 0, banned |-> FALSE]
  /\ jobs = [t \in AccountTasks |-> NoJob]
  /\ tokens = {} /\ logins = 0
  /\ feeds = [f \in Feeds |-> "off"] /\ missed = {}
  /\ ended = {} /\ overtaken = FALSE /\ changes = 0

Started == 1..logins

\* What JudgeLoomAuth accepts: the version is the user's, who is not banned.
Authenticates(k) == k.version = user.version /\ ~user.banned

-----------------------------------------------------------------------------
(* Signing tokens *)

\* login: the credentials are right and the user is not banned.
Login(t) ==
  /\ jobs[t].stage = "free" /\ ~user.banned
  /\ jobs' = [jobs EXCEPT ![t] = [NoJob EXCEPT !.stage = "sign", !.version = user.version]]
  /\ UNCHANGED <<user, tokens, logins, feeds, missed, ended, overtaken, changes>>

\* refresh: of a token of this version, in a session that is young enough.
Refresh(t) == \E k \in tokens :
  /\ jobs[t].stage = "free" /\ Authenticates(k)
  /\ k.auth <= RefreshTicks
  /\ jobs' = [jobs EXCEPT ![t] = [NoJob EXCEPT !.stage = "sign", !.version = user.version,
                                               !.session = k.session,
                                               !.auth = k.auth]]
  /\ UNCHANGED <<user, tokens, logins, feeds, missed, ended, overtaken, changes>>

\* Mutant: the version is read again when the token is signed.
SignedNow(t, s) == [session |-> s, version |-> user.version, left |-> AccessTicks, auth |-> jobs[t].auth]

\* generate_jwt_token, from the copy that was read.
Signed(t, s) == [session |-> s, version |-> jobs[t].version, left |-> AccessTicks, auth |-> jobs[t].auth]

Sign(t) == \E s \in Sessions :
  /\ jobs[t].stage = "sign"
  /\ s = IF jobs[t].session = 0 THEN logins + 1 ELSE jobs[t].session
  /\ tokens' = tokens \cup {Signed(t, s)}
  /\ logins' = IF jobs[t].session = 0 THEN logins + 1 ELSE logins
  /\ jobs' = [jobs EXCEPT ![t] = NoJob]
  /\ UNCHANGED <<user, feeds, missed, ended, overtaken, changes>>

-----------------------------------------------------------------------------
(* Changes of the user *)

\* The row is read.  A logout carries a token, and so does a change of the password;
\* bans and unbans are an administrator's.
BeginChange(t) == \E change \in {"revoke", "password", "ban", "unban"} :
  /\ jobs[t].stage = "free" /\ changes < MaxChanges
  /\ change \in {"revoke", "password"} => \E k \in tokens : Authenticates(k)
  /\ jobs' = [jobs EXCEPT ![t] = [NoJob EXCEPT !.stage = "save", !.change = change, !.version = user.version]]
  /\ changes' = changes + 1
  /\ UNCHANGED <<user, tokens, logins, feeds, missed, ended, overtaken>>

\* What is saved of a copy with version v; the password itself is left out.
Revoked(row, v) == [row EXCEPT !.version = v + 1]
PasswordChanged(row, v) == [row EXCEPT !.version = v + 1]
UserBanned(row, v) == [row EXCEPT !.version = v + 1, !.banned = TRUE]
Unbanned(row, v) == [row EXCEPT !.banned = FALSE]

SaveChange(t) ==
  LET j == jobs[t]
      v == j.version
      bumps == j.change # "unban"
  IN /\ j.stage = "save"
     /\ user' = CASE j.change = "revoke" -> Revoked(user, v)
                  [] j.change = "password" -> PasswordChanged(user, v)
                  [] j.change = "ban" -> UserBanned(user, v)
                  [] j.change = "unban" -> Unbanned(user, v)
     /\ ended' = IF bumps THEN ended \cup Started ELSE ended
     /\ overtaken' = (overtaken \/ (bumps /\ user.version # v))
     /\ jobs' = [jobs EXCEPT ![t] = IF bumps THEN [j EXCEPT !.stage = "disconnect"] ELSE NoJob]
     /\ UNCHANGED <<tokens, logins, feeds, missed, changes>>

\* ... and the user's group is told to disconnect, if the channel layer can be reached.
Disconnect(t) ==
  /\ jobs[t].stage = "disconnect"
  /\ feeds' = [f \in Feeds |-> IF feeds[f] = "open" THEN "off" ELSE feeds[f]]
  /\ missed' = {f \in Feeds : feeds[f] = "checked"} \cup missed
  /\ jobs' = [jobs EXCEPT ![t] = NoJob]
  /\ UNCHANGED <<user, tokens, logins, ended, overtaken, changes>>

DisconnectFails(t) ==
  /\ jobs[t].stage = "disconnect"
  /\ missed' = {f \in Feeds : feeds[f] # "off"} \cup missed
  /\ jobs' = [jobs EXCEPT ![t] = NoJob]
  /\ UNCHANGED <<user, tokens, logins, feeds, ended, overtaken, changes>>

-----------------------------------------------------------------------------
(* Feeds and time *)

\* A web session has a user, to the backend, while the account is not banned.
SessionUser == ~user.banned

\* Mutant: the ban is not looked at.
CheckAnyFeed(f) ==
  /\ feeds[f] = "off"
  /\ feeds' = [feeds EXCEPT ![f] = "checked"] /\ missed' = missed \ {f}
  /\ UNCHANGED <<user, jobs, tokens, logins, ended, overtaken, changes>>

\* connect: the user of the web session may see the page ...
CheckFeed(f) ==
  /\ feeds[f] = "off" /\ SessionUser
  /\ feeds' = [feeds EXCEPT ![f] = "checked"] /\ missed' = missed \ {f}
  /\ UNCHANGED <<user, jobs, tokens, logins, ended, overtaken, changes>>

\* ... and joins the group of the page and that of the user.
JoinFeed(f) ==
  /\ feeds[f] = "checked"
  /\ feeds' = [feeds EXCEPT ![f] = "open"]
  /\ UNCHANGED <<user, jobs, tokens, logins, missed, ended, overtaken, changes>>

CloseFeed(f) ==
  /\ feeds[f] = "open"
  /\ feeds' = [feeds EXCEPT ![f] = "off"] /\ missed' = missed \ {f}
  /\ UNCHANGED <<user, jobs, tokens, logins, ended, overtaken, changes>>

\* Time passes, between requests that sign; a token that has no tick left is expired.
ATick ==
  /\ \A t \in AccountTasks : jobs[t].stage # "sign"
  /\ tokens # {}
  /\ tokens' = {[k EXCEPT !.left = @ - 1, !.auth = @ + 1] : k \in {k \in tokens : k.left > 1}}
  /\ UNCHANGED <<user, jobs, logins, feeds, missed, ended, overtaken, changes>>

ANext ==
  \/ \E t \in AccountTasks : Login(t) \/ Refresh(t) \/ Sign(t) \/ BeginChange(t) \/ SaveChange(t)
                      \/ Disconnect(t) \/ DisconnectFails(t)
  \/ \E f \in Feeds : CheckFeed(f) \/ JoinFeed(f) \/ CloseFeed(f)
  \/ ATick

ASpec == AInit /\ [][ANext]_avars

-----------------------------------------------------------------------------
(* Properties *)

\* A session that a revocation, a password change or a ban put an end to stays ended:
\* none of its tokens, refreshed or signed while the change was under way, works again,
\* after an unban either; unless two changes of the version overlapped, which count
\* from the same copy.
RevokedStaysRevoked == \A k \in tokens : k.session \in ended /\ Authenticates(k) => overtaken

\* While the user is banned and the ban has been announced, no feed is open that had
\* joined when it was announced, or that was checked later.
BannedIsCutOff ==
  (user.banned /\ \A t \in AccountTasks : jobs[t].stage \notin {"save", "disconnect"}) =>
    \A f \in Feeds : feeds[f] = "open" => f \in missed

=============================================================================
