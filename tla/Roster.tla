------------------------------- MODULE Roster -------------------------------
(***************************************************************************)
(* Teams, their members, and the members' Play Hub and Discord identities  *)
(* (lorcana/teams, lorcana/identity): operators run team-bootstrap with a  *)
(* file, or link a Discord account, and gateways look members up.          *)
(*                                                                         *)
(* A bootstrap is one READ COMMITTED transaction of several statements per *)
(* listed player; each statement is a step, sees what is committed and     *)
(* what its own transaction wrote, and waits for rows that another         *)
(* transaction has written.  Any step may fail: the database, the process, *)
(* or PostgreSQL breaking a deadlock.  Display names go the way of roles   *)
(* and are left out, as is what nobody ever writes: inactive teams and     *)
(* members, memberships that ended.                                        *)
(***************************************************************************)
EXTENDS Naturals, Sequences

CONSTANTS
    Slugs,          \* teams
    Players,        \* Play Hub player ids
    Roles,
    Admins,         \* operators' processes
    Accounts,       \* Discord user ids
    Lists,          \* the members' lists of the operators' files
    MaxStarted,     \* bound on the bootstraps that are started
    MaxMembers,     \* bound on the member ids ever drawn
    MaxLinked       \* bound on the Discord links that are made

ASSUME RosterAssumption ==
    /\ Players \subseteq Nat \ {0}
    /\ Lists \subseteq Seq([player : Players, role : Roles])
    /\ {MaxMembers, MaxLinked, MaxStarted} \subseteq Nat

VARIABLES
    teams,          \* rows of teams, by slug
    links,          \* member_playhub_links: the member of each player
    roles,          \* active rows of team_memberships, by slug
    discord,        \* discord_accounts: the member of each account
    drawn,          \* member ids drawn so far
    admin,          \* the bootstrap each operator runs
    installed,      \* the file that was last installed for each slug
    claimed,        \* the player each account was last linked for, and how often
    started         \* how many bootstraps were started

rosterVars == <<teams, links, roles, discord, drawn, admin, installed, claimed, started>>

Nobody == 0
Members == 1..MaxMembers
NoLinks == [p \in Players |-> Nobody]
NoRoles == [m \in {} |-> "none"]

\* load_team_bootstrap refuses a file without members, or with one twice.
Loads(list) ==
    /\ list # <<>>
    /\ \A i, j \in DOMAIN list : list[i].player = list[j].player => i = j

NoTask == [pc |-> "idle", slug |-> CHOOSE s \in Slugs : TRUE, list |-> <<>>, n |-> 0,
           member |-> Nobody, links |-> NoLinks, roles |-> NoRoles]
RosterPC == {"idle", "team", "find", "create", "check", "link", "name", "join", "commit"}

RosterTypeOK ==
    /\ teams \subseteq Slugs
    /\ links \in [Players -> 0..drawn]
    /\ \A s \in Slugs : DOMAIN roles[s] \subseteq 1..drawn /\ (roles[s] # NoRoles => s \in teams)
    /\ discord \in [Accounts -> 0..drawn]
    /\ \A a \in Admins : admin[a].pc \in RosterPC /\ admin[a].member \in 0..drawn

RosterInit ==
    /\ teams = {} /\ links = NoLinks /\ drawn = 0
    /\ roles = [s \in Slugs |-> NoRoles]
    /\ discord = [u \in Accounts |-> Nobody]
    /\ admin = [a \in Admins |-> NoTask]
    /\ installed = [s \in Slugs |-> <<>>]
    /\ started = 0
    /\ claimed = [player |-> [u \in Accounts |-> Nobody], times |-> 0]

-----------------------------------------------------------------------------
(* The bootstrap of one team.                                              *)

\* The transaction of a holds the row of its team from its first statement on.
Holding(a) == admin[a].pc \notin {"idle", "team"}

LinkSeen(a, p) == IF admin[a].links[p] # Nobody THEN admin[a].links[p] ELSE links[p]
Player(a) == admin[a].list[admin[a].n].player

\* The transaction is still open, with these changes of its local data.
Continues(a, task) ==
    /\ admin' = [admin EXCEPT ![a] = task]
    /\ UNCHANGED <<teams, links, roles, discord, installed, claimed>>

\* An error, or the end of the process: nothing of it is seen by others.
Fails(a) == Continues(a, NoTask) /\ UNCHANGED <<drawn, started>>

Begin(a, s, list) ==
    /\ admin[a].pc = "idle" /\ started < MaxStarted /\ Loads(list)
    /\ started' = started + 1
    /\ Continues(a, [NoTask EXCEPT !.pc = "team", !.slug = s, !.list = list])
    /\ UNCHANGED drawn

\* upsert_team: inserts or updates, and in either case waits for, and then
\* holds, the row of the slug.
UpsertTeam(a) ==
    /\ admin[a].pc = "team"
    /\ \A b \in Admins \ {a} : ~(Holding(b) /\ admin[b].slug = admin[a].slug)
    /\ Continues(a, [admin[a] EXCEPT !.pc = "find", !.n = 1])
    /\ UNCHANGED <<drawn, started>>

\* member_id_for_playhub_player
FindMember(a) ==
    LET m == LinkSeen(a, Player(a))
    IN  /\ admin[a].pc = "find"
        /\ Continues(a, [admin[a] EXCEPT !.member = m,
                                         !.pc = IF m = Nobody THEN "create" ELSE "name"])
        /\ UNCHANGED <<drawn, started>>

\* create_member: its id is new.
CreateMember(a) ==
    /\ admin[a].pc = "create"
    /\ drawn < MaxMembers
    /\ drawn' = drawn + 1
    /\ Continues(a, [admin[a] EXCEPT !.member = drawn + 1, !.pc = "check"])
    /\ UNCHANGED started

\* link_playhub_player, which reads the link once more before it inserts it.
LinkIsFree(a) ==
    LET m == LinkSeen(a, Player(a))
    IN  /\ admin[a].pc = "check"
        /\ Continues(a, IF m # Nobody THEN NoTask ELSE [admin[a] EXCEPT !.pc = "link"])
        /\ UNCHANGED <<drawn, started>>

\* The row of the player that another transaction has inserted is waited for.
LinkIsOurs(a) == \A b \in Admins \ {a} : admin[b].links[Player(a)] = Nobody

\* Mutant: ON CONFLICT DO UPDATE, as for Discord accounts.
LinkUpsert(a) ==
    /\ admin[a].pc = "link" /\ LinkIsOurs(a)
    /\ Continues(a, [admin[a] EXCEPT !.links[Player(a)] = admin[a].member, !.pc = "join"])
    /\ UNCHANGED <<drawn, started>>
\* The INSERT of link_playhub_player; a player that is linked is an IntegrityError.
LinkInsert(a) ==
    /\ admin[a].pc = "link" /\ LinkIsOurs(a)
    /\ Continues(a, IF LinkSeen(a, Player(a)) # Nobody THEN NoTask
                    ELSE [admin[a] EXCEPT !.links[Player(a)] = admin[a].member, !.pc = "join"])
    /\ UNCHANGED <<drawn, started>>

\* update_member_name, which waits for the member's row.
UpdateName(a) ==
    /\ admin[a].pc = "name"
    /\ \A b \in Admins \ {a} :
          admin[a].member \notin DOMAIN admin[b].roles \cup {admin[b].member}
    /\ Continues(a, [admin[a] EXCEPT !.pc = "join"])
    /\ UNCHANGED <<drawn, started>>

\* ensure_active_membership: under the team's row lock, the membership it
\* finds, or does not find, is not another transaction's to change.
Joined(task) ==
    [m \in DOMAIN task.roles \cup {task.member} |->
        IF m = task.member THEN task.list[task.n].role ELSE task.roles[m]]

EnsureMembership(a) ==
    /\ admin[a].pc = "join"
    /\ LET last == admin[a].n = Len(admin[a].list)
       IN  Continues(a, [admin[a] EXCEPT !.roles = Joined(admin[a]),
                                         !.n = IF last THEN @ ELSE @ + 1,
                                         !.pc = IF last THEN "commit" ELSE "find"])
    /\ UNCHANGED <<drawn, started>>

Commit(a) ==
    LET task == admin[a]
        s == task.slug
    IN  /\ task.pc = "commit"
        /\ teams' = teams \cup {s}
        /\ links' = [p \in Players |-> LinkSeen(a, p)]
        /\ roles' = [roles EXCEPT ![s] =
              [m \in DOMAIN task.roles \cup DOMAIN @ |->
                  IF m \in DOMAIN task.roles THEN task.roles[m] ELSE @[m]]]
        /\ installed' = [installed EXCEPT ![s] = task.list]
        /\ admin' = [admin EXCEPT ![a] = NoTask]
        /\ UNCHANGED <<discord, drawn, claimed, started>>

-----------------------------------------------------------------------------
(* Identities.                                                             *)

\* member_for_playhub_player
MemberOf(p) == links[p]

\* link_discord_for_playhub_player: an unknown player is refused, and an
\* account that is linked already is moved to the new member.
LinkDiscord(u, p) ==
    /\ claimed.times < MaxLinked
    /\ MemberOf(p) # Nobody
    /\ discord' = [discord EXCEPT ![u] = MemberOf(p)]
    /\ claimed' = [player |-> [claimed.player EXCEPT ![u] = p], times |-> claimed.times + 1]
    /\ UNCHANGED <<teams, links, roles, drawn, admin, installed, started>>

\* member_for_discord_user
MemberOfAccount(u) == discord[u]

\* active_members
ActiveMembers(s) ==
    {[player |-> p, role |-> roles[s][links[p]]] :
        p \in {q \in Players : links[q] \in DOMAIN roles[s]}}

RosterNext ==
    \/ \E a \in Admins :
          \/ \E s \in Slugs, list \in Lists : Begin(a, s, list)
          \/ UpsertTeam(a) \/ FindMember(a) \/ CreateMember(a) \/ LinkIsFree(a)
          \/ LinkInsert(a) \/ UpdateName(a) \/ EnsureMembership(a) \/ Commit(a)
          \/ admin[a].pc # "idle" /\ Fails(a)
    \/ \E u \in Accounts, p \in Players : LinkDiscord(u, p)

-----------------------------------------------------------------------------
\* "Never silently reassign a provider identity to a different internal
\* member": whatever bootstraps of this and other teams do at the same time,
\* the team page lists every player of the file that was last installed for the
\* team, with the role it gives; and a Discord account answers with the member
\* who is still the player it was linked for.
RosterAsInstalled ==
    /\ \A s \in Slugs : \A i \in DOMAIN installed[s] : installed[s][i] \in ActiveMembers(s)
    /\ \A u \in Accounts : MemberOfAccount(u) # Nobody =>
          MemberOfAccount(u) = MemberOf(claimed.player[u])
=============================================================================
